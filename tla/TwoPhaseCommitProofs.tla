------------------------ MODULE TwoPhaseCommitProofs ------------------------
(***************************************************************************)
(* The proofs about two-phase commit (module TwoPhaseCommit): types, the   *)
(* inductive invariant behind atomicity, and the refinement of atomic      *)
(* commitment.                                                             *)
(***************************************************************************)
EXTENDS TwoPhaseCommit, TLAPS

Phases == {PHASE_PROPOSE, PHASE_COMMIT, PHASE_ABORT}

(* The state of a node, as a record. *)
NodeState ==
  [value : Values, phase : Phases, flags : SUBSET Nodes, votes : SUBSET Nodes,
   agree : BOOLEAN, did_tx : BOOLEAN, complete : BOOLEAN,
   rx_progress : BOOLEAN, tx_count_complete : 0..(N_TX_COMPLETE + 1),
   invalid_rx_count : 0..CHAOS_RESTART_MAX, got_valid_rx : BOOLEAN,
   restart_threshold : Thresholds, state : {"TX", "RX", "OFF"}]

(* What two states have in common when only the radio has moved on. *)
SameProtocol(s, t) ==
  /\ t.value = s.value /\ t.phase = s.phase
  /\ t.flags = s.flags /\ t.votes = s.votes
  /\ t.agree = s.agree /\ t.got_valid_rx = s.got_valid_rx
  /\ t.rx_progress = s.rx_progress

(* A drawn threshold is a natural number within its limits. *)
LEMMA ThresholdBound ==
  ASSUME NEW r \in Thresholds PROVE r \in 0..CHAOS_RESTART_MAX
BY ChaosAssumption DEF ChaosAssumption, Thresholds

(* The radio after a slot without a reception. *)
LEMMA ListenEffect ==
  ASSUME NEW s \in NodeState, NEW r \in Thresholds, s.state = "RX"
  PROVE  LET t == Listen(s, N_TX_COMPLETE, r) IN
         /\ t \in NodeState
         /\ SameProtocol(s, t) /\ t.did_tx = s.did_tx
         /\ t.state \in {"TX", "RX"}
         /\ t.state = "TX" => s.got_valid_rx
<1>1. CASE RestartDue(s)
  <2>1. CountTx(s, N_TX_COMPLETE) \in 0..(N_TX_COMPLETE + 1)
    BY ChaosAssumption DEF ChaosAssumption, CountTx, NodeState
  <2>2. 0 \in 0..CHAOS_RESTART_MAX
    BY ChaosAssumption DEF ChaosAssumption
  <2> QED
    BY <1>1, <2>1, <2>2 DEF Listen, NodeState, SameProtocol, RestartDue
<1>2. CASE ~RestartDue(s)
  <2>1. s.got_valid_rx => s.invalid_rx_count + 1 \in 0..CHAOS_RESTART_MAX
    BY <1>2, ThresholdBound, ChaosAssumption
       DEF ChaosAssumption, RestartDue, NodeState, Thresholds
  <2> QED
    BY <1>2, <2>1 DEF Listen, NodeState, SameProtocol
<1> QED
  BY <1>1, <1>2

(* The radio after a transmission. *)
LEMMA TransmitEffect ==
  ASSUME NEW s \in NodeState
  PROVE  LET t == Transmit(s) IN
         /\ t \in NodeState
         /\ SameProtocol(s, t) /\ t.did_tx = s.did_tx
         /\ t.state \in {"RX", "OFF"}
         /\ t.state = "OFF" => s.rx_progress
BY DEF Transmit, Quits, NodeState, SameProtocol

(* The vote on the first valid packet. *)
LEMMA CastVoteEffect ==
  ASSUME NEW n \in Nodes, NEW s \in NodeState, NEW p \in NodeState
  PROVE  LET t == CastVote(n, s, p) IN
         /\ t \in NodeState
         /\ t.phase = s.phase /\ t.flags = s.flags /\ t.state = s.state
         /\ t.did_tx = s.did_tx /\ t.rx_progress = s.rx_progress
         /\ t.votes \subseteq s.votes \cup {n}
         /\ s.got_valid_rx => t = s
         /\ ~s.got_valid_rx =>
              (n \in t.votes <=> t.agree) /\ (t.agree <=> s.value = p.value)
BY DEF CastVote, NodeState

-----------------------------------------------------------------------------
(* What hearing packet p changes: the node stays in its phase, follows the
   packet into a later one, or is the initiator and decides. *)
StaysInPhase(s, p, t) ==
  /\ t.phase = s.phase
  /\ t.flags = IF p.phase = s.phase THEN s.flags \cup p.flags ELSE s.flags
  /\ s.rx_progress => t.rx_progress
  /\ t.rx_progress =>
       s.rx_progress \/ (/\ s.phase # PHASE_PROPOSE
                         /\ p.phase = s.phase /\ p.flags = Nodes)

Follows(n, s, p, t) ==
  /\ p.phase > s.phase /\ t.phase = p.phase
  /\ t.flags = p.flags \cup {n}
  /\ t.rx_progress = s.rx_progress

Decides(n, s, p, t) ==
  /\ n = Initiator /\ s.phase = PHASE_PROPOSE
  /\ t.phase = IF t.votes = Nodes THEN PHASE_COMMIT ELSE PHASE_ABORT
  /\ t.flags = {n}
  /\ t.rx_progress = s.rx_progress

HearMove(n, s, p, t) ==
  /\ t.got_valid_rx
  /\ s.got_valid_rx => t.agree = s.agree
  /\ \A m \in t.votes : m \in s.votes \/ m \in p.votes \/ (m = n /\ t.agree)
  /\ \/ StaysInPhase(s, p, t)
     \/ Follows(n, s, p, t)
     \/ Decides(n, s, p, t)

(* The phases are ordered as the code compares them. *)
LEMMA PhaseOrder ==
  ASSUME NEW a \in Phases
  PROVE  /\ a \in Nat
         /\ a = PHASE_PROPOSE \/ a > PHASE_PROPOSE
         /\ PHASE_PROPOSE # PHASE_COMMIT /\ PHASE_PROPOSE # PHASE_ABORT
         /\ PHASE_COMMIT # PHASE_ABORT
BY DEF Phases, PHASE_PROPOSE, PHASE_COMMIT, PHASE_ABORT

(* Merging a packet of the node's own phase. *)
LEMMA MergeEffect ==
  ASSUME NEW n \in Nodes, NEW s \in NodeState, NEW p \in NodeState,
         p.phase = s.phase
  PROVE  LET t == Merge(n, s, p).s IN
         /\ t \in NodeState
         /\ t.got_valid_rx = s.got_valid_rx /\ t.agree = s.agree
         /\ t.did_tx = s.did_tx /\ t.state = s.state
         /\ t.tx_count_complete = s.tx_count_complete
         /\ t.votes = s.votes \cup p.votes
         /\ StaysInPhase(s, p, t) \/ Decides(n, s, p, t)
<1> DEFINE merged == [s EXCEPT !.flags = @ \cup p.flags,
                               !.votes = @ \cup p.votes]
           done == [merged EXCEPT !.complete = TRUE,
                                  !.rx_progress = @ \/ p.flags = Nodes]
           decided == [merged EXCEPT !.flags = {n},
             !.phase = IF merged.votes = Nodes THEN PHASE_COMMIT ELSE PHASE_ABORT]
           t == Merge(n, s, p).s
<1>1. /\ merged \in NodeState
      /\ merged.flags = s.flags \cup p.flags
      /\ merged.votes = s.votes \cup p.votes
  BY DEF NodeState
<1>2. \/ t = merged
      \/ t = done /\ s.phase \in {PHASE_COMMIT, PHASE_ABORT}
      \/ t = decided /\ n = Initiator /\ s.phase = PHASE_PROPOSE
  BY DEF Merge, Decide
<1>3. CASE t = merged
  BY <1>1, <1>3 DEF StaysInPhase, NodeState
<1>4. CASE t = done /\ s.phase \in {PHASE_COMMIT, PHASE_ABORT}
  BY <1>1, <1>4, PhaseOrder DEF StaysInPhase, NodeState
<1>5. CASE t = decided /\ n = Initiator /\ s.phase = PHASE_PROPOSE
  <2>1. (IF merged.votes = Nodes THEN PHASE_COMMIT ELSE PHASE_ABORT) \in Phases
    BY DEF Phases
  <2>2. /\ decided \in NodeState
        /\ decided.flags = {n} /\ decided.votes = s.votes \cup p.votes
        /\ decided.got_valid_rx = s.got_valid_rx /\ decided.agree = s.agree
        /\ decided.did_tx = s.did_tx /\ decided.state = s.state
        /\ decided.tx_count_complete = s.tx_count_complete
        /\ decided.rx_progress = s.rx_progress
        /\ decided.phase =
             IF merged.votes = Nodes THEN PHASE_COMMIT ELSE PHASE_ABORT
    BY <1>1, <2>1 DEF NodeState
  <2> HIDE DEF merged, decided
  <2> QED
    BY <1>1, <1>5, <2>2 DEF Decides
<1> QED
  BY <1>2, <1>3, <1>4, <1>5

(* Catching up with a packet of a later phase. *)
LEMMA CatchUpEffect ==
  ASSUME NEW n \in Nodes, NEW s \in NodeState, NEW p \in NodeState
  PROVE  LET t == CatchUp(n, s, p) IN
         /\ t \in NodeState
         /\ t.got_valid_rx = s.got_valid_rx /\ t.agree = s.agree
         /\ t.did_tx = s.did_tx /\ t.rx_progress = s.rx_progress
         /\ t.votes = p.votes /\ t.phase = p.phase
         /\ t.flags = p.flags \cup {n}
<1>1. /\ p.value \in Values /\ p.phase \in Phases /\ p.votes \subseteq Nodes
      /\ p.flags \cup {n} \subseteq Nodes
  BY DEF NodeState
<1> QED
  BY <1>1 DEF CatchUp, NodeState

(* process() for a packet that was received. *)
LEMMA HearEffect ==
  ASSUME NEW n \in Nodes, NEW s \in NodeState, NEW p \in NodeState
  PROVE  LET t == Hear(n, s, p) IN
         /\ t \in NodeState
         /\ HearMove(n, s, p, t)
         /\ t.did_tx = s.did_tx /\ t.state \in {"TX", "RX"}
<1> DEFINE v == CastVote(n, s, p)
           voted == [v EXCEPT !.got_valid_rx = TRUE]
           w == Receive(n, s, p)
           t == Hear(n, s, p)
<1>1. /\ voted \in NodeState
      /\ voted.got_valid_rx
      /\ voted.phase = s.phase /\ voted.flags = s.flags
      /\ voted.did_tx = s.did_tx /\ voted.rx_progress = s.rx_progress
      /\ voted.votes = v.votes /\ voted.agree = v.agree
  <2>1. v \in NodeState /\ v.phase = s.phase /\ v.flags = s.flags
        /\ v.did_tx = s.did_tx /\ v.rx_progress = s.rx_progress
    BY CastVoteEffect
  <2> HIDE DEF v
  <2> QED
    BY <2>1 DEF NodeState
<1>2. /\ s.got_valid_rx => voted.agree = s.agree
      /\ \A m \in voted.votes : m \in s.votes \/ (m = n /\ voted.agree)
  BY <1>1, CastVoteEffect DEF NodeState
<1>3. /\ w.s \in NodeState /\ w.s.did_tx = s.did_tx
      /\ HearMove(n, s, p, w.s)
  <2>1. CASE p.phase = s.phase
    <3>1. w = Merge(n, voted, p)
      BY <2>1 DEF Receive
    <3>2. \A x : Decides(n, voted, p, x) => Decides(n, s, p, x)
      BY <1>1 DEF Decides
    <3>3. \A x : StaysInPhase(voted, p, x) => StaysInPhase(s, p, x)
      BY <1>1 DEF StaysInPhase
    <3>4. /\ w.s \in NodeState
          /\ w.s.got_valid_rx /\ w.s.agree = voted.agree
          /\ w.s.did_tx = s.did_tx
          /\ w.s.votes = voted.votes \cup p.votes
          /\ StaysInPhase(voted, p, w.s) \/ Decides(n, voted, p, w.s)
      <4> HIDE DEF voted
      <4> QED
        BY <1>1, <2>1, <3>1, MergeEffect
    <3> HIDE DEF voted, w
    <3> QED
      BY <1>1, <1>2, <3>2, <3>3, <3>4 DEF HearMove
  <2>2. CASE p.phase > s.phase
    <3>1. w.s = CatchUp(n, voted, p)
      BY <2>2, PhaseOrder DEF Receive, NodeState
    <3>2. /\ w.s \in NodeState
          /\ w.s.got_valid_rx /\ w.s.agree = voted.agree
          /\ w.s.did_tx = s.did_tx /\ w.s.rx_progress = s.rx_progress
          /\ w.s.votes = p.votes /\ w.s.phase = p.phase
          /\ w.s.flags = p.flags \cup {n}
      <4> HIDE DEF voted, w
      <4> QED
        BY <1>1, <3>1, CatchUpEffect
    <3> HIDE DEF voted, w
    <3> QED
      BY <1>1, <1>2, <2>2, <3>2 DEF HearMove, Follows
  <2>3. CASE p.phase < s.phase
    <3>1. w.s = voted
      BY <2>3, PhaseOrder DEF Receive, NodeState
    <3> QED
      BY <1>1, <1>2, <2>3, <3>1, PhaseOrder DEF HearMove, StaysInPhase, NodeState
  <2> QED
    BY <2>1, <2>2, <2>3, PhaseOrder DEF NodeState
<1>4. CountTx(w.s, N_TX_COMPLETE) \in 0..(N_TX_COMPLETE + 1)
  BY <1>3, ChaosAssumption DEF ChaosAssumption, CountTx, NodeState
<1>5. /\ t \in NodeState /\ t.state \in {"TX", "RX"}
      /\ SameProtocol(w.s, t) /\ t.did_tx = w.s.did_tx
  BY <1>3, <1>4 DEF Hear, NodeState, SameProtocol
<1> QED
  BY <1>3, <1>5 DEF HearMove, SameProtocol, StaysInPhase, Follows, Decides

-----------------------------------------------------------------------------
(* What one slot does to node n in state s, where fails is the set of nodes
   that failure injection stops in it: what the node knows stays as it is, or
   a packet that is being transmitted is heard. *)
NodeMove(n, s, t, fails) ==
  /\ t \in NodeState
  /\ t.did_tx <=> s.did_tx \/ (t.state = "TX" /\ s.state # "OFF")
  /\ t.state = "TX" => t.got_valid_rx
  /\ s.state = "OFF" => t.state = "OFF"
  /\ t.state = "OFF" => s.state = "OFF" \/ n \in fails \/ s.rx_progress
  /\ \/ SameProtocol(s, t)
     \/ /\ s.state = "RX"
        /\ \E k \in Nodes : node[k].state = "TX" /\ HearMove(n, s, node[k], t)

(* The end of process() touches the radio and did_tx only. *)
LEMMA FinishEffect ==
  ASSUME NEW n \in Nodes, NEW s \in NodeState, NEW fails
  PROVE  LET t == Finish(n, s, fails) IN
         /\ t \in NodeState
         /\ SameProtocol(s, t)
         /\ t.state = IF n \in fails THEN "OFF" ELSE s.state
         /\ t.did_tx <=> s.did_tx \/ t.state = "TX"
<1>1. CASE n \in fails
  BY <1>1 DEF Finish, RecordTx, Stopped, NodeState, SameProtocol
<1>2. CASE n \notin fails
  BY <1>2 DEF Finish, RecordTx, NodeState, SameProtocol
<1> QED
  BY <1>1, <1>2

(* What has been heard is not changed by the end of process(). *)
LEMMA HearMoveSame ==
  ASSUME NEW n, NEW s, NEW p, NEW t, NEW u,
         HearMove(n, s, p, t), SameProtocol(t, u)
  PROVE  HearMove(n, s, p, u)
BY DEF HearMove, SameProtocol, StaysInPhase, Follows, Decides

(* One slot of one node, by what its radio does in it. *)
LEMMA StepEffect ==
  ASSUME NEW n \in Nodes,
         \A k \in Nodes : node[k] \in NodeState,
         node[n].state = "TX" => node[n].got_valid_rx,
         NEW heard \in Receptions(node, Transmitters(node)),
         NEW threshold \in ThresholdDraws(node), NEW fails
  PROVE  NodeMove(n, node[n], Step(n, heard, threshold, fails), fails)
<1> DEFINE s == node[n]
           r == IF s.state = "TX" THEN Transmit(s)
                ELSE IF heard[n] # Silence THEN Hear(n, s, node[heard[n]])
                ELSE Listen(s, N_TX_COMPLETE, threshold[n])
           t == Step(n, heard, threshold, fails)
<1>0. s \in NodeState
  OBVIOUS
<1>1. CASE s.state = "OFF"
  BY <1>0, <1>1 DEF Step, NodeMove, SameProtocol, NodeState
<1>2. CASE s.state = "TX"
  <2>1. /\ r \in NodeState /\ SameProtocol(s, r) /\ r.did_tx = s.did_tx
        /\ r.state \in {"RX", "OFF"} /\ (r.state = "OFF" => s.rx_progress)
    BY <1>0, <1>2, TransmitEffect
  <2>2. t = Finish(n, r, fails)
    BY <1>2 DEF Step
  <2> HIDE DEF r, t
  <2>3. /\ t \in NodeState /\ SameProtocol(r, t)
        /\ t.state = (IF n \in fails THEN "OFF" ELSE r.state)
        /\ (t.did_tx <=> r.did_tx \/ t.state = "TX")
    BY <2>1, <2>2, FinishEffect
  <2>4. NodeMove(n, s, t, fails)
    BY <1>2, <2>1, <2>3 DEF NodeMove, SameProtocol
  <2> QED
    BY <2>4 DEF t
<1>3. CASE s.state = "RX" /\ heard[n] = Silence
  <2>1. RestartDue(s) => threshold[n] \in Thresholds
    BY <1>3 DEF ThresholdDraws
  <2>2. \E th \in Thresholds : r = Listen(s, N_TX_COMPLETE, th)
    <3>1. CASE RestartDue(s)
      BY <1>3, <2>1, <3>1
    <3>2. CASE ~RestartDue(s)
      <4>1. s.restart_threshold \in Thresholds
        BY <1>0 DEF NodeState
      <4> QED
        BY <1>3, <3>2, <4>1 DEF Listen
    <3> QED
      BY <3>1, <3>2
  <2>3. t = Finish(n, r, fails)
    BY <1>3 DEF Step
  <2> HIDE DEF r, t
  <2>4. /\ r \in NodeState /\ SameProtocol(s, r) /\ r.did_tx = s.did_tx
        /\ r.state \in {"TX", "RX"} /\ (r.state = "TX" => s.got_valid_rx)
    BY <1>0, <1>3, <2>2, ListenEffect
  <2>5. /\ t \in NodeState /\ SameProtocol(r, t)
        /\ t.state = (IF n \in fails THEN "OFF" ELSE r.state)
        /\ (t.did_tx <=> r.did_tx \/ t.state = "TX")
    BY <2>3, <2>4, FinishEffect
  <2>6. NodeMove(n, s, t, fails)
    BY <1>3, <2>4, <2>5 DEF NodeMove, SameProtocol
  <2> QED
    BY <2>6 DEF t
<1>4. CASE s.state = "RX" /\ heard[n] # Silence
  <2> DEFINE k == heard[n]
  <2>1. k \in Nodes /\ node[k].state = "TX"
    BY <1>4 DEF Receptions, Listeners, Transmitters
  <2>2. t = Finish(n, r, fails) /\ r = Hear(n, s, node[k])
    BY <1>4 DEF Step
  <2> HIDE DEF r, t, k
  <2>3. /\ r \in NodeState /\ HearMove(n, s, node[k], r)
        /\ r.did_tx = s.did_tx /\ r.state \in {"TX", "RX"}
    BY <1>0, <2>1, <2>2, HearEffect
  <2>4. /\ t \in NodeState /\ SameProtocol(r, t)
        /\ t.state = (IF n \in fails THEN "OFF" ELSE r.state)
        /\ (t.did_tx <=> r.did_tx \/ t.state = "TX")
    BY <2>2, <2>3, FinishEffect
  <2>5. HearMove(n, s, node[k], t)
    BY <2>3, <2>4, HearMoveSame
  <2>6. t.got_valid_rx
    BY <2>5 DEF HearMove
  <2>7. NodeMove(n, s, t, fails)
    BY <1>4, <2>1, <2>3, <2>4, <2>5, <2>6 DEF NodeMove
  <2> QED
    BY <2>7 DEF t
<1> QED
  BY <1>0, <1>1, <1>2, <1>3, <1>4 DEF NodeState

-----------------------------------------------------------------------------
(* The inductive invariant. *)

(* A node that transmits has noted it and has joined the round; one whose
   radio is off has been stopped or knows that others are complete. *)
RadioInv ==
  \A n \in Nodes :
    /\ node[n].state = "TX" => node[n].did_tx /\ node[n].got_valid_rx
    /\ node[n].state = "OFF" => n \in failed \/ node[n].rx_progress

(* The initiator agrees with itself and transmits first; nobody agrees before
   it has heard the proposal. *)
AgreeInv ==
  /\ node[Initiator].got_valid_rx /\ node[Initiator].agree
  /\ node[Initiator].did_tx \/ node[Initiator].state = "OFF"
  /\ \A n \in Nodes : node[n].agree => node[n].got_valid_rx

(* A vote that a node knows of was cast, by that node itself or by one whose
   transmission carried it. *)
VotesAreCast ==
  \A n \in Nodes : \A m \in node[n].votes :
    node[m].agree /\ (m = n \/ node[m].did_tx)

(* There is one decision, the initiator's; it is to commit only if everybody
   agrees and is bound. *)
OneDecision ==
  /\ \A n \in Nodes : node[n].phase \in {PHASE_PROPOSE, node[Initiator].phase}
  /\ node[Initiator].phase = PHASE_COMMIT =>
       \A n \in Nodes : node[n].agree /\ node[n].did_tx

(* The flags of a decision are those of nodes that have it. *)
FlagsKnow ==
  \A n \in Nodes :
    /\ node[n].phase # PHASE_PROPOSE =>
         \A m \in node[n].flags : node[m].phase # PHASE_PROPOSE
    /\ node[n].rx_progress =>
         \A m \in Nodes : node[m].phase # PHASE_PROPOSE

Typed ==
  /\ node \in [Nodes -> NodeState]
  /\ failed \subseteq Nodes

Inv ==
  Typed /\ RadioInv /\ AgreeInv /\ VotesAreCast /\ OneDecision /\ FlagsKnow

(* The record of a node at the start of the round. *)
LEMMA RoundBeginEffect ==
  ASSUME NEW n \in Nodes, NEW value \in Values, NEW threshold \in Thresholds,
         NEW t, t = RoundBegin(n, value, threshold)
  PROVE  /\ t \in NodeState
         /\ t.phase = PHASE_PROPOSE /\ ~t.rx_progress /\ ~t.did_tx
         /\ t.votes = IF n = Initiator THEN {n} ELSE {}
         /\ t.agree <=> n = Initiator
         /\ t.got_valid_rx <=> n = Initiator
         /\ t.state = IF n = Initiator THEN "TX" ELSE "RX"
<1>1. 0 \in 0..(N_TX_COMPLETE + 1) /\ 0 \in 0..CHAOS_RESTART_MAX
  BY ChaosAssumption DEF ChaosAssumption
<1> QED
  BY <1>1 DEF RoundBegin, NodeState, Phases

LEMMA InitInv == Init => Inv
<1> SUFFICES ASSUME Init PROVE Inv
  OBVIOUS
<1>1. PICK value \in [Nodes -> Values], threshold \in [Nodes -> Thresholds],
           fails \in FailureDraws(Nodes, {}) :
        /\ value[Initiator] = Proposal
        /\ node = [n \in Nodes |->
                     Finish(n, RoundBegin(n, value[n], threshold[n]), fails)]
        /\ failed = fails
  BY DEF Init
<1>2. ASSUME NEW n \in Nodes
      PROVE  /\ node[n] \in NodeState
             /\ node[n].phase = PHASE_PROPOSE /\ ~node[n].rx_progress
             /\ node[n].votes = (IF n = Initiator THEN {n} ELSE {})
             /\ (node[n].agree <=> n = Initiator)
             /\ (node[n].got_valid_rx <=> n = Initiator)
             /\ (node[n].did_tx <=> node[n].state = "TX")
             /\ (node[n].state = "TX" => n = Initiator)
             /\ (node[n].state = "OFF" <=> n \in failed)
             /\ (n = Initiator => node[n].state \in {"TX", "OFF"})
  <2> DEFINE r == RoundBegin(n, value[n], threshold[n])
  <2>1. /\ r \in NodeState /\ r.phase = PHASE_PROPOSE
        /\ ~r.rx_progress /\ ~r.did_tx
        /\ r.votes = (IF n = Initiator THEN {n} ELSE {})
        /\ (r.agree <=> n = Initiator)
        /\ (r.got_valid_rx <=> n = Initiator)
        /\ r.state = (IF n = Initiator THEN "TX" ELSE "RX")
    <3>1. PICK v \in Values, th \in Thresholds : r = RoundBegin(n, v, th)
      BY <1>1
    <3> HIDE DEF r
    <3>2. /\ r \in NodeState /\ r.phase = PHASE_PROPOSE
          /\ ~r.rx_progress /\ ~r.did_tx
      BY <3>1, RoundBeginEffect
    <3>3. /\ r.votes = (IF n = Initiator THEN {n} ELSE {})
          /\ (r.agree <=> n = Initiator)
          /\ (r.got_valid_rx <=> n = Initiator)
      BY <3>1, RoundBeginEffect
    <3>4. r.state = (IF n = Initiator THEN "TX" ELSE "RX")
      BY <3>1, RoundBeginEffect
    <3> QED
      BY <3>2, <3>3, <3>4
  <2>2. node[n] = Finish(n, r, failed)
    BY <1>1
  <2> HIDE DEF r
  <2>3. /\ node[n] \in NodeState /\ SameProtocol(r, node[n])
        /\ node[n].state = (IF n \in failed THEN "OFF" ELSE r.state)
        /\ (node[n].did_tx <=> r.did_tx \/ node[n].state = "TX")
    BY <2>1, <2>2, FinishEffect
  <2> QED
    BY <2>1, <2>3 DEF SameProtocol
<1>3. Typed
  BY <1>1, <1>2 DEF Typed, FailureDraws
<1>4. RadioInv
  BY <1>2 DEF RadioInv
<1>5. AgreeInv
  BY <1>2, ChaosAssumption DEF AgreeInv, ChaosAssumption
<1>6. VotesAreCast
  <2> SUFFICES ASSUME NEW n \in Nodes, NEW m \in node[n].votes
               PROVE  node[m].agree /\ (m = n \/ node[m].did_tx)
    BY DEF VotesAreCast
  <2>1. n = Initiator /\ m = n
    BY <1>2
  <2> QED
    BY <1>2, <2>1
<1>7. OneDecision
  <2>1. node[Initiator].phase = PHASE_PROPOSE /\ PHASE_PROPOSE # PHASE_COMMIT
    <3>1. Initiator \in Nodes
      BY ChaosAssumption DEF ChaosAssumption
    <3>2. PHASE_PROPOSE # PHASE_COMMIT
      BY DEF PHASE_PROPOSE, PHASE_COMMIT
    <3> QED
      BY <1>2, <3>1, <3>2
  <2> QED
    BY <1>2, <2>1 DEF OneDecision
<1>8. FlagsKnow
  BY <1>2 DEF FlagsKnow
<1> QED
  BY <1>3, <1>4, <1>5, <1>6, <1>7, <1>8 DEF Inv

-----------------------------------------------------------------------------
(* What a slot does to every node, with the set of nodes that it stops. *)
Moves(fails) ==
  /\ \A n \in Nodes : NodeMove(n, node[n], node'[n], fails)
  /\ failed' = failed \cup fails /\ fails \subseteq Nodes
  /\ node' \in [Nodes -> NodeState]

LEMMA NextMoves ==
  ASSUME Inv, Next
  PROVE  \E fails : Moves(fails)
<1>1. PICK heard \in Receptions(node, Transmitters(node)),
           threshold \in ThresholdDraws(node),
           fails \in FailureDraws(Active(node), failed) :
        SlotWith(heard, threshold, fails)
  BY DEF Next, Slot
<1>2. \A n \in Nodes : node[n] \in NodeState
                         /\ (node[n].state = "TX" => node[n].got_valid_rx)
  BY DEF Inv, Typed, RadioInv
<1>3. \A n \in Nodes : NodeMove(n, node[n], node'[n], fails)
  <2> SUFFICES ASSUME NEW n \in Nodes
               PROVE  NodeMove(n, node[n], node'[n], fails)
    OBVIOUS
  <2>1. node'[n] = Step(n, heard, threshold, fails)
    BY <1>1 DEF SlotWith
  <2> QED
    BY <1>2, <2>1, StepEffect
<1>4. failed' = failed \cup fails /\ fails \subseteq Nodes
  BY <1>1 DEF SlotWith, FailureDraws, Active
<1>5. node' \in [Nodes -> NodeState]
  BY <1>1, <1>3 DEF SlotWith, NodeMove
<1> QED
  BY <1>3, <1>4, <1>5 DEF Moves

(* What a node knows only grows in a slot. *)
LEMMA Monotone ==
  ASSUME Inv, NEW fails, Moves(fails), NEW n \in Nodes
  PROVE  /\ node[n].did_tx => node'[n].did_tx
         /\ node[n].got_valid_rx => node'[n].got_valid_rx
         /\ node[n].agree => node'[n].agree
         /\ node[n].rx_progress => node'[n].rx_progress
         /\ node[n].phase # PHASE_PROPOSE => node'[n].phase # PHASE_PROPOSE
<1>1. NodeMove(n, node[n], node'[n], fails) /\ node[n] \in NodeState
  BY DEF Moves, Inv, Typed
<1>2. node[n].agree => node[n].got_valid_rx
  BY DEF Inv, AgreeInv
<1>3. CASE SameProtocol(node[n], node'[n])
  BY <1>1, <1>3 DEF NodeMove, SameProtocol
<1>4. ASSUME NEW k \in Nodes, HearMove(n, node[n], node[k], node'[n])
      PROVE  /\ node'[n].got_valid_rx
             /\ node[n].agree => node'[n].agree
             /\ node[n].rx_progress => node'[n].rx_progress
             /\ node[n].phase # PHASE_PROPOSE => node'[n].phase # PHASE_PROPOSE
  <2>1. node[k].phase \in Phases /\ node[n].phase \in Phases
    BY DEF Inv, Typed, NodeState
  <2>2. node[k].phase > node[n].phase => node[k].phase # PHASE_PROPOSE
    BY <2>1 DEF Phases, PHASE_PROPOSE, PHASE_COMMIT, PHASE_ABORT
  <2> QED
    BY <1>2, <1>4, <2>2 DEF HearMove, StaysInPhase, Follows, Decides
<1> QED
  BY <1>1, <1>3, <1>4 DEF NodeMove

(* How a phase may change: a node that leaves PROPOSE is the initiator, with
   everybody's vote or to abort, or follows the initiator. *)
LEMMA PhaseMove ==
  ASSUME Inv, NEW fails, Moves(fails), NEW n \in Nodes
  PROVE  \/ node'[n].phase = node[n].phase
         \/ /\ node[n].phase = PHASE_PROPOSE
            /\ node[Initiator].phase # PHASE_PROPOSE
            /\ node'[n].phase = node[Initiator].phase
         \/ /\ n = Initiator /\ node[n].phase = PHASE_PROPOSE
            /\ node'[n].phase = PHASE_COMMIT
            /\ \A m \in Nodes : node[m].agree /\ node[m].did_tx
         \/ /\ n = Initiator /\ node[n].phase = PHASE_PROPOSE
            /\ node'[n].phase = PHASE_ABORT
<1>1. NodeMove(n, node[n], node'[n], fails) /\ Initiator \in Nodes
  BY ChaosAssumption DEF Moves, ChaosAssumption
<1>2. CASE SameProtocol(node[n], node'[n])
  BY <1>2 DEF SameProtocol
<1>3. ASSUME NEW k \in Nodes, node[n].state = "RX", node[k].state = "TX",
             HearMove(n, node[n], node[k], node'[n]),
             node'[n].phase # node[n].phase
      PROVE  \/ /\ node[n].phase = PHASE_PROPOSE
                /\ node[Initiator].phase # PHASE_PROPOSE
                /\ node'[n].phase = node[Initiator].phase
             \/ /\ n = Initiator /\ node[n].phase = PHASE_PROPOSE
                /\ node'[n].phase = PHASE_COMMIT
                /\ \A m \in Nodes : node[m].agree /\ node[m].did_tx
             \/ /\ n = Initiator /\ node[n].phase = PHASE_PROPOSE
                /\ node'[n].phase = PHASE_ABORT
  <2>1. CASE Follows(n, node[n], node[k], node'[n])
    <3>1. /\ node[n].phase \in Phases /\ node[k].phase \in Phases
          /\ node[k].phase > node[n].phase
          /\ node'[n].phase = node[k].phase
      BY <2>1 DEF Follows, Inv, Typed, NodeState
    <3>2. /\ node[k].phase \in {PHASE_PROPOSE, node[Initiator].phase}
          /\ node[n].phase \in {PHASE_PROPOSE, node[Initiator].phase}
      BY DEF Inv, OneDecision
    <3>3. node[k].phase # PHASE_PROPOSE
      BY <3>1 DEF Phases, PHASE_PROPOSE, PHASE_COMMIT, PHASE_ABORT
    <3>4. node[n].phase # node[k].phase
      BY <3>1, PhaseOrder
    <3> QED
      BY <3>1, <3>2, <3>3, <3>4
  <2>2. CASE Decides(n, node[n], node[k], node'[n])
    <3>1. CASE node'[n].votes = Nodes
      <4>1. n = Initiator /\ node[n].agree /\ node[n].did_tx
        BY <1>1, <1>3, <2>2 DEF Decides, Inv, AgreeInv
      <4>2. node[k].did_tx
        BY <1>3 DEF Inv, RadioInv
      <4>3. ASSUME NEW m \in Nodes PROVE node[m].agree /\ node[m].did_tx
        <5>1. m \in node[n].votes \/ m \in node[k].votes \/ m = n
          BY <1>3, <3>1 DEF HearMove
        <5> QED
          BY <4>1, <4>2, <5>1 DEF Inv, VotesAreCast
      <4> QED
        BY <2>2, <3>1, <4>3 DEF Decides
    <3>2. CASE node'[n].votes # Nodes
      BY <2>2, <3>2 DEF Decides
    <3> QED
      BY <3>1, <3>2
  <2> QED
    BY <1>3, <2>1, <2>2 DEF HearMove, StaysInPhase
<1> QED
  BY <1>1, <1>2, <1>3 DEF NodeMove

(* Every slot preserves the invariant. *)
LEMMA NextInv ==
  ASSUME Inv, Next
  PROVE  Inv'
<1>1. PICK fails : Moves(fails)
  BY NextMoves
<1>2. /\ Initiator \in Nodes
      /\ \A n \in Nodes : /\ node[n] \in NodeState /\ node'[n] \in NodeState
                          /\ NodeMove(n, node[n], node'[n], fails)
  BY <1>1, ChaosAssumption DEF ChaosAssumption, Moves, Inv, Typed
<1>3. Typed'
  BY <1>1 DEF Moves, Typed, Inv
<1>4. RadioInv'
  <2> SUFFICES ASSUME NEW n \in Nodes
               PROVE  /\ node'[n].state = "TX" =>
                           node'[n].did_tx /\ node'[n].got_valid_rx
                      /\ node'[n].state = "OFF" =>
                           n \in failed' \/ node'[n].rx_progress
    BY DEF RadioInv
  <2>1. /\ node[n].rx_progress => node'[n].rx_progress
        /\ node[n].did_tx => node'[n].did_tx
    BY <1>1, Monotone
  <2>2. /\ node'[n].did_tx <=>
             node[n].did_tx \/ (node'[n].state = "TX" /\ node[n].state # "OFF")
        /\ node'[n].state = "TX" => node'[n].got_valid_rx
        /\ node'[n].state = "OFF" =>
             node[n].state = "OFF" \/ n \in fails \/ node[n].rx_progress
        /\ node[n].state = "OFF" => node'[n].state = "OFF"
    BY <1>2 DEF NodeMove
  <2> QED
    BY <1>1, <2>1, <2>2 DEF Moves, Inv, RadioInv
<1>5. AgreeInv'
  <2>1. /\ node'[Initiator].got_valid_rx /\ node'[Initiator].agree
        /\ node[Initiator].did_tx => node'[Initiator].did_tx
        /\ node[Initiator].state = "OFF" => node'[Initiator].state = "OFF"
    BY <1>1, <1>2, Monotone DEF Inv, AgreeInv, NodeMove
  <2>2. ASSUME NEW n \in Nodes, node'[n].agree
        PROVE  node'[n].got_valid_rx
    BY <1>2, <2>2 DEF NodeMove, HearMove, SameProtocol, Inv, AgreeInv
  <2> QED
    BY <2>1, <2>2 DEF AgreeInv, Inv
<1>6. VotesAreCast'
  <2> SUFFICES ASSUME NEW n \in Nodes, NEW m \in node'[n].votes
               PROVE  node'[m].agree /\ (m = n \/ node'[m].did_tx)
    BY DEF VotesAreCast
  <2>1. m \in Nodes
    BY <1>2 DEF NodeState
  <2>2. /\ node[m].agree => node'[m].agree
        /\ node[m].did_tx => node'[m].did_tx
    BY <1>1, <2>1, Monotone
  <2>3. CASE SameProtocol(node[n], node'[n])
    BY <2>2, <2>3 DEF SameProtocol, Inv, VotesAreCast
  <2>4. ASSUME NEW k \in Nodes, node[k].state = "TX",
               HearMove(n, node[n], node[k], node'[n])
        PROVE  node'[m].agree /\ (m = n \/ node'[m].did_tx)
    <3>1. \/ m \in node[n].votes \/ m \in node[k].votes
          \/ m = n /\ node'[n].agree
      BY <2>4 DEF HearMove
    <3>2. node[k].did_tx
      BY <2>4 DEF Inv, RadioInv
    <3> QED
      BY <2>2, <3>1, <3>2 DEF Inv, VotesAreCast
  <2> QED
    BY <1>2, <2>3, <2>4 DEF NodeMove
<1>7. OneDecision'
  <2>1. \A n \in Nodes :
          node[n].phase \in {PHASE_PROPOSE, node[Initiator].phase}
    BY DEF Inv, OneDecision
  <2>2. ASSUME NEW n \in Nodes
        PROVE  node'[n].phase \in {PHASE_PROPOSE, node'[Initiator].phase}
    BY <1>1, <1>2, <2>1, PhaseMove
  <2>3. ASSUME node'[Initiator].phase = PHASE_COMMIT, NEW n \in Nodes
        PROVE  node'[n].agree /\ node'[n].did_tx
    <3>1. node[n].agree /\ node[n].did_tx
      <4>1. \/ node[Initiator].phase = PHASE_COMMIT
            \/ \A m \in Nodes : node[m].agree /\ node[m].did_tx
        BY <1>1, <1>2, <2>3, PhaseMove, PhaseOrder DEF Phases
      <4> QED
        BY <4>1 DEF Inv, OneDecision
    <3> QED
      BY <1>1, <3>1, Monotone
  <2> QED
    BY <2>2, <2>3 DEF OneDecision
<1>8. FlagsKnow'
  <2>1. ASSUME NEW n \in Nodes, node'[n].phase # PHASE_PROPOSE,
               NEW m \in node'[n].flags
        PROVE  node'[m].phase # PHASE_PROPOSE
    <3>1. m \in Nodes
      BY <1>2 DEF NodeState
    <3>2. node[m].phase # PHASE_PROPOSE => node'[m].phase # PHASE_PROPOSE
      BY <1>1, <3>1, Monotone
    <3>3. CASE SameProtocol(node[n], node'[n])
      BY <2>1, <3>2, <3>3 DEF SameProtocol, Inv, FlagsKnow
    <3>4. ASSUME NEW k \in Nodes, HearMove(n, node[n], node[k], node'[n])
          PROVE  node'[m].phase # PHASE_PROPOSE
      <4>1. CASE StaysInPhase(node[n], node[k], node'[n])
        <5>1. /\ node[n].phase # PHASE_PROPOSE
              /\ \/ m \in node[n].flags
                 \/ node[k].phase # PHASE_PROPOSE /\ m \in node[k].flags
          BY <2>1, <4>1 DEF StaysInPhase
        <5> QED
          BY <3>2, <5>1 DEF Inv, FlagsKnow
      <4>2. CASE Follows(n, node[n], node[k], node'[n])
        <5>1. /\ node[k].phase # PHASE_PROPOSE
              /\ m = n \/ m \in node[k].flags
          BY <2>1, <4>2 DEF Follows
        <5> QED
          BY <2>1, <3>2, <5>1 DEF Inv, FlagsKnow
      <4>3. CASE Decides(n, node[n], node[k], node'[n])
        BY <2>1, <4>3 DEF Decides
      <4> QED
        BY <3>4, <4>1, <4>2, <4>3 DEF HearMove
    <3> QED
      BY <1>2, <3>3, <3>4 DEF NodeMove
  <2>2. ASSUME NEW n \in Nodes, node'[n].rx_progress, NEW m \in Nodes
        PROVE  node'[m].phase # PHASE_PROPOSE
    <3>1. node[m].phase # PHASE_PROPOSE => node'[m].phase # PHASE_PROPOSE
      BY <1>1, Monotone
    <3>2. CASE SameProtocol(node[n], node'[n])
      BY <2>2, <3>1, <3>2 DEF SameProtocol, Inv, FlagsKnow
    <3>3. ASSUME NEW k \in Nodes, HearMove(n, node[n], node[k], node'[n])
          PROVE  node'[m].phase # PHASE_PROPOSE
      <4>1. \/ node[n].rx_progress
            \/ node[k].phase # PHASE_PROPOSE /\ node[k].flags = Nodes
        BY <2>2, <3>3 DEF HearMove, StaysInPhase, Follows, Decides
      <4> QED
        BY <3>1, <4>1 DEF Inv, FlagsKnow
    <3> QED
      BY <1>2, <3>2, <3>3 DEF NodeMove
  <2> QED
    BY <2>1, <2>2 DEF FlagsKnow
<1> QED
  BY <1>3, <1>4, <1>5, <1>6, <1>7, <1>8 DEF Inv

(* The invariant holds throughout the round. *)
THEOREM Invariance == Spec => []Inv
<1>1. ASSUME Inv, UNCHANGED vars PROVE Inv'
  BY <1>1 DEF vars, Inv, Typed, RadioInv, AgreeInv, VotesAreCast, OneDecision,
              FlagsKnow
<1> QED
  BY InitInv, NextInv, <1>1, PTL DEF Spec

-----------------------------------------------------------------------------
LEMMA InvTypeOK == Inv => TypeOK
BY DEF Inv, Typed, TypeOK, NodeOK, RadioOK, NodeState, Phases

LEMMA InvAtomic == Inv => Atomic
<1> SUFFICES ASSUME Inv, NEW m \in Nodes, NEW n \in Nodes
             PROVE  /\ Decision(n) # "FAIL"
                    /\ Decision(n) = "COMMIT" =>
                         Decision(m) \in {"COMMIT", "UNCERTAIN"}
  BY DEF Atomic
<1>1. /\ node[n].phase \in Phases /\ node[m].phase \in Phases
      /\ PHASE_PROPOSE # PHASE_COMMIT /\ PHASE_PROPOSE # PHASE_ABORT
      /\ PHASE_COMMIT # PHASE_ABORT
  BY PhaseOrder DEF Inv, Typed, NodeState
<1>2. CASE node[n].phase = PHASE_COMMIT
  <2>1. node[Initiator].phase = PHASE_COMMIT
    BY <1>1, <1>2 DEF Inv, OneDecision
  <2>2. /\ node[n].agree /\ node[m].agree /\ node[m].did_tx
        /\ node[m].phase \in {PHASE_PROPOSE, PHASE_COMMIT}
        /\ m = Initiator => node[m].phase = PHASE_COMMIT
    BY <2>1 DEF Inv, OneDecision
  <2>3. Decision(n) = "COMMIT"
    BY <1>1, <1>2, <2>2 DEF Decision
  <2>4. Decision(m) \in {"COMMIT", "UNCERTAIN"}
    BY <1>1, <2>2 DEF Decision
  <2> QED
    BY <2>3, <2>4
<1>3. CASE node[n].phase # PHASE_COMMIT
  <2>1. Decision(n) \in {"UNCERTAIN", "ABORT_TIMEOUT", "ABORT"}
    BY <1>1, <1>3 DEF Decision, Phases
  <2> QED
    BY <2>1
<1> QED
  BY <1>2, <1>3

LEMMA InvOffAfterAll == Inv => OffAfterAll
BY DEF Inv, RadioInv, FlagsKnow, OffAfterAll

(* Type correctness of a 2PC round (the counters of 2pc.c:224-243). *)
THEOREM TypeCorrect == Spec => []TypeOK
BY Invariance, InvTypeOK, PTL

(* Atomicity of 2PC over Synchrotron (2pc-app.c:86-107) for every network,
   every pattern of losses and every set of stopped nodes. *)
THEOREM Atomicity == Spec => []Atomic
BY Invariance, InvAtomic, PTL

(* Without failures a radio goes off only when everybody knows the decision
   (2pc.c:240). *)
THEOREM OffIsLast == Spec => []OffAfterAll
BY Invariance, InvOffAfterAll, PTL
-----------------------------------------------------------------------------
(* The refinement of atomic commitment. *)
Standing == [n \in Nodes |-> Stand(n)]
Commitment == INSTANCE AtomicCommit WITH Participant <- Nodes, stand <- Standing

(* Where a node stands, by its fields. *)
LEMMA StandIs ==
  ASSUME Inv, NEW n \in Nodes
  PROVE  /\ node[n].phase = PHASE_COMMIT => Stand(n) = "committed"
         /\ node[n].phase = PHASE_ABORT => Stand(n) = "aborted"
         /\ node[n].phase = PHASE_PROPOSE =>
              Stand(n) = IF node[n].agree /\ node[n].did_tx
                         THEN "prepared" ELSE "undecided"
         /\ node[n].phase \in Phases
<1>1. node[n].phase \in Phases
  BY DEF Inv, Typed, NodeState
<1> QED
  BY <1>1, PhaseOrder DEF Stand

LEMMA InitStands ==
  ASSUME Init
  PROVE  Commitment!Init
<1>1. Inv /\ \A n \in Nodes : node[n].phase = PHASE_PROPOSE
  <2>1. PICK value \in [Nodes -> Values], threshold \in [Nodes -> Thresholds],
             fails \in FailureDraws(Nodes, {}) :
          node = [n \in Nodes |->
                    Finish(n, RoundBegin(n, value[n], threshold[n]), fails)]
    BY DEF Init
  <2> SUFFICES ASSUME NEW n \in Nodes PROVE node[n].phase = PHASE_PROPOSE
    BY InitInv
  <2>2. PICK v \in Values, th \in Thresholds :
          node[n] = Finish(n, RoundBegin(n, v, th), fails)
    BY <2>1
  <2> DEFINE r == RoundBegin(n, v, th)
  <2>3. r \in NodeState /\ r.phase = PHASE_PROPOSE
    BY RoundBeginEffect
  <2> HIDE DEF r
  <2> QED
    BY <2>2, <2>3, FinishEffect DEF SameProtocol, r
<1>2. \A n \in Nodes : Stand(n) \in {"undecided", "prepared"}
  BY <1>1, StandIs
<1> QED
  BY <1>2 DEF Commitment!Init, Standing

(* A slot moves every participant as the abstract protocol allows. *)
LEMMA NextStands ==
  ASSUME Inv, Next
  PROVE  Commitment!Next
<1>1. PICK fails : Moves(fails)
  BY NextMoves
<1>2. Inv'
  BY NextInv
<1>3. Initiator \in Nodes
  BY ChaosAssumption DEF ChaosAssumption
<1>4. \A n \in Nodes : Standing[n] = Stand(n) /\ Standing'[n] = Stand(n)'
  BY DEF Standing
<1>5. ASSUME NEW n \in Nodes
      PROVE  /\ Stand(n)' \in Commitment!Stands
             /\ Commitment!MayMove(n, Stand(n)')
  <2>0. /\ node'[n].phase = PHASE_COMMIT => Stand(n)' = "committed"
        /\ node'[n].phase = PHASE_ABORT => Stand(n)' = "aborted"
        /\ node'[n].phase = PHASE_PROPOSE =>
             Stand(n)' = IF node'[n].agree /\ node'[n].did_tx
                         THEN "prepared" ELSE "undecided"
        /\ node'[n].phase \in Phases
    <3>1. (Inv => /\ node[n].phase = PHASE_COMMIT => Stand(n) = "committed"
                  /\ node[n].phase = PHASE_ABORT => Stand(n) = "aborted"
                  /\ node[n].phase = PHASE_PROPOSE =>
                       Stand(n) = IF node[n].agree /\ node[n].did_tx
                                  THEN "prepared" ELSE "undecided"
                  /\ node[n].phase \in Phases)'
      BY StandIs, PTL
    <3> QED
      BY <1>2, <3>1
  <2>1. Stand(n)' \in Commitment!Stands
    BY <2>0 DEF Commitment!Stands, Phases
  <2>2. CASE node'[n].phase = node[n].phase
    <3>1. /\ node[n].agree => node'[n].agree
          /\ node[n].did_tx => node'[n].did_tx
      BY <1>1, Monotone
    <3>2. \/ Stand(n)' = Standing[n]
          \/ Standing[n] = "undecided" /\ Stand(n)' = "prepared"
      BY <1>4, <2>0, <2>2, <3>1, StandIs DEF Phases
    <3> QED
      BY <2>1, <3>2 DEF Commitment!MayMove
  <2>3. CASE node'[n].phase = PHASE_COMMIT /\ node[n].phase = PHASE_PROPOSE
    <3>1. /\ \A m \in Nodes : node[m].agree /\ node[m].did_tx
          /\ \A m \in Nodes : node[m].phase \in {PHASE_PROPOSE, PHASE_COMMIT}
      BY <1>1, <1>3, <2>3, PhaseMove, PhaseOrder
         DEF Phases, Inv, OneDecision
    <3>2. \A m \in Nodes : Stand(m) \in {"prepared", "committed"}
      BY <3>1, StandIs
    <3>3. Stand(n) = "prepared"
      BY <2>3, <3>1, StandIs
    <3>4. Stand(n)' = "committed"
      BY <2>0, <2>3
    <3> QED
      BY <1>4, <2>1, <3>2, <3>3, <3>4
         DEF Commitment!MayMove, Commitment!CanCommit
  <2>4. CASE node'[n].phase = PHASE_ABORT /\ node[n].phase = PHASE_PROPOSE
    <3>1. \A m \in Nodes : node[m].phase \in {PHASE_PROPOSE, PHASE_ABORT}
      BY <1>1, <1>3, <2>4, PhaseMove, PhaseOrder
         DEF Phases, Inv, OneDecision
    <3>2. \A m \in Nodes : Stand(m) # "committed"
      BY <3>1, StandIs
    <3>3. Stand(n) \in {"undecided", "prepared"}
      BY <2>4, StandIs
    <3>4. Stand(n)' = "aborted"
      BY <2>0, <2>4
    <3> QED
      BY <1>4, <2>1, <3>2, <3>3, <3>4
         DEF Commitment!MayMove, Commitment!CanAbort
  <2>5. \/ node'[n].phase = node[n].phase
        \/ node'[n].phase = PHASE_COMMIT /\ node[n].phase = PHASE_PROPOSE
        \/ node'[n].phase = PHASE_ABORT /\ node[n].phase = PHASE_PROPOSE
    BY <1>1, <1>3, <2>0, PhaseMove DEF Phases, Inv, Typed, NodeState
  <2> QED
    BY <2>1, <2>2, <2>3, <2>4, <2>5
<1> QED
  BY <1>4, <1>5 DEF Commitment!Next, Standing

(* 2PC over Synchrotron implements atomic commitment: a node that agreed and
   transmitted is bound, and follows the one decision (2pc.c:183-219). *)
THEOREM Refinement == Spec => Commitment!Spec
<1>1. UNCHANGED vars => UNCHANGED Standing
  BY DEF vars, Standing, Stand
<1> QED
  BY Invariance, InitStands, NextStands, <1>1, PTL DEF Spec, Commitment!Spec
=============================================================================
