------------------------ MODULE ThreePhaseCommitProofs ------------------------
(***************************************************************************)
(* The proofs about three-phase commit (module ThreePhaseCommit): types,   *)
(* the inductive invariant behind its safety properties, and the           *)
(* refinement of atomic commitment.                                        *)
(***************************************************************************)
EXTENDS ThreePhaseCommit, TLAPS

Phases == {PHASE_PROPOSE, PHASE_PRE_COMMIT, PHASE_COMMIT, PHASE_ABORT,
           PHASE_ABORT_TIMEOUT, PHASE_FAIL}

(* The state of a node, as a record. *)
NodeState ==
  [value : Values, phase : Phases, flags : SUBSET Nodes, votes : SUBSET Nodes,
   agree : BOOLEAN, complete : BOOLEAN, rx_progress : BOOLEAN,
   tx_count_complete : 0..(N_TX_COMPLETE + 1),
   invalid_rx_count : 0..CHAOS_RESTART_MAX, got_valid_rx : BOOLEAN,
   restart_threshold : Thresholds, state : {"TX", "RX", "OFF"}]

(* What two states have in common when only the radio has moved on. *)
SameProtocol(s, t) ==
  /\ t.phase = s.phase /\ t.flags = s.flags /\ t.votes = s.votes
  /\ t.agree = s.agree /\ t.got_valid_rx = s.got_valid_rx

(* The phases are ordered as the code compares them. *)
LEMMA PhaseOrder ==
  /\ Phases \subseteq Nat
  /\ \A a \in Phases : a = PHASE_PROPOSE \/ a > PHASE_PROPOSE
  /\ PHASE_PROPOSE + 1 = PHASE_PRE_COMMIT
  /\ PHASE_PRE_COMMIT + 1 = PHASE_COMMIT
BY DEF Phases, PHASE_PROPOSE, PHASE_PRE_COMMIT, PHASE_COMMIT, PHASE_ABORT,
       PHASE_ABORT_TIMEOUT, PHASE_FAIL

(* The radio after a slot without a reception. *)
LEMMA ListenEffect ==
  ASSUME NEW s \in NodeState, NEW r \in Thresholds, s.state = "RX"
  PROVE  LET t == Listen(s, N_TX_COMPLETE, r) IN
         /\ t \in NodeState
         /\ SameProtocol(s, t)
         /\ t.state \in {"TX", "RX"}
         /\ t.state = "TX" => s.got_valid_rx
<1>1. CASE RestartDue(s)
  <2>1. CountTx(s, N_TX_COMPLETE) \in 0..(N_TX_COMPLETE + 1)
    BY ChaosAssumption DEF ChaosAssumption, CountTx, NodeState
  <2>2. 0 \in 0..CHAOS_RESTART_MAX
    BY ChaosAssumption DEF ChaosAssumption
  <2> QED
    BY <1>1, <2>1, <2>2 DEF Listen, NodeState, SameProtocol, RestartDue
<1>2. CASE ~RestartDue(s)
  <2>1. s.got_valid_rx => s.invalid_rx_count + 1 \in 0..CHAOS_RESTART_MAX
    BY <1>2, ChaosAssumption
       DEF ChaosAssumption, RestartDue, NodeState, Thresholds
  <2> QED
    BY <1>2, <2>1 DEF Listen, NodeState, SameProtocol
<1> QED
  BY <1>1, <1>2

(* The radio after a transmission. *)
LEMMA TransmitEffect ==
  ASSUME NEW s \in NodeState
  PROVE  LET t == Transmit(s) IN
         t \in NodeState /\ SameProtocol(s, t) /\ t.state \in {"RX", "OFF"}
BY DEF Transmit, Quits, NodeState, SameProtocol

(* A phase that is opened. *)
LEMMA EnterEffect ==
  ASSUME NEW n \in Nodes, NEW s \in NodeState, NEW phase \in Phases
  PROVE  LET t == Enter(n, s, phase) IN
         /\ t \in NodeState
         /\ t.phase = phase /\ t.flags = {n} /\ t.votes = {n}
         /\ t.agree = s.agree /\ t.got_valid_rx = s.got_valid_rx
         /\ t.state = s.state
BY DEF Enter, NodeState

(* The retransmission timer runs on when a phase is opened. *)
LEMMA EnterTimer ==
  ASSUME NEW n \in Nodes, NEW s \in NodeState, NEW phase \in Phases
  PROVE  RestartDue(Enter(n, s, phase)) <=> RestartDue(s)
BY DEF Enter, RestartDue, NodeState

(* The vote on the first valid packet. *)
LEMMA CastVoteEffect ==
  ASSUME NEW n \in Nodes, NEW s \in NodeState, NEW p \in NodeState
  PROVE  LET t == CastVote(n, s, p) IN
         /\ t \in NodeState
         /\ t.phase = s.phase /\ t.flags = s.flags /\ t.state = s.state
         /\ t.got_valid_rx = s.got_valid_rx
         /\ s.got_valid_rx => t = s
         /\ \A m \in t.votes : m \in s.votes \/ (m = n /\ t.agree)
BY DEF CastVote, NodeState

-----------------------------------------------------------------------------
(* What hearing packet p changes: the node stays in its phase, follows the
   packet into a later one, or is the initiator and goes on to the next; or a
   vote is found missing in COMMIT. *)
StaysInPhase(n, s, p, t) ==
  /\ t.phase = s.phase
  /\ t.flags = IF p.phase = s.phase THEN s.flags \cup p.flags ELSE s.flags
  /\ s.got_valid_rx =>
       t.votes = IF p.phase = s.phase THEN s.votes \cup p.votes ELSE s.votes
  /\ \A m \in t.votes :
       m \in s.votes \/ (p.phase = s.phase /\ m \in p.votes)
                     \/ (m = n /\ t.agree)

Follows(n, s, p, t) ==
  /\ p.phase > s.phase /\ t.phase = p.phase
  /\ t.flags = p.flags \cup {n} /\ t.votes = p.votes \cup {n}

Advances(n, s, p, t) ==
  /\ n = Initiator /\ p.phase = s.phase
  /\ s.phase \in {PHASE_PROPOSE, PHASE_PRE_COMMIT}
  /\ s.flags \cup p.flags = Nodes
  /\ t.phase = IF s.votes \cup p.votes = Nodes
               THEN s.phase + 1 ELSE PHASE_ABORT
  /\ t.flags = {n} /\ t.votes = {n}

FindsMissing(s, p, t) ==
  /\ s.phase = PHASE_COMMIT /\ p.phase = PHASE_COMMIT
  /\ s.flags \cup p.flags = Nodes
  /\ s.got_valid_rx => s.votes \cup p.votes # Nodes

HearMove(n, s, p, t) ==
  /\ t.got_valid_rx
  /\ s.got_valid_rx => t.agree = s.agree
  /\ \/ StaysInPhase(n, s, p, t)
     \/ Follows(n, s, p, t)
     \/ Advances(n, s, p, t)
     \/ FindsMissing(s, p, t)

(* The move that receiving makes, before got_valid_rx is set. *)
ReceiveMove(n, s, p, t) ==
  /\ s.got_valid_rx => t.agree = s.agree
  /\ \/ StaysInPhase(n, s, p, t)
     \/ Follows(n, s, p, t)
     \/ Advances(n, s, p, t)
     \/ FindsMissing(s, p, t)

(* Merging a packet of the node's own phase; v is s after its vote. *)
LEMMA MergeEffect ==
  ASSUME NEW n \in Nodes, NEW s \in NodeState, NEW p \in NodeState,
         p.phase = s.phase, n = Initiator => s.got_valid_rx,
         NEW v \in NodeState, v.phase = s.phase, v.flags = s.flags,
         s.got_valid_rx => v = s,
         \A m \in v.votes : m \in s.votes \/ (m = n /\ v.agree)
  PROVE  LET t == Merge(n, v, p).s IN
         t \in NodeState /\ ReceiveMove(n, s, p, t)
<1> DEFINE merged == [v EXCEPT !.flags = @ \cup p.flags,
                               !.votes = @ \cup p.votes]
           done == [merged EXCEPT !.complete = TRUE,
                                  !.rx_progress = @ \/ p.flags = Nodes]
           t == Merge(n, v, p).s
<1>1. /\ merged \in NodeState
      /\ merged.phase = s.phase /\ merged.agree = v.agree
      /\ merged.flags = s.flags \cup p.flags
      /\ merged.votes = v.votes \cup p.votes
  BY DEF NodeState
<1>2. /\ done \in NodeState
      /\ done.phase = s.phase /\ done.agree = v.agree
      /\ done.flags = s.flags \cup p.flags
      /\ done.votes = v.votes \cup p.votes
  <2> HIDE DEF merged
  <2> QED
    BY <1>1 DEF NodeState
<1>3. \/ t = merged \/ t = done
      \/ /\ merged.flags = Nodes /\ n = Initiator
         /\ s.phase \in {PHASE_PROPOSE, PHASE_PRE_COMMIT}
         /\ t = Enter(n, merged,
                  IF merged.votes = Nodes THEN merged.phase + 1 ELSE PHASE_ABORT)
      \/ /\ merged.flags = Nodes
         /\ merged.phase = PHASE_COMMIT /\ merged.votes # Nodes
         /\ t = Enter(n, merged, PHASE_FAIL)
  <2> HIDE DEF merged
  <2> QED
    BY <1>1 DEF Merge, Advance, Conclude, merged
<1> HIDE DEF merged, done
<1>4. CASE t = merged \/ t = done
  BY <1>1, <1>2, <1>4 DEF ReceiveMove, StaysInPhase
<1>5. CASE /\ merged.flags = Nodes /\ n = Initiator
           /\ s.phase \in {PHASE_PROPOSE, PHASE_PRE_COMMIT}
           /\ t = Enter(n, merged, IF merged.votes = Nodes
                                   THEN merged.phase + 1 ELSE PHASE_ABORT)
  <2> DEFINE phase == IF merged.votes = Nodes
                      THEN merged.phase + 1 ELSE PHASE_ABORT
  <2>1. phase \in Phases
    BY <1>1, <1>5, PhaseOrder DEF Phases
  <2>2. /\ v = s /\ s.got_valid_rx
        /\ phase = IF s.votes \cup p.votes = Nodes
                   THEN s.phase + 1 ELSE PHASE_ABORT
    BY <1>1, <1>5
  <2> HIDE DEF phase
  <2>3. /\ t \in NodeState /\ t.phase = phase /\ t.flags = {n}
        /\ t.votes = {n} /\ t.agree = merged.agree
    BY <1>1, <1>5, <2>1, EnterEffect DEF phase
  <2> HIDE DEF t
  <2>4. ReceiveMove(n, s, p, t)
    BY <1>1, <1>5, <2>2, <2>3 DEF ReceiveMove, Advances
  <2> QED
    BY <2>3, <2>4 DEF t
<1>6. CASE /\ merged.flags = Nodes
           /\ merged.phase = PHASE_COMMIT /\ merged.votes # Nodes
           /\ t = Enter(n, merged, PHASE_FAIL)
  <2>1. t \in NodeState /\ t.agree = merged.agree
    BY <1>1, <1>6, EnterEffect DEF Phases
  <2> HIDE DEF t
  <2>2. ReceiveMove(n, s, p, t)
    BY <1>1, <1>6, <2>1 DEF ReceiveMove, FindsMissing
  <2> QED
    BY <2>1, <2>2 DEF t
<1> QED
  BY <1>3, <1>4, <1>5, <1>6

(* Catching up with a packet of a later phase. *)
LEMMA CatchUpEffect ==
  ASSUME NEW n \in Nodes, NEW s \in NodeState, NEW p \in NodeState
  PROVE  LET t == CatchUp(n, s, p) IN
         /\ t \in NodeState
         /\ t.agree = s.agree /\ t.phase = p.phase
         /\ t.flags = p.flags \cup {n} /\ t.votes = p.votes \cup {n}
<1>1. /\ p.value \in Values /\ p.phase \in Phases
      /\ p.flags \cup {n} \subseteq Nodes /\ p.votes \cup {n} \subseteq Nodes
  BY DEF NodeState
<1> QED
  BY <1>1 DEF CatchUp, NodeState

(* What is received, before the radio moves on. *)
LEMMA ReceiveEffect ==
  ASSUME NEW n \in Nodes, NEW s \in NodeState, NEW p \in NodeState,
         n = Initiator => s.got_valid_rx
  PROVE  LET t == Receive(n, s, p).s IN
         t \in NodeState /\ ReceiveMove(n, s, p, t)
<1> DEFINE v == CastVote(n, s, p)
           t == Receive(n, s, p).s
<1>1. /\ v \in NodeState
      /\ v.phase = s.phase /\ v.flags = s.flags
      /\ s.got_valid_rx => v = s
      /\ \A m \in v.votes : m \in s.votes \/ (m = n /\ v.agree)
  BY CastVoteEffect
<1>2. p.phase \in Nat /\ s.phase \in Nat
  BY PhaseOrder DEF NodeState
<1>3. /\ p.phase = s.phase => t = Merge(n, v, p).s
      /\ p.phase > s.phase => t = CatchUp(n, v, p)
      /\ p.phase < s.phase => t = v
  BY <1>2 DEF Receive
<1> HIDE DEF v
<1>4. CASE p.phase = s.phase
  BY <1>1, <1>3, <1>4, MergeEffect
<1>5. CASE p.phase > s.phase
  <2>1. /\ t \in NodeState /\ t.agree = v.agree /\ t.phase = p.phase
        /\ t.flags = p.flags \cup {n} /\ t.votes = p.votes \cup {n}
    BY <1>1, <1>3, <1>5, CatchUpEffect
  <2> HIDE DEF t
  <2>2. ReceiveMove(n, s, p, t)
    BY <1>1, <1>5, <2>1 DEF ReceiveMove, Follows
  <2> QED
    BY <2>1, <2>2 DEF t
<1>6. CASE p.phase < s.phase
  <2>1. t = v /\ p.phase # s.phase
    BY <1>2, <1>3, <1>6
  <2> HIDE DEF t
  <2>2. ReceiveMove(n, s, p, t)
    BY <1>1, <2>1 DEF ReceiveMove, StaysInPhase
  <2> QED
    BY <1>1, <2>1, <2>2 DEF t
<1> QED
  BY <1>2, <1>4, <1>5, <1>6

(* process() for a packet that was received. *)
LEMMA HearEffect ==
  ASSUME NEW n \in Nodes, NEW s \in NodeState, NEW p \in NodeState,
         n = Initiator => s.got_valid_rx
  PROVE  LET t == Hear(n, s, p, FALSE) IN
         t \in NodeState /\ HearMove(n, s, p, t) /\ t.state \in {"TX", "RX"}
<1> DEFINE w == Receive(n, s, p)
           t == Hear(n, s, p, FALSE)
<1>1. w.s \in NodeState /\ ReceiveMove(n, s, p, w.s)
  BY ReceiveEffect
<1>2. CountTx(w.s, N_TX_COMPLETE) \in 0..(N_TX_COMPLETE + 1)
  BY <1>1, ChaosAssumption DEF ChaosAssumption, CountTx, NodeState
<1>3. t = [w.s EXCEPT !.got_valid_rx = TRUE,
                      !.state = IF w.tx THEN "TX" ELSE "RX",
                      !.tx_count_complete =
                        IF w.tx THEN CountTx(w.s, N_TX_COMPLETE) ELSE @]
  BY DEF Hear
<1> HIDE DEF w, t
<1>4. /\ t \in NodeState /\ t.state \in {"TX", "RX"} /\ t.got_valid_rx
      /\ t.phase = w.s.phase /\ t.flags = w.s.flags
      /\ t.votes = w.s.votes /\ t.agree = w.s.agree
  BY <1>1, <1>2, <1>3 DEF NodeState
<1>5. HearMove(n, s, p, t)
  BY <1>1, <1>4
     DEF HearMove, ReceiveMove, StaysInPhase, Follows, Advances, FindsMissing
<1> QED
  BY <1>4, <1>5 DEF t

(* A packet that arrives when the initiator gives up is not looked at. *)
LEMMA HearNothingEffect ==
  ASSUME NEW n \in Nodes, NEW s \in NodeState, NEW p
  PROVE  LET t == Hear(n, s, p, TRUE) IN
         /\ t \in NodeState /\ t.state \in {"TX", "RX"} /\ t.got_valid_rx
         /\ t.phase = s.phase /\ t.flags = s.flags /\ t.votes = s.votes
         /\ t.agree = s.agree
<1>1. CountTx(s, N_TX_COMPLETE) \in 0..(N_TX_COMPLETE + 1)
  BY ChaosAssumption DEF ChaosAssumption, CountTx, NodeState
<1>2. Hear(n, s, p, TRUE) =
        [s EXCEPT !.got_valid_rx = TRUE, !.state = "TX",
                  !.tx_count_complete = CountTx(s, N_TX_COMPLETE)]
  BY DEF Hear
<1> QED
  BY <1>1, <1>2 DEF NodeState

-----------------------------------------------------------------------------
(* The initiator gives up a pre-commit. *)
GivesUp(n, s, t) ==
  /\ n = Initiator /\ s.phase = PHASE_PRE_COMMIT
  /\ t.phase = PHASE_ABORT_TIMEOUT
  /\ t.flags = {n} /\ t.votes = {n}
  /\ t.agree = s.agree /\ (s.got_valid_rx => t.got_valid_rx)

(* What one slot does to node n: what it knows stays as it is, the initiator
   gives up, or a packet that is being transmitted is heard. *)
NodeMove(n, s, t) ==
  /\ t \in NodeState
  /\ t.state = "TX" => t.got_valid_rx
  /\ \/ SameProtocol(s, t)
     \/ GivesUp(n, s, t)
     \/ \E k \in Nodes : node[k].state = "TX" /\ HearMove(n, s, node[k], t)

(* A node that is stopped keeps what it knows. *)
LEMMA FinishEffect ==
  ASSUME NEW n \in Nodes, NEW s, NEW r \in NodeState, NEW fails,
         NodeMove(n, s, r)
  PROVE  NodeMove(n, s, Finish(n, r, fails))
<1> DEFINE t == Finish(n, r, fails)
<1>1. /\ t \in NodeState
      /\ t.state = (IF n \in fails THEN "OFF" ELSE r.state)
      /\ t.phase = r.phase /\ t.flags = r.flags /\ t.votes = r.votes
      /\ t.agree = r.agree /\ t.got_valid_rx = r.got_valid_rx
  BY DEF Finish, Stopped, NodeState
<1> HIDE DEF t
<1>2. NodeMove(n, s, t)
  <2>1. SameProtocol(s, r) => SameProtocol(s, t)
    BY <1>1 DEF SameProtocol
  <2>2. GivesUp(n, s, r) => GivesUp(n, s, t)
    BY <1>1 DEF GivesUp
  <2>3. \A k \in Nodes : HearMove(n, s, node[k], r) => HearMove(n, s, node[k], t)
    BY <1>1 DEF HearMove, StaysInPhase, Follows, Advances, FindsMissing
  <2> QED
    BY <1>1, <2>1, <2>2, <2>3 DEF NodeMove
<1> QED
  BY <1>2 DEF t

(* One slot of one node, by what its radio does in it. *)
LEMMA StepEffect ==
  ASSUME NEW n \in Nodes,
         \A k \in Nodes : node[k] \in NodeState,
         node[n].state = "TX" => node[n].got_valid_rx,
         node[Initiator].got_valid_rx,
         NEW heard \in Receptions(node, Transmitters(node)),
         NEW threshold \in ThresholdDraws(node), NEW fails, NEW soon
  PROVE  NodeMove(n, node[n], Step(n, heard, threshold, fails, soon))
<1> DEFINE gives_up == TimesOut(n, node[n], soon)
           s == IF gives_up THEN Enter(n, node[n], PHASE_ABORT_TIMEOUT)
                ELSE node[n]
           r == IF s.state = "TX" THEN Transmit(s)
                ELSE IF heard[n] # Silence
                THEN Hear(n, s, node[heard[n]], gives_up)
                ELSE Listen(s, N_TX_COMPLETE, threshold[n])
           t == Step(n, heard, threshold, fails, soon)
<1>1. /\ s \in NodeState /\ s.state = node[n].state
      /\ s.agree = node[n].agree /\ s.got_valid_rx = node[n].got_valid_rx
      /\ gives_up => /\ n = Initiator /\ node[n].phase = PHASE_PRE_COMMIT
                     /\ s.phase = PHASE_ABORT_TIMEOUT
                     /\ s.flags = {n} /\ s.votes = {n}
      /\ ~gives_up => s = node[n]
  <2>1. CASE gives_up
    <3>1. PHASE_ABORT_TIMEOUT \in Phases
      BY DEF Phases
    <3> QED
      BY <2>1, <3>1, EnterEffect DEF TimesOut
  <2>2. CASE ~gives_up
    BY <2>2
  <2> QED
    BY <2>1, <2>2
<1>2. /\ node[n].state = "OFF" => t = node[n]
      /\ node[n].state # "OFF" => t = Finish(n, r, fails)
  BY <1>1 DEF Step
<1>3. RestartDue(s) => threshold[n] \in Thresholds
  <2>1. RestartDue(s) => RestartDue(node[n])
    BY EnterTimer DEF Phases
  <2> QED
    BY <2>1 DEF ThresholdDraws
<1>4. \E th \in Thresholds :
        Listen(s, N_TX_COMPLETE, threshold[n]) = Listen(s, N_TX_COMPLETE, th)
  <2>1. CASE RestartDue(s)
    BY <1>3, <2>1
  <2>2. CASE ~RestartDue(s)
    <3>1. s.restart_threshold \in Thresholds
      BY <1>1 DEF NodeState
    <3> QED
      BY <2>2, <3>1 DEF Listen
  <2> QED
    BY <2>1, <2>2
<1>5. /\ s.state = "TX" => r = Transmit(s)
      /\ s.state # "TX" /\ heard[n] # Silence =>
           r = Hear(n, s, node[heard[n]], gives_up)
      /\ s.state # "TX" /\ heard[n] = Silence =>
           r = Listen(s, N_TX_COMPLETE, threshold[n])
  OBVIOUS
<1>6. gives_up \in BOOLEAN
  BY DEF TimesOut
<1> HIDE DEF s, r, gives_up
(* A slot in which only the radio moves on. *)
<1>7. ASSUME r \in NodeState, SameProtocol(s, r),
             r.state = "TX" => s.got_valid_rx
      PROVE  NodeMove(n, node[n], r)
  BY <1>1, <1>7 DEF NodeMove, SameProtocol, GivesUp
<1>8. CASE s.state = "OFF"
  BY <1>1, <1>2, <1>8 DEF NodeMove, SameProtocol
<1>9. CASE s.state = "TX"
  <2>1. r \in NodeState /\ SameProtocol(s, r) /\ r.state # "TX"
    BY <1>1, <1>5, <1>9, TransmitEffect
  <2> QED
    BY <1>1, <1>2, <1>7, <1>9, <2>1, FinishEffect
<1>10. CASE s.state = "RX" /\ heard[n] = Silence
  <2>1. /\ r \in NodeState /\ SameProtocol(s, r)
        /\ r.state = "TX" => s.got_valid_rx
    BY <1>1, <1>4, <1>5, <1>10, ListenEffect
  <2> QED
    BY <1>1, <1>2, <1>7, <1>10, <2>1, FinishEffect
<1>11. CASE s.state = "RX" /\ heard[n] # Silence
  <2> DEFINE k == heard[n]
  <2>1. k \in Nodes /\ node[k].state = "TX" /\ node[k] \in NodeState
    BY <1>1, <1>11 DEF Receptions, Listeners, Transmitters
  <2> HIDE DEF k
  <2>2. CASE gives_up
    <3>1. r = Hear(n, s, node[k], TRUE)
      BY <1>5, <1>6, <1>11, <2>2 DEF k
    <3>2. /\ r \in NodeState /\ r.got_valid_rx
          /\ r.phase = s.phase /\ r.flags = s.flags /\ r.votes = s.votes
          /\ r.agree = s.agree
      BY <1>1, <3>1, HearNothingEffect
    <3>3. NodeMove(n, node[n], r)
      BY <1>1, <2>2, <3>2 DEF NodeMove, GivesUp
    <3> QED
      BY <1>1, <1>2, <1>11, <3>2, <3>3, FinishEffect
  <2>3. CASE ~gives_up
    <3>1. r = Hear(n, node[n], node[k], FALSE)
      BY <1>1, <1>5, <1>6, <1>11, <2>3 DEF k
    <3>2. /\ r \in NodeState /\ HearMove(n, node[n], node[k], r)
      BY <2>1, <3>1, HearEffect
    <3>3. NodeMove(n, node[n], r)
      BY <2>1, <3>2 DEF NodeMove, HearMove
    <3> QED
      BY <1>1, <1>2, <1>11, <3>2, <3>3, FinishEffect
  <2> QED
    BY <2>2, <2>3
<1> QED
  BY <1>1, <1>8, <1>9, <1>10, <1>11 DEF NodeState

-----------------------------------------------------------------------------
(* The inductive invariant. *)
Typed ==
  /\ node \in [Nodes -> NodeState]
  /\ failed \subseteq Nodes
  /\ late \in BOOLEAN

(* The initiator agrees with itself; a node that has not heard anything has
   not agreed, sends nothing and is in the first phase. *)
HeardInv ==
  /\ node[Initiator].got_valid_rx /\ node[Initiator].agree
  /\ \A n \in Nodes :
       /\ node[n].state = "TX" => node[n].got_valid_rx
       /\ ~node[n].got_valid_rx => ~node[n].agree /\ node[n].phase = PHASE_PROPOSE

(* Votes are those of nodes that agree. On the way to a commit everybody has
   agreed, and a flag comes with a vote: what the comparison at 3pc.c:265
   grants to late nodes is theirs. *)
VotesInv ==
  \A n \in Nodes :
    /\ node[n].phase = PHASE_PROPOSE => \A m \in node[n].votes : node[m].agree
    /\ node[n].phase \in {PHASE_PRE_COMMIT, PHASE_COMMIT} =>
         /\ node[n].votes = node[n].flags
         /\ \A m \in Nodes : node[m].agree

(* The flags of PRE_COMMIT are those of nodes that have left PROPOSE. *)
FlagsInv ==
  \A n \in Nodes :
    node[n].phase = PHASE_PRE_COMMIT =>
      \A m \in node[n].flags : node[m].phase # PHASE_PROPOSE

(* The phases that nodes can be in while the initiator is in phase i. *)
Behind(i) ==
  CASE i = PHASE_PROPOSE -> {PHASE_PROPOSE}
    [] i = PHASE_PRE_COMMIT -> {PHASE_PROPOSE, PHASE_PRE_COMMIT}
    [] i = PHASE_COMMIT -> {PHASE_PRE_COMMIT, PHASE_COMMIT}
    [] i = PHASE_ABORT -> {PHASE_PROPOSE, PHASE_ABORT}
    [] i = PHASE_ABORT_TIMEOUT ->
         {PHASE_PROPOSE, PHASE_PRE_COMMIT, PHASE_ABORT_TIMEOUT}
    [] OTHER -> {}

PhaseInv == \A n \in Nodes : node[n].phase \in Behind(node[Initiator].phase)

Inv == Typed /\ HeardInv /\ VotesInv /\ FlagsInv /\ PhaseInv

(* The record of a node at the start of the round. *)
LEMMA RoundBeginEffect ==
  ASSUME NEW n \in Nodes, NEW value \in Values, NEW threshold \in Thresholds,
         NEW t, t = RoundBegin(n, value, threshold)
  PROVE  /\ t \in NodeState
         /\ t.phase = PHASE_PROPOSE
         /\ t.votes = IF n = Initiator THEN {n} ELSE {}
         /\ t.agree <=> n = Initiator
         /\ t.got_valid_rx <=> n = Initiator
         /\ t.state = IF n = Initiator THEN "TX" ELSE "RX"
<1>1. 0 \in 0..(N_TX_COMPLETE + 1) /\ 0 \in 0..CHAOS_RESTART_MAX
  BY ChaosAssumption DEF ChaosAssumption
<1> QED
  BY <1>1 DEF RoundBegin, NodeState, Phases

(* Every node as the round begins. *)
LEMMA InitState ==
  ASSUME Init, NEW n \in Nodes
  PROVE  /\ node[n] \in NodeState
         /\ node[n].phase = PHASE_PROPOSE
         /\ node[n].votes = (IF n = Initiator THEN {n} ELSE {})
         /\ (node[n].agree <=> n = Initiator)
         /\ (node[n].got_valid_rx <=> n = Initiator)
         /\ (node[n].state = "TX" => n = Initiator)
<1>1. PICK v \in Values, th \in Thresholds, fails \in SUBSET Nodes :
        node[n] = Finish(n, RoundBegin(n, v, th), fails)
  BY DEF Init, FailureDraws
<1> DEFINE r == RoundBegin(n, v, th)
<1>2. r \in NodeState /\ r.phase = PHASE_PROPOSE
  BY RoundBeginEffect
<1>3. /\ r.votes = (IF n = Initiator THEN {n} ELSE {})
      /\ (r.agree <=> n = Initiator)
      /\ (r.got_valid_rx <=> n = Initiator)
  BY RoundBeginEffect
<1>4. r.state = (IF n = Initiator THEN "TX" ELSE "RX")
  BY RoundBeginEffect
<1>5. node[n] = IF n \in fails THEN Stopped(r) ELSE r
  BY <1>1 DEF Finish
<1> HIDE DEF r
<1>6. /\ Stopped(r) \in NodeState
      /\ Stopped(r).state = "OFF" /\ Stopped(r).phase = r.phase
      /\ Stopped(r).votes = r.votes /\ Stopped(r).agree = r.agree
      /\ Stopped(r).got_valid_rx = r.got_valid_rx
  BY <1>2 DEF Stopped, NodeState
<1>7. CASE n \in fails
  BY <1>2, <1>3, <1>5, <1>6, <1>7
<1>8. CASE n \notin fails
  BY <1>2, <1>3, <1>4, <1>5, <1>8
<1> QED
  BY <1>7, <1>8

LEMMA InitInv == Init => Inv
<1> SUFFICES ASSUME Init PROVE Inv
  OBVIOUS
<1>1. \A n \in Nodes :
        /\ node[n] \in NodeState
        /\ node[n].phase = PHASE_PROPOSE
        /\ node[n].votes = (IF n = Initiator THEN {n} ELSE {})
        /\ (node[n].agree <=> n = Initiator)
        /\ (node[n].got_valid_rx <=> n = Initiator)
        /\ (node[n].state = "TX" => n = Initiator)
  BY InitState
<1>2. Initiator \in Nodes
  BY ChaosAssumption DEF ChaosAssumption
<1>3. Typed
  BY <1>1 DEF Typed, Init, FailureDraws
<1>4. HeardInv
  BY <1>1, <1>2 DEF HeardInv
<1>5. VotesInv
  <2>1. PHASE_PROPOSE \notin {PHASE_PRE_COMMIT, PHASE_COMMIT}
    BY DEF PHASE_PROPOSE, PHASE_PRE_COMMIT, PHASE_COMMIT
  <2>2. ASSUME NEW n \in Nodes, NEW m \in node[n].votes
        PROVE  node[m].agree
    <3>1. node[n].votes = (IF n = Initiator THEN {n} ELSE {})
      BY InitState
    <3>2. n = Initiator /\ m = n
      BY <3>1
    <3> QED
      BY <1>1, <3>2
  <2> QED
    BY <1>1, <2>1, <2>2 DEF VotesInv
<1>6. FlagsInv
  <2>1. PHASE_PROPOSE # PHASE_PRE_COMMIT
    BY DEF PHASE_PROPOSE, PHASE_PRE_COMMIT
  <2> QED
    BY <1>1, <2>1 DEF FlagsInv
<1>7. PhaseInv
  <2>1. PHASE_PROPOSE \in Behind(PHASE_PROPOSE)
    BY DEF Behind
  <2> QED
    BY <1>1, <1>2, <2>1 DEF PhaseInv
<1> QED
  BY <1>3, <1>4, <1>5, <1>6, <1>7 DEF Inv

-----------------------------------------------------------------------------
(* What a slot does to all nodes. *)
Moves ==
  /\ \A n \in Nodes : NodeMove(n, node[n], node'[n])
  /\ node' \in [Nodes -> NodeState]
  /\ failed' \subseteq Nodes /\ late' \in BOOLEAN

LEMMA NextMoves ==
  ASSUME Inv, Next
  PROVE  Moves
<1>1. PICK soon \in {late, TRUE}, heard \in Receptions(node, Transmitters(node)),
           threshold \in ThresholdDraws(node),
           fails \in FailureDraws(Active(node), failed) :
        /\ node' = [n \in Nodes |-> Step(n, heard, threshold, fails, soon)]
        /\ failed' = failed \cup fails
        /\ late' = soon
  BY DEF Next, Slot
<1>2. /\ node[Initiator].got_valid_rx
      /\ \A n \in Nodes : /\ node[n] \in NodeState
                          /\ node[n].state = "TX" => node[n].got_valid_rx
  BY DEF Inv, Typed, HeardInv
<1>3. \A n \in Nodes : NodeMove(n, node[n], node'[n])
  <2> SUFFICES ASSUME NEW n \in Nodes
               PROVE  NodeMove(n, node[n], node'[n])
    OBVIOUS
  <2>1. node'[n] = Step(n, heard, threshold, fails, soon)
    BY <1>1
  <2> QED
    BY <1>2, <2>1, StepEffect
<1>4. failed' \subseteq Nodes /\ late' \in BOOLEAN
  BY <1>1 DEF FailureDraws, Active, Inv, Typed
<1>5. node' \in [Nodes -> NodeState]
  BY <1>1, <1>3 DEF NodeMove
<1> QED
  BY <1>3, <1>4, <1>5 DEF Moves

(* The pairs of phases that PhaseInv allows, with i for the initiator. *)
LEMMA BehindIs ==
  ASSUME NEW i \in Phases, NEW a, a \in Behind(i)
  PROVE  \/ i = PHASE_PROPOSE /\ a = PHASE_PROPOSE
         \/ i = PHASE_PRE_COMMIT /\ a \in {PHASE_PROPOSE, PHASE_PRE_COMMIT}
         \/ i = PHASE_COMMIT /\ a \in {PHASE_PRE_COMMIT, PHASE_COMMIT}
         \/ i = PHASE_ABORT /\ a \in {PHASE_PROPOSE, PHASE_ABORT}
         \/ /\ i = PHASE_ABORT_TIMEOUT
            /\ a \in {PHASE_PROPOSE, PHASE_PRE_COMMIT, PHASE_ABORT_TIMEOUT}
BY DEF Behind, Phases, PHASE_PROPOSE, PHASE_PRE_COMMIT, PHASE_COMMIT,
       PHASE_ABORT, PHASE_ABORT_TIMEOUT, PHASE_FAIL

(* With the invariant no vote is missing in COMMIT. *)
LEMMA NothingMissing ==
  ASSUME Inv, NEW n \in Nodes, NEW k \in Nodes, NEW t
  PROVE  ~FindsMissing(node[n], node[k], t)
<1> SUFFICES ASSUME FindsMissing(node[n], node[k], t) PROVE FALSE
  OBVIOUS
<1>1. /\ node[n].phase = PHASE_COMMIT /\ node[k].phase = PHASE_COMMIT
      /\ node[n].flags \cup node[k].flags = Nodes
      /\ node[n].got_valid_rx => node[n].votes \cup node[k].votes # Nodes
  BY DEF FindsMissing
<1>2. node[n].votes = node[n].flags /\ node[k].votes = node[k].flags
  BY <1>1 DEF Inv, VotesInv
<1>3. node[n].got_valid_rx
  <2>1. PHASE_COMMIT # PHASE_PROPOSE
    BY DEF PHASE_COMMIT, PHASE_PROPOSE
  <2> QED
    BY <1>1, <2>1 DEF Inv, Typed, HeardInv, NodeState
<1> QED
  BY <1>1, <1>2, <1>3

(* Whoever has joined and agreed stays so. *)
LEMMA AgreeStays ==
  ASSUME Inv, Moves, NEW n \in Nodes
  PROVE  /\ node[n].got_valid_rx => node'[n].got_valid_rx
         /\ node[n].agree => node'[n].agree /\ node[n].got_valid_rx
<1>1. NodeMove(n, node[n], node'[n])
  BY DEF Moves
<1>2. node[n].agree => node[n].got_valid_rx
  BY DEF Inv, HeardInv
<1> QED
  BY <1>1, <1>2 DEF NodeMove, SameProtocol, GivesUp, HearMove
(* How a phase may change. *)
LEMMA PhaseMove ==
  ASSUME Inv, Moves, NEW n \in Nodes
  PROVE  \/ node'[n].phase = node[n].phase
         \/ /\ n # Initiator /\ node'[n].phase > node[n].phase
            /\ \E k \in Nodes : node'[n].phase = node[k].phase
         \/ /\ n = Initiator /\ node[n].phase = PHASE_PROPOSE
            /\ node'[n].phase = PHASE_PRE_COMMIT
            /\ \A m \in Nodes : node[m].agree
         \/ /\ n = Initiator /\ node[n].phase = PHASE_PROPOSE
            /\ node'[n].phase = PHASE_ABORT
         \/ /\ n = Initiator /\ node[n].phase = PHASE_PRE_COMMIT
            /\ node'[n].phase = PHASE_COMMIT
            /\ \A m \in Nodes : node[m].phase = PHASE_PRE_COMMIT
         \/ /\ n = Initiator /\ node[n].phase = PHASE_PRE_COMMIT
            /\ node'[n].phase = PHASE_ABORT_TIMEOUT
<1> DEFINE s == node[n]
           t == node'[n]
<1>1. NodeMove(n, s, t) /\ Initiator \in Nodes
  BY ChaosAssumption DEF Moves, ChaosAssumption
<1>2. \A m \in Nodes : /\ node[m] \in NodeState
                       /\ node[m].phase \in Behind(node[Initiator].phase)
  BY DEF Inv, Typed, PhaseInv
<1>3. CASE SameProtocol(s, t)
  BY <1>3 DEF SameProtocol
<1>4. CASE GivesUp(n, s, t)
  BY <1>4 DEF GivesUp
<1>5. ASSUME NEW k \in Nodes, Follows(n, s, node[k], t)
      PROVE  n # Initiator /\ t.phase > s.phase /\ t.phase = node[k].phase
  <2>1. t.phase > s.phase /\ t.phase = node[k].phase
    BY <1>5 DEF Follows
  <2>2. ~(node[k].phase > node[Initiator].phase)
    <3>1. node[Initiator].phase \in Phases
      BY <1>1, <1>2 DEF NodeState
    <3> QED
      BY <1>2, <3>1, BehindIs
         DEF PHASE_PROPOSE, PHASE_PRE_COMMIT, PHASE_COMMIT, PHASE_ABORT,
             PHASE_ABORT_TIMEOUT
  <2> QED
    BY <2>1, <2>2
<1>6. ASSUME NEW k \in Nodes, Advances(n, s, node[k], t),
             s.phase = PHASE_PROPOSE
      PROVE  /\ n = Initiator
             /\ \/ t.phase = PHASE_PRE_COMMIT /\ \A m \in Nodes : node[m].agree
                \/ t.phase = PHASE_ABORT
  <2>1. /\ n = Initiator /\ node[k].phase = PHASE_PROPOSE
        /\ t.phase = IF s.votes \cup node[k].votes = Nodes
                     THEN s.phase + 1 ELSE PHASE_ABORT
    BY <1>6 DEF Advances
  <2>2. \A m \in s.votes \cup node[k].votes : node[m].agree
    BY <1>6, <2>1 DEF Inv, VotesInv
  <2>3. s.phase + 1 = PHASE_PRE_COMMIT
    BY <1>6, PhaseOrder
  <2> QED
    BY <2>1, <2>2, <2>3
<1>7. ASSUME NEW k \in Nodes, Advances(n, s, node[k], t),
             s.phase = PHASE_PRE_COMMIT
      PROVE  /\ n = Initiator /\ t.phase = PHASE_COMMIT
             /\ \A m \in Nodes : node[m].phase = PHASE_PRE_COMMIT
  <2>1. /\ n = Initiator /\ node[k].phase = PHASE_PRE_COMMIT
        /\ s.flags \cup node[k].flags = Nodes
        /\ t.phase = IF s.votes \cup node[k].votes = Nodes
                     THEN s.phase + 1 ELSE PHASE_ABORT
    BY <1>7 DEF Advances
  <2>2. s.votes = s.flags /\ node[k].votes = node[k].flags
    BY <1>7, <2>1 DEF Inv, VotesInv
  <2>3. t.phase = PHASE_COMMIT
    BY <1>7, <2>1, <2>2, PhaseOrder
  <2>4. \A m \in Nodes : node[m].phase # PHASE_PROPOSE
    BY <1>7, <2>1 DEF Inv, FlagsInv
  <2>5. \A m \in Nodes : node[m].phase \in {PHASE_PROPOSE, PHASE_PRE_COMMIT}
    <3>1. Behind(PHASE_PRE_COMMIT) = {PHASE_PROPOSE, PHASE_PRE_COMMIT}
      BY DEF Behind, PHASE_PROPOSE, PHASE_PRE_COMMIT, PHASE_COMMIT, PHASE_ABORT,
             PHASE_ABORT_TIMEOUT
    <3> QED
      BY <1>2, <1>7, <2>1, <3>1
  <2> QED
    BY <2>1, <2>3, <2>4, <2>5
<1>8. ASSUME NEW k \in Nodes, HearMove(n, s, node[k], t)
      PROVE  \/ t.phase = s.phase
             \/ Follows(n, s, node[k], t)
             \/ Advances(n, s, node[k], t)
  BY <1>8, NothingMissing DEF HearMove, StaysInPhase
<1>9. \A k : Advances(n, s, node[k], t) =>
               s.phase \in {PHASE_PROPOSE, PHASE_PRE_COMMIT}
  BY DEF Advances
<1> QED
  BY <1>1, <1>3, <1>4, <1>5, <1>6, <1>7, <1>8, <1>9 DEF NodeMove
(* A node that has left PROPOSE does not come back. *)
LEMMA LeavesPropose ==
  ASSUME Inv, Moves, NEW n \in Nodes, node[n].phase # PHASE_PROPOSE
  PROVE  node'[n].phase # PHASE_PROPOSE
<1>1. node[n].phase \in Phases /\ node'[n].phase \in Phases
  BY DEF Inv, Typed, Moves, NodeState
<1>2. node[n].phase \in Nat /\ node[n].phase > PHASE_PROPOSE
  BY <1>1, PhaseOrder
<1>3. CASE node'[n].phase > node[n].phase
  BY <1>1, <1>2, <1>3, PhaseOrder DEF PHASE_PROPOSE
<1>4. CASE ~(node'[n].phase > node[n].phase)
  BY <1>4, PhaseMove
     DEF PHASE_PROPOSE, PHASE_PRE_COMMIT, PHASE_COMMIT, PHASE_ABORT,
         PHASE_ABORT_TIMEOUT
<1> QED
  BY <1>3, <1>4

LEMMA NextPhaseInv ==
  ASSUME Inv, Moves
  PROVE  PhaseInv'
<1> SUFFICES ASSUME NEW n \in Nodes
             PROVE  node'[n].phase \in Behind(node'[Initiator].phase)
  BY DEF PhaseInv, Behind
<1> DEFINE i == node[Initiator].phase
           j == node'[Initiator].phase
           a == node[n].phase
           b == node'[n].phase
<1>1. Initiator \in Nodes /\ i \in Phases
  BY ChaosAssumption DEF ChaosAssumption, Inv, Typed, NodeState
<1>2. \A m \in Nodes : node[m].phase \in Behind(i)
  BY DEF Inv, PhaseInv
<1>3. \/ j = i
      \/ i = PHASE_PROPOSE /\ j \in {PHASE_PRE_COMMIT, PHASE_ABORT}
      \/ /\ i = PHASE_PRE_COMMIT /\ j = PHASE_COMMIT
         /\ \A m \in Nodes : node[m].phase = PHASE_PRE_COMMIT
      \/ i = PHASE_PRE_COMMIT /\ j = PHASE_ABORT_TIMEOUT
  BY <1>1, PhaseMove
<1>4. CASE n = Initiator
  <2>1. b = j /\ j \in {i, PHASE_PRE_COMMIT, PHASE_ABORT, PHASE_COMMIT,
                        PHASE_ABORT_TIMEOUT}
    BY <1>3, <1>4
  <2>2. i \in Behind(i)
    BY <1>1, <1>2
  <2>3. \A x \in {PHASE_PRE_COMMIT, PHASE_ABORT, PHASE_COMMIT,
                  PHASE_ABORT_TIMEOUT} : x \in Behind(x)
    BY DEF Behind, PHASE_PROPOSE, PHASE_PRE_COMMIT, PHASE_COMMIT, PHASE_ABORT,
           PHASE_ABORT_TIMEOUT
  <2> QED
    BY <2>1, <2>2, <2>3
<1>5. CASE n # Initiator
  <2>1. PICK k \in Nodes : b = node[k].phase /\ (b = a \/ b > a)
    BY <1>5, PhaseMove
  <2> DEFINE c == node[k].phase
  <2>2. a \in Behind(i) /\ c \in Behind(i)
    BY <1>2
  <2>3. (\A m \in Nodes : node[m].phase = PHASE_PRE_COMMIT) =>
           a = PHASE_PRE_COMMIT /\ c = PHASE_PRE_COMMIT
    OBVIOUS
  <2> HIDE DEF a, b, c, i, j
  <2>4. b = c /\ (b = a \/ b > a)
    BY <2>1 DEF a, b, c
  <2>5. \/ j = i
        \/ i = PHASE_PROPOSE /\ j \in {PHASE_PRE_COMMIT, PHASE_ABORT}
        \/ i = PHASE_PRE_COMMIT /\ j = PHASE_COMMIT /\ c = PHASE_PRE_COMMIT
        \/ i = PHASE_PRE_COMMIT /\ j = PHASE_ABORT_TIMEOUT
    BY <1>3, <2>3
  <2>6. CASE j = i
    BY <2>2, <2>4, <2>6 DEF b, j
  <2>7. CASE i = PHASE_PROPOSE /\ j \in {PHASE_PRE_COMMIT, PHASE_ABORT}
    <3>1. b = PHASE_PROPOSE
      BY <1>1, <2>2, <2>4, <2>7, BehindIs
         DEF PHASE_PROPOSE, PHASE_PRE_COMMIT, PHASE_COMMIT, PHASE_ABORT,
             PHASE_ABORT_TIMEOUT
    <3> QED
      BY <2>7, <3>1
         DEF Behind, PHASE_PROPOSE, PHASE_PRE_COMMIT, PHASE_COMMIT, PHASE_ABORT,
             b, j
  <2>8. CASE i = PHASE_PRE_COMMIT /\ j = PHASE_COMMIT /\ c = PHASE_PRE_COMMIT
    <3>1. Behind(PHASE_COMMIT) = {PHASE_PRE_COMMIT, PHASE_COMMIT}
      BY DEF Behind, PHASE_PROPOSE, PHASE_PRE_COMMIT, PHASE_COMMIT, PHASE_ABORT,
             PHASE_ABORT_TIMEOUT
    <3> QED
      BY <2>4, <2>8, <3>1 DEF b, j
  <2>9. CASE i = PHASE_PRE_COMMIT /\ j = PHASE_ABORT_TIMEOUT
    <3>1. b \in {PHASE_PROPOSE, PHASE_PRE_COMMIT}
      BY <1>1, <2>2, <2>4, <2>9, BehindIs
         DEF PHASE_PROPOSE, PHASE_PRE_COMMIT, PHASE_COMMIT, PHASE_ABORT,
             PHASE_ABORT_TIMEOUT
    <3> QED
      BY <2>9, <3>1
         DEF Behind, PHASE_PROPOSE, PHASE_PRE_COMMIT, PHASE_COMMIT, PHASE_ABORT,
             PHASE_ABORT_TIMEOUT, b, j
  <2> QED
    BY <2>5, <2>6, <2>7, <2>8, <2>9
<1> QED
  BY <1>4, <1>5

(* The first part of VotesInv for one node. *)
LEMMA NextProposeVotes ==
  ASSUME Inv, Moves, NEW n \in Nodes, node'[n].phase = PHASE_PROPOSE,
         NEW m \in node'[n].votes
  PROVE  node'[m].agree
<1>1. /\ NodeMove(n, node[n], node'[n]) /\ node[n].phase = PHASE_PROPOSE
      /\ m \in Nodes
  BY LeavesPropose DEF Moves, NodeState
<1>2. node[m].agree => node'[m].agree
  BY <1>1, AgreeStays
<1>3. CASE SameProtocol(node[n], node'[n])
  BY <1>1, <1>2, <1>3 DEF SameProtocol, Inv, VotesInv
<1>4. CASE GivesUp(n, node[n], node'[n])
  BY <1>1, <1>4 DEF GivesUp, PHASE_PROPOSE, PHASE_PRE_COMMIT
<1>5. ASSUME NEW k \in Nodes, HearMove(n, node[n], node[k], node'[n])
      PROVE  node'[m].agree
  <2>1. StaysInPhase(n, node[n], node[k], node'[n])
    <3>1. ~Follows(n, node[n], node[k], node'[n])
      BY <1>1 DEF Follows, PHASE_PROPOSE
    <3>2. ~Advances(n, node[n], node[k], node'[n])
      BY <1>1
         DEF Advances, PHASE_PROPOSE, PHASE_ABORT
    <3> QED
      BY <1>5, <3>1, <3>2, NothingMissing DEF HearMove
  <2>2. \/ m \in node[n].votes
        \/ node[k].phase = PHASE_PROPOSE /\ m \in node[k].votes
        \/ m = n /\ node'[n].agree
    BY <1>1, <2>1 DEF StaysInPhase
  <2> QED
    BY <1>1, <1>2, <2>2 DEF Inv, VotesInv
<1> QED
  BY <1>1, <1>3, <1>4, <1>5 DEF NodeMove

(* The second part of VotesInv for one node, and FlagsInv. *)
LEMMA NextCommitVotes ==
  ASSUME Inv, Moves, NEW n \in Nodes,
         node'[n].phase \in {PHASE_PRE_COMMIT, PHASE_COMMIT}
  PROVE  /\ node'[n].votes = node'[n].flags
         /\ \A m \in Nodes : node'[m].agree
         /\ node'[n].phase = PHASE_PRE_COMMIT =>
              \A m \in node'[n].flags : node'[m].phase # PHASE_PROPOSE
<1> DEFINE s == node[n]
           t == node'[n]
<1>1. /\ NodeMove(n, s, t) /\ t \in NodeState
      /\ \A m \in Nodes : /\ node[m].agree => node'[m].agree
                          /\ node[m].phase # PHASE_PROPOSE =>
                               node'[m].phase # PHASE_PROPOSE
  BY AgreeStays, LeavesPropose DEF Moves
<1>2. t.phase # PHASE_PROPOSE
  BY DEF PHASE_PROPOSE, PHASE_PRE_COMMIT, PHASE_COMMIT
<1>3. t.flags \subseteq Nodes
  BY <1>1 DEF NodeState
<1> HIDE DEF t
<1>4. ASSUME s.phase = t.phase
      PROVE  /\ s.votes = s.flags /\ s.got_valid_rx
             /\ \A m \in Nodes : node'[m].agree
             /\ t.phase = PHASE_PRE_COMMIT =>
                  \A m \in s.flags : node'[m].phase # PHASE_PROPOSE
  <2>1. s.phase \in {PHASE_PRE_COMMIT, PHASE_COMMIT} /\ s.flags \subseteq Nodes
    BY <1>4 DEF t, Inv, Typed, NodeState
  <2> QED
    BY <1>1, <1>2, <1>4, <2>1 DEF Inv, HeardInv, VotesInv, FlagsInv
<1>5. CASE SameProtocol(s, t)
  BY <1>4, <1>5 DEF SameProtocol, t
<1>6. CASE GivesUp(n, s, t)
  BY <1>6 DEF GivesUp, t, PHASE_PRE_COMMIT, PHASE_COMMIT, PHASE_ABORT_TIMEOUT
<1>7. ASSUME NEW k \in Nodes, HearMove(n, s, node[k], t)
      PROVE  /\ t.votes = t.flags
             /\ \A m \in Nodes : node'[m].agree
             /\ t.phase = PHASE_PRE_COMMIT =>
                  \A m \in t.flags : node'[m].phase # PHASE_PROPOSE
  <2> DEFINE p == node[k]
  <2>1. ASSUME p.phase = t.phase
        PROVE  /\ p.votes = p.flags
               /\ \A m \in Nodes : node'[m].agree
               /\ t.phase = PHASE_PRE_COMMIT =>
                    \A m \in p.flags : node'[m].phase # PHASE_PROPOSE
    <3>1. p.phase \in {PHASE_PRE_COMMIT, PHASE_COMMIT} /\ p.flags \subseteq Nodes
      BY <2>1 DEF t, Inv, Typed, NodeState
    <3> QED
      BY <1>1, <2>1, <3>1 DEF Inv, VotesInv, FlagsInv
  <2>2. CASE StaysInPhase(n, s, p, t)
    <3>1. s.phase = t.phase
      BY <2>2 DEF StaysInPhase
    <3>2. /\ t.flags = IF p.phase = s.phase THEN s.flags \cup p.flags
                       ELSE s.flags
          /\ t.votes = IF p.phase = s.phase THEN s.votes \cup p.votes
                       ELSE s.votes
      BY <1>4, <2>2, <3>1 DEF StaysInPhase
    <3> QED
      BY <1>4, <2>1, <3>1, <3>2
  <2>3. CASE Follows(n, s, p, t)
    <3>1. /\ p.phase = t.phase
          /\ t.flags = p.flags \cup {n} /\ t.votes = p.votes \cup {n}
      BY <2>3 DEF Follows
    <3> QED
      BY <1>2, <2>1, <3>1 DEF t
  <2>4. CASE Advances(n, s, p, t)
    <3>1. t.flags = {n} /\ t.votes = {n}
      BY <2>4 DEF Advances
    <3>2. \A m \in Nodes : node[m].agree
      <4>1. CASE s.phase = PHASE_PRE_COMMIT
        BY <4>1 DEF Inv, VotesInv
      <4>2. CASE s.phase = PHASE_PROPOSE
        <5>1. s.votes \cup p.votes = Nodes /\ p.phase = PHASE_PROPOSE
          BY <2>4, <4>2 DEF Advances, t, PHASE_ABORT, PHASE_PRE_COMMIT,
                            PHASE_COMMIT
        <5> QED
          BY <4>2, <5>1 DEF Inv, VotesInv
      <4> QED
        BY <2>4, <4>1, <4>2 DEF Advances
    <3> QED
      BY <1>1, <1>2, <3>1, <3>2 DEF t
  <2> QED
    BY <1>7, <2>2, <2>3, <2>4, NothingMissing DEF HearMove
<1> QED
  BY <1>1, <1>5, <1>6, <1>7 DEF NodeMove, t

(* Every slot preserves the invariant. *)
LEMMA NextInv ==
  ASSUME Inv, Next
  PROVE  Inv'
<1>1. Moves
  BY NextMoves
<1>2. Typed'
  BY <1>1 DEF Moves, Typed
<1>3. HeardInv'
  <2>1. node'[Initiator].got_valid_rx /\ node'[Initiator].agree
    BY <1>1, AgreeStays, ChaosAssumption DEF ChaosAssumption, Inv, HeardInv
  <2>2. ASSUME NEW n \in Nodes
        PROVE  /\ node'[n].state = "TX" => node'[n].got_valid_rx
               /\ ~node'[n].got_valid_rx =>
                    ~node'[n].agree /\ node'[n].phase = PHASE_PROPOSE
    <3>1. NodeMove(n, node[n], node'[n]) /\ node[n] \in NodeState
      BY <1>1 DEF Moves, Inv, Typed
    <3>2. CASE SameProtocol(node[n], node'[n])
      BY <3>1, <3>2 DEF SameProtocol, NodeMove, Inv, HeardInv
    <3>3. CASE GivesUp(n, node[n], node'[n])
      BY <2>1, <3>3 DEF GivesUp
    <3>4. CASE \E k \in Nodes : HearMove(n, node[n], node[k], node'[n])
      BY <3>4 DEF HearMove
    <3> QED
      BY <3>1, <3>2, <3>3, <3>4 DEF NodeMove
  <2> QED
    BY <2>1, <2>2 DEF HeardInv
<1>4. VotesInv'
  BY <1>1, NextProposeVotes, NextCommitVotes DEF VotesInv
<1>5. FlagsInv'
  BY <1>1, NextCommitVotes DEF FlagsInv
<1>6. PhaseInv'
  BY <1>1, NextPhaseInv
<1> QED
  BY <1>2, <1>3, <1>4, <1>5, <1>6 DEF Inv

(* The invariant holds throughout the round. *)
THEOREM Invariance == Spec => []Inv
<1>1. ASSUME Inv, UNCHANGED vars PROVE Inv'
  BY <1>1 DEF vars, Inv, Typed, HeardInv, VotesInv, FlagsInv, PhaseInv, Behind
<1> QED
  BY InitInv, NextInv, <1>1, PTL DEF Spec
-----------------------------------------------------------------------------
LEMMA InvTypeOK == Inv => TypeOK
BY DEF Inv, Typed, TypeOK, NodeOK, RadioOK, NodeState, Phases

(* What a node may decide, and what it may decide beside an abort by vote. *)
LEMMA DecisionsAre ==
  ASSUME Inv, NEW n \in Nodes
  PROVE  /\ node[n].phase = PHASE_COMMIT => Decisions(n) = {"COMMIT"}
         /\ node[n].phase = PHASE_ABORT => Decisions(n) = {"ABORT"}
         /\ node[n].phase = PHASE_PROPOSE => Decisions(n) = {"ABORT_TIMEOUT_APP"}
         /\ "ABORT" \in Decisions(n) => node[n].phase = PHASE_ABORT
         /\ node[n].phase # PHASE_COMMIT =>
              "COMMIT" \notin Decisions(n) /\ "FAIL" \notin Decisions(n)
         /\ node[n].phase = PHASE_PRE_COMMIT /\ n # Initiator =>
              Decisions(n) = {"COMMIT_TIMEOUT"}
<1>1. /\ node[n].phase \in Phases /\ node[Initiator].phase \in Phases
      /\ node[n].phase \in Behind(node[Initiator].phase)
  BY ChaosAssumption DEF ChaosAssumption, Inv, Typed, NodeState, PhaseInv
<1>2. node[n].phase # PHASE_FAIL
  BY <1>1, BehindIs
     DEF PHASE_PROPOSE, PHASE_PRE_COMMIT, PHASE_COMMIT, PHASE_ABORT,
         PHASE_ABORT_TIMEOUT, PHASE_FAIL
<1>3. node[n].phase = PHASE_COMMIT => node[n].agree
  BY DEF Inv, VotesInv
<1>4. CASE node[n].phase = PHASE_COMMIT
  BY <1>3, <1>4 DEF Decisions, PHASE_PROPOSE, PHASE_PRE_COMMIT, PHASE_COMMIT,
                    PHASE_ABORT, PHASE_ABORT_TIMEOUT, PHASE_FAIL
<1>5. CASE node[n].phase = PHASE_PRE_COMMIT
  BY <1>5 DEF Decisions, PHASE_PROPOSE, PHASE_PRE_COMMIT, PHASE_COMMIT,
              PHASE_ABORT, PHASE_ABORT_TIMEOUT, PHASE_FAIL
<1>6. CASE node[n].phase \in {PHASE_PROPOSE, PHASE_ABORT, PHASE_ABORT_TIMEOUT}
  BY <1>6 DEF Decisions, PHASE_PROPOSE, PHASE_PRE_COMMIT, PHASE_COMMIT,
              PHASE_ABORT, PHASE_ABORT_TIMEOUT, PHASE_FAIL
<1> QED
  BY <1>1, <1>2, <1>4, <1>5, <1>6 DEF Phases

(* One committed node implies a committed initiator and that nobody is left
   before PRE_COMMIT. *)
LEMMA CommittedPhases ==
  ASSUME Inv, NEW n \in Nodes, node[n].phase = PHASE_COMMIT
  PROVE  /\ node[Initiator].phase = PHASE_COMMIT
         /\ \A m \in Nodes : node[m].phase \in {PHASE_PRE_COMMIT, PHASE_COMMIT}
<1>1. /\ node[Initiator].phase \in Phases
      /\ \A m \in Nodes : node[m].phase \in Behind(node[Initiator].phase)
  BY ChaosAssumption DEF ChaosAssumption, Inv, Typed, NodeState, PhaseInv
<1>2. node[Initiator].phase = PHASE_COMMIT
  BY <1>1, BehindIs
     DEF PHASE_PROPOSE, PHASE_PRE_COMMIT, PHASE_COMMIT, PHASE_ABORT,
         PHASE_ABORT_TIMEOUT
<1>3. Behind(PHASE_COMMIT) = {PHASE_PRE_COMMIT, PHASE_COMMIT}
  BY DEF Behind, PHASE_PROPOSE, PHASE_PRE_COMMIT, PHASE_COMMIT, PHASE_ABORT,
         PHASE_ABORT_TIMEOUT
<1> QED
  BY <1>1, <1>2, <1>3

(* One node in ABORT implies that the initiator is, and that nobody else got
   further than PROPOSE. *)
LEMMA AbortedPhases ==
  ASSUME Inv, NEW n \in Nodes, node[n].phase = PHASE_ABORT
  PROVE  \A m \in Nodes : node[m].phase \in {PHASE_PROPOSE, PHASE_ABORT}
<1>1. /\ node[Initiator].phase \in Phases
      /\ \A m \in Nodes : node[m].phase \in Behind(node[Initiator].phase)
  BY ChaosAssumption DEF ChaosAssumption, Inv, Typed, NodeState, PhaseInv
<1>2. node[Initiator].phase = PHASE_ABORT
  BY <1>1, BehindIs
     DEF PHASE_PROPOSE, PHASE_PRE_COMMIT, PHASE_COMMIT, PHASE_ABORT,
         PHASE_ABORT_TIMEOUT
<1>3. Behind(PHASE_ABORT) = {PHASE_PROPOSE, PHASE_ABORT}
  BY DEF Behind, PHASE_PROPOSE, PHASE_PRE_COMMIT, PHASE_COMMIT, PHASE_ABORT,
         PHASE_ABORT_TIMEOUT
<1> QED
  BY <1>1, <1>2, <1>3

LEMMA InvVotedDecisionStands == Inv => VotedDecisionStands
<1>1. ASSUME Inv, NEW m \in Nodes, NEW n \in Nodes, "COMMIT" \in Decisions(n)
      PROVE  Decisions(m) \subseteq {"COMMIT", "COMMIT_TIMEOUT"}
  <2>1. node[n].phase = PHASE_COMMIT
    BY <1>1, DecisionsAre
  <2>2. /\ node[m].phase \in {PHASE_PRE_COMMIT, PHASE_COMMIT}
        /\ m = Initiator => node[m].phase = PHASE_COMMIT
    BY <1>1, <2>1, CommittedPhases
  <2> QED
    BY <1>1, <2>2, DecisionsAre
<1>2. ASSUME Inv, NEW m \in Nodes, NEW n \in Nodes, "ABORT" \in Decisions(n)
      PROVE  Decisions(m) \subseteq {"ABORT", "ABORT_TIMEOUT_APP"}
  <2>1. node[n].phase = PHASE_ABORT
    BY <1>2, DecisionsAre
  <2>2. node[m].phase \in {PHASE_PROPOSE, PHASE_ABORT}
    BY <1>2, <2>1, AbortedPhases
  <2> QED
    BY <1>2, <2>2, DecisionsAre
<1> QED
  BY <1>1, <1>2 DEF VotedDecisionStands

LEMMA InvNoFail == Inv => NoFail
BY DecisionsAre DEF NoFail

LEMMA InvRefusalIsFinal == Inv => RefusalIsFinal
BY DEF RefusalIsFinal, Inv, VotesInv

(* Type correctness of a 3PC round (the counters of 3pc.c:292-313). *)
THEOREM TypeCorrect == Spec => []TypeOK
BY Invariance, InvTypeOK, PTL

(* What the votes decided is contradicted by no node's timeout (3pc.c:158,
   3pc-app.c:84-125), whatever is lost, whoever stops and whenever the initiator
   times out. *)
THEOREM Unanimity == Spec => []VotedDecisionStands
BY Invariance, InvVotedDecisionStands, PTL

(* The branch "XXX this should not happen" (3pc.c:240) is never taken. *)
THEOREM FailIsUnreachable == Spec => []NoFail
BY Invariance, InvNoFail, PTL

(* One refusal keeps everybody off the path to a commit (3pc-app.c:101). *)
THEOREM RefusalBinds == Spec => []RefusalIsFinal
BY Invariance, InvRefusalIsFinal, PTL

-----------------------------------------------------------------------------
(* The refinement of atomic commitment. *)
Standing == [n \in Nodes |-> Stand(n)]
Commitment == INSTANCE AtomicCommit WITH Participant <- Nodes, stand <- Standing

(* Where a node stands, by its phase. *)
StandOf(phase) ==
  CASE phase = PHASE_PROPOSE -> "undecided"
    [] phase = PHASE_PRE_COMMIT -> "prepared"
    [] phase = PHASE_COMMIT -> "committed"
    [] OTHER -> "aborted"

LEMMA StandIs ==
  /\ StandOf(PHASE_PROPOSE) = "undecided"
  /\ StandOf(PHASE_PRE_COMMIT) = "prepared"
  /\ StandOf(PHASE_COMMIT) = "committed"
  /\ StandOf(PHASE_ABORT) = "aborted"
  /\ StandOf(PHASE_ABORT_TIMEOUT) = "aborted"
  /\ StandOf(PHASE_FAIL) = "aborted"
BY DEF StandOf, PHASE_PROPOSE, PHASE_PRE_COMMIT, PHASE_COMMIT, PHASE_ABORT,
       PHASE_ABORT_TIMEOUT, PHASE_FAIL

LEMMA InitStands ==
  ASSUME Init
  PROVE  Commitment!Init
<1>1. \A n \in Nodes : Stand(n) = "undecided"
  <2>1. \A n \in Nodes : Stand(n) = StandOf(node[n].phase)
    BY DEF Stand, StandOf
  <2>2. \A n \in Nodes : node[n].phase = PHASE_PROPOSE
    BY InitState
  <2> QED
    BY <2>1, <2>2, StandIs
<1> QED
  BY <1>1 DEF Commitment!Init, Standing

(* A slot moves every participant as the abstract protocol allows. *)
LEMMA NextStands ==
  ASSUME Inv, Next
  PROVE  Commitment!Next
<1>1. Moves
  BY NextMoves
<1>2. Inv'
  BY NextInv
<1>3. Initiator \in Nodes
  BY ChaosAssumption DEF ChaosAssumption
<1>4. \A n \in Nodes : /\ Standing[n] = StandOf(node[n].phase)
                       /\ Standing'[n] = StandOf(node'[n].phase)
  BY DEF Standing, Stand, StandOf
<1>5. \A n \in Nodes : /\ node[n].phase \in Phases
                       /\ node'[n].phase \in Phases
  BY <1>2 DEF Inv, Typed, NodeState
<1>6. ASSUME NEW n \in Nodes
      PROVE  Commitment!MayMove(n, Standing'[n])
  <2> DEFINE a == node[n].phase
             b == node'[n].phase
             i == node[Initiator].phase
  <2>1. /\ i \in Phases /\ a \in Behind(i)
        /\ \A k \in Nodes : node[k].phase \in Behind(i)
    BY <1>3, <1>5 DEF Inv, PhaseInv
  <2>2. CASE b = PHASE_COMMIT /\ a # b
    <3>1. \A m \in Nodes : node[m].phase \in {PHASE_PRE_COMMIT, PHASE_COMMIT}
      BY <1>1, <2>2, PhaseMove, CommittedPhases
         DEF PHASE_PRE_COMMIT, PHASE_COMMIT, PHASE_ABORT, PHASE_ABORT_TIMEOUT
    <3>2. \A m \in Nodes : Standing[m] \in {"prepared", "committed"}
      BY <1>4, <3>1, StandIs
    <3>3. Standing[n] = "prepared" /\ Standing'[n] = "committed"
      BY <1>4, <2>2, <3>1, StandIs
    <3> QED
      BY <3>2, <3>3 DEF Commitment!MayMove, Commitment!CanCommit
  <2>3. CASE b \in {PHASE_ABORT, PHASE_ABORT_TIMEOUT} /\ a # b
    <3>1. \/ i \in {PHASE_PROPOSE, PHASE_PRE_COMMIT}
          \/ \E k \in Nodes : b = node[k].phase
      BY <1>1, <2>3, PhaseMove
    <3>2. i # PHASE_COMMIT
      BY <2>1, <2>3, <3>1, BehindIs
         DEF PHASE_PROPOSE, PHASE_PRE_COMMIT, PHASE_COMMIT, PHASE_ABORT,
             PHASE_ABORT_TIMEOUT
    <3>3. \A m \in Nodes : node[m].phase # PHASE_COMMIT
      BY <3>2, CommittedPhases
    <3>4. Standing'[n] = "aborted"
      BY <1>4, <2>3, StandIs
    <3>5. \A m \in Nodes :
            Standing[m] \in {"undecided", "prepared", "aborted"}
      BY <1>4, <1>5, <3>3, StandIs DEF Phases
    <3> QED
      BY <3>4, <3>5 DEF Commitment!MayMove, Commitment!CanAbort
  <2>4. CASE b = PHASE_PRE_COMMIT /\ a # b
    <3>1. a = PHASE_PROPOSE
      <4>1. n = Initiator \/ b > a
        BY <1>1, <2>4, PhaseMove
      <4>2. n # Initiator => b > a
        BY <4>1
      <4>3. CASE n = Initiator
        BY <1>1, <2>4, <4>3, PhaseMove
           DEF PHASE_PROPOSE, PHASE_PRE_COMMIT, PHASE_COMMIT, PHASE_ABORT,
               PHASE_ABORT_TIMEOUT
      <4>4. CASE n # Initiator
        BY <1>5, <2>4, <4>2, <4>4
           DEF Phases, PHASE_PROPOSE, PHASE_PRE_COMMIT, PHASE_COMMIT,
               PHASE_ABORT, PHASE_ABORT_TIMEOUT, PHASE_FAIL
      <4> QED
        BY <4>3, <4>4
    <3>2. Standing[n] = "undecided" /\ Standing'[n] = "prepared"
      BY <1>4, <2>4, <3>1, StandIs
    <3> QED
      BY <3>2 DEF Commitment!MayMove
  <2>5. CASE a = b
    BY <1>4, <2>5 DEF Commitment!MayMove
  <2>6. b \notin {PHASE_PROPOSE, PHASE_FAIL} \/ a = b
    <3>1. b # PHASE_FAIL
      <4>1. Initiator \in Nodes /\ (PhaseInv)'
        BY <1>2, <1>3 DEF Inv
      <4>2. /\ node'[Initiator].phase \in Phases
            /\ b \in Behind(node'[Initiator].phase)
        BY <1>5, <4>1 DEF PhaseInv, Behind
      <4> QED
        BY <4>2, BehindIs
           DEF PHASE_PROPOSE, PHASE_PRE_COMMIT, PHASE_COMMIT, PHASE_ABORT,
               PHASE_ABORT_TIMEOUT, PHASE_FAIL
    <3>2. b = PHASE_PROPOSE => a = PHASE_PROPOSE
      BY <1>1, LeavesPropose
    <3> QED
      BY <3>1, <3>2
  <2> QED
    BY <1>5, <2>2, <2>3, <2>4, <2>5, <2>6 DEF Phases
<1>7. Standing' \in [Nodes -> Commitment!Stands]
  <2>1. \A n \in Nodes : Standing'[n] \in Commitment!Stands
    BY <1>4, <1>5, StandIs DEF Phases, Commitment!Stands
  <2> QED
    BY <2>1 DEF Standing
<1> QED
  BY <1>6, <1>7 DEF Commitment!Next

(* The phases of 3PC over Synchrotron, with the initiator's timeout, implement
   atomic commitment: a node is prepared when it has seen PRE_COMMIT
   (3pc.c:158-275).  What an application decides on its own at the end of a
   round in which its node is still undecided (3pc-app.c:84-116) is no part of
   it: a COMMIT_TIMEOUT leaves its node prepared, whatever the others do. *)
THEOREM Refinement == Spec => Commitment!Spec
<1>1. UNCHANGED vars => UNCHANGED Standing
  BY DEF vars, Standing, Stand
<1> QED
  BY Invariance, InitStands, NextStands, <1>1, PTL DEF Spec, Commitment!Spec
=============================================================================
