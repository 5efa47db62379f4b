------------------------- MODULE WirelessPaxosSafety -------------------------
(***************************************************************************)
(* Proofs about modules WirelessPaxos and WirelessPaxosApp: for one round, *)
(* the type invariant, the proof that SafetyInv is inductive, and what     *)
(* follows from it; for any number of rounds of the application as it is   *)
(* shipped, where only the initiator proposes, that promises and votes     *)
(* outlive a round and that every vote answers an accept request. A round  *)
(* may have any length where there is a single proposer; with several, the *)
(* theorems need rounds of at most 256 slots.                              *)
(***************************************************************************)
EXTENDS WirelessPaxosApp, PaxosNodeProofs, FiniteSetTheorems

(* One slot of one node. *)
LEMMA StepType ==
  ASSUME TypeOK, slot < PAXOS_ROUND_MAX_SLOTS,
         NEW sent \in SUBSET Transmitters, NEW heard \in Receptions(sent),
         NEW draw \in [Nodes -> Draws], NEW n \in Nodes
  PROVE  NodeOK(Step(n, sent, heard, draw[n]))
<1>1. NodeOK(node[n]) /\ PacketOK(node[heard[n]].pkt)
  BY DEF TypeOK, Receptions, NodeOK
<1>2. slot \in 0..(PAXOS_ROUND_MAX_SLOTS - 1)
  BY ConfigAssumption DEF ConfigAssumption, Uint16, TypeOK
<1>3. draw[n].threshold \in Thresholds
  BY DEF Draws
<1> QED
  BY <1>1, <1>2, <1>3, ProcessLemma DEF Step

(* The history of accept requests is well-typed. *)
LEMMA OpenedType ==
  ASSUME NEW n \in Nodes, NEW s, NodeOK(s)
  PROVE  Opened(n, s) \subseteq Uint16 \X Uint8
<1>1. Proposed(n, s) \in Uint16 /\ s.proposed_value \in Uint8
  BY ProposedType DEF NodeOK, ProposerOK
<1> QED
  BY <1>1 DEF Opened

(* The history of votes is well-typed. *)
LEMMA AcceptedType ==
  ASSUME NEW n \in Nodes, NEW s, NodeOK(s)
  PROVE  Accepted(n, s) \subseteq Nodes \X Uint16 \X Uint8
BY DEF Accepted, NodeOK, AcceptorOK

(* The initial states are well-typed. *)
LEMMA TypeInit == Init => TypeOK
<1> SUFFICES ASSUME Init PROVE TypeOK
  OBVIOUS
<1>1. PICK value \in [Nodes -> Values], draw \in [Nodes -> Draws] :
        node = [n \in Nodes |-> RoundBegin(n, ResetState, value[n], draw[n])]
  BY DEF Init
<1>2. ASSUME NEW n \in Nodes PROVE NodeOK(node[n])
  <2>1. draw[n].threshold \in Thresholds /\ value[n] \in Values
    BY DEF Draws
  <2> QED
    BY <1>1, <2>1, RoundBeginLemma
<1>3. slot \in 0..PAXOS_ROUND_MAX_SLOTS
  BY ConfigAssumption DEF ConfigAssumption, Uint16, Init
<1> QED
  BY <1>1, <1>2, <1>3 DEF TypeOK, Init

(* Every slot preserves the types. *)
LEMMA TypeNext == TypeOK /\ [Next]_vars => TypeOK'
<1> SUFFICES ASSUME TypeOK, [Next]_vars PROVE TypeOK'
  OBVIOUS
<1>1. CASE Slot
  <2> PICK sent \in SUBSET Transmitters :
        \E heard \in Receptions(sent), draw \in [Nodes -> Draws] :
          node' = [n \in Nodes |-> Step(n, sent, heard, draw[n])]
    BY <1>1 DEF Slot
  <2>1. PICK heard \in Receptions(sent), draw \in [Nodes -> Draws] :
          node' = [n \in Nodes |-> Step(n, sent, heard, draw[n])]
    OBVIOUS
  <2>2. slot < PAXOS_ROUND_MAX_SLOTS
    BY <1>1 DEF Slot
  <2>3. ASSUME NEW n \in Nodes PROVE NodeOK(node'[n])
    BY <2>1, <2>2, StepType
  <2>4. DOMAIN node' = Nodes
    BY <2>1
  <2>5. opened' \subseteq Uint16 \X Uint8
    <3>1. ASSUME NEW n \in Proposers PROVE Opened(n, node'[n]) \subseteq Uint16 \X Uint8
      BY <2>3, OpenedType, NodesAssumption DEF NodesAssumption
    <3> QED
      BY <1>1, <3>1 DEF Slot, TypeOK
  <2>6. votes' \subseteq Nodes \X Uint16 \X Uint8
    <3>1. ASSUME NEW n \in Nodes PROVE Accepted(n, node'[n]) \subseteq Nodes \X Uint16 \X Uint8
      BY <2>3, AcceptedType
    <3> QED
      BY <1>1, <3>1 DEF Slot, TypeOK
  <2>7. slot' \in 0..PAXOS_ROUND_MAX_SLOTS
    BY <1>1, ConfigAssumption DEF ConfigAssumption, Uint16, Slot, TypeOK
  <2> QED
    BY <2>3, <2>4, <2>5, <2>6, <2>7 DEF TypeOK
<1>2. CASE UNCHANGED vars
  BY <1>2 DEF vars, TypeOK
<1> QED
  BY <1>1, <1>2 DEF Next

(* Every field of every node keeps to its C width, and the retransmission
   counters to their bounds (paxos.c:545-600), in every round of any network. *)
THEOREM TypeCorrect == Spec => []TypeOK
BY TypeInit, TypeNext, PTL DEF Spec
-----------------------------------------------------------------------------

(* A slot with its choices named. *)
SlotStep(sent, heard) ==
  /\ slot \in Nat
  /\ slot < PAXOS_ROUND_MAX_SLOTS
  /\ slot' = slot + 1
  /\ sent \subseteq Transmitters
  /\ heard \in Receptions(sent)
  /\ \A n \in Nodes : \E draw \in Draws : node'[n] = Step(n, sent, heard, draw)
  /\ opened' = opened \cup UNION {Opened(n, node'[n]) : n \in Proposers}
  /\ votes' = votes \cup UNION {Accepted(n, node'[n]) : n \in Nodes}

(* Every slot has such choices. *)
LEMMA SlotHasStep ==
  ASSUME TypeOK, Slot
  PROVE  \E sent, heard : SlotStep(sent, heard)
<1> PICK sent \in SUBSET Transmitters :
      \E heard \in Receptions(sent), draw \in [Nodes -> Draws] :
        node' = [n \in Nodes |-> Step(n, sent, heard, draw[n])]
  BY DEF Slot
<1>1. PICK heard \in Receptions(sent), draw \in [Nodes -> Draws] :
        node' = [n \in Nodes |-> Step(n, sent, heard, draw[n])]
  OBVIOUS
<1>2. \A n \in Nodes : \E d \in Draws : node'[n] = Step(n, sent, heard, d)
  BY <1>1
<1>3. slot \in Nat
  BY ConfigAssumption DEF ConfigAssumption, Uint16, TypeOK
<1>4. SlotStep(sent, heard)
  BY <1>2, <1>3 DEF Slot, SlotStep
<1> QED
  BY <1>4

(* What a slot does to node n: nothing that matters, or it hears a packet of
   some node k that transmitted; a proposer that transmitted hears itself. *)
NodeEffect(n, sent) ==
  /\ NodeOK(node'[n])
  /\ \/ /\ Core(n, node[n], node'[n])
        /\ ~(n \in sent /\ n \in Proposers)
     \/ \E k \in sent :
          /\ n \in sent => k = n
          /\ \/ /\ HeartbeatMove(n, node[n], node[k].pkt, node'[n])
                /\ node[k].pkt.phase = PAXOS_INIT
                /\ node[n].min_proposal = 0
             \/ PaxosMove(n, node[n], node[k].pkt, node'[n])

(* Core is reflexive. *)
LEMMA CoreRefl == ASSUME NEW n, NEW s PROVE Core(n, s, s)
BY DEF Core, SameOutcome, SameProposer

(* Every node takes one of these steps in a slot. *)
LEMMA NodeEffectLemma ==
  ASSUME TypeOK, NEW sent, NEW heard, SlotStep(sent, heard), NEW n \in Nodes
  PROVE  NodeEffect(n, sent)
<1> DEFINE s == node[n]
           t == node'[n]
           p == node[heard[n]].pkt
           ok == n \in sent \/ heard[n] # n
<1>1. PICK draw \in Draws : t = Step(n, sent, heard, draw)
  BY DEF SlotStep
<1>2. /\ NodeOK(s) /\ PacketOK(p) /\ heard[n] \in Nodes
      /\ heard[n] # n => s.state = "RX" /\ heard[n] \in sent
      /\ n \in sent => s.state = "TX"
  BY DEF SlotStep, TypeOK, Receptions, NodeOK, Transmitters
<1>3. slot \in 0..(PAXOS_ROUND_MAX_SLOTS - 1) /\ draw.threshold \in Thresholds
  BY ConfigAssumption DEF ConfigAssumption, Uint16, SlotStep, Draws
<1>4. CASE s.state = "OFF"
  <2>1. t = s /\ n \notin sent
    BY <1>1, <1>2, <1>4 DEF Step
  <2> QED
    BY <1>2, <2>1, CoreRefl DEF NodeEffect
<1>5. CASE s.state # "OFF"
  <2>1. t = Process(n, s, ok, p, slot, draw)
    BY <1>1, <1>5 DEF Step
  <2> HIDE DEF ok, p, t
  <2>2. /\ NodeOK(t)
        /\ IF Heeds(n, s, ok)
           THEN HearsHeartbeat(n, s, p, t) \/ HearsPaxos(n, s, p, t)
           ELSE Core(n, s, t)
    BY <1>2, <1>3, <2>1, ProcessLemma
  <2>3. CASE ~Heeds(n, s, ok)
    <3>1. ~(n \in sent /\ n \in Proposers)
      BY <1>2, <2>3 DEF Heeds, ok
    <3> QED
      BY <2>2, <2>3, <3>1 DEF NodeEffect, t
  <2>4. CASE Heeds(n, s, ok)
    <3>1. heard[n] \in sent /\ (n \in sent => heard[n] = n)
      BY <1>2, <2>4 DEF Heeds, ok
    <3>2. CASE HearsHeartbeat(n, s, p, t)
      BY <1>2, <2>2, <3>1, <3>2, HeartbeatLemma DEF NodeEffect, t, p
    <3>3. CASE HearsPaxos(n, s, p, t)
      BY <1>2, <2>2, <3>1, <3>3, PaxosMoveLemma DEF NodeEffect, t, p
    <3> QED
      BY <2>2, <2>4, <3>2, <3>3
  <2> QED
    BY <2>3, <2>4
<1> QED
  BY <1>4, <1>5

-----------------------------------------------------------------------------
(* The acceptor stage, over the votes V and the accept requests O. *)
Voted(V, F, b, v) == \A f \in F : <<f, b, v>> \in V

(* What the sender guarantees of packet p. *)
Sound(p, V, O) ==
  p.phase = PAXOS_ACCEPT =>
    /\ p.ballot > 0 /\ <<p.ballot, p.value>> \in O
    /\ Voted(V, p.flags, p.ballot, p.value)
    /\ p.proposal <= p.ballot

(* What node n guarantees of the packet it holds. *)
Holds(n, q, V, O) ==
  q.phase = PAXOS_ACCEPT =>
    <<q.ballot, q.value>> \in O /\ Voted(V, q.flags \ {n}, q.ballot, q.value)

OneValue(O) == \A b, v, w : <<b, v>> \in O /\ <<b, w>> \in O => v = w

OwnVote(n, s, V) ==
  s.accepted_proposal # 0 => <<n, s.accepted_proposal, s.accepted_value>> \in V

AcceptorOutcome(n, s, p, a, V, O) ==
  /\ a.min_proposal <= a.pkt.ballot
  /\ a.min_proposal >= s.min_proposal
  /\ ReportsInv(a)
  /\ \/ a.accepted_proposal = s.accepted_proposal /\ a.accepted_value = s.accepted_value
     \/ <<a.accepted_proposal, a.accepted_value>> \in O
  /\ NotOlder(s, p) /\ p.phase = PAXOS_ACCEPT =>
       /\ a.pkt.value = p.value
       /\ Voted(V, a.pkt.flags, p.ballot, p.value)

(* A node that heeds an accept request has voted for it, and so has every
   node whose flag it then holds. *)
LEMMA AcceptorStage ==
  ASSUME NEW n \in Nodes, NEW s, NodeOK(s), NEW p, PacketOK(p), NEW a, NodeOK(a),
         AcceptorMove(n, s, p, a), NEW V, NEW O,
         s.min_proposal <= s.pkt.ballot, ReportsInv(s),
         Sound(p, V, O), Holds(n, s.pkt, V, O), OneValue(O), OwnVote(n, a, V)
  PROVE  AcceptorOutcome(n, s, p, a, V, O)
<1>1. /\ s.min_proposal \in Int /\ s.pkt.ballot \in Int /\ p.ballot \in Int
      /\ a.min_proposal \in Int /\ a.pkt.ballot \in Int
  BY DEF NodeOK, AcceptorOK, PacketOK, Uint16
<1>2. NotOlder(s, p) => p.ballot >= s.pkt.ballot
  BY <1>1 DEF NotOlder
<1>3. a.min_proposal <= a.pkt.ballot /\ a.min_proposal >= s.min_proposal
  <2>1. CASE NotOlder(s, p)
    <3>1. /\ a.pkt.ballot = p.ballot
          /\ a.min_proposal = (IF p.phase = PAXOS_INIT THEN s.min_proposal
                               ELSE MaxOf(p.ballot, s.min_proposal))
      BY <2>1 DEF AcceptorMove
    <3> QED
      BY <1>1, <1>2, <2>1, <3>1 DEF MaxOf
  <2>2. CASE ~NotOlder(s, p)
    BY <1>1, <2>2 DEF AcceptorMove
  <2> QED
    BY <2>1, <2>2
<1>4. ASSUME NotOlder(s, p), p.phase = PAXOS_ACCEPT
      PROVE  /\ a.accepted_proposal = p.ballot /\ a.accepted_value = p.value
             /\ <<p.ballot, p.value>> \in O
             /\ <<n, p.ballot, p.value>> \in V
  <2>1. p.ballot >= s.min_proposal
    BY <1>1, <1>2, <1>4
  <2>2. a.accepted_proposal = p.ballot /\ a.accepted_value = p.value
    BY <1>4, <2>1 DEF AcceptorMove
  <2> QED
    BY <1>1, <1>4, <2>2 DEF Sound, OwnVote
<1>5. \/ a.accepted_proposal = s.accepted_proposal /\ a.accepted_value = s.accepted_value
      \/ <<a.accepted_proposal, a.accepted_value>> \in O
  <2>1. CASE NotOlder(s, p) /\ p.phase = PAXOS_ACCEPT
    BY <1>4, <2>1
  <2>2. CASE ~(NotOlder(s, p) /\ p.phase = PAXOS_ACCEPT)
    BY <2>2 DEF AcceptorMove, SameOutcome
  <2> QED
    BY <2>1, <2>2
<1>6. ASSUME NotOlder(s, p), p.phase = PAXOS_ACCEPT
      PROVE  a.pkt.value = p.value /\ Voted(V, a.pkt.flags, p.ballot, p.value)
  <2>1. /\ a.pkt.flags = Merged(s, p) \cup {n}
        /\ a.pkt.value = (IF NewPhase(s, p) THEN p.value ELSE s.pkt.value)
    BY <1>6 DEF AcceptorMove
  <2>2. Voted(V, p.flags, p.ballot, p.value) /\ <<n, p.ballot, p.value>> \in V
    BY <1>4, <1>6 DEF Sound
  <2>3. CASE NewPhase(s, p)
    BY <2>1, <2>2, <2>3 DEF Merged, Voted
  <2>4. CASE ~NewPhase(s, p)
    <3>1. s.pkt.phase = PAXOS_ACCEPT /\ s.pkt.ballot = p.ballot
      BY <1>6, <2>4 DEF NewPhase
    <3>2. s.pkt.value = p.value
      BY <1>4, <1>6, <3>1 DEF Holds, OneValue
    <3>3. Voted(V, s.pkt.flags \ {n}, p.ballot, p.value)
      BY <3>1, <3>2 DEF Holds
    <3>4. a.pkt.flags = (s.pkt.flags \cup p.flags) \cup {n}
      BY <2>1, <2>4 DEF Merged
    <3> QED
      BY <2>1, <2>2, <2>4, <3>2, <3>3, <3>4 DEF Voted
  <2> QED
    BY <2>3, <2>4
<1>7. ReportsInv(a)
  <2>1. s.rx_min_proposal \in Nat /\ p.proposal \in Nat /\ s.min_proposal >= 0
    BY DEF NodeOK, AcceptorOK, PacketOK, Uint16
  <2>2. CASE ~NotOlder(s, p)
    BY <2>2 DEF AcceptorMove, ReportsInv
  <2>3. CASE NotOlder(s, p) /\ p.phase # PAXOS_ACCEPT
    <3>1. a.pkt.phase # PAXOS_ACCEPT /\ a.rx_min_proposal \in {0, s.rx_min_proposal}
      BY <2>3 DEF AcceptorMove, Reporting, HeardInPhase
    <3> QED
      BY <1>1, <1>3, <2>1, <3>1 DEF ReportsInv
  <2>4. CASE NotOlder(s, p) /\ p.phase = PAXOS_ACCEPT
    <3> DEFINE rx == HeardInPhase(s, p)
    <3>1. /\ a.pkt.ballot = p.ballot /\ a.min_proposal = MaxOf(p.ballot, s.min_proposal)
          /\ a.rx_min_proposal = MaxOf(p.proposal, MaxOf(a.min_proposal, rx))
          /\ a.pkt.proposal = a.rx_min_proposal
      BY <2>4 DEF AcceptorMove, Reporting, PAXOS_ACCEPT, PAXOS_INIT
    <3>2. rx \in {0, s.rx_min_proposal} /\ p.proposal <= p.ballot
      BY <2>4 DEF HeardInPhase, Sound
    <3> HIDE DEF rx
    <3>3. a.min_proposal >= p.ballot /\ rx \in Int /\ rx <= a.min_proposal
      BY <1>1, <1>3, <2>1, <3>1, <3>2 DEF ReportsInv, MaxOf
    <3>4. a.rx_min_proposal = a.min_proposal
      BY <1>1, <2>1, <3>1, <3>2, <3>3 DEF MaxOf
    <3> QED
      BY <1>1, <1>3, <3>1, <3>4 DEF ReportsInv
  <2> QED
    BY <2>2, <2>3, <2>4
<1> QED
  BY <1>3, <1>5, <1>6, <1>7 DEF AcceptorOutcome

-----------------------------------------------------------------------------
(* The proposer stage. *)

(* The packet of node n after the stage: the acceptor's, or a request of its own. *)
OwnRequest(n, u) ==
  /\ u.phase # PAXOS_INIT
  /\ u.pkt.ballot = Proposed(n, u)
  /\ u.pkt.phase = PAXOS_ACCEPT =>
       /\ u.phase = PAXOS_ACCEPT /\ u.pkt.value = u.proposed_value /\ u.pkt.flags = {n}
       /\ u.pkt.proposal = 0

(* What becomes of an attempt. *)
Evolves(s, u) ==
  /\ u.phase # PAXOS_INIT
  /\ s.round = 2 => u.round = 2
  /\ s.phase = PAXOS_ACCEPT =>
       u.round = 2 \/ (u.phase = PAXOS_ACCEPT /\ u.proposed_value = s.proposed_value)

(* Where a majority comes from. *)
MajorityFrom(n, s, p, a, u) ==
  u.got_majority =>
    /\ u.round = s.round /\ u.proposed_value = s.proposed_value
    /\ \/ s.got_majority
       \/ /\ s.round = 1 /\ s.phase = PAXOS_ACCEPT /\ p.phase = PAXOS_ACCEPT
          /\ p.ballot = Proposed(n, s) /\ NotOlder(s, p)
          /\ Majority(a.pkt.flags)

ProposerOutcome(n, s, p, a, u, left) ==
  /\ OneAttempt(n, u, left - 1)
  /\ left > 1 => u.min_proposal <= u.pkt.ballot
  /\ u.min_proposal >= s.min_proposal /\ u.min_proposal >= a.min_proposal
  /\ u.pkt = a.pkt \/ (OwnRequest(n, u) /\ (left > 1 => u.round = 1))
  /\ Evolves(s, u)
  /\ MajorityFrom(n, s, p, a, u)

(* The state in which the proposer stage finds a node. *)
ProposerBefore(n, s, p, a, left) ==
  /\ n \in Proposers
  /\ NodeOK(s) /\ PacketOK(p) /\ NodeOK(a)
  /\ left \in Nat /\ left > 0 /\ left <= PAXOS_ROUND_MAX_SLOTS
  /\ SameProposer(s, a)
  /\ OneAttempt(n, s, left)
  /\ a.pkt.ballot = IF NotOlder(s, p) THEN p.ballot ELSE s.pkt.ballot
  /\ a.min_proposal <= a.pkt.ballot
  /\ a.min_proposal >= s.min_proposal
  /\ a.rx_min_proposal <= a.min_proposal
  /\ a.local.flags = {n}
  /\ s.phase = PAXOS_INIT => p.ballot # Proposed(n, s)

ProposerInts(n, s, p, a, u) ==
  /\ n \in Int /\ n >= 0 /\ n < 256 /\ p.ballot \in Int
  /\ s.round \in Int /\ a.round \in Int /\ u.round \in Int
  /\ s.min_proposal \in Int /\ a.min_proposal \in Int /\ u.min_proposal \in Int
  /\ s.pkt.ballot \in Int /\ a.pkt.ballot \in Int /\ u.pkt.ballot \in Int
  /\ a.rx_min_proposal \in Int
  /\ s.loser_timeout \in Int /\ a.loser_timeout \in Int /\ u.loser_timeout \in Int
  /\ a.loser_timeout >= 0 /\ s.min_proposal >= 0

(* The numbers the proposer stage compares are integers. *)
LEMMA ProposerTypes ==
  ASSUME NEW n, NEW s, NEW p, NEW a, NEW left, ProposerBefore(n, s, p, a, left),
         NEW u, NodeOK(u)
  PROVE  ProposerInts(n, s, p, a, u)
<1>1. n \in Uint8
  BY NodeIsByte, NodesAssumption DEF ProposerBefore, NodesAssumption
<1>2. /\ s.round \in Uint8 /\ s.loser_timeout \in Uint8 /\ s.min_proposal \in Uint16
      /\ s.pkt.ballot \in Uint16
  BY DEF ProposerBefore, NodeOK, PacketOK, ProposerOK, AcceptorOK
<1>3. /\ a.round \in Uint8 /\ a.loser_timeout \in Uint8 /\ a.min_proposal \in Uint16
      /\ a.pkt.ballot \in Uint16 /\ a.rx_min_proposal \in Uint16
  BY DEF ProposerBefore, NodeOK, PacketOK, ProposerOK, AcceptorOK
<1>4. /\ u.round \in Uint8 /\ u.loser_timeout \in Uint8 /\ u.min_proposal \in Uint16
      /\ u.pkt.ballot \in Uint16 /\ p.ballot \in Uint16
  BY DEF ProposerBefore, NodeOK, PacketOK, ProposerOK, AcceptorOK
<1> QED
  BY <1>1, <1>2, <1>3, <1>4 DEF Uint8, Uint16, ProposerInts

(* The acceptor stage leaves the proposer's attempt as it is, but for the
   packet in the buffer. *)
ProposerKept(n, s, a, left) ==
  /\ a.round = s.round /\ a.proposed_value = s.proposed_value
  /\ a.phase = s.phase /\ a.loser_timeout = s.loser_timeout
  /\ a.got_majority => s.got_majority
  /\ s.got_majority => a.got_majority
  /\ a.round \in {1, 2}
  /\ a.round = 1 => a.loser_timeout = 0
  /\ a.round = 2 => /\ a.phase = PAXOS_PREPARE
                    /\ ~a.got_majority
                    /\ a.loser_timeout >= left
  /\ a.got_majority => a.phase = PAXOS_ACCEPT
  /\ a.round = 1 /\ ~a.got_majority => s.pkt.ballot <= Proposed(n, a)
  /\ Proposed(n, a) = 256 * a.round + n
  /\ Proposed(n, s) = Proposed(n, a)

(* The facts of OneAttempt carry over to the state the proposer stage reads. *)
LEMMA ProposerKeeps ==
  ASSUME NEW n, NEW s, NEW p, NEW a, NEW left, ProposerBefore(n, s, p, a, left)
  PROVE  ProposerKept(n, s, a, left)
<1>1. /\ a.round = s.round /\ a.proposed_value = s.proposed_value /\ a.phase = s.phase
      /\ a.loser_timeout = s.loser_timeout
  BY DEF ProposerBefore, SameProposer
<1>2. a.got_majority => s.got_majority
  BY DEF ProposerBefore, SameProposer
<1>3. s.got_majority => a.got_majority
  BY DEF ProposerBefore, SameProposer
<1>4. Proposed(n, s) = Proposed(n, a) /\ Proposed(n, a) = 256 * a.round + n
  BY <1>1 DEF Proposed, BallotOf
<1>5. OneAttempt(n, s, left)
  BY DEF ProposerBefore
<1> QED
  BY <1>1, <1>2, <1>3, <1>4, <1>5 DEF OneAttempt, ProposerKept

(* The proposer does nothing: it has its majority, or hears an older request. *)
LEMMA UnmovedStage ==
  ASSUME NEW n, NEW s, NEW p, NEW a, NEW left, ProposerBefore(n, s, p, a, left),
         NEW u, NodeOK(u), Unmoved(n, a, p, u)
  PROVE  ProposerOutcome(n, s, p, a, u, left)
<1>1. ProposerInts(n, s, p, a, u) /\ ProposerKept(n, s, a, left)
  BY ProposerTypes, ProposerKeeps
<1>2. u = a
  BY DEF Unmoved
<1>3. s.phase # PAXOS_INIT
  BY <1>1 DEF Unmoved, ProposerBefore, ProposerKept, PAXOS_INIT, PAXOS_ACCEPT
<1>4. a.round = 1 /\ ~a.got_majority => a.pkt.ballot <= Proposed(n, a)
  BY <1>1 DEF Unmoved, ProposerBefore, ProposerInts, ProposerKept
<1>5. OneAttempt(n, a, left - 1)
  BY <1>1, <1>3, <1>4 DEF ProposerBefore, ProposerInts, ProposerKept, OneAttempt
<1>6. Evolves(s, a) /\ MajorityFrom(n, s, p, a, a)
  BY <1>1, <1>3 DEF Evolves, MajorityFrom, ProposerKept
<1>7. /\ a.min_proposal <= a.pkt.ballot /\ a.min_proposal >= s.min_proposal
      /\ a.min_proposal >= a.min_proposal
  BY <1>1 DEF ProposerBefore, ProposerInts
<1> QED
  BY <1>2, <1>5, <1>6, <1>7 DEF ProposerOutcome

(* A proposer that lost waits; its back-off cannot end within the round. *)
LEMMA WaitsStage ==
  ASSUME NEW n, NEW s, NEW p, NEW a, NEW left, ProposerBefore(n, s, p, a, left),
         NEW u, NodeOK(u), Beside(a, u), Waits(n, a, u)
  PROVE  ProposerOutcome(n, s, p, a, u, left)
<1>1. ProposerInts(n, s, p, a, u) /\ ProposerKept(n, s, a, left)
  BY ProposerTypes, ProposerKeeps
<1>2. a.round = 2 /\ u.round = 2 /\ a.phase = PAXOS_PREPARE /\ u.phase = PAXOS_PREPARE
  BY <1>1 DEF ProposerInts, ProposerKept, Waits
<1>3. ~u.got_majority
  BY <1>1, <1>2 DEF ProposerKept, Waits
<1>4. u.loser_timeout >= left - 1
  BY <1>1, <1>2 DEF ProposerInts, ProposerKept, Waits, ProposerBefore
<1>5. OneAttempt(n, u, left - 1)
  BY <1>2, <1>3, <1>4 DEF OneAttempt, PAXOS_PREPARE, PAXOS_INIT
<1>6. Evolves(s, u) /\ MajorityFrom(n, s, p, a, u)
  BY <1>1, <1>2, <1>3 DEF Evolves, MajorityFrom, ProposerKept, PAXOS_PREPARE, PAXOS_INIT,
                          PAXOS_ACCEPT
<1>7. /\ u.min_proposal = a.min_proposal /\ a.min_proposal <= a.pkt.ballot
      /\ a.min_proposal >= s.min_proposal /\ a.min_proposal >= a.min_proposal
  BY <1>1 DEF Waits, ProposerBefore, ProposerInts
<1>8. CASE u.pkt = a.pkt
  BY <1>5, <1>6, <1>7, <1>8 DEF ProposerOutcome
<1>9. CASE u.loser_timeout = 0 /\ Requests(n, u, u.pkt)
  <2>1. ~(left > 1)
    BY <1>4, <1>9 DEF ProposerBefore
  <2>2. OwnRequest(n, u)
    BY <1>2, <1>9 DEF OwnRequest, Requests, PAXOS_PREPARE, PAXOS_INIT, PAXOS_ACCEPT
  <2> QED
    BY <1>5, <1>6, <1>7, <2>1, <2>2 DEF ProposerOutcome
<1> QED
  BY <1>8, <1>9 DEF Waits

(* A proposer that loses its first attempt takes its second ballot and backs
   off for as many slots as the round may still have, unless the 8 bits of its
   back-off counter cannot hold that number. *)
LEMMA LoseStage ==
  ASSUME NEW n, NEW s, NEW p, NEW a, NEW left, ProposerBefore(n, s, p, a, left),
         a.round = 1, NEW u, NodeOK(u), LoseEffect(a, u), u.pkt = a.pkt,
         PAXOS_ROUND_MAX_SLOTS <= 256 \/ u.round = 1
  PROVE  ProposerOutcome(n, s, p, a, u, left)
<1>1. ProposerInts(n, s, p, a, u) /\ ProposerKept(n, s, a, left)
  BY ProposerTypes, ProposerKeeps
<1>2. u.round = 2 /\ u.phase = PAXOS_PREPARE /\ ~u.got_majority
  BY DEF LoseEffect
<1>3. u.loser_timeout >= left - 1
  BY <1>2, ConfigAssumption DEF ConfigAssumption, Uint16, LoseEffect, ProposerBefore
<1>4. OneAttempt(n, u, left - 1)
  BY <1>2, <1>3 DEF OneAttempt, PAXOS_PREPARE, PAXOS_INIT
<1>5. Evolves(s, u) /\ MajorityFrom(n, s, p, a, u)
  BY <1>1, <1>2 DEF Evolves, MajorityFrom, ProposerKept, PAXOS_PREPARE, PAXOS_INIT
<1>6. /\ u.min_proposal = a.min_proposal /\ a.min_proposal <= a.pkt.ballot
      /\ a.min_proposal >= s.min_proposal /\ a.min_proposal >= a.min_proposal
  BY <1>1 DEF LoseEffect, ProposerBefore, ProposerInts
<1> QED
  BY <1>4, <1>5, <1>6 DEF ProposerOutcome

(* A reply that changes neither phase nor ballot of the attempt. *)
LEMMA GoesOnStage ==
  ASSUME NEW n, NEW s, NEW p, NEW a, NEW left, ProposerBefore(n, s, p, a, left),
         a.round = 1, ~a.got_majority, p.ballot = Proposed(n, a), p.phase = a.phase,
         NEW u, NodeOK(u), GoesOn(n, a, u)
  PROVE  ProposerOutcome(n, s, p, a, u, left)
<1>1. ProposerInts(n, s, p, a, u) /\ ProposerKept(n, s, a, left)
  BY ProposerTypes, ProposerKeeps
<1>2. /\ u.round = 1 /\ u.phase = s.phase /\ u.loser_timeout = 0
      /\ u.min_proposal = a.min_proposal /\ u.pkt = a.pkt
  BY <1>1 DEF GoesOn, ProposerKept
<1>3. s.phase # PAXOS_INIT
  BY <1>1 DEF ProposerBefore, ProposerKept
<1>4. s.pkt.ballot <= p.ballot
  BY <1>1 DEF ProposerKept
<1>5. u.pkt.ballot <= Proposed(n, u)
  BY <1>1, <1>2, <1>4 DEF ProposerBefore, ProposerInts, ProposerKept, Proposed
<1>6. u.got_majority => s.phase = PAXOS_ACCEPT /\ Majority(a.pkt.flags)
  BY <1>1 DEF GoesOn, ProposerKept
<1>7. OneAttempt(n, u, left - 1)
  BY <1>2, <1>3, <1>5, <1>6 DEF OneAttempt
<1>8. s.phase = PAXOS_ACCEPT => u.proposed_value = s.proposed_value
  BY <1>1 DEF GoesOn, ProposerKept, PAXOS_ACCEPT, PAXOS_PREPARE
<1>9. p.phase = PAXOS_ACCEPT => NotOlder(s, p)
  <2>1. s.pkt.phase \in {0, 1, 2}
    BY DEF ProposerBefore, NodeOK, PacketOK, Phases, PAXOS_INIT, PAXOS_PREPARE, PAXOS_ACCEPT
  <2> QED
    BY <1>1, <1>4, <2>1 DEF NotOlder, ProposerInts, PAXOS_ACCEPT
<1>10. MajorityFrom(n, s, p, a, u)
  BY <1>1, <1>2, <1>6, <1>8, <1>9 DEF MajorityFrom, ProposerKept
<1>11. Evolves(s, u)
  BY <1>1, <1>2, <1>3, <1>8 DEF Evolves, ProposerKept
<1>12. /\ a.min_proposal <= a.pkt.ballot /\ a.min_proposal >= s.min_proposal
       /\ a.min_proposal >= a.min_proposal
  BY <1>1 DEF ProposerBefore, ProposerInts
<1> QED
  BY <1>2, <1>7, <1>10, <1>11, <1>12 DEF ProposerOutcome

(* A majority of promises: the proposer opens the accept phase. *)
LEMMA OpensStage ==
  ASSUME NEW n, NEW s, NEW p, NEW a, NEW left, ProposerBefore(n, s, p, a, left),
         a.round = 1, a.pkt.ballot <= Proposed(n, a),
         NEW u, NodeOK(u), Beside(a, u), Opens(n, a, u)
  PROVE  ProposerOutcome(n, s, p, a, u, left)
<1>1. ProposerInts(n, s, p, a, u) /\ ProposerKept(n, s, a, left)
  BY ProposerTypes, ProposerKeeps
<1>2. /\ u.round = 1 /\ s.phase = PAXOS_PREPARE /\ u.phase = PAXOS_ACCEPT
      /\ u.loser_timeout = 0 /\ ~u.got_majority
      /\ u.min_proposal = a.min_proposal
      /\ u.pkt.ballot = Proposed(n, a)
  BY <1>1 DEF Opens, Requests, ProposerKept, Proposed
<1>3. Proposed(n, u) = Proposed(n, a)
  BY <1>2 DEF Proposed
<1>4. OneAttempt(n, u, left - 1)
  BY <1>1, <1>2, <1>3 DEF OneAttempt, ProposerInts, PAXOS_ACCEPT, PAXOS_INIT
<1>5. u.local.flags = {n}
  BY DEF Beside, ProposerBefore
<1>6. OwnRequest(n, u)
  BY <1>2, <1>3, <1>5 DEF OwnRequest, Opens, Requests, PAXOS_ACCEPT, PAXOS_INIT
<1>7. Evolves(s, u) /\ MajorityFrom(n, s, p, a, u)
  BY <1>1, <1>2 DEF Evolves, MajorityFrom, ProposerKept, PAXOS_ACCEPT, PAXOS_INIT,
                    PAXOS_PREPARE
<1>8. /\ u.min_proposal <= u.pkt.ballot /\ u.min_proposal >= s.min_proposal
      /\ u.min_proposal >= a.min_proposal
  BY <1>1, <1>2 DEF ProposerBefore, ProposerInts
<1> QED
  BY <1>2, <1>4, <1>6, <1>7, <1>8 DEF ProposerOutcome

(* A proposer that hears a lower ballot before it started starts (2/3). *)
LEMMA BeginStage ==
  ASSUME NEW n, NEW s, NEW p, NEW a, NEW left, ProposerBefore(n, s, p, a, left),
         a.round = 1, ~a.got_majority, a.phase = PAXOS_INIT, p.ballot < Proposed(n, a),
         NEW u, NodeOK(u), u = BeginPrepare(n, a)
  PROVE  ProposerOutcome(n, s, p, a, u, left)
<1>1. ProposerInts(n, s, p, a, u) /\ ProposerKept(n, s, a, left)
  BY ProposerTypes, ProposerKeeps
<1>2. Starts(n, a, u)
  BY BeginPrepareStarts DEF ProposerBefore
<1>3. /\ u.round = 1 /\ u.phase = PAXOS_PREPARE /\ u.loser_timeout = 0
      /\ u.min_proposal = Proposed(n, a) /\ u.pkt.ballot = Proposed(n, a)
      /\ u.pkt.phase = PAXOS_PREPARE
  BY <1>1, <1>2 DEF Starts, ProposerKept
<1>4. ~u.got_majority
  BY <1>2 DEF Starts
<1>5. Proposed(n, u) = Proposed(n, a) /\ Proposed(n, a) = 256 + n
  BY <1>1, <1>3 DEF Proposed, BallotOf, ProposerInts
<1>6. OneAttempt(n, u, left - 1)
  BY <1>1, <1>3, <1>4, <1>5 DEF OneAttempt, ProposerInts, PAXOS_PREPARE, PAXOS_INIT
<1>7. OwnRequest(n, u)
  BY <1>3, <1>5 DEF OwnRequest, PAXOS_PREPARE, PAXOS_INIT, PAXOS_ACCEPT
<1>8. Evolves(s, u) /\ MajorityFrom(n, s, p, a, u)
  BY <1>1, <1>3, <1>4 DEF Evolves, MajorityFrom, ProposerKept, PAXOS_PREPARE, PAXOS_INIT,
                          PAXOS_ACCEPT
<1>9. /\ u.min_proposal <= u.pkt.ballot /\ u.min_proposal >= s.min_proposal
      /\ u.min_proposal >= a.min_proposal
  BY <1>1, <1>3, <1>5 DEF ProposerBefore, ProposerKept, OneAttempt, ProposerInts
<1> QED
  BY <1>3, <1>6, <1>7, <1>8, <1>9 DEF ProposerOutcome

(* The proposer stage as a whole. *)
LEMMA ProposerStage ==
  ASSUME NEW n, NEW s, NEW p, NEW a, NEW left, ProposerBefore(n, s, p, a, left),
         NEW u, NodeOK(u), Beside(a, u), ProposerEffect(n, a, p, u),
         PAXOS_ROUND_MAX_SLOTS <= 256 \/ u.round = 1
  PROVE  ProposerOutcome(n, s, p, a, u, left)
<1>1. ProposerInts(n, s, p, a, u) /\ ProposerKept(n, s, a, left)
  BY ProposerTypes, ProposerKeeps
<1>2. CASE Unmoved(n, a, p, u)
  BY <1>2, UnmovedStage
<1>3. CASE Waits(n, a, u)
  BY <1>3, WaitsStage
<1>4. CASE ~a.got_majority /\ Competes(n, a, p, u)
  <2>1. a.round = 1
    BY <1>1, <1>4 DEF Competes, ProposerKept, ProposerInts, ProposerBefore
  <2>2. CASE p.ballot = Proposed(n, a) /\ p.phase = a.phase /\ CountEffect(n, a, u)
    <3>1. a.pkt.ballot <= Proposed(n, a)
      <4>1. s.pkt.ballot <= Proposed(n, a)
        BY <1>1, <1>4, <2>1 DEF ProposerKept
      <4>2. a.pkt.ballot = p.ballot \/ a.pkt.ballot = s.pkt.ballot
        BY DEF ProposerBefore
      <4> QED
        BY <1>1, <2>2, <4>1, <4>2 DEF ProposerInts
    <3>2. CASE GoesOn(n, a, u)
      BY <1>4, <2>1, <2>2, <3>2, GoesOnStage
    <3>3. CASE Opens(n, a, u)
      BY <2>1, <3>1, <3>3, OpensStage
    <3>4. CASE LoseEffect(a, u) /\ u.pkt = a.pkt
      BY <2>1, <3>4, LoseStage
    <3>5. ~(a.rx_min_proposal > Proposed(n, a))
      BY <1>1, <2>1, <3>1 DEF ProposerBefore, ProposerInts, ProposerKept
    <3> QED
      BY <2>2, <3>2, <3>3, <3>4, <3>5 DEF CountEffect
  <2>3. CASE p.ballot > Proposed(n, a) /\ LoseEffect(a, u) /\ u.pkt = a.pkt
    BY <2>1, <2>3, LoseStage
  <2>4. CASE p.ballot < Proposed(n, a) /\ a.phase = PAXOS_INIT /\ u = BeginPrepare(n, a)
    BY <1>4, <2>1, <2>4, BeginStage
  <2> QED
    BY <1>4, <2>2, <2>3, <2>4 DEF Competes
<1> QED
  BY <1>2, <1>3, <1>4 DEF ProposerEffect

-----------------------------------------------------------------------------
(* Quorums. *)
LEMMA NodesAreFinite == IsFiniteSet(Nodes)
<1>1. Nodes \in SUBSET Nat /\ 256 \in Nat /\ \A n \in Nodes : n <= 256
  BY NodesAssumption DEF NodesAssumption, Uint8
<1> QED
  BY <1>1, FS_BoundedSetOfNaturals

(* A superset of a majority is a majority. *)
LEMMA MajorityGrows ==
  ASSUME NEW A, NEW B \in SUBSET Nodes, A \subseteq B, Majority(A)
  PROVE  Majority(B)
<1>1. IsFiniteSet(B)
  BY NodesAreFinite, FS_Subset
<1>2. IsFiniteSet(A) /\ Cardinality(A) <= Cardinality(B)
  BY <1>1, FS_Subset
<1>3. Cardinality(A) \in Nat /\ Cardinality(B) \in Nat /\ Cardinality(Nodes) \in Nat
  BY <1>1, <1>2, NodesAreFinite, FS_CardinalityType
<1> QED
  BY <1>2, <1>3 DEF Majority

Quorum(V, b, v) == Majority({m \in Nodes : <<m, b, v>> \in V})

(* A majority of flags that are votes is a quorum of votes. *)
LEMMA FlagsMakeQuorum ==
  ASSUME NEW V, NEW F \in SUBSET Nodes, NEW b, NEW v, Voted(V, F, b, v), Majority(F)
  PROVE  Quorum(V, b, v)
<1> DEFINE B == {m \in Nodes : <<m, b, v>> \in V}
<1>1. F \subseteq B /\ B \in SUBSET Nodes
  BY DEF Voted
<1> HIDE DEF B
<1>2. Majority(B)
  BY <1>1, MajorityGrows
<1> QED
  BY <1>2 DEF Quorum, B

(* More votes keep a quorum. *)
LEMMA QuorumGrows ==
  ASSUME NEW V, NEW W, V \subseteq W, NEW b, NEW v, Quorum(V, b, v)
  PROVE  Quorum(W, b, v)
<1> DEFINE A == {m \in Nodes : <<m, b, v>> \in V}
           B == {m \in Nodes : <<m, b, v>> \in W}
<1>1. A \subseteq B /\ B \in SUBSET Nodes /\ Majority(A)
  BY DEF Quorum
<1> HIDE DEF A, B
<1>2. Majority(B)
  BY <1>1, MajorityGrows
<1> QED
  BY <1>2 DEF Quorum, B

-----------------------------------------------------------------------------
(* A whole slot of one node, over the accept requests O before and P after
   the slot and the votes V after it. *)
Flagged(n, q, V, P) ==
  q.phase = PAXOS_ACCEPT =>
    /\ <<q.ballot, q.value>> \in P
    /\ \A f \in q.flags : <<f, q.ballot, q.value>> \in V \/ (f = n /\ n \in Proposers)

BallotFrom(n, s, p, t, left) ==
  \/ t.pkt.ballot = s.pkt.ballot
  \/ t.pkt.ballot = p.ballot
  \/ /\ n \in Proposers /\ t.phase # PAXOS_INIT /\ t.pkt.ballot = Proposed(n, t)
     /\ left > 1 => t.round = 1

AttemptFrom(s, t) ==
  /\ t.phase = PAXOS_INIT => s.phase = PAXOS_INIT
  /\ s.round = 2 => t.round = 2
  /\ s.phase = PAXOS_ACCEPT =>
       t.round = 2 \/ (t.phase = PAXOS_ACCEPT /\ t.proposed_value = s.proposed_value)

MajorityWon(n, s, t, V) ==
  t.got_majority =>
    \/ s.got_majority /\ t.round = s.round /\ t.proposed_value = s.proposed_value
    \/ Quorum(V, Proposed(n, t), t.proposed_value)

ProposerAfter(n, s, t, V, left) ==
  n \in Proposers => /\ OneAttempt(n, t, left - 1)
                     /\ AttemptFrom(s, t)
                     /\ MajorityWon(n, s, t, V)

VoteFrom(s, t, O) ==
  \/ t.accepted_proposal = s.accepted_proposal /\ t.accepted_value = s.accepted_value
  \/ <<t.accepted_proposal, t.accepted_value>> \in O

LearnedFrom(s, t, V) ==
  t.value_chosen => \/ s.value_chosen /\ t.learned_value = s.learned_value
                    \/ \E b : Quorum(V, b, t.learned_value)

CompletedFrom(s, t, V) ==
  t.completion_slot = s.completion_slot \/ \E b, v : Voted(V, Nodes, b, v)

NodeOutcome(n, s, p, t, V, O, P, left) ==
  /\ t.local.flags = {n}
  /\ left > 1 => t.min_proposal <= t.pkt.ballot
  /\ t.min_proposal >= s.min_proposal
  /\ ReportsInv(t)
  /\ Flagged(n, t.pkt, V, P)
  /\ VoteFrom(s, t, O)
  /\ BallotFrom(n, s, p, t, left)
  /\ ProposerAfter(n, s, t, V, left)
  /\ LearnedFrom(s, t, V)
  /\ CompletedFrom(s, t, V)

(* What is known of node n before the slot, of the packet it hears, and of
   what the slot adds to the history. *)
NodeBefore(n, s, p, t, V, O, P, left) ==
  /\ n \in Nodes /\ NodeOK(s) /\ PacketOK(p)
  /\ left \in Nat /\ left > 0 /\ left <= PAXOS_ROUND_MAX_SLOTS
  /\ s.local.flags = {n}
  /\ s.min_proposal <= s.pkt.ballot /\ ReportsInv(s)
  /\ Flagged(n, s.pkt, V, O) /\ O \subseteq P
  /\ n \in Proposers =>
       /\ OneAttempt(n, s, left)
       /\ s.phase = PAXOS_INIT => p.ballot # Proposed(n, s)
       /\ s.phase = PAXOS_ACCEPT =>
            \A v : <<Proposed(n, s), v>> \in O => v = s.proposed_value
       /\ t.phase = PAXOS_ACCEPT => <<Proposed(n, t), t.proposed_value>> \in P
       /\ PAXOS_ROUND_MAX_SLOTS <= 256 \/ t.round = 1
  /\ Sound(p, V, O) /\ OneValue(O) /\ OwnVote(n, t, V)

(* Core steps: nothing but timers and radio. *)
LEMMA CoreOutcome ==
  ASSUME NEW n, NEW s, NEW p, NEW t, NodeOK(t), NEW V, NEW O, NEW P, NEW left,
         NodeBefore(n, s, p, t, V, O, P, left), Core(n, s, t)
  PROVE  NodeOutcome(n, s, p, t, V, O, P, left)
<1>1. /\ t.pkt = s.pkt /\ t.local.flags = {n}
      /\ t.min_proposal = s.min_proposal /\ SameOutcome(s, t)
      /\ t.rx_min_proposal = s.rx_min_proposal
  BY DEF Core, NodeBefore
<1>2. s.min_proposal \in Int
  BY DEF NodeBefore, NodeOK, AcceptorOK, Uint16
<1>3. Flagged(n, t.pkt, V, P)
  BY <1>1 DEF NodeBefore, Flagged
<1>4. ProposerAfter(n, s, t, V, left)
  <2> SUFFICES ASSUME n \in Proposers
               PROVE  OneAttempt(n, t, left - 1) /\ AttemptFrom(s, t) /\ MajorityWon(n, s, t, V)
    BY DEF ProposerAfter
  <2>1. /\ t.round = s.round /\ t.proposed_value = s.proposed_value /\ t.phase = s.phase
        /\ t.loser_timeout = s.loser_timeout
    BY DEF Core, SameProposer
  <2>2. t.got_majority => s.got_majority
    BY DEF Core, SameProposer
  <2>3. s.got_majority => t.got_majority
    BY DEF Core, SameProposer
  <2>4. Proposed(n, t) = Proposed(n, s) /\ OneAttempt(n, s, left)
        /\ left \in Nat /\ s.loser_timeout \in Int
    BY <2>1 DEF Proposed, NodeBefore, NodeOK, ProposerOK, Uint8
  <2>5. OneAttempt(n, t, left - 1)
    BY <1>1, <2>1, <2>2, <2>3, <2>4 DEF OneAttempt
  <2> QED
    BY <2>1, <2>2, <2>5 DEF AttemptFrom, MajorityWon
<1>5. VoteFrom(s, t, O) /\ BallotFrom(n, s, p, t, left) /\ LearnedFrom(s, t, V)
      /\ CompletedFrom(s, t, V)
  BY <1>1 DEF SameOutcome, VoteFrom, BallotFrom, LearnedFrom, CompletedFrom
<1>6. ReportsInv(t)
  BY <1>1 DEF NodeBefore, ReportsInv
<1> QED
  BY <1>1, <1>2, <1>3, <1>4, <1>5, <1>6 DEF NodeOutcome, NodeBefore

(* A heartbeat of the initiator: a proposer starts, another node relays. *)
LEMMA HeartbeatOutcome ==
  ASSUME NEW n, NEW s, NEW p, NEW t, NodeOK(t), NEW V, NEW O, NEW P, NEW left,
         NodeBefore(n, s, p, t, V, O, P, left), HeartbeatMove(n, s, p, t),
         p.phase = PAXOS_INIT, s.min_proposal = 0
  PROVE  NodeOutcome(n, s, p, t, V, O, P, left)
<1>1. CASE Core(n, s, t)
  BY <1>1, CoreOutcome
<1>2. CASE ~Core(n, s, t)
  <2>1. /\ t.local.flags = {n} /\ SameOutcome(s, t)
        /\ Starts(n, s, t) \/ Relays(n, s, p, t)
    BY <1>2 DEF HeartbeatMove, NodeBefore
  <2>2. /\ t.min_proposal \in Nat /\ t.pkt.ballot \in Nat /\ left \in Nat
        /\ p.ballot \in Nat /\ s.rx_min_proposal = 0
    BY DEF NodeBefore, NodeOK, AcceptorOK, PacketOK, Uint16, ReportsInv
  <2>3. VoteFrom(s, t, O) /\ LearnedFrom(s, t, V) /\ CompletedFrom(s, t, V)
    BY <2>1 DEF SameOutcome, VoteFrom, LearnedFrom, CompletedFrom
  <2>4. CASE Starts(n, s, t)
    <3>1. /\ t.phase = PAXOS_PREPARE /\ t.round = s.round /\ n \in Proposers
          /\ t.proposed_value = s.proposed_value
          /\ s.phase = PAXOS_INIT
          /\ t.loser_timeout = s.loser_timeout
          /\ t.min_proposal = t.pkt.ballot
          /\ t.pkt.ballot = Proposed(n, s) /\ t.pkt.phase = PAXOS_PREPARE
          /\ t.rx_min_proposal = 0
      BY <2>2, <2>4 DEF Starts
    <3>2. t.got_majority => s.got_majority
      BY <2>4 DEF Starts
    <3>3. Proposed(n, t) = Proposed(n, s) /\ OneAttempt(n, s, left)
      BY <3>1 DEF Proposed, NodeBefore
    <3>4. ~t.got_majority /\ s.round = 1 /\ s.loser_timeout = 0
      BY <3>1, <3>2, <3>3 DEF OneAttempt, PAXOS_INIT, PAXOS_ACCEPT, PAXOS_PREPARE
    <3>5. OneAttempt(n, t, left - 1)
      BY <2>2, <3>1, <3>3, <3>4 DEF OneAttempt, PAXOS_INIT, PAXOS_ACCEPT, PAXOS_PREPARE
    <3>6. ProposerAfter(n, s, t, V, left)
      BY <3>1, <3>4, <3>5 DEF ProposerAfter, AttemptFrom, MajorityWon, PAXOS_INIT,
                              PAXOS_ACCEPT, PAXOS_PREPARE
    <3>7. BallotFrom(n, s, p, t, left) /\ Flagged(n, t.pkt, V, P) /\ ReportsInv(t)
      BY <2>2, <3>1, <3>3, <3>4 DEF BallotFrom, Flagged, ReportsInv, PAXOS_INIT, PAXOS_ACCEPT, PAXOS_PREPARE
    <3> QED
      BY <2>1, <2>2, <2>3, <3>1, <3>6, <3>7 DEF NodeOutcome
  <2>5. CASE Relays(n, s, p, t)
    <3>1. n \notin Proposers /\ t.min_proposal = 0 /\ t.rx_min_proposal = 0
          /\ t.pkt.ballot = p.ballot /\ t.pkt.phase = PAXOS_INIT
      BY <2>2, <2>5 DEF Relays
    <3>2. ProposerAfter(n, s, t, V, left) /\ BallotFrom(n, s, p, t, left)
          /\ Flagged(n, t.pkt, V, P) /\ ReportsInv(t)
      BY <3>1 DEF ProposerAfter, BallotFrom, Flagged, ReportsInv, PAXOS_INIT, PAXOS_ACCEPT
    <3> QED
      BY <2>1, <2>2, <2>3, <3>1, <3>2 DEF NodeOutcome
  <2> QED
    BY <2>1, <2>4, <2>5
<1> QED
  BY <1>1, <1>2

(* What the last stages keep of the state after the proposer stage. *)
LEMMA AfterCore ==
  ASSUME NEW n, NEW a, NEW u, NEW t, Beside(a, u), Core(n, u, t)
  PROVE  /\ t.pkt = u.pkt /\ t.min_proposal = u.min_proposal
         /\ t.rx_min_proposal = a.rx_min_proposal
         /\ t.local.flags = a.local.flags
         /\ t.accepted_proposal = a.accepted_proposal
         /\ t.accepted_value = a.accepted_value
         /\ t.completion_slot = a.completion_slot
         /\ t.learned_value = a.learned_value
         /\ t.value_chosen => a.value_chosen
         /\ n \in Proposers => SameProposer(u, t)
BY DEF Beside, SameAggregates, SameLearner, Core, SameOutcome

(* A Paxos packet, at the acceptor. *)
LEMMA PaxosAcceptorOutcome ==
  ASSUME NEW n, NEW s, NEW p, NEW t, NEW V, NEW O, NEW P, NEW left,
         NodeBefore(n, s, p, t, V, O, P, left),
         NEW a, NodeOK(a), AcceptorMove(n, s, p, a), OwnVote(n, a, V)
  PROVE  /\ AcceptorOutcome(n, s, p, a, V, O)
         /\ Flagged(n, a.pkt, V, P)
         /\ VoteFrom(s, a, O)
         /\ LearnedFrom(s, a, V)
         /\ CompletedFrom(s, a, V)
         /\ a.pkt.ballot = IF NotOlder(s, p) THEN p.ballot ELSE s.pkt.ballot
         /\ a.local.flags = {n}
<1>1. Holds(n, s.pkt, V, O)
  BY DEF NodeBefore, Flagged, Holds, Voted
<1>2. AcceptorOutcome(n, s, p, a, V, O)
  BY <1>1, AcceptorStage DEF NodeBefore
<1>3. /\ a.pkt.ballot = IF NotOlder(s, p) THEN p.ballot ELSE s.pkt.ballot
      /\ a.local.flags = {n}
  BY DEF AcceptorMove, NodeBefore
<1>4. CASE NotOlder(s, p) /\ p.phase = PAXOS_ACCEPT
  <2>1. /\ a.pkt.ballot = p.ballot /\ a.pkt.phase = PAXOS_ACCEPT
        /\ a.pkt.value = p.value
        /\ Voted(V, a.pkt.flags, p.ballot, p.value)
        /\ <<p.ballot, p.value>> \in P
        /\ a.pkt.flags = Merged(s, p) \cup {n}
    BY <1>2, <1>4 DEF AcceptorMove, AcceptorOutcome, NodeBefore, Sound
  <2>2. Flagged(n, a.pkt, V, P)
    BY <2>1 DEF Flagged, Voted
  <2> DEFINE F == Merged(s, p)
  <2>3. F \in SUBSET Nodes /\ Voted(V, F, p.ballot, p.value)
    <3>1. a.pkt.flags \in SUBSET Nodes
      BY DEF NodeOK, PacketOK
    <3> QED
      BY <2>1, <3>1 DEF Voted
  <2> HIDE DEF F
  <2>4. LearnedFrom(s, a, V)
    <3>1. Majority(F) => Quorum(V, p.ballot, p.value)
      BY <2>3, FlagsMakeQuorum
    <3>2. \/ a.learned_value = s.learned_value /\ a.value_chosen = s.value_chosen
          \/ Majority(F) /\ a.learned_value = p.value
      BY <1>4 DEF AcceptorMove, F
    <3> QED
      BY <3>1, <3>2 DEF LearnedFrom
  <2>5. CompletedFrom(s, a, V)
    <3>1. a.completion_slot = s.completion_slot \/ F = Nodes
      BY <1>4 DEF AcceptorMove, F
    <3> QED
      BY <2>3, <3>1 DEF CompletedFrom
  <2> QED
    BY <1>2, <1>3, <2>2, <2>4, <2>5 DEF AcceptorOutcome, VoteFrom
<1>5. CASE ~NotOlder(s, p)
  <2>1. a.pkt = s.pkt /\ SameOutcome(s, a)
    BY <1>5 DEF AcceptorMove
  <2> QED
    BY <1>2, <1>3, <2>1 DEF NodeBefore, SameOutcome, Flagged, VoteFrom, LearnedFrom, CompletedFrom
<1>6. CASE NotOlder(s, p) /\ p.phase # PAXOS_ACCEPT
  <2>1. /\ a.pkt.phase # PAXOS_ACCEPT
        /\ a.accepted_proposal = s.accepted_proposal /\ a.accepted_value = s.accepted_value
        /\ a.learned_value = s.learned_value /\ a.value_chosen = s.value_chosen
        /\ a.completion_slot = s.completion_slot
    BY <1>6 DEF AcceptorMove
  <2> QED
    BY <1>2, <1>3, <2>1 DEF Flagged, VoteFrom, LearnedFrom, CompletedFrom
<1> QED
  BY <1>4, <1>5, <1>6

(* A Paxos packet, at the proposer of the node. *)
LEMMA PaxosProposerOutcome ==
  ASSUME NEW n \in Proposers, NEW s, NEW p, NEW t, NodeOK(t), NEW V, NEW O, NEW P, NEW left,
         NodeBefore(n, s, p, t, V, O, P, left),
         NEW a, NodeOK(a), AcceptorMove(n, s, p, a),
         AcceptorOutcome(n, s, p, a, V, O),
         a.pkt.ballot = IF NotOlder(s, p) THEN p.ballot ELSE s.pkt.ballot,
         a.local.flags = {n},
         NEW u, NodeOK(u), Beside(a, u), ProposerEffect(n, a, p, u), Core(n, u, t)
  PROVE  /\ ProposerOutcome(n, s, p, a, u, left)
         /\ ProposerAfter(n, s, t, V, left)
         /\ u.pkt = a.pkt \/ (OwnRequest(n, t) /\ (left > 1 => t.round = 1))
<1>1. ProposerBefore(n, s, p, a, left)
  BY DEF ProposerBefore, NodeBefore, AcceptorMove, AcceptorOutcome, ReportsInv
<1>2. ProposerOutcome(n, s, p, a, u, left)
  <2>1. t.round = u.round
    BY AfterCore DEF SameProposer
  <2>2. PAXOS_ROUND_MAX_SLOTS <= 256 \/ u.round = 1
    BY <2>1 DEF NodeBefore
  <2> QED
    BY <1>1, <2>2, ProposerStage
<1>3. t.pkt = u.pkt /\ t.min_proposal = u.min_proposal /\ SameProposer(u, t)
  BY AfterCore
<1>4. /\ t.round = u.round /\ t.proposed_value = u.proposed_value /\ t.phase = u.phase
      /\ t.loser_timeout = u.loser_timeout
  BY <1>3 DEF SameProposer
<1>5. (t.got_majority => u.got_majority) /\ (u.got_majority => t.got_majority)
  BY <1>3 DEF SameProposer
<1>6. Proposed(n, t) = Proposed(n, u)
  BY <1>4 DEF Proposed
<1>7. OneAttempt(n, t, left - 1)
  BY <1>2, <1>3, <1>4, <1>5, <1>6 DEF ProposerOutcome, OneAttempt
<1>8. AttemptFrom(s, t)
  BY <1>2, <1>4 DEF ProposerOutcome, Evolves, AttemptFrom
<1>9. MajorityWon(n, s, t, V)
  <2> SUFFICES ASSUME t.got_majority, ~s.got_majority
               PROVE  Quorum(V, Proposed(n, t), t.proposed_value)
    BY <1>2, <1>4, <1>5 DEF MajorityWon, ProposerOutcome, MajorityFrom
  <2>1. /\ t.round = s.round /\ t.proposed_value = s.proposed_value
        /\ s.phase = PAXOS_ACCEPT /\ p.phase = PAXOS_ACCEPT
        /\ p.ballot = Proposed(n, s) /\ NotOlder(s, p)
        /\ Majority(a.pkt.flags)
    BY <1>2, <1>4, <1>5 DEF ProposerOutcome, MajorityFrom
  <2>2. Voted(V, a.pkt.flags, p.ballot, p.value) /\ a.pkt.flags \in SUBSET Nodes
    BY <2>1 DEF AcceptorOutcome, NodeOK, PacketOK
  <2>3. p.value = s.proposed_value
    BY <2>1 DEF NodeBefore, Sound
  <2>4. Quorum(V, p.ballot, p.value)
    BY <2>1, <2>2, FlagsMakeQuorum
  <2>5. Proposed(n, t) = p.ballot
    BY <2>1 DEF Proposed
  <2> QED
    BY <2>1, <2>3, <2>4, <2>5
<1>10. u.pkt = a.pkt \/ (OwnRequest(n, t) /\ (left > 1 => t.round = 1))
  BY <1>2, <1>3, <1>4, <1>6 DEF ProposerOutcome, OwnRequest
<1> QED
  BY <1>2, <1>7, <1>8, <1>9, <1>10 DEF ProposerAfter

(* A Paxos packet: acceptor, proposer and the stages after them. *)
LEMMA PaxosOutcome ==
  ASSUME NEW n, NEW s, NEW p, NEW t, NodeOK(t), NEW V, NEW O, NEW P, NEW left,
         NodeBefore(n, s, p, t, V, O, P, left), PaxosMove(n, s, p, t)
  PROVE  NodeOutcome(n, s, p, t, V, O, P, left)
<1>1. PICK a, u : /\ NodeOK(a) /\ AcceptorMove(n, s, p, a)
                  /\ NodeOK(u) /\ Beside(a, u) /\ ProposerEffect(n, a, p, u)
                  /\ Core(n, u, t)
  BY DEF PaxosMove
<1>2. /\ t.pkt = u.pkt /\ t.min_proposal = u.min_proposal
      /\ t.rx_min_proposal = a.rx_min_proposal
      /\ t.local.flags = a.local.flags
      /\ t.accepted_proposal = a.accepted_proposal
      /\ t.accepted_value = a.accepted_value
      /\ t.completion_slot = a.completion_slot
      /\ t.learned_value = a.learned_value
      /\ t.value_chosen => a.value_chosen
  BY <1>1, AfterCore
<1>3. OwnVote(n, a, V)
  BY <1>2 DEF NodeBefore, OwnVote
<1>4. /\ AcceptorOutcome(n, s, p, a, V, O)
      /\ Flagged(n, a.pkt, V, P) /\ VoteFrom(s, a, O)
      /\ LearnedFrom(s, a, V) /\ CompletedFrom(s, a, V)
      /\ a.pkt.ballot = IF NotOlder(s, p) THEN p.ballot ELSE s.pkt.ballot
      /\ a.local.flags = {n}
  BY <1>1, <1>3, PaxosAcceptorOutcome
<1>5. /\ t.local.flags = {n} /\ VoteFrom(s, t, O)
      /\ LearnedFrom(s, t, V) /\ CompletedFrom(s, t, V)
  BY <1>2, <1>4 DEF VoteFrom, LearnedFrom, CompletedFrom
<1>6. CASE n \notin Proposers
  <2>1. u = a
    BY <1>1, <1>6 DEF ProposerEffect, Unmoved
  <2>2. Flagged(n, t.pkt, V, P)
    BY <1>2, <1>4, <2>1
  <2>3. /\ t.min_proposal <= t.pkt.ballot /\ t.min_proposal >= s.min_proposal
        /\ ReportsInv(t)
    BY <1>2, <1>4, <2>1 DEF AcceptorOutcome, ReportsInv
  <2>4. BallotFrom(n, s, p, t, left) /\ ProposerAfter(n, s, t, V, left)
    BY <1>2, <1>4, <1>6, <2>1 DEF BallotFrom, ProposerAfter
  <2> QED
    BY <1>5, <2>2, <2>3, <2>4 DEF NodeOutcome
<1>7. CASE n \in Proposers
  <2>1. /\ ProposerOutcome(n, s, p, a, u, left) /\ ProposerAfter(n, s, t, V, left)
        /\ u.pkt = a.pkt \/ (OwnRequest(n, t) /\ (left > 1 => t.round = 1))
    BY <1>1, <1>4, <1>7, PaxosProposerOutcome
  <2>2. /\ left > 1 => t.min_proposal <= t.pkt.ballot
        /\ t.min_proposal >= s.min_proposal
    BY <1>2, <2>1 DEF ProposerOutcome
  <2>3. BallotFrom(n, s, p, t, left)
    BY <1>2, <1>4, <1>7, <2>1 DEF BallotFrom, OwnRequest
  <2>4. Flagged(n, t.pkt, V, P)
    <3>1. CASE u.pkt = a.pkt
      BY <1>2, <1>4, <3>1
    <3>2. CASE OwnRequest(n, t)
      BY <1>7, <3>2 DEF OwnRequest, Flagged, NodeBefore
    <3> QED
      BY <2>1, <3>1, <3>2
  <2>5. ReportsInv(t)
    <3>1. /\ t.min_proposal \in Nat /\ a.min_proposal \in Nat
          /\ a.rx_min_proposal \in Nat /\ t.pkt.ballot \in Nat
      BY <1>1 DEF NodeOK, AcceptorOK, PacketOK, Uint16
    <3>2. t.min_proposal >= a.min_proposal /\ ReportsInv(a)
      BY <1>2, <1>4, <2>1 DEF ProposerOutcome, AcceptorOutcome
    <3>3. t.rx_min_proposal <= t.min_proposal
      BY <1>2, <3>1, <3>2 DEF ReportsInv
    <3>4. t.pkt.phase = PAXOS_ACCEPT => t.pkt.proposal <= t.pkt.ballot
      BY <1>2, <2>1, <3>1, <3>2 DEF ReportsInv, OwnRequest
    <3> QED
      BY <3>3, <3>4 DEF ReportsInv
  <2> QED
    BY <1>5, <2>1, <2>2, <2>3, <2>4, <2>5 DEF NodeOutcome
<1> QED
  BY <1>6, <1>7

-----------------------------------------------------------------------------
(* A slot of the whole network. *)
SlotsLeft == PAXOS_ROUND_MAX_SLOTS - slot

(* The history only grows: by what the proposers then ask and the acceptors
   then hold. *)
LEMMA HistoryGrows ==
  ASSUME NEW sent, NEW heard, SlotStep(sent, heard)
  PROVE  /\ opened \subseteq opened' /\ votes \subseteq votes'
         /\ \A n \in Nodes : OwnVote(n, node'[n], votes')
         /\ \A n \in Proposers : node'[n].phase = PAXOS_ACCEPT =>
              <<Proposed(n, node'[n]), node'[n].proposed_value>> \in opened'
         /\ \A x \in opened' : x \in opened \/ \E n \in Proposers :
              /\ node'[n].phase = PAXOS_ACCEPT
              /\ x = <<Proposed(n, node'[n]), node'[n].proposed_value>>
         /\ \A w \in votes' : w \in votes \/ \E n \in Nodes :
              /\ node'[n].accepted_proposal # 0
              /\ w = <<n, node'[n].accepted_proposal, node'[n].accepted_value>>
<1>1. opened' = opened \cup UNION {Opened(n, node'[n]) : n \in Proposers}
  BY DEF SlotStep
<1>2. votes' = votes \cup UNION {Accepted(n, node'[n]) : n \in Nodes}
  BY DEF SlotStep
<1>3. \A n \in Nodes : OwnVote(n, node'[n], votes')
  BY <1>2 DEF OwnVote, Accepted
<1>4. \A n \in Proposers : node'[n].phase = PAXOS_ACCEPT =>
        <<Proposed(n, node'[n]), node'[n].proposed_value>> \in opened'
  BY <1>1 DEF Opened
<1>5. ASSUME NEW x \in opened', x \notin opened
      PROVE  \E n \in Proposers :
               /\ node'[n].phase = PAXOS_ACCEPT
               /\ x = <<Proposed(n, node'[n]), node'[n].proposed_value>>
  <2>1. PICK n \in Proposers : x \in Opened(n, node'[n])
    BY <1>1, <1>5
  <2> QED
    BY <2>1 DEF Opened
<1>6. ASSUME NEW w \in votes', w \notin votes
      PROVE  \E n \in Nodes :
               /\ node'[n].accepted_proposal # 0
               /\ w = <<n, node'[n].accepted_proposal, node'[n].accepted_value>>
  <2>1. PICK n \in Nodes : w \in Accepted(n, node'[n])
    BY <1>2, <1>6
  <2> QED
    BY <2>1 DEF Accepted
<1> QED
  BY <1>1, <1>2, <1>3, <1>4, <1>5, <1>6

(* OneValueOpened, for pairs. *)
LEMMA OpenedAreUnique == ASSUME OneValueOpened PROVE OneValue(opened)
BY DEF OneValueOpened, OneValue

(* An accept request carries the first ballot of a proposer. *)
LEMMA OpenedBallot ==
  ASSUME OpenedInv, NEW b, NEW v, <<b, v>> \in opened
  PROVE  \E o \in Proposers :
           /\ b = BallotOf(1, o)
           /\ \/ node[o].round = 2
              \/ node[o].phase = PAXOS_ACCEPT /\ node[o].proposed_value = v
<1> DEFINE x == <<b, v>>
<1>1. x \in opened /\ x[1] = b /\ x[2] = v
  OBVIOUS
<1> HIDE DEF x
<1> QED
  BY <1>1 DEF OpenedInv

(* While its accept phase runs, a proposer's ballot is opened for its value only. *)
LEMMA ValueIsFixed ==
  ASSUME SafetyInv, NEW n \in Proposers, node[n].phase = PAXOS_ACCEPT,
         NEW v, <<Proposed(n, node[n]), v>> \in opened
  PROVE  v = node[n].proposed_value
<1>1. PICK o \in Proposers :
        /\ Proposed(n, node[n]) = BallotOf(1, o)
        /\ \/ node[o].round = 2
           \/ node[o].phase = PAXOS_ACCEPT /\ node[o].proposed_value = v
  BY OpenedBallot DEF SafetyInv
<1>2. node[n].round = 1
  BY DEF SafetyInv, ProposerInv, OneAttempt, PAXOS_PREPARE, PAXOS_ACCEPT
<1>3. n \in Uint8 /\ o \in Uint8 /\ 1 \in Uint8
  BY NodesAssumption DEF NodesAssumption, Uint8
<1>4. o = n
  BY <1>1, <1>2, <1>3, BallotInjective DEF Proposed
<1> QED
  BY <1>1, <1>2, <1>4

(* A packet on the air: every flag of an accept request is a vote, the flag
   of the transmitting proposer too, as it hears its own request. *)
LEMMA SenderIsSound ==
  ASSUME SafetyInv, NEW sent, NEW heard, SlotStep(sent, heard), NEW k \in sent
  PROVE  Sound(node[k].pkt, votes', opened)
<1> DEFINE p == node[k].pkt
<1> SUFFICES ASSUME p.phase = PAXOS_ACCEPT
             PROVE  /\ p.ballot > 0 /\ <<p.ballot, p.value>> \in opened
                    /\ Voted(votes', p.flags, p.ballot, p.value)
                    /\ p.proposal <= p.ballot
  BY DEF Sound
<1>1. k \in Nodes /\ TypeOK /\ AcceptorInv(k) /\ NodeOK(node[k])
  BY DEF SlotStep, Transmitters, SafetyInv, TypeOK
<1>2. <<p.ballot, p.value>> \in opened
  BY <1>1 DEF AcceptorInv, FlagsAreVotes
<1>3. p.ballot > 0
  <2>1. PICK o \in Proposers : p.ballot = BallotOf(1, o)
    BY <1>2, OpenedBallot DEF SafetyInv
  <2>2. o \in Nat
    BY NodesAssumption DEF NodesAssumption, Uint8
  <2> QED
    BY <2>1, <2>2 DEF BallotOf
<1>4. ASSUME k \in Proposers PROVE <<k, p.ballot, p.value>> \in votes'
  <2>1. NodeEffect(k, sent)
    BY <1>1, NodeEffectLemma
  <2>2. PaxosMove(k, node[k], p, node'[k])
    BY <1>4, <2>1 DEF NodeEffect, PAXOS_INIT, PAXOS_ACCEPT
  <2>3. PICK a, u : /\ AcceptorMove(k, node[k], p, a) /\ Beside(a, u) /\ Core(k, u, node'[k])
    BY <2>2 DEF PaxosMove
  <2>4. p.ballot \in Nat /\ p.phase \in Nat /\ NotOlder(node[k], p)
    BY <1>1 DEF NodeOK, PacketOK, Uint16, NotOlder, PAXOS_ACCEPT
  <2>5. p.ballot >= node[k].min_proposal
    BY <1>1 DEF AcceptorInv, SlotStep, NodeOK, AcceptorOK, PacketOK, Uint16
  <2>6. a.accepted_proposal = p.ballot /\ a.accepted_value = p.value
    BY <2>3, <2>4, <2>5 DEF AcceptorMove
  <2>7. node'[k].accepted_proposal = p.ballot /\ node'[k].accepted_value = p.value
    BY <2>3, <2>6, AfterCore
  <2>8. OwnVote(k, node'[k], votes')
    BY <1>1, HistoryGrows
  <2> QED
    BY <1>3, <2>4, <2>7, <2>8 DEF OwnVote
<1>5. Voted(votes', p.flags, p.ballot, p.value)
  <2>1. votes \subseteq votes'
    BY HistoryGrows
  <2> QED
    BY <1>1, <1>4, <2>1 DEF AcceptorInv, FlagsAreVotes, VotedFor, Voted
<1>6. p.proposal <= p.ballot
  BY <1>1 DEF AcceptorInv, ReportsInv
<1> QED
  BY <1>2, <1>3, <1>5, <1>6

(* The packet a node may have heard in the slot. *)
OnTheAir(sent, p) == p = NoPacket \/ \E k \in sent : p = node[k].pkt

(* A packet on the air is sound and carries no ballot that was not started. *)
LEMMA AirIsSound ==
  ASSUME SafetyInv, NEW sent, NEW heard, SlotStep(sent, heard), NEW p, OnTheAir(sent, p)
  PROVE  /\ PacketOK(p) /\ Sound(p, votes', opened)
         /\ \A n \in Proposers : node[n].phase = PAXOS_INIT => p.ballot # Proposed(n, node[n])
<1>1. CASE p = NoPacket
  <2>1. p.ballot = 0 /\ p.phase = PAXOS_INIT /\ p.value = 0 /\ p.proposal = 0 /\ p.flags = {}
    BY <1>1 DEF NoPacket
  <2>2. PacketOK(p)
    BY <2>1 DEF PacketOK, Uint8, Uint16, Phases
  <2>3. Sound(p, votes', opened)
    BY <2>1 DEF Sound, PAXOS_INIT, PAXOS_ACCEPT
  <2>4. ASSUME NEW n \in Proposers PROVE Proposed(n, node[n]) # 0
    <3>1. n \in Nat /\ node[n].round \in {1, 2}
      BY NodesAssumption DEF NodesAssumption, Uint8, SafetyInv, ProposerInv, OneAttempt
    <3> QED
      BY <3>1 DEF Proposed, BallotOf
  <2> QED
    BY <2>1, <2>2, <2>3, <2>4
<1>2. ASSUME NEW k \in sent, p = node[k].pkt
      PROVE  /\ PacketOK(p) /\ Sound(p, votes', opened)
             /\ \A n \in Proposers : node[n].phase = PAXOS_INIT => p.ballot # Proposed(n, node[n])
  <2>1. k \in Nodes
    BY <1>2 DEF SlotStep, Transmitters
  <2>2. PacketOK(p)
    BY <1>2, <2>1 DEF SafetyInv, TypeOK, NodeOK
  <2>3. Sound(p, votes', opened)
    BY <1>2, SenderIsSound
  <2> QED
    BY <1>2, <2>1, <2>2, <2>3 DEF SafetyInv, NotStarted
<1> QED
  BY <1>1, <1>2 DEF OnTheAir

(* Proposers lose only in rounds whose number of slots the back-off counter
   can hold. *)
OneAttemptEach ==
  PAXOS_ROUND_MAX_SLOTS <= 256 \/ \A n \in Proposers : node[n].round = 1

(* The invariant gives every node what its slot needs. *)
LEMMA BeforeSlot ==
  ASSUME OneAttemptEach', SafetyInv, NEW sent, NEW heard, SlotStep(sent, heard), NEW n \in Nodes,
         NEW p, OnTheAir(sent, p)
  PROVE  NodeBefore(n, node[n], p, node'[n], votes', opened, opened', SlotsLeft)
<1> DEFINE s == node[n]
           t == node'[n]
<1>1. NodeOK(s) /\ AcceptorInv(n)
  BY DEF SafetyInv, TypeOK
<1>2. SlotsLeft \in Nat /\ SlotsLeft > 0 /\ SlotsLeft <= PAXOS_ROUND_MAX_SLOTS
  BY ConfigAssumption DEF ConfigAssumption, Uint16, SlotStep, SlotsLeft
<1>3. s.local.flags = {n} /\ s.min_proposal <= s.pkt.ballot /\ ReportsInv(s)
  BY <1>1 DEF AcceptorInv, SlotStep
<1>4. opened \subseteq opened' /\ votes \subseteq votes' /\ OwnVote(n, t, votes')
  BY HistoryGrows
<1>5. Flagged(n, s.pkt, votes', opened)
  BY <1>1, <1>4 DEF AcceptorInv, FlagsAreVotes, VotedFor, Flagged
<1>6. OneValue(opened)
  BY OpenedAreUnique DEF SafetyInv
<1>7. PacketOK(p) /\ Sound(p, votes', opened)
  BY AirIsSound
<1>8. ASSUME n \in Proposers
      PROVE  /\ OneAttempt(n, s, SlotsLeft)
             /\ s.phase = PAXOS_INIT => p.ballot # Proposed(n, s)
             /\ s.phase = PAXOS_ACCEPT =>
                  \A v : <<Proposed(n, s), v>> \in opened => v = s.proposed_value
             /\ t.phase = PAXOS_ACCEPT => <<Proposed(n, t), t.proposed_value>> \in opened'
             /\ PAXOS_ROUND_MAX_SLOTS <= 256 \/ t.round = 1
  <2>1. OneAttempt(n, s, SlotsLeft)
    BY <1>8 DEF SafetyInv, ProposerInv, SlotsLeft
  <2>2. s.phase = PAXOS_INIT => p.ballot # Proposed(n, s)
    BY <1>8, AirIsSound
  <2>3. t.phase = PAXOS_ACCEPT => <<Proposed(n, t), t.proposed_value>> \in opened'
    BY <1>8, HistoryGrows
  <2>4. PAXOS_ROUND_MAX_SLOTS <= 256 \/ t.round = 1
    BY <1>8 DEF OneAttemptEach
  <2> QED
    BY <1>8, <2>1, <2>2, <2>3, <2>4, ValueIsFixed
<1> HIDE DEF s, t
<1>9. NodeBefore(n, s, p, t, votes', opened, opened', SlotsLeft)
  BY <1>1, <1>2, <1>3, <1>4, <1>5, <1>6, <1>7, <1>8 DEF NodeBefore
<1> QED
  BY <1>9 DEF s, t

(* What a slot does to every node. *)
LEMMA AfterSlot ==
  ASSUME OneAttemptEach', SafetyInv, NEW sent, NEW heard, SlotStep(sent, heard), NEW n \in Nodes
  PROVE  /\ NodeOK(node'[n])
         /\ \E p : /\ OnTheAir(sent, p)
                   /\ NodeOutcome(n, node[n], p, node'[n], votes', opened, opened', SlotsLeft)
<1>1. NodeEffect(n, sent) /\ NodeOK(node'[n])
  <2>1. TypeOK
    BY DEF SafetyInv
  <2> QED
    BY <2>1, NodeEffectLemma DEF NodeEffect
<1>2. CASE Core(n, node[n], node'[n])
  <2>1. OnTheAir(sent, NoPacket)
    BY DEF OnTheAir
  <2> QED
    BY <1>1, <1>2, <2>1, BeforeSlot, CoreOutcome
<1>3. ASSUME NEW k \in sent,
             HeartbeatMove(n, node[n], node[k].pkt, node'[n]),
             node[k].pkt.phase = PAXOS_INIT, node[n].min_proposal = 0
      PROVE  \E p : /\ OnTheAir(sent, p)
                    /\ NodeOutcome(n, node[n], p, node'[n], votes', opened, opened', SlotsLeft)
  <2>1. OnTheAir(sent, node[k].pkt)
    BY <1>3 DEF OnTheAir
  <2> QED
    BY <1>1, <1>3, <2>1, BeforeSlot, HeartbeatOutcome
<1>4. ASSUME NEW k \in sent, PaxosMove(n, node[n], node[k].pkt, node'[n])
      PROVE  \E p : /\ OnTheAir(sent, p)
                    /\ NodeOutcome(n, node[n], p, node'[n], votes', opened, opened', SlotsLeft)
  <2>1. OnTheAir(sent, node[k].pkt)
    BY <1>4 DEF OnTheAir
  <2> QED
    BY <1>1, <1>4, <2>1, BeforeSlot, PaxosOutcome
<1> QED
  BY <1>1, <1>2, <1>3, <1>4 DEF NodeEffect

-----------------------------------------------------------------------------
(* The invariant is inductive. *)
LEMMA AcceptorInvNext ==
  ASSUME OneAttemptEach', SafetyInv, NEW sent, NEW heard, SlotStep(sent, heard), NEW n \in Nodes
  PROVE  AcceptorInv(n)'
<1>1. PICK p : NodeOutcome(n, node[n], p, node'[n], votes', opened, opened', SlotsLeft)
  BY AfterSlot
<1>2. OwnVote(n, node'[n], votes')
  BY HistoryGrows
<1>3. slot' < PAXOS_ROUND_MAX_SLOTS => SlotsLeft > 1
  BY ConfigAssumption DEF ConfigAssumption, Uint16, SlotStep, SlotsLeft
<1>4. Flagged(n, node'[n].pkt, votes', opened') /\ node'[n].local.flags = {n}
      /\ (SlotsLeft > 1 => node'[n].min_proposal <= node'[n].pkt.ballot)
      /\ ReportsInv(node'[n])
  BY <1>1 DEF NodeOutcome
<1>5. FlagsAreVotes(n)'
  BY <1>4 DEF Flagged, FlagsAreVotes, VotedFor
<1> QED
  BY <1>2, <1>3, <1>4, <1>5 DEF AcceptorInv, OwnVote, VotedFor

(* A slot preserves ProposerInv. *)
LEMMA ProposerInvNext ==
  ASSUME OneAttemptEach', SafetyInv, NEW sent, NEW heard, SlotStep(sent, heard), NEW n \in Proposers
  PROVE  ProposerInv(n)' /\ AttemptFrom(node[n], node'[n])
<1>1. n \in Nodes
  BY NodesAssumption DEF NodesAssumption
<1>2. PICK p : NodeOutcome(n, node[n], p, node'[n], votes', opened, opened', SlotsLeft)
  BY <1>1, AfterSlot
<1>3. SlotsLeft - 1 = PAXOS_ROUND_MAX_SLOTS - slot'
  BY ConfigAssumption DEF ConfigAssumption, Uint16, SlotStep, SlotsLeft
<1>4. OneAttempt(n, node'[n], SlotsLeft - 1) /\ AttemptFrom(node[n], node'[n])
  BY <1>2 DEF NodeOutcome, ProposerAfter
<1>5. OneAttempt(n, node'[n], PAXOS_ROUND_MAX_SLOTS - slot')
  BY <1>3, <1>4
<1> QED
  BY <1>4, <1>5 DEF ProposerInv

(* A proposer that has not started still has its first ballot. *)
LEMMA FirstBallot ==
  ASSUME NEW n, NEW s, NEW left, OneAttempt(n, s, left),
         s.phase = PAXOS_INIT \/ s.phase = PAXOS_ACCEPT
  PROVE  s.round = 1 /\ Proposed(n, s) = BallotOf(1, n)
BY DEF OneAttempt, Proposed, PAXOS_INIT, PAXOS_PREPARE, PAXOS_ACCEPT

(* A slot preserves NotStarted: ballots only come from proposers that started. *)
LEMMA NotStartedNext ==
  ASSUME OneAttemptEach', SafetyInv, NEW sent, NEW heard, SlotStep(sent, heard)
  PROVE  NotStarted'
<1> SUFFICES ASSUME NEW n \in Proposers, NEW m \in Nodes, node'[n].phase = PAXOS_INIT
             PROVE  node'[m].pkt.ballot # Proposed(n, node'[n])
  BY DEF NotStarted
<1>1. ProposerInv(n)' /\ AttemptFrom(node[n], node'[n]) /\ ProposerInv(n)
  BY ProposerInvNext DEF SafetyInv
<1>2. node[n].phase = PAXOS_INIT
  BY <1>1 DEF AttemptFrom
<1>3. Proposed(n, node[n]) = BallotOf(1, n)
  BY <1>1, <1>2, FirstBallot DEF ProposerInv
<1>4. Proposed(n, node'[n]) = BallotOf(1, n)
  BY <1>1, FirstBallot DEF ProposerInv
<1>5. PICK p : /\ OnTheAir(sent, p)
               /\ NodeOutcome(m, node[m], p, node'[m], votes', opened, opened', SlotsLeft)
  BY AfterSlot
<1>6. BallotFrom(m, node[m], p, node'[m], SlotsLeft)
  BY <1>5 DEF NodeOutcome
<1>7. CASE node'[m].pkt.ballot = node[m].pkt.ballot
  BY <1>2, <1>3, <1>4, <1>7 DEF SafetyInv, NotStarted
<1>8. CASE node'[m].pkt.ballot = p.ballot
  BY <1>2, <1>3, <1>4, <1>5, <1>8, AirIsSound
<1>9. CASE m \in Proposers /\ node'[m].phase # PAXOS_INIT
           /\ node'[m].pkt.ballot = Proposed(m, node'[m])
  <2>1. m # n
    BY <1>9
  <2>2. node'[m].round \in {1, 2}
    BY <1>9, ProposerInvNext DEF ProposerInv, OneAttempt
  <2>3. m \in Uint8 /\ n \in Uint8 /\ 1 \in Uint8 /\ node'[m].round \in Uint8
    BY <2>2, NodesAssumption DEF NodesAssumption, Uint8
  <2> QED
    BY <1>4, <1>9, <2>1, <2>3, BallotInjective DEF Proposed
<1> QED
  BY <1>6, <1>7, <1>8, <1>9 DEF BallotFrom

(* A slot preserves LosersWait: a node's own request is for a first ballot,
   and every other ballot comes from a packet of the slot before. *)
LEMMA LosersWaitNext ==
  ASSUME OneAttemptEach', SafetyInv, NEW sent, NEW heard, SlotStep(sent, heard)
  PROVE  LosersWait'
<1> SUFFICES ASSUME slot' < PAXOS_ROUND_MAX_SLOTS, NEW n \in Proposers, NEW m \in Nodes
             PROVE  node'[m].pkt.ballot # BallotOf(2, n)
  BY DEF LosersWait
<1>1. slot < PAXOS_ROUND_MAX_SLOTS /\ SlotsLeft > 1
  BY ConfigAssumption DEF ConfigAssumption, Uint16, SlotStep, SlotsLeft
<1>2. \A k \in Nodes : node[k].pkt.ballot # BallotOf(2, n)
  BY <1>1 DEF SafetyInv, LosersWait
<1>3. /\ m \in Uint8 /\ n \in Uint8 /\ 1 \in Uint8 /\ 2 \in Uint8
      /\ BallotOf(2, n) # 0 /\ n \in Nodes
  BY NodesAssumption DEF NodesAssumption, Uint8, BallotOf
<1>4. PICK p : /\ OnTheAir(sent, p)
               /\ NodeOutcome(m, node[m], p, node'[m], votes', opened, opened', SlotsLeft)
  BY AfterSlot
<1>5. BallotFrom(m, node[m], p, node'[m], SlotsLeft)
  BY <1>4 DEF NodeOutcome
<1>6. p.ballot # BallotOf(2, n)
  <2>1. NoPacket.ballot = 0 /\ \A k \in sent : k \in Nodes
    BY DEF NoPacket, SlotStep, Transmitters
  <2> QED
    BY <1>2, <1>3, <1>4, <2>1 DEF OnTheAir
<1>7. BallotOf(1, m) # BallotOf(2, n)
  BY <1>3, BallotInjective
<1> QED
  BY <1>1, <1>2, <1>5, <1>6, <1>7 DEF BallotFrom, Proposed

(* A slot preserves OpenedInv. *)
LEMMA OpenedInvNext ==
  ASSUME OneAttemptEach', SafetyInv, NEW sent, NEW heard, SlotStep(sent, heard)
  PROVE  OpenedInv'
<1> SUFFICES ASSUME NEW x \in opened'
             PROVE  \E o \in Proposers :
                      /\ x[1] = BallotOf(1, o)
                      /\ \/ node'[o].round = 2
                         \/ node'[o].phase = PAXOS_ACCEPT /\ node'[o].proposed_value = x[2]
  BY DEF OpenedInv
<1>1. CASE x \in opened
  <2>1. PICK o \in Proposers :
          /\ x[1] = BallotOf(1, o)
          /\ \/ node[o].round = 2
             \/ node[o].phase = PAXOS_ACCEPT /\ node[o].proposed_value = x[2]
    BY <1>1 DEF SafetyInv, OpenedInv
  <2>2. AttemptFrom(node[o], node'[o])
    BY ProposerInvNext
  <2> QED
    BY <2>1, <2>2 DEF AttemptFrom
<1>2. CASE x \notin opened
  <2>1. PICK o \in Proposers :
          /\ node'[o].phase = PAXOS_ACCEPT
          /\ x = <<Proposed(o, node'[o]), node'[o].proposed_value>>
    BY <1>2, HistoryGrows
  <2>2. ProposerInv(o)'
    BY ProposerInvNext
  <2>3. Proposed(o, node'[o]) = BallotOf(1, o)
    BY <2>1, <2>2, FirstBallot DEF ProposerInv
  <2> QED
    BY <2>1, <2>3
<1> QED
  BY <1>1, <1>2

(* A slot preserves OneValueOpened: a proposer opens its ballot once. *)
LEMMA OneValueOpenedNext ==
  ASSUME OneAttemptEach', SafetyInv, NEW sent, NEW heard, SlotStep(sent, heard)
  PROVE  OneValueOpened'
<1>1. ASSUME NEW x \in opened', NEW y \in opened', x[1] = y[1], y \notin opened
      PROVE  x[2] = y[2]
  <2>1. PICK n \in Proposers :
          /\ node'[n].phase = PAXOS_ACCEPT
          /\ y = <<Proposed(n, node'[n]), node'[n].proposed_value>>
    BY <1>1, HistoryGrows
  <2>2. ProposerInv(n)'
    BY ProposerInvNext
  <2>3. node'[n].round = 1 /\ Proposed(n, node'[n]) = BallotOf(1, n)
    BY <2>1, <2>2, FirstBallot DEF ProposerInv
  <2>4. PICK o \in Proposers :
          /\ x[1] = BallotOf(1, o)
          /\ \/ node'[o].round = 2
             \/ node'[o].phase = PAXOS_ACCEPT /\ node'[o].proposed_value = x[2]
    BY OpenedInvNext DEF OpenedInv
  <2>5. n \in Uint8 /\ o \in Uint8 /\ 1 \in Uint8
    BY NodesAssumption DEF NodesAssumption, Uint8
  <2>6. o = n
    BY <1>1, <2>1, <2>3, <2>4, <2>5, BallotInjective
  <2> QED
    BY <2>1, <2>3, <2>4, <2>6
<1>2. ASSUME NEW x \in opened, NEW y \in opened, x[1] = y[1] PROVE x[2] = y[2]
  BY <1>2 DEF SafetyInv, OneValueOpened
<1>3. ASSUME NEW x \in opened', NEW y \in opened', x[1] = y[1] PROVE x[2] = y[2]
  BY <1>1, <1>2, <1>3
<1> QED
  BY <1>3 DEF OneValueOpened

(* A slot preserves VotesAreOpened. *)
LEMMA VotesAreOpenedNext ==
  ASSUME OneAttemptEach', SafetyInv, NEW sent, NEW heard, SlotStep(sent, heard)
  PROVE  VotesAreOpened'
<1> SUFFICES ASSUME NEW w \in votes' PROVE <<w[2], w[3]>> \in opened'
  BY DEF VotesAreOpened
<1>1. opened \subseteq opened'
  BY HistoryGrows
<1>2. CASE w \in votes
  BY <1>1, <1>2 DEF SafetyInv, VotesAreOpened
<1>3. CASE w \notin votes
  <2>1. PICK n \in Nodes :
          /\ node'[n].accepted_proposal # 0
          /\ w = <<n, node'[n].accepted_proposal, node'[n].accepted_value>>
    BY <1>3, HistoryGrows
  <2>2. PICK p : NodeOutcome(n, node[n], p, node'[n], votes', opened, opened', SlotsLeft)
    BY AfterSlot
  <2>3. VoteFrom(node[n], node'[n], opened)
    BY <2>2 DEF NodeOutcome
  <2>4. AcceptorInv(n)
    BY DEF SafetyInv
  <2> QED
    BY <1>1, <1>3, <2>1, <2>3, <2>4 DEF VoteFrom, AcceptorInv, VotedFor
<1> QED
  BY <1>2, <1>3

ChosenIn(V) == {w[3] : w \in {x \in V : Quorum(V, x[2], x[3])}}

(* Chosen, before and after the slot, as a function of the votes. *)
LEMMA ChosenIsChosenIn == Chosen = ChosenIn(votes) /\ Chosen' = ChosenIn(votes')
BY DEF Chosen, ChosenIn, ChosenAt, VotedFor, Quorum

(* A quorum of votes chooses its value. *)
LEMMA QuorumIsChosen ==
  ASSUME NEW V, NEW b, NEW v, Quorum(V, b, v) PROVE v \in ChosenIn(V)
<1> DEFINE Q == {m \in Nodes : <<m, b, v>> \in V}
<1>1. Majority(Q)
  BY DEF Quorum
<1>2. Q # {}
  <2>1. Cardinality({}) = 0 /\ Cardinality(Nodes) \in Nat
    BY FS_EmptySet, NodesAreFinite, FS_CardinalityType
  <2>2. ~Majority({})
    BY <2>1 DEF Majority
  <2> QED
    BY <1>1, <2>2
<1>3. PICK m \in Nodes : <<m, b, v>> \in V
  BY <1>2
<1> DEFINE x == <<m, b, v>>
<1>4. x \in V /\ x[2] = b /\ x[3] = v
  BY <1>3
<1> HIDE DEF x
<1> QED
  BY <1>4 DEF ChosenIn

(* What is chosen stays chosen. *)
LEMMA ChosenGrows ==
  ASSUME NEW V, NEW W, V \subseteq W, NEW v \in ChosenIn(V) PROVE v \in ChosenIn(W)
<1>1. PICK x \in V : x[3] = v /\ Quorum(V, x[2], x[3])
  BY DEF ChosenIn
<1>2. Quorum(W, x[2], x[3])
  BY <1>1, QuorumGrows
<1> QED
  BY <1>1, <1>2, QuorumIsChosen

(* A slot preserves LearnedIsChosen. *)
LEMMA LearnedIsChosenNext ==
  ASSUME OneAttemptEach', SafetyInv, NEW sent, NEW heard, SlotStep(sent, heard)
  PROVE  LearnedIsChosen'
<1> SUFFICES ASSUME NEW n \in Nodes, node'[n].value_chosen
             PROVE  node'[n].learned_value \in ChosenIn(votes')
  BY ChosenIsChosenIn DEF LearnedIsChosen
<1>1. PICK p : NodeOutcome(n, node[n], p, node'[n], votes', opened, opened', SlotsLeft)
  BY AfterSlot
<1>2. LearnedFrom(node[n], node'[n], votes') /\ votes \subseteq votes'
  BY <1>1, HistoryGrows DEF NodeOutcome
<1>3. CASE node[n].value_chosen /\ node'[n].learned_value = node[n].learned_value
  <2>1. node[n].learned_value \in ChosenIn(votes)
    BY <1>3, ChosenIsChosenIn DEF SafetyInv, LearnedIsChosen
  <2> QED
    BY <1>2, <1>3, <2>1, ChosenGrows
<1>4. CASE \E b : Quorum(votes', b, node'[n].learned_value)
  BY <1>4, QuorumIsChosen
<1> QED
  BY <1>2, <1>3, <1>4 DEF LearnedFrom

(* A slot preserves MajorityIsReal. *)
LEMMA MajorityIsRealNext ==
  ASSUME OneAttemptEach', SafetyInv, NEW sent, NEW heard, SlotStep(sent, heard)
  PROVE  MajorityIsReal'
<1> SUFFICES ASSUME NEW n \in Proposers, node'[n].got_majority
             PROVE  Quorum(votes', Proposed(n, node'[n]), node'[n].proposed_value)
  BY DEF MajorityIsReal, ChosenAt, VotedFor, Quorum
<1>1. n \in Nodes
  BY NodesAssumption DEF NodesAssumption
<1>2. PICK p : NodeOutcome(n, node[n], p, node'[n], votes', opened, opened', SlotsLeft)
  BY <1>1, AfterSlot
<1>3. MajorityWon(n, node[n], node'[n], votes') /\ votes \subseteq votes'
  BY <1>2, HistoryGrows DEF NodeOutcome, ProposerAfter
<1>4. CASE /\ node[n].got_majority /\ node'[n].round = node[n].round
           /\ node'[n].proposed_value = node[n].proposed_value
  <2>1. Quorum(votes, Proposed(n, node[n]), node[n].proposed_value)
    BY <1>4 DEF SafetyInv, MajorityIsReal, ChosenAt, VotedFor, Quorum
  <2>2. Proposed(n, node'[n]) = Proposed(n, node[n])
    BY <1>4 DEF Proposed
  <2> QED
    BY <1>3, <1>4, <2>1, <2>2, QuorumGrows
<1> QED
  BY <1>3, <1>4 DEF MajorityWon

(* A slot preserves CompletionIsReal. *)
LEMMA CompletionIsRealNext ==
  ASSUME OneAttemptEach', SafetyInv, NEW sent, NEW heard, SlotStep(sent, heard)
  PROVE  CompletionIsReal'
<1> SUFFICES ASSUME NEW n \in Nodes, node'[n].completion_slot > 0
             PROVE  \E w \in votes' : \A m \in Nodes : <<m, w[2], w[3]>> \in votes'
  BY DEF CompletionIsReal, VotedFor
<1>1. PICK p : NodeOutcome(n, node[n], p, node'[n], votes', opened, opened', SlotsLeft)
  BY AfterSlot
<1>2. CompletedFrom(node[n], node'[n], votes') /\ votes \subseteq votes'
  BY <1>1, HistoryGrows DEF NodeOutcome
<1>3. CASE node'[n].completion_slot = node[n].completion_slot
  BY <1>2, <1>3 DEF SafetyInv, CompletionIsReal, VotedFor
<1>4. ASSUME NEW b, NEW v, Voted(votes', Nodes, b, v)
      PROVE  \E w \in votes' : \A m \in Nodes : <<m, w[2], w[3]>> \in votes'
  <2> DEFINE w == <<n, b, v>>
  <2>1. w \in votes' /\ w[2] = b /\ w[3] = v
    BY <1>4 DEF Voted
  <2> HIDE DEF w
  <2> QED
    BY <1>4, <2>1 DEF Voted
<1> QED
  BY <1>2, <1>3, <1>4 DEF CompletedFrom

-----------------------------------------------------------------------------
(* The initial state. *)
LEMMA InitNodes ==
  ASSUME Init, NEW n \in Nodes PROVE NodeOK(node[n]) /\ Begun(n, node[n])
<1>1. PICK value \in [Nodes -> Values], draw \in [Nodes -> Draws] :
        node = [m \in Nodes |-> RoundBegin(m, ResetState, value[m], draw[m])]
  BY DEF Init
<1>2. draw[n].threshold \in Thresholds /\ value[n] \in Values
  BY DEF Draws
<1> QED
  BY <1>1, <1>2, RoundBeginLemma

(* The invariant holds when the round begins. *)
LEMMA SafetyInit == ASSUME Init PROVE SafetyInv
<1>1. TypeOK
  BY TypeInit
<1>2. votes = {} /\ opened = {} /\ slot = 0
  BY DEF Init
<1>3. ASSUME NEW n \in Nodes
      PROVE  /\ node[n].local.flags = {n} /\ node[n].accepted_proposal = 0
             /\ node[n].completion_slot = 0 /\ ~node[n].value_chosen
             /\ node[n].min_proposal = node[n].pkt.ballot
             /\ node[n].pkt.phase # PAXOS_ACCEPT /\ node[n].rx_min_proposal = 0
  BY InitNodes DEF Begun, PAXOS_INIT, PAXOS_PREPARE, PAXOS_ACCEPT
<1>4. ASSUME NEW n \in Nodes PROVE AcceptorInv(n)
  <2>1. node[n].pkt.ballot \in Nat
    BY <1>1 DEF TypeOK, NodeOK, PacketOK, Uint16
  <2> QED
    BY <1>3, <2>1 DEF AcceptorInv, ReportsInv, FlagsAreVotes
<1>5. ASSUME NEW n \in Proposers
      PROVE  /\ ProposerInv(n) /\ ~node[n].got_majority
             /\ node[n].pkt.ballot # 0 => node[n].phase # PAXOS_INIT
             /\ Proposed(n, node[n]) = BallotOf(1, n)
             /\ node[n].pkt.ballot = 0 \/ node[n].pkt.ballot = BallotOf(1, n)
  <2>1. n \in Nodes /\ n \in Nat
    BY NodesAssumption DEF NodesAssumption, Uint8
  <2>2. Begun(n, node[n])
    BY <2>1, InitNodes
  <2>3. node[n].round = 1 /\ node[n].loser_timeout = 0 /\ ~node[n].got_majority
    BY <1>5, <2>2 DEF Begun
  <2>4. Proposed(n, node[n]) = BallotOf(1, n) /\ BallotOf(1, n) = 256 + n
    BY <2>1, <2>3 DEF Proposed, BallotOf
  <2>5. \/ /\ node[n].phase = PAXOS_PREPARE /\ node[n].pkt.ballot = BallotOf(1, n)
        \/ /\ node[n].phase = PAXOS_INIT /\ node[n].min_proposal = 0
           /\ node[n].pkt.ballot = 0
    BY <1>5, <2>2, <2>4 DEF Begun
  <2>6. OneAttempt(n, node[n], PAXOS_ROUND_MAX_SLOTS - slot)
    BY <2>1, <2>3, <2>4, <2>5 DEF OneAttempt, PAXOS_INIT, PAXOS_PREPARE
  <2> QED
    BY <2>3, <2>4, <2>5, <2>6 DEF ProposerInv, PAXOS_INIT, PAXOS_PREPARE
<1>6. NotStarted
  <2> SUFFICES ASSUME NEW n \in Proposers, NEW m \in Nodes, node[n].phase = PAXOS_INIT
               PROVE  node[m].pkt.ballot # BallotOf(1, n)
    BY <1>5 DEF NotStarted
  <2>1. n \in Uint8 /\ m \in Uint8 /\ 1 \in Uint8 /\ BallotOf(1, n) # 0
    BY NodesAssumption DEF NodesAssumption, Uint8, BallotOf
  <2>2. CASE node[m].pkt.ballot = 0
    BY <2>1, <2>2
  <2>3. CASE node[m].pkt.ballot # 0
    <3>1. m \in Proposers
      BY <2>3, InitNodes DEF Begun
    <3>2. node[m].pkt.ballot = BallotOf(1, m) /\ m # n
      BY <1>5, <2>3, <3>1
    <3> QED
      BY <2>1, <3>2, BallotInjective
  <2> QED
    BY <2>2, <2>3
<1>7. OpenedInv /\ OneValueOpened /\ VotesAreOpened
  BY <1>2 DEF OpenedInv, OneValueOpened, VotesAreOpened
<1>8. LearnedIsChosen /\ MajorityIsReal /\ CompletionIsReal
  BY <1>3, <1>5 DEF LearnedIsChosen, MajorityIsReal, CompletionIsReal
<1>9. LosersWait
  <2> SUFFICES ASSUME NEW n \in Proposers, NEW m \in Nodes
               PROVE  node[m].pkt.ballot # BallotOf(2, n)
    BY DEF LosersWait
  <2>1. n \in Uint8 /\ m \in Uint8 /\ 1 \in Uint8 /\ 2 \in Uint8 /\ BallotOf(2, n) # 0
    BY NodesAssumption DEF NodesAssumption, Uint8, BallotOf
  <2>2. BallotOf(1, m) # BallotOf(2, n)
    BY <2>1, BallotInjective
  <2>3. node[m].pkt.ballot \in {0, BallotOf(1, m)}
    BY <1>5, InitNodes DEF Begun
  <2> QED
    BY <2>1, <2>2, <2>3
<1> QED
  BY <1>1, <1>4, <1>5, <1>6, <1>7, <1>8, <1>9 DEF SafetyInv

(* Every step preserves the invariant. *)
LEMMA SafetyNext ==
  ASSUME OneAttemptEach', SafetyInv, [Next]_vars
  PROVE  SafetyInv'
<1>1. CASE Slot
  <2>1. TypeOK /\ TypeOK'
    BY <1>1, TypeNext DEF SafetyInv, Next
  <2>2. PICK sent, heard : SlotStep(sent, heard)
    BY <1>1, <2>1, SlotHasStep
  <2>3. \A n \in Nodes : AcceptorInv(n)'
    BY <2>2, AcceptorInvNext
  <2>4. \A n \in Proposers : ProposerInv(n)'
    BY <2>2, ProposerInvNext
  <2>5. NotStarted' /\ LosersWait' /\ OpenedInv' /\ OneValueOpened' /\ VotesAreOpened'
    BY <2>2, NotStartedNext, LosersWaitNext, OpenedInvNext, OneValueOpenedNext, VotesAreOpenedNext
  <2>6. LearnedIsChosen' /\ MajorityIsReal' /\ CompletionIsReal'
    BY <2>2, LearnedIsChosenNext, MajorityIsRealNext, CompletionIsRealNext
  <2> QED
    BY <2>1, <2>3, <2>4, <2>5, <2>6 DEF SafetyInv
<1>2. CASE UNCHANGED vars
  <2>1. slot' = slot /\ node' = node /\ opened' = opened /\ votes' = votes
    BY <1>2 DEF vars
  <2>2. TypeOK' /\ NotStarted' /\ LosersWait'
    BY <2>1 DEF SafetyInv, TypeOK, NotStarted, LosersWait
  <2>3. ASSUME NEW n \in Nodes PROVE AcceptorInv(n)'
    BY <2>1 DEF SafetyInv, AcceptorInv, FlagsAreVotes, VotedFor
  <2>4. ASSUME NEW n \in Proposers PROVE ProposerInv(n)'
    BY <2>1 DEF SafetyInv, ProposerInv
  <2>5. OpenedInv' /\ OneValueOpened' /\ VotesAreOpened'
    BY <2>1 DEF SafetyInv, OpenedInv, OneValueOpened, VotesAreOpened
  <2>6. LearnedIsChosen' /\ MajorityIsReal' /\ CompletionIsReal'
    BY <2>1 DEF SafetyInv, LearnedIsChosen, MajorityIsReal, CompletionIsReal, Chosen,
                ChosenAt, VotedFor
  <2> QED
    BY <2>2, <2>3, <2>4, <2>5, <2>6 DEF SafetyInv
<1> QED
  BY <1>1, <1>2 DEF Next

-----------------------------------------------------------------------------
(* The packet that paxos_round_begin (paxos.c:724-766) loads from the report
   buffer, at any node and after any earlier rounds. *)
LEMMA LoadPacket ==
  ASSUME NEW n, NEW s, NEW v, NEW draw
  PROVE  LET b == Load(n, s, v, draw) IN
         /\ b.pkt = b.local
         /\ b.local.flags = s.local.flags \cup {n}
         /\ b.local.ballot = s.local.ballot /\ b.local.phase = s.local.phase
         /\ b.local.proposal = s.local.proposal
         /\ b.local.value = IF n \in Proposers THEN v ELSE s.local.value
<1> DEFINE b == Load(n, s, v, draw)
           q == IF n \in Proposers THEN WithValue(s.local, v) ELSE s.local
           all == q.flags \cup {n}
<1>1. /\ q.flags = s.local.flags /\ q.ballot = s.local.ballot
      /\ q.phase = s.local.phase /\ q.proposal = s.local.proposal
      /\ q.value = IF n \in Proposers THEN v ELSE s.local.value
  BY DEF WithValue
<1>2. b.local = WithFlags(q, all) /\ b.pkt = b.local
  BY DEF Load
<1> HIDE DEF q, b
<1>3. all = s.local.flags \cup {n}
  BY <1>1
<1> HIDE DEF all
<1> QED
  BY <1>1, <1>2, <1>3, WithFlagsFields DEF b

(* What it leaves alone, and what it sets at a proposer. *)
LEMMA LoadFrame ==
  ASSUME NEW n, NEW s, NEW v, NEW draw
  PROVE  LET b == Load(n, s, v, draw) IN
         /\ SameVotes(s, b) /\ SameAggregates(s, b)
         /\ b.learned_value = s.learned_value
         /\ b.got_majority = s.got_majority
         /\ b.loser_timeout = s.loser_timeout
         /\ n \in Proposers =>
              b.round = 1 /\ b.phase = PAXOS_INIT /\ b.proposed_value = v
         /\ n \notin Proposers => SameProposer(s, b)
BY DEF Load, SameVotes, SameAggregates, SameProposer

(* The statics of the state logic that it resets. *)
LEMMA LoadResets ==
  ASSUME NEW n, NEW s, NEW v, NEW draw
  PROVE  LET b == Load(n, s, v, draw) IN
         /\ b.state = "INIT" /\ b.completion_slot = 0
         /\ b.tx_count_complete = 0 /\ b.invalid_rx_count = 0
         /\ b.restart_threshold = draw.threshold
         /\ b.value_chosen \in BOOLEAN /\ b.complete \in BOOLEAN
         /\ b.got_valid_rx \in BOOLEAN
BY DEF Load

(* Loading a well-typed state leaves a well-typed one. *)
LEMMA LoadAnyType ==
  ASSUME NEW n \in Nodes, NEW s, RestOK(s), NEW v \in Uint8, NEW draw
  PROVE  RestOK(Load(n, s, v, draw))
<1> DEFINE b == Load(n, s, v, draw)
<1>1. /\ b.pkt = b.local
      /\ b.local.flags = s.local.flags \cup {n}
      /\ b.local.ballot = s.local.ballot /\ b.local.phase = s.local.phase
      /\ b.local.proposal = s.local.proposal
      /\ b.local.value = IF n \in Proposers THEN v ELSE s.local.value
  BY LoadPacket
<1>2. /\ SameVotes(s, b) /\ SameAggregates(s, b)
      /\ b.learned_value = s.learned_value
      /\ b.got_majority = s.got_majority
      /\ b.loser_timeout = s.loser_timeout
      /\ n \in Proposers =>
           b.round = 1 /\ b.phase = PAXOS_INIT /\ b.proposed_value = v
      /\ n \notin Proposers => SameProposer(s, b)
  BY LoadFrame
<1>3. b.completion_slot = 0 /\ b.value_chosen \in BOOLEAN /\ b.complete \in BOOLEAN
  BY LoadResets
<1> HIDE DEF b
<1>4. PacketOK(b.local)
  BY <1>1 DEF RestOK, PacketOK
<1>5. 1 \in Uint8 /\ PAXOS_INIT \in Phases /\ 0 \in 0..(PAXOS_ROUND_MAX_SLOTS - 1)
  BY ConfigAssumption DEF ConfigAssumption, Uint8, Uint16, Phases
<1>6. ProposerOK(b)
  <2>1. CASE n \in Proposers
    BY <1>2, <1>5, <2>1 DEF RestOK, ProposerOK
  <2>2. CASE n \notin Proposers
    BY <1>2, <2>2, SameProposerOK DEF RestOK
  <2> QED
    BY <2>1, <2>2
<1>7. AcceptorOK(b)
  BY <1>2, SameAcceptorOK DEF RestOK
<1>8. LearnerOK(b)
  BY <1>2, <1>3, <1>5 DEF RestOK, LearnerOK
<1> QED
  BY <1>1, <1>4, <1>6, <1>7, <1>8 DEF RestOK, b

(* A node enters a round from any well-typed state: what the first call of
   the callback makes of the state it loads. *)
LEMMA RoundBeginAny ==
  ASSUME NEW n \in Nodes, NEW s, RestOK(s), NEW v \in Uint8, NEW draw,
         draw.threshold \in Thresholds
  PROVE  LET c == Started(n, Load(n, s, v, draw))
             t == RoundBegin(n, s, v, draw)
         IN /\ NodeOK(t)
            /\ t.pkt = c.pkt
            /\ SameVotes(c, t) /\ SameAggregates(c, t)
            /\ n \in Proposers => SameProposer(c, t)
            /\ \/ t.local = c.local
               \/ /\ t.local.ballot = c.min_proposal /\ t.local.phase = c.pkt.phase
                  /\ t.local.value = c.accepted_value
                  /\ t.local.proposal = c.accepted_proposal
<1> DEFINE b == Load(n, s, v, draw)
           c == Started(n, b)
           w == Work(b, FALSE, FALSE)
           y == Synchrotron(n, w, FALSE, draw)
           f == InjectFailure(y, draw)
           t == Report(n, f, 0)
<1>1. RoundBegin(n, s, v, draw) = t
  BY DEF RoundBegin, Process, Heeds
<1>2. /\ b.state = "INIT" /\ b.tx_count_complete = 0 /\ b.invalid_rx_count = 0
      /\ b.restart_threshold \in Thresholds /\ b.got_valid_rx \in BOOLEAN
  BY LoadResets
<1>3. RestOK(b) /\ (n \in Proposers => b.phase = PAXOS_INIT)
  BY LoadAnyType, LoadFrame
<1> HIDE DEF b
<1>4. /\ NodeOK(y)
      /\ y.pkt = c.pkt /\ y.local = c.local
      /\ SameProposer(c, y) /\ SameVotes(c, y) /\ SameAggregates(c, y)
  BY <1>2, <1>3, FirstSynchrotron
<1> HIDE DEF y, c
<1>5. /\ NodeOK(f)
      /\ f.pkt = y.pkt /\ f.local = y.local
      /\ SameProposer(y, f) /\ SameVotes(y, f) /\ SameAggregates(y, f)
  BY <1>4, InjectFailureLemma
<1> HIDE DEF f
<1>6. /\ NodeOK(t)
      /\ t.pkt = f.pkt
      /\ SameVotes(f, t) /\ SameAggregates(f, t)
      /\ n \in Proposers => SameProposer(f, t)
  BY <1>5, ReportLemma
<1>7. \/ t.local = f.local
      \/ /\ t.local.ballot = f.min_proposal /\ t.local.phase = f.pkt.phase
         /\ t.local.value = f.accepted_value
         /\ t.local.proposal = f.accepted_proposal
  BY DEF Report
<1> HIDE DEF t
<1>8. t.pkt = c.pkt /\ SameVotes(c, t) /\ SameAggregates(c, t)
  BY <1>4, <1>5, <1>6 DEF SameVotes, SameAggregates
<1>9. n \in Proposers => SameProposer(c, t)
  BY <1>4, <1>5, <1>6 DEF SameProposer
<1>10. \/ t.local = c.local
       \/ /\ t.local.ballot = c.min_proposal /\ t.local.phase = c.pkt.phase
          /\ t.local.value = c.accepted_value
          /\ t.local.proposal = c.accepted_proposal
  BY <1>4, <1>5, <1>7 DEF SameVotes
<1> QED
  BY <1>1, <1>6, <1>8, <1>9, <1>10 DEF c, b

(* The state that paxos_reset_state leaves is well-typed. *)
LEMMA ResetRest == RestOK(ResetState)
<1>1. 0 \in Uint8 /\ 0 \in Uint16 /\ 0 \in 0..(PAXOS_ROUND_MAX_SLOTS - 1)
      /\ PAXOS_INIT \in Phases
  BY ConfigAssumption DEF ConfigAssumption, Uint8, Uint16, Phases
<1>2. PacketOK(NoPacket)
  BY <1>1 DEF PacketOK, NoPacket
<1> QED
  BY <1>1, <1>2
  DEF RestOK, ResetState, ProposerOK, AcceptorOK, LearnerOK

-----------------------------------------------------------------------------
(* A single proposer, as the application is shipped (paxos-app.c:143): there
   is one ballot for ever, and every number that a node stores or sends is 0
   or this one. Then the proposer never loses, its accept requests are those
   in opened, and what answers them is a vote for one of them. O stands for
   the history opened. *)
SingleProposer == \A m, n \in Proposers : m = n

TheProposer == IF Proposers = {} THEN Initiator ELSE CHOOSE n \in Proposers : TRUE

TheBallot == BallotOf(1, TheProposer)

OneBallot(O) == \A b, v : <<b, v>> \in O => b = TheBallot

Requested(p, O) == p.phase = PAXOS_ACCEPT => <<p.ballot, p.value>> \in O

SolePacket(p) == p.ballot \in {0, TheBallot} /\ p.proposal \in {0, TheBallot}

SoleAcceptor(s, O) ==
  /\ s.min_proposal \in {0, TheBallot}
  /\ s.accepted_proposal \in {0, TheBallot}
  /\ s.rx_min_proposal \in {0, TheBallot}
  /\ s.rx_accepted_proposal \in {0, TheBallot}
  /\ s.accepted_proposal # 0 =>
       /\ s.min_proposal # 0
       /\ <<s.accepted_proposal, s.accepted_value>> \in O

SoleProposer(s, O) ==
  /\ s.round = 1 /\ s.loser_timeout = 0
  /\ s.phase = PAXOS_ACCEPT => <<TheBallot, s.proposed_value>> \in O

(* At a node that does not propose, an accept request in one of the buffers
   is one the node has voted for. *)
HasVoted(s, O) ==
  /\ Requested(s.local, O)
  /\ s.pkt.phase = PAXOS_ACCEPT => s.accepted_proposal # 0
  /\ s.local.phase = PAXOS_ACCEPT => s.accepted_proposal # 0

SoleNode(n, s, O) ==
  /\ SolePacket(s.pkt) /\ SolePacket(s.local)
  /\ Requested(s.pkt, O)
  /\ SoleAcceptor(s, O)
  /\ n \in Proposers => SoleProposer(s, O)
  /\ n \notin Proposers => HasVoted(s, O)

(* Neither the promise nor the vote of a node is taken back. *)
Keeps(s, t) ==
  /\ s.min_proposal # 0 => t.min_proposal # 0
  /\ s.accepted_proposal # 0 => t.accepted_proposal # 0

(* The inductive invariant with one proposer. *)
SoleInv ==
  /\ OneBallot(opened)
  /\ \A n \in Nodes : SoleNode(n, node[n], opened)

(* The one ballot is a number above 0. *)
LEMMA TheBallotType == TheBallot \in Nat /\ TheBallot > 0
<1>1. TheProposer \in Nodes
  BY NodesAssumption DEF NodesAssumption, TheProposer
<1>2. TheProposer \in Nat
  BY <1>1, NodesAssumption DEF NodesAssumption, Uint8
<1> QED
  BY <1>2 DEF TheBallot, BallotOf

(* The ballot of a proposer that has not lost. *)
LEMMA SoleProposed ==
  ASSUME SingleProposer, NEW n \in Proposers, NEW s, s.round = 1
  PROVE  Proposed(n, s) = TheBallot
<1>1. n = TheProposer
  BY DEF SingleProposer, TheProposer
<1> QED
  BY <1>1 DEF Proposed, TheBallot

(* The MAX macro stays within the two numbers. *)
LEMMA SoleMax ==
  ASSUME NEW a \in {0, TheBallot}, NEW b \in {0, TheBallot}
  PROVE  /\ MaxOf(a, b) \in {0, TheBallot}
         /\ (a # 0 \/ b # 0) => MaxOf(a, b) = TheBallot
BY TheBallotType DEF MaxOf

(* More accept requests do no harm. *)
LEMMA SoleGrows ==
  ASSUME NEW n, NEW s, NEW O, NEW P, O \subseteq P, SoleNode(n, s, O)
  PROVE  SoleNode(n, s, P)
BY DEF SoleNode, SoleAcceptor, SoleProposer, HasVoted, Requested

(* The stages after Paxos proper, which may copy the results to the report
   buffer (paxos.c:630-650). *)
Settled(n, s, t) ==
  /\ t.pkt = s.pkt
  /\ SameVotes(s, t) /\ SameAggregates(s, t)
  /\ n \in Proposers => SameProposer(s, t)
  /\ \/ t.local = s.local
     \/ /\ t.local.ballot = s.min_proposal /\ t.local.phase = s.pkt.phase
        /\ t.local.value = s.accepted_value
        /\ t.local.proposal = s.accepted_proposal

(* Copying the results keeps the invariant of a node. *)
LEMMA SettledSole ==
  ASSUME NEW n, NEW s, NEW t, NEW O, SoleNode(n, s, O), Settled(n, s, t)
  PROVE  SoleNode(n, t, O)
<1>1. SoleAcceptor(t, O)
  BY DEF SoleNode, SoleAcceptor, Settled, SameVotes, SameAggregates
<1>2. n \in Proposers => SoleProposer(t, O)
  BY DEF SoleNode, SoleProposer, Settled, SameProposer
<1>3. SolePacket(t.local)
  BY DEF SoleNode, SoleAcceptor, SolePacket, Settled
<1>4. ASSUME n \notin Proposers PROVE HasVoted(t, O)
  <2>1. t.pkt = s.pkt /\ t.accepted_proposal = s.accepted_proposal
    BY DEF Settled, SameVotes
  <2>2. CASE t.local = s.local
    BY <1>4, <2>1, <2>2 DEF SoleNode, HasVoted
  <2>3. CASE /\ t.local.ballot = s.min_proposal /\ t.local.phase = s.pkt.phase
             /\ t.local.value = s.accepted_value
    <3>1. s.pkt.phase = PAXOS_ACCEPT =>
            /\ s.accepted_proposal # 0 /\ s.min_proposal = s.accepted_proposal
            /\ <<s.accepted_proposal, s.accepted_value>> \in O
      BY <1>4 DEF SoleNode, HasVoted, SoleAcceptor
    <3> QED
      BY <2>1, <2>3, <3>1 DEF HasVoted, Requested
  <2> QED
    BY <2>2, <2>3 DEF Settled
<1> QED
  BY <1>1, <1>2, <1>3, <1>4 DEF SoleNode, Settled

(* Starting Paxos again does not lower the promise: there is one ballot. *)
LEMMA BeginPrepareSole ==
  ASSUME SingleProposer, NEW n \in Proposers, NEW s, NEW O,
         SolePacket(s.pkt), SolePacket(s.local), SoleAcceptor(s, O),
         s.round = 1, s.loser_timeout = 0
  PROVE  LET t == BeginPrepare(n, s) IN
         /\ SoleNode(n, t, O) /\ t.min_proposal = TheBallot
         /\ t.accepted_proposal = s.accepted_proposal
<1> DEFINE t == BeginPrepare(n, s)
<1>1. Proposed(n, s) = TheBallot
  BY SoleProposed
<1>2. /\ t.phase = PAXOS_PREPARE
      /\ t.min_proposal = TheBallot
      /\ t.pkt = WithRequest(s.pkt, TheBallot, PAXOS_PREPARE)
      /\ t.local = s.local
      /\ t.round = s.round /\ t.loser_timeout = s.loser_timeout
      /\ t.accepted_proposal = s.accepted_proposal
      /\ t.accepted_value = s.accepted_value
      /\ SameAggregates(s, t)
  BY <1>1, BeginPrepareEffect
<1> HIDE DEF t
<1>3. t.pkt.ballot = TheBallot /\ t.pkt.phase = PAXOS_PREPARE
      /\ t.pkt.proposal = s.pkt.proposal
  BY <1>2, WithRequestFields
<1>4. SolePacket(t.pkt) /\ Requested(t.pkt, O)
  BY <1>3 DEF SolePacket, Requested, PAXOS_PREPARE, PAXOS_ACCEPT
<1>5. SoleAcceptor(t, O)
  BY <1>2, TheBallotType DEF SoleAcceptor, SameAggregates
<1>6. SoleProposer(t, O)
  BY <1>2 DEF SoleProposer, PAXOS_PREPARE, PAXOS_ACCEPT
<1> QED
  BY <1>2, <1>4, <1>5, <1>6 DEF SoleNode, t

(* A node enters a round with what it carries from the one before. *)
LEMMA RoundBeginSole ==
  ASSUME SingleProposer, NEW n \in Nodes, NEW s, RestOK(s), NEW O,
         SolePacket(s.local), SoleAcceptor(s, O), s.loser_timeout = 0 \/ n \notin Proposers,
         n \notin Proposers => /\ Requested(s.local, O)
                               /\ s.local.phase = PAXOS_ACCEPT => s.accepted_proposal # 0,
         n \in Proposers => n = Initiator \/ s.local.phase # PAXOS_ACCEPT,
         NEW v \in Uint8, NEW draw, draw.threshold \in Thresholds
  PROVE  LET t == RoundBegin(n, s, v, draw) IN
         /\ SoleNode(n, t, O)
         /\ t.min_proposal \in {s.min_proposal, TheBallot}
         /\ t.accepted_proposal = s.accepted_proposal
<1> DEFINE b == Load(n, s, v, draw)
           c == Started(n, b)
           t == RoundBegin(n, s, v, draw)
<1>1. /\ b.pkt = b.local
      /\ b.local.ballot = s.local.ballot /\ b.local.phase = s.local.phase
      /\ b.local.proposal = s.local.proposal
      /\ n \notin Proposers => b.local.value = s.local.value
  BY LoadPacket
<1>2. /\ SameVotes(s, b) /\ SameAggregates(s, b)
      /\ n \in Proposers => /\ b.round = 1 /\ b.phase = PAXOS_INIT
                           /\ b.loser_timeout = s.loser_timeout
  BY LoadFrame
<1> HIDE DEF b
<1>3. SolePacket(b.local) /\ SolePacket(b.pkt)
  BY <1>1 DEF SolePacket
<1>4. SoleAcceptor(b, O)
  BY <1>2 DEF SoleAcceptor, SameVotes, SameAggregates
<1>5. /\ SoleNode(n, c, O) /\ c.min_proposal \in {s.min_proposal, TheBallot}
      /\ c.accepted_proposal = s.accepted_proposal
  <2>1. CASE n \in Proposers /\ n = Initiator
    <3>1. c = BeginPrepare(n, b)
      BY <2>1 DEF Started
    <3> QED
      BY <1>2, <1>3, <1>4, <2>1, <3>1, BeginPrepareSole DEF SameVotes
  <2>2. CASE n \in Proposers /\ n # Initiator
    <3>1. c = b
      BY <2>2 DEF Started
    <3>2. Requested(b.pkt, O)
      BY <1>1, <2>2 DEF Requested
    <3>3. SoleProposer(b, O)
      BY <1>2, <2>2 DEF SoleProposer, PAXOS_INIT, PAXOS_ACCEPT
    <3> QED
      BY <1>2, <1>3, <1>4, <2>2, <3>1, <3>2, <3>3 DEF SoleNode, SameVotes
  <2>3. CASE n \notin Proposers
    <3>1. c = b
      BY <2>3 DEF Started
    <3>2. Requested(b.local, O) /\ HasVoted(b, O)
      BY <1>1, <1>2, <2>3 DEF HasVoted, Requested, SameVotes
    <3> QED
      BY <1>1, <1>2, <1>3, <1>4, <2>3, <3>1, <3>2 DEF SoleNode, SameVotes
  <2> QED
    BY <2>1, <2>2, <2>3
<1>6. Settled(n, c, t)
  BY RoundBeginAny DEF Settled, b
<1> HIDE DEF c, t
<1>7. /\ SoleNode(n, t, O) /\ t.min_proposal = c.min_proposal
      /\ t.accepted_proposal = c.accepted_proposal
  BY <1>5, <1>6, SettledSole DEF Settled, SameVotes
<1> QED
  BY <1>5, <1>7 DEF t

(* The acceptor stage (paxos.c:221-380): every accept request is answered by
   a vote, since no higher ballot exists. *)
LEMMA AcceptorSole ==
  ASSUME NEW n \in Nodes, NEW s, NodeOK(s), NEW p, PacketOK(p), NEW own,
         NEW k, NEW draw, NEW O, OneBallot(O),
         SoleNode(n, s, O), SolePacket(p), Requested(p, O)
  PROVE  LET t == Acceptor(n, s, p, own, k, draw).s IN
         SoleNode(n, t, O) /\ Keeps(s, t)
<1> DEFINE w == Acceptor(n, s, p, own, k, draw)
           a == Adopt(s, p)
           r == Reply(a, p)
           flags == r.pkt.flags \cup p.flags
           t == Tally(n, r, p, own, flags, k)
<1>1. CASE ~NotOlder(s, p)
  BY <1>1 DEF Acceptor, Work, Keeps
<1>2. CASE NotOlder(s, p)
  <2>1. w.s = t
    BY <1>2 DEF Acceptor, Work
  <2>2. /\ a.pkt = (IF NewPhase(s, p) THEN p ELSE s.pkt)
        /\ a.local = s.local
        /\ SameProposer(s, a) /\ SameVotes(s, a)
    BY AdoptEffect
  <2>3. /\ a.rx_min_proposal \in {0, s.rx_min_proposal}
        /\ a.rx_accepted_proposal \in {0, s.rx_accepted_proposal}
    BY DEF Adopt
  <2> HIDE DEF a
  <2>4. /\ SolePacket(a.pkt) /\ Requested(a.pkt, O)
        /\ a.pkt.phase = p.phase
    BY <2>2 DEF SoleNode, NewPhase
  <2>5. SoleAcceptor(a, O)
    BY <2>2, <2>3 DEF SoleNode, SoleAcceptor, SameVotes
  <2>6. /\ SolePacket(r.pkt) /\ Requested(r.pkt, O)
        /\ r.pkt.phase = p.phase /\ r.local = a.local
        /\ SameProposer(a, r) /\ SoleAcceptor(r, O)
        /\ p.phase = PAXOS_ACCEPT => r.accepted_proposal # 0
        /\ a.min_proposal # 0 => r.min_proposal # 0
        /\ a.accepted_proposal # 0 => r.accepted_proposal # 0
    <3>1. CASE p.phase = PAXOS_PREPARE
      <4>1. r = Prepare(a, p)
        BY <3>1 DEF Reply
      <4>2. /\ r.accepted_proposal = a.accepted_proposal
            /\ r.accepted_value = a.accepted_value
            /\ r.min_proposal = MaxOf(p.ballot, a.min_proposal)
            /\ r.rx_min_proposal = a.rx_min_proposal
            /\ r.local = a.local /\ SameProposer(a, r)
        BY <4>1 DEF Prepare, SameProposer
      <4>3. \/ /\ r.pkt = WithReport(a.pkt, a.rx_accepted_proposal, a.rx_accepted_value)
               /\ r.rx_accepted_proposal = a.rx_accepted_proposal
            \/ r.pkt = a.pkt /\ r.rx_accepted_proposal = p.proposal
        BY <4>1 DEF Prepare
      <4> HIDE DEF r
      <4>4. /\ r.pkt.ballot = a.pkt.ballot /\ r.pkt.phase = p.phase
            /\ r.pkt.proposal \in {a.pkt.proposal, a.rx_accepted_proposal}
        BY <2>4, <4>3, WithReportFields
      <4>5. SolePacket(r.pkt) /\ Requested(r.pkt, O)
        BY <2>4, <2>5, <3>1, <4>4
        DEF SolePacket, SoleAcceptor, Requested, PAXOS_PREPARE, PAXOS_ACCEPT
      <4>6. /\ r.min_proposal \in {0, TheBallot}
            /\ a.min_proposal # 0 => r.min_proposal = TheBallot
        BY <2>5, <4>2, SoleMax DEF SolePacket, SoleAcceptor
      <4>7. r.rx_accepted_proposal \in {0, TheBallot}
        BY <2>5, <4>3 DEF SolePacket, SoleAcceptor
      <4>8. SoleAcceptor(r, O)
        BY <2>5, <4>2, <4>6, <4>7, TheBallotType DEF SoleAcceptor
      <4> QED
        BY <3>1, <4>2, <4>4, <4>5, <4>6, <4>8, TheBallotType
        DEF PAXOS_PREPARE, PAXOS_ACCEPT
    <3>2. CASE p.phase = PAXOS_ACCEPT
      <4>1. r = Accept(a, p)
        BY <3>2 DEF Reply, PAXOS_PREPARE, PAXOS_ACCEPT
      <4>2. p.ballot = TheBallot /\ <<TheBallot, p.value>> \in O
        BY <3>2 DEF Requested, OneBallot
      <4>3. p.ballot >= a.min_proposal
        BY <2>5, <4>2, TheBallotType DEF SoleAcceptor
      <4>4. /\ r.min_proposal = TheBallot /\ r.accepted_proposal = TheBallot
            /\ r.accepted_value = p.value
            /\ r.local = a.local /\ SameProposer(a, r)
            /\ r.rx_min_proposal =
                 MaxOf(p.proposal, MaxOf(TheBallot, a.rx_min_proposal))
            /\ r.pkt = WithReport(a.pkt, r.rx_min_proposal, a.pkt.value)
            /\ r.rx_accepted_proposal \in {a.rx_accepted_proposal, TheBallot}
        BY <4>1, <4>2, <4>3 DEF Accept, SameProposer
      <4> HIDE DEF r
      <4>5. r.rx_min_proposal \in {0, TheBallot}
        <5>1. MaxOf(TheBallot, a.rx_min_proposal) \in {0, TheBallot}
          BY <2>5, SoleMax DEF SoleAcceptor
        <5> QED
          BY <4>4, <5>1, SoleMax DEF SolePacket
      <4>6. /\ r.pkt.ballot = a.pkt.ballot /\ r.pkt.phase = a.pkt.phase
            /\ r.pkt.value = a.pkt.value /\ r.pkt.proposal = r.rx_min_proposal
        BY <4>4, WithReportFields
      <4>7. SolePacket(r.pkt) /\ Requested(r.pkt, O)
        BY <2>4, <4>5, <4>6 DEF SolePacket, Requested
      <4>8. SoleAcceptor(r, O)
        BY <2>5, <4>2, <4>4, <4>5, TheBallotType DEF SoleAcceptor
      <4> QED
        BY <2>4, <4>4, <4>6, <4>7, <4>8, TheBallotType
    <3>3. CASE p.phase = PAXOS_INIT
      BY <2>4, <2>5, <3>3
      DEF Reply, SameProposer, PAXOS_PREPARE, PAXOS_ACCEPT, PAXOS_INIT
    <3> QED
      BY <3>1, <3>2, <3>3 DEF PacketOK, Phases
  <2>7. /\ t.pkt.phase = r.pkt.phase /\ t.pkt.ballot = r.pkt.ballot
        /\ t.pkt.value = r.pkt.value /\ t.pkt.proposal = r.pkt.proposal
        /\ t.local = r.local
        /\ SameProposer(r, t) /\ SameVotes(r, t) /\ SameAggregates(r, t)
    BY TallyFrame
  <2> HIDE DEF r, t
  <2>8. /\ SolePacket(t.pkt) /\ SolePacket(t.local) /\ Requested(t.pkt, O)
    BY <2>2, <2>6, <2>7 DEF SoleNode, SolePacket, Requested
  <2>9. SoleAcceptor(t, O)
    BY <2>6, <2>7 DEF SoleAcceptor, SameVotes, SameAggregates
  <2>10. n \in Proposers => SoleProposer(t, O)
    BY <2>2, <2>6, <2>7 DEF SoleNode, SoleProposer, SameProposer
  <2>11. n \notin Proposers => HasVoted(t, O)
    BY <2>2, <2>6, <2>7 DEF SoleNode, HasVoted, SameVotes
  <2>12. SoleNode(n, t, O)
    BY <2>8, <2>9, <2>10, <2>11 DEF SoleNode
  <2>13. Keeps(s, t)
    BY <2>2, <2>6, <2>7 DEF SameVotes, Keeps
  <2> QED
    BY <2>1, <2>12, <2>13
<1> QED
  BY <1>1, <1>2

(* Counting replies (paxos.c:407-473): no reply reports a higher ballot, and
   what the proposer sends when it turns to the accept phase is its request. *)
LEMMA CountRepliesSole ==
  ASSUME SingleProposer, NEW n \in Proposers, NEW w, NEW O,
         SoleNode(n, w.s, O)
  PROVE  LET u == CountReplies(n, w).s IN
         /\ SoleNode(n, u, O \cup Opened(n, u))
         /\ Keeps(w.s, u)
<1> DEFINE s == AdoptValue(w.s)
           heardHigher ==
             \/ s.phase = PAXOS_PREPARE /\ s.rx_accepted_proposal > Proposed(n, s)
             \/ s.phase = PAXOS_ACCEPT /\ s.rx_min_proposal > Proposed(n, s)
           won == ~heardHigher /\ Majority(s.pkt.flags)
           turned == won /\ s.phase = PAXOS_PREPARE
           counted == [s EXCEPT !.phase = IF turned THEN PAXOS_ACCEPT ELSE @,
                                !.got_majority = won /\ s.phase = PAXOS_ACCEPT]
           lost == \/ heardHigher
                   \/ /\ counted.phase = PAXOS_ACCEPT
                      /\ s.rx_min_proposal > Proposed(n, s)
                      /\ ~counted.got_majority
           after == IF lost THEN Lose(counted) ELSE counted
           u == CountReplies(n, w).s
           P == O \cup Opened(n, u)
<1>1. u = IF turned THEN SendPhase(n, after) ELSE after
  BY DEF CountReplies, Work
<1>2. /\ s.pkt = w.s.pkt /\ s.local = w.s.local
      /\ SameVotes(w.s, s) /\ SameAggregates(w.s, s)
      /\ s.round = w.s.round /\ s.loser_timeout = w.s.loser_timeout
      /\ s.phase = w.s.phase
      /\ s.phase # PAXOS_PREPARE => s.proposed_value = w.s.proposed_value
  BY DEF AdoptValue, SameVotes, SameAggregates
<1> HIDE DEF s
<1>3. /\ SolePacket(s.pkt) /\ SolePacket(s.local) /\ Requested(s.pkt, O)
      /\ s.round = 1 /\ s.loser_timeout = 0
  BY <1>2 DEF SoleNode, SoleProposer
<1>4. SoleAcceptor(s, O)
  BY <1>2 DEF SoleNode, SoleAcceptor, SameVotes, SameAggregates
<1>5. s.phase = PAXOS_ACCEPT => <<TheBallot, s.proposed_value>> \in O
  BY <1>2 DEF SoleNode, SoleProposer, PAXOS_PREPARE, PAXOS_ACCEPT
<1>6. Proposed(n, s) = TheBallot
  BY <1>3, SoleProposed
<1>7. /\ ~(s.rx_accepted_proposal > Proposed(n, s))
      /\ ~(s.rx_min_proposal > Proposed(n, s))
  BY <1>4, <1>6, TheBallotType DEF SoleAcceptor
<1>8. ~heardHigher /\ ~lost
  BY <1>7
<1>9. after = counted
  BY <1>8
<1> HIDE DEF heardHigher, won, lost, after
<1>10. /\ counted.pkt = s.pkt /\ counted.local = s.local
       /\ SameVotes(s, counted) /\ SameAggregates(s, counted)
       /\ counted.round = s.round /\ counted.loser_timeout = s.loser_timeout
       /\ counted.proposed_value = s.proposed_value
       /\ counted.phase = IF turned THEN PAXOS_ACCEPT ELSE s.phase
  BY DEF SameVotes, SameAggregates
<1> HIDE DEF turned, counted, u
<1>11. SoleAcceptor(counted, P)
  BY <1>4, <1>10 DEF SoleAcceptor, SameVotes, SameAggregates
<1>12. CASE ~turned
  <2>1. u = counted
    BY <1>1, <1>9, <1>12
  <2>2. SolePacket(u.pkt) /\ SolePacket(u.local) /\ Requested(u.pkt, P)
    BY <1>3, <1>10, <2>1 DEF Requested
  <2>3. SoleProposer(u, P)
    BY <1>3, <1>5, <1>10, <1>12, <2>1 DEF SoleProposer
  <2>4. Keeps(w.s, u)
    BY <1>2, <1>10, <2>1 DEF SameVotes, Keeps
  <2> HIDE DEF P
  <2>5. SoleNode(n, u, P)
    BY <1>11, <2>1, <2>2, <2>3 DEF SoleNode
  <2> QED
    BY <2>4, <2>5 DEF u, P
<1>13. CASE turned
  <2>1. u = SendPhase(n, counted)
    BY <1>1, <1>9, <1>13
  <2>2. Proposed(n, counted) = TheBallot
    BY <1>3, <1>10, SoleProposed
  <2>3. /\ u.pkt.ballot = TheBallot /\ u.pkt.phase = PAXOS_ACCEPT
        /\ u.pkt.value = s.proposed_value /\ u.pkt.proposal = 0
        /\ u.local = counted.local
        /\ SameVotes(counted, u) /\ SameAggregates(counted, u)
        /\ u.round = 1 /\ u.loser_timeout = 0
        /\ u.phase = PAXOS_ACCEPT /\ u.proposed_value = s.proposed_value
    BY <1>3, <1>10, <1>13, <2>1, <2>2 DEF SendPhase, SameVotes, SameAggregates
  <2>4. Proposed(n, u) = TheBallot
    BY <2>3, SoleProposed
  <2>5. <<TheBallot, s.proposed_value>> \in P
    BY <2>3, <2>4 DEF Opened
  <2> HIDE DEF P
  <2>6. SolePacket(u.pkt) /\ SolePacket(u.local) /\ Requested(u.pkt, P)
    BY <1>3, <1>10, <2>3, <2>5 DEF Requested, SolePacket
  <2>7. SoleProposer(u, P)
    BY <2>3, <2>5 DEF SoleProposer
  <2>8. SoleAcceptor(u, P)
    BY <1>11, <2>3 DEF SoleAcceptor, SameVotes, SameAggregates
  <2>9. Keeps(w.s, u)
    BY <1>2, <1>10, <2>3 DEF SameVotes, Keeps
  <2>10. SoleNode(n, u, P)
    BY <2>6, <2>7, <2>8 DEF SoleNode
  <2> QED
    BY <2>9, <2>10 DEF u, P
<1> QED
  BY <1>12, <1>13

(* The proposer stage (paxos.c:385-535): with one ballot it never loses. *)
LEMMA ProposerSole ==
  ASSUME SingleProposer, NEW n, NEW w, NEW p, NEW O,
         SoleNode(n, w.s, O), SolePacket(p)
  PROVE  LET u == Proposer(n, w, p).s IN
         /\ SoleNode(n, u, IF n \in Proposers THEN O \cup Opened(n, u) ELSE O)
         /\ Keeps(w.s, u)
<1> DEFINE s == w.s
           u == Proposer(n, w, p).s
           P == IF n \in Proposers THEN O \cup Opened(n, u) ELSE O
<1>1. O \subseteq P
  OBVIOUS
<1>2. CASE n \notin Proposers \/ s.got_majority
  <2>1. u = s
    BY <1>2 DEF Proposer
  <2> HIDE DEF P, u
  <2>2. SoleNode(n, u, P)
    BY <1>1, <2>1, SoleGrows
  <2> QED
    BY <2>1, <2>2 DEF u, P, Keeps
<1>3. CASE n \in Proposers /\ ~s.got_majority
  <2>1. SoleProposer(s, O) /\ SoleAcceptor(s, O)
        /\ SolePacket(s.pkt) /\ SolePacket(s.local)
    BY <1>3 DEF SoleNode
  <2>2. Proposed(n, s) = TheBallot
    BY <1>3, <2>1, SoleProposed DEF SoleProposer
  <2>3. ~(s.loser_timeout > 0) /\ ~(p.ballot > Proposed(n, s))
    BY <2>1, <2>2, TheBallotType DEF SoleProposer, SolePacket
  <2>4. u \in {CountReplies(n, w).s, s, BeginPrepare(n, s)}
    BY <1>3, <2>3 DEF Proposer, Compete, Work
  <2> HIDE DEF u
  <2>5. CASE u = CountReplies(n, w).s
    BY <1>3, <2>5, CountRepliesSole DEF u
  <2>6. CASE u = s
    <3> HIDE DEF P
    <3>1. SoleNode(n, u, P)
      BY <1>1, <2>6, SoleGrows
    <3> QED
      BY <2>6, <3>1 DEF u, P, Keeps
  <2>7. CASE u = BeginPrepare(n, s)
    <3>1. /\ SoleNode(n, u, O) /\ u.min_proposal = TheBallot
          /\ u.accepted_proposal = s.accepted_proposal
      BY <1>3, <2>1, <2>7, BeginPrepareSole DEF SoleProposer
    <3> HIDE DEF P
    <3>2. SoleNode(n, u, P)
      BY <1>1, <3>1, SoleGrows
    <3> QED
      BY <3>1, <3>2, TheBallotType DEF u, P, Keeps
  <2> QED
    BY <2>4, <2>5, <2>6, <2>7
<1> QED
  BY <1>2, <1>3

(* A heartbeat (paxos.c:187-219), at a node that has promised nothing. *)
LEMMA HearInitSole ==
  ASSUME SingleProposer, NEW n, NEW s, NEW p, NEW O,
         SoleNode(n, s, O), SolePacket(p), p.phase = PAXOS_INIT
  PROVE  SoleNode(n, HearInit(n, s, p).s, O)
<1> DEFINE t == HearInit(n, s, p).s
           e == [s EXCEPT !.pkt = WithFlags(@, s.local.flags)]
<1>1. CASE n \in Proposers /\ s.phase = PAXOS_INIT
  <2>1. t = BeginPrepare(n, e)
    BY <1>1 DEF HearInit, Work
  <2>2. /\ e.pkt = WithFlags(s.pkt, s.local.flags) /\ e.local = s.local
        /\ SameVotes(s, e) /\ SameAggregates(s, e)
        /\ e.round = s.round /\ e.loser_timeout = s.loser_timeout
    BY DEF SameVotes, SameAggregates
  <2> HIDE DEF e
  <2>3. SolePacket(e.pkt) /\ SolePacket(e.local)
    BY <2>2, WithFlagsFields DEF SoleNode, SolePacket
  <2>4. SoleAcceptor(e, O)
    BY <2>2 DEF SoleNode, SoleAcceptor, SameVotes, SameAggregates
  <2>5. e.round = 1 /\ e.loser_timeout = 0
    BY <1>1, <2>2 DEF SoleNode, SoleProposer
  <2> QED
    BY <1>1, <2>1, <2>3, <2>4, <2>5, BeginPrepareSole
<1>2. CASE n \in Proposers /\ s.phase # PAXOS_INIT
  BY <1>2 DEF HearInit, Work
<1>3. CASE n \notin Proposers
  <2> DEFINE f == s.pkt.flags \cup p.flags
  <2> HIDE DEF f
  <2> DEFINE all == s.complete \/ f = Nodes
             g == [s EXCEPT !.pkt = WithFlags(p, f), !.complete = all]
  <2>1. t = g
    BY <1>3 DEF HearInit, Work, f
  <2> HIDE DEF all
  <2>2. /\ g.pkt = WithFlags(p, f) /\ g.local = s.local
        /\ SameVotes(s, g) /\ SameAggregates(s, g)
    BY DEF SameVotes, SameAggregates
  <2> HIDE DEF t, g
  <2>3. SolePacket(g.pkt) /\ g.pkt.phase # PAXOS_ACCEPT
    BY <2>2, WithFlagsFields DEF SolePacket, PAXOS_INIT, PAXOS_ACCEPT
  <2>4. SoleAcceptor(g, O)
    BY <2>2 DEF SoleNode, SoleAcceptor, SameVotes, SameAggregates
  <2>5. HasVoted(g, O)
    BY <1>3, <2>2, <2>3 DEF SoleNode, HasVoted, SameVotes
  <2>6. SoleNode(n, g, O)
    BY <1>3, <2>2, <2>3, <2>4, <2>5 DEF SoleNode, Requested
  <2> QED
    BY <2>1, <2>6 DEF t
<1> QED
  BY <1>1, <1>2, <1>3

(* The stages after Paxos proper only settle the node. *)
LEMMA FinishSettles ==
  ASSUME NEW n \in Nodes, NEW w, w.s.state # "INIT", NEW ok, NEW k, NEW draw
  PROVE  Settled(n, w.s, Finish(n, w, ok, k, draw))
<1> DEFINE s == w.s
           y == Synchrotron(n, w, ok, draw)
           f == InjectFailure(y, draw)
           t == Report(n, f, k)
<1>1. /\ y.pkt = s.pkt /\ y.local = s.local
      /\ SameProposer(s, y) /\ SameVotes(s, y) /\ SameAggregates(s, y)
  BY SynchrotronFrame
<1> HIDE DEF y
<1>2. /\ f.pkt = y.pkt /\ f.local = y.local
      /\ SameProposer(y, f) /\ SameVotes(y, f) /\ SameAggregates(y, f)
  BY DEF InjectFailure, SameProposer, SameVotes, SameAggregates
<1> HIDE DEF f
<1>3. /\ t.pkt = f.pkt /\ SameVotes(f, t) /\ SameAggregates(f, t)
      /\ n \in Proposers => SameProposer(f, t)
  BY DEF Report, SameProposer, SameVotes, SameAggregates
<1>4. \/ t.local = f.local
      \/ /\ t.local.ballot = f.min_proposal /\ t.local.phase = f.pkt.phase
         /\ t.local.value = f.accepted_value
         /\ t.local.proposal = f.accepted_proposal
  BY DEF Report
<1> HIDE DEF t
<1>5. t.pkt = s.pkt /\ SameVotes(s, t) /\ SameAggregates(s, t)
  BY <1>1, <1>2, <1>3 DEF SameVotes, SameAggregates
<1>6. n \in Proposers => SameProposer(s, t)
  BY <1>1, <1>2, <1>3 DEF SameProposer
<1>7. \/ t.local = s.local
      \/ /\ t.local.ballot = s.min_proposal /\ t.local.phase = s.pkt.phase
         /\ t.local.value = s.accepted_value
         /\ t.local.proposal = s.accepted_proposal
  BY <1>1, <1>2, <1>4 DEF SameVotes
<1> QED
  BY <1>5, <1>6, <1>7 DEF Settled, Finish, t, f, y

(* The accept request of a proposer is the same once the node has settled. *)
LEMMA SettledOpened ==
  ASSUME NEW n \in Proposers, NEW s, NEW t, Settled(n, s, t)
  PROVE  Opened(n, t) = Opened(n, s)
BY DEF Settled, SameProposer, Opened, Proposed

(* What a node adds to the history of accept requests. *)
Added(n, t) == IF n \in Proposers THEN Opened(n, t) ELSE {}

(* A whole slot of process(). *)
LEMMA ProcessSole ==
  ASSUME SingleProposer, NEW n \in Nodes, NEW s, NodeOK(s),
         NEW ok, NEW p, PacketOK(p), NEW k \in 0..(PAXOS_ROUND_MAX_SLOTS - 1),
         NEW draw, NEW O, OneBallot(O),
         SoleNode(n, s, O), SolePacket(p), Requested(p, O)
  PROVE  LET t == Process(n, s, ok, p, k, draw) IN
         /\ SoleNode(n, t, O \cup Added(n, t))
         /\ Keeps(s, t)
<1> DEFINE t == Process(n, s, ok, p, k, draw)
           h == GotValidRx(s)
<1>1. NodeOK(h)
  BY GotValidRxCore
<1>2. /\ SoleNode(n, h, O) /\ h.min_proposal = s.min_proposal
      /\ h.accepted_proposal = s.accepted_proposal
  <2>1. Settled(n, s, h)
    BY GotValidRxLemma DEF Settled
  <2> QED
    BY <2>1, SettledSole DEF Settled, SameVotes
<1>3. \A u : NodeOK(u) => u.state # "INIT"
  BY DEF NodeOK, RadioOK
<1>4. ASSUME NEW w, NodeOK(w.s), t = Finish(n, w, ok, k, draw),
             SoleNode(n, w.s, O \cup Added(n, w.s)),
             Keeps(s, w.s)
      PROVE  SoleNode(n, t, O \cup Added(n, t)) /\ Keeps(s, t)
  <2> HIDE DEF t
  <2>1. Settled(n, w.s, t)
    BY <1>3, <1>4, FinishSettles
  <2>2. Added(n, t) = Added(n, w.s)
    BY <2>1, SettledOpened DEF Added
  <2>3. SoleNode(n, t, O \cup Added(n, w.s))
    BY <1>4, <2>1, SettledSole
  <2> QED
    BY <1>4, <2>1, <2>2, <2>3 DEF Settled, SameVotes, Keeps
<1>5. CASE ~Heeds(n, s, ok)
  <2> DEFINE w == Work(s, FALSE, FALSE)
  <2>1. t = Finish(n, w, ok, k, draw) /\ w.s = s
    BY <1>5 DEF Process, Finish, Work
  <2> HIDE DEF w, t
  <2>2. SoleNode(n, w.s, O \cup Added(n, w.s))
    BY <2>1, SoleGrows
  <2>3. Keeps(s, w.s)
    BY <2>1 DEF Keeps
  <2> QED
    BY <1>4, <2>1, <2>2, <2>3 DEF t
<1>6. CASE Heeds(n, s, ok) /\ p.phase = PAXOS_INIT /\ s.min_proposal = 0
  <2> DEFINE w == HearInit(n, h, p)
  <2>1. t = Finish(n, w, ok, k, draw)
    BY <1>6 DEF Process, Paxos, Finish
  <2>2. NodeOK(w.s) /\ SoleNode(n, w.s, O)
    BY <1>1, <1>2, <1>6, HearInitLemma, HearInitSole
  <2> HIDE DEF w, t
  <2>3. SoleNode(n, w.s, O \cup Added(n, w.s))
    BY <2>2, SoleGrows
  <2>4. Keeps(s, w.s)
    BY <1>6 DEF Keeps, SoleNode, SoleAcceptor
  <2> QED
    BY <1>4, <2>1, <2>2, <2>3, <2>4 DEF t
<1>7. CASE Heeds(n, s, ok) /\ ~(p.phase = PAXOS_INIT /\ s.min_proposal = 0)
  <2> DEFINE a == Acceptor(n, h, p, s.state = "TX", k, draw)
             w == Proposer(n, a, p)
  <2>1. t = Finish(n, w, ok, k, draw)
    BY <1>7 DEF Process, Paxos, Finish
  <2>2. /\ NodeOK(a.s) /\ SoleNode(n, a.s, O)
        /\ Keeps(s, a.s)
    BY <1>1, <1>2, AcceptorLemma, AcceptorSole DEF Keeps
  <2> HIDE DEF a
  <2>3. /\ NodeOK(w.s)
        /\ SoleNode(n, w.s, IF n \in Proposers THEN O \cup Opened(n, w.s) ELSE O)
        /\ Keeps(s, w.s)
    BY <2>2, ProposerLemma, ProposerSole DEF Keeps
  <2> HIDE DEF w, t
  <2>4. SoleNode(n, w.s, O \cup Added(n, w.s))
    <3>1. O \cup Added(n, w.s) = (IF n \in Proposers THEN O \cup Opened(n, w.s) ELSE O)
      BY DEF Added
    <3> QED
      BY <2>3, <3>1
  <2> QED
    BY <1>4, <2>1, <2>3, <2>4 DEF t
<1> QED
  BY <1>5, <1>6, <1>7

-----------------------------------------------------------------------------
(* The state that a reset leaves satisfies what a round may begin with. *)
LEMMA ResetSole ==
  ASSUME NEW O
  PROVE  /\ SolePacket(ResetState.local) /\ SoleAcceptor(ResetState, O)
         /\ ResetState.loser_timeout = 0 /\ Requested(ResetState.local, O)
         /\ ResetState.local.phase # PAXOS_ACCEPT
BY DEF ResetState, NoPacket, SolePacket, SoleAcceptor, Requested,
       PAXOS_INIT, PAXOS_ACCEPT

(* A slot of the network keeps the invariant, the promises and the votes. *)
LEMMA SoleSlot ==
  ASSUME SingleProposer, TypeOK, SoleInv, Slot
  PROVE  SoleInv' /\ \A n \in Nodes : Keeps(node[n], node'[n])
<1>1. PICK sent \in SUBSET Transmitters :
        \E heard \in Receptions(sent), draw \in [Nodes -> Draws] :
          node' = [n \in Nodes |-> Step(n, sent, heard, draw[n])]
  BY DEF Slot
<1>2. PICK heard \in Receptions(sent), draw \in [Nodes -> Draws] :
        node' = [n \in Nodes |-> Step(n, sent, heard, draw[n])]
  BY <1>1
<1>3. slot \in 0..(PAXOS_ROUND_MAX_SLOTS - 1)
  BY ConfigAssumption DEF ConfigAssumption, Uint16, TypeOK, Slot
<1>4. opened' = opened \cup UNION {Opened(n, node'[n]) : n \in Proposers}
  BY DEF Slot
<1>5. ASSUME NEW n \in Nodes
      PROVE  SoleNode(n, node'[n], opened') /\ Keeps(node[n], node'[n])
  <2> DEFINE s == node[n]
             t == node'[n]
             p == node[heard[n]].pkt
             ok == n \in sent \/ heard[n] # n
  <2>1. heard[n] \in Nodes
    BY DEF Receptions
  <2>2. NodeOK(s) /\ PacketOK(p)
    BY <2>1 DEF TypeOK, NodeOK
  <2>3. /\ OneBallot(opened) /\ SoleNode(n, s, opened)
        /\ SolePacket(p) /\ Requested(p, opened)
    BY <2>1 DEF SoleInv, SoleNode
  <2>4. t = IF s.state = "OFF" THEN s ELSE Process(n, s, ok, p, slot, draw[n])
    BY <1>2 DEF Step
  <2>5. opened \cup Added(n, t) \subseteq opened'
    BY <1>4 DEF Added
  <2> HIDE DEF s, t, p, ok
  <2>6. SoleNode(n, t, opened \cup Added(n, t)) /\ Keeps(s, t)
    <3>1. CASE s.state = "OFF"
      BY <2>3, <2>4, <3>1, SoleGrows DEF Keeps
    <3>2. CASE s.state # "OFF"
      BY <1>3, <2>2, <2>3, <2>4, <3>2, ProcessSole
    <3> QED
      BY <3>1, <3>2
  <2>7. SoleNode(n, t, opened')
    BY <2>5, <2>6, SoleGrows
  <2> QED
    BY <2>6, <2>7 DEF s, t
<1>6. OneBallot(opened')
  <2> SUFFICES ASSUME NEW b, NEW v, <<b, v>> \in opened' PROVE b = TheBallot
    BY DEF OneBallot
  <2>1. CASE <<b, v>> \in opened
    BY <2>1 DEF SoleInv, OneBallot
  <2>2. CASE <<b, v>> \notin opened
    <3>1. PICK n \in Proposers : <<b, v>> \in Opened(n, node'[n])
      BY <1>4, <2>2
    <3>2. b = Proposed(n, node'[n])
      BY <3>1 DEF Opened
    <3>3. node'[n].round = 1
      BY <1>5, <3>1, NodesAssumption DEF NodesAssumption, SoleNode, SoleProposer
    <3> QED
      BY <3>1, <3>2, <3>3, SoleProposed
  <2> QED
    BY <2>1, <2>2
<1> QED
  BY <1>5, <1>6 DEF SoleInv

(* A round begins in the same way. *)
LEMMA SoleRound ==
  ASSUME SingleProposer, Init
  PROVE  SoleInv
<1>1. PICK value \in [Nodes -> Values], draw \in [Nodes -> Draws] :
        node = [n \in Nodes |-> RoundBegin(n, ResetState, value[n], draw[n])]
  BY DEF Init
<1>2. ASSUME NEW n \in Nodes PROVE SoleNode(n, node[n], opened)
  <2>1. draw[n].threshold \in Thresholds /\ value[n] \in Uint8
    BY ConfigAssumption DEF ConfigAssumption, Draws
  <2> QED
    BY <1>1, <2>1, ResetRest, ResetSole, RoundBeginSole
<1>3. OneBallot(opened)
  BY DEF OneBallot, Init
<1> QED
  BY <1>2, <1>3 DEF SoleInv

(* A proposer that lost does not compete again in the same round: its back-off
   counter (8 bits, paxos.c:519) holds the number of slots of the round, or
   there is no other proposer to lose to. *)
NoComeback == PAXOS_ROUND_MAX_SLOTS <= 256 \/ SingleProposer

(* Then a proposer loses only where its back-off outlasts the round. *)
LEMMA OneAttempts ==
  ASSUME NoComeback
  PROVE  Spec => []OneAttemptEach
<1>1. CASE PAXOS_ROUND_MAX_SLOTS <= 256
  <2>1. OneAttemptEach
    BY <1>1 DEF OneAttemptEach
  <2> QED
    BY <2>1, PTL
<1>2. CASE SingleProposer
  <2>1. Init => SoleInv
    BY <1>2, SoleRound
  <2>2. TypeOK /\ SoleInv /\ [Next]_vars => SoleInv'
    <3>1. ASSUME TypeOK, SoleInv, Slot PROVE SoleInv'
      BY <1>2, <3>1, SoleSlot
    <3>2. ASSUME SoleInv, UNCHANGED vars PROVE SoleInv'
      BY <3>2 DEF vars, SoleInv
    <3> QED
      BY <3>1, <3>2 DEF Next
  <2>3. SoleInv => OneAttemptEach
    BY NodesAssumption DEF NodesAssumption, SoleInv, SoleNode, SoleProposer, OneAttemptEach
  <2> QED
    BY <2>1, <2>2, <2>3, TypeCorrect, PTL DEF Spec
<1> QED
  BY <1>1, <1>2 DEF NoComeback

-----------------------------------------------------------------------------
(* The inductive invariant holds in a round of at most 256 slots, where the 8
   bit back-off counter of paxos.c:519 does not wrap, and in a round of any
   length with a single proposer: a proposer makes one attempt, and the flags
   of accept packets are votes. *)
THEOREM Safety ==
  ASSUME NoComeback
  PROVE  Spec => []SafetyInv
<1>1. Init => SafetyInv
  BY SafetyInit
<1>2. OneAttemptEach' /\ SafetyInv /\ [Next]_vars => SafetyInv'
  BY SafetyNext
<1> QED
  BY <1>1, <1>2, OneAttempts, PTL DEF Spec

(* The quorum read of paxos.c:361 is sound: what a node learns is chosen. *)
THEOREM LearnersAreSound ==
  ASSUME NoComeback
  PROVE  Spec => []LearnedIsChosen
<1>1. SafetyInv => LearnedIsChosen
  BY DEF SafetyInv
<1> QED
  BY <1>1, Safety, PTL

(* got_majority (paxos.c:458) is only set for a value that is chosen. *)
THEOREM ProposersAreSound ==
  ASSUME NoComeback
  PROVE  Spec => []MajorityIsReal
<1>1. SafetyInv => MajorityIsReal
  BY DEF SafetyInv
<1> QED
  BY <1>1, Safety, PTL

(* Completion (paxos.c:370), which lets the application reset its nodes,
   means that every acceptor has accepted the value. *)
THEOREM CompletionIsSound ==
  ASSUME NoComeback
  PROVE  Spec => []CompletionIsReal
<1>1. SafetyInv => CompletionIsReal
  BY DEF SafetyInv
<1> QED
  BY <1>1, Safety, PTL

(* Within a round a ballot stands for one value. *)
THEOREM BallotsAreUnique ==
  ASSUME NoComeback
  PROVE  Spec => []OneValuePerBallot
<1>1. SafetyInv => OneValuePerBallot
  <2> SUFFICES ASSUME SafetyInv, NEW x \in votes, NEW y \in votes, x[2] = y[2]
               PROVE  x[3] = y[3]
    BY DEF OneValuePerBallot
  <2> QED
    BY OpenedAreUnique DEF SafetyInv, VotesAreOpened, OneValue
<1> QED
  BY <1>1, Safety, PTL

(* Within a round no acceptor lowers its promise, although the code assigns
   min_proposal without comparing where a proposer starts (paxos.c:500, 567). *)
THEOREM PromisesHold ==
  ASSUME NoComeback
  PROVE  Spec => PromisesAreKept
<1>1. OneAttemptEach' /\ SafetyInv /\ [Next]_vars =>
        [\A n \in Nodes : node'[n].min_proposal >= node[n].min_proposal]_vars
  <2> SUFFICES ASSUME OneAttemptEach', SafetyInv, Slot, NEW n \in Nodes
               PROVE  node'[n].min_proposal >= node[n].min_proposal
    BY DEF Next
  <2>1. PICK sent, heard : SlotStep(sent, heard)
    BY SlotHasStep DEF SafetyInv
  <2>2. PICK p : NodeOutcome(n, node[n], p, node'[n], votes', opened, opened', SlotsLeft)
    BY <2>1, AfterSlot
  <2> QED
    BY <2>2 DEF NodeOutcome
<1> QED
  BY <1>1, Safety, OneAttempts, PTL DEF Spec, PromisesAreKept

(* A proposer that lost does not ask for its second ballot before the round
   ends (paxos.c:397-402, 519): losing never opens a request of its own,
   because no reply to a prepare request reports a promise above its ballot. *)
THEOREM LosersStayOut ==
  ASSUME NoComeback
  PROVE  Spec => []LosersWait
<1>1. SafetyInv => LosersWait
  BY DEF SafetyInv
<1> QED
  BY <1>1, Safety, PTL

(* With a single proposer, as in apps/chaos/paxos, a round of any length
   chooses at most one value. *)
THEOREM SingleProposerAgreement ==
  ASSUME SingleProposer
  PROVE  Spec => []Agreement
<1>1. SafetyInv => Agreement
  <2> SUFFICES ASSUME SafetyInv, NEW v \in Chosen, NEW w \in Chosen PROVE v = w
    BY DEF Agreement
  <2>1. PICK x \in votes : x[3] = v
    BY DEF Chosen
  <2>2. PICK y \in votes : y[3] = w
    BY DEF Chosen
  <2>3. <<x[2], v>> \in opened /\ <<y[2], w>> \in opened
    BY <2>1, <2>2 DEF SafetyInv, VotesAreOpened
  <2>4. PICK m \in Proposers : x[2] = BallotOf(1, m)
    BY <2>3, OpenedBallot DEF SafetyInv
  <2>5. PICK n \in Proposers : y[2] = BallotOf(1, n)
    BY <2>3, OpenedBallot DEF SafetyInv
  <2>6. x[2] = y[2]
    BY <2>4, <2>5 DEF SingleProposer
  <2> QED
    BY <2>3, <2>6, OpenedAreUnique DEF SafetyInv, OneValue
<1> QED
  BY <1>1, Safety, PTL DEF NoComeback
-----------------------------------------------------------------------------
(* Validity: the nodes pass on, and vote for, proposed values only. *)
ValidInv ==
  /\ \A n \in Nodes : ValidNode(n, node[n])
  /\ \A w \in votes : w[3] \in Values

(* Only values that some acceptor voted for are chosen. *)
LEMMA ChosenAreVotes == Chosen \subseteq {w[3] : w \in votes}
BY DEF Chosen

(* The round begins with valid states. *)
LEMMA ValidInit == ASSUME Init PROVE ValidInv
<1>1. PICK value \in [Nodes -> Values], draw \in [Nodes -> Draws] :
        node = [m \in Nodes |-> RoundBegin(m, ResetState, value[m], draw[m])]
  BY DEF Init
<1>2. ASSUME NEW n \in Nodes PROVE ValidNode(n, node[n])
  <2>1. draw[n].threshold \in Thresholds /\ value[n] \in Values
    BY DEF Draws
  <2> QED
    BY <1>1, <2>1, RoundBeginValid
<1> QED
  BY <1>2 DEF ValidInv, Init

(* A slot preserves validity. *)
LEMMA ValidNext == ASSUME TypeOK, ValidInv, [Next]_vars PROVE ValidInv'
<1>1. CASE Slot
  <2>1. PICK sent, heard : SlotStep(sent, heard)
    BY <1>1, SlotHasStep
  <2>2. ASSUME NEW n \in Nodes PROVE ValidNode(n, node'[n]) /\ NodeOK(node'[n])
    <3>1. PICK draw \in Draws : node'[n] = Step(n, sent, heard, draw)
      BY <2>1 DEF SlotStep
    <3>2. /\ NodeOK(node[n]) /\ PacketOK(node[heard[n]].pkt) /\ heard[n] \in Nodes
      BY <2>1 DEF SlotStep, TypeOK, Receptions, NodeOK
    <3>3. ValidNode(n, node[n]) /\ ValidPacket(node[heard[n]].pkt)
      BY <3>2 DEF ValidInv, ValidNode
    <3>4. slot \in 0..(PAXOS_ROUND_MAX_SLOTS - 1)
      BY <2>1, ConfigAssumption DEF ConfigAssumption, Uint16, SlotStep
    <3>5. ValidNode(n, node'[n])
      BY <3>1, <3>2, <3>3, <3>4, ProcessValid DEF Step
    <3>6. NodeOK(node'[n])
      BY <2>1, NodeEffectLemma DEF NodeEffect
    <3> QED
      BY <3>5, <3>6
  <2>3. ASSUME NEW w \in votes' PROVE w[3] \in Values
    <3>1. CASE w \in votes
      BY <3>1 DEF ValidInv
    <3>2. CASE w \notin votes
      <4>1. PICK n \in Nodes :
              /\ node'[n].accepted_proposal # 0
              /\ w = <<n, node'[n].accepted_proposal, node'[n].accepted_value>>
        BY <2>1, <3>2, HistoryGrows
      <4>2. node'[n].accepted_proposal \in Nat
        BY <2>2 DEF NodeOK, AcceptorOK, Uint16
      <4>3. node'[n].accepted_value \in Values
        BY <2>2, <4>1, <4>2 DEF ValidNode
      <4> QED
        BY <4>1, <4>3
    <3> QED
      BY <3>1, <3>2
  <2> QED
    BY <2>2, <2>3 DEF ValidInv
<1>2. CASE UNCHANGED vars
  BY <1>2 DEF vars, ValidInv
<1> QED
  BY <1>1, <1>2 DEF Next

(* Whatever the proposers and the length of the round, a chosen value is one
   that an application proposed: neither the 0 of an empty report nor a value
   adopted from a reply (paxos.c:410, 510) is made up. *)
THEOREM Validity == Spec => [](Chosen \subseteq Values)
<1>1. Init => TypeOK /\ ValidInv
  BY TypeInit, ValidInit
<1>2. TypeOK /\ ValidInv /\ [Next]_vars => TypeOK' /\ ValidInv'
  BY TypeNext, ValidNext
<1>3. ValidInv => Chosen \subseteq Values
  BY ChosenAreVotes DEF ValidInv
<1> QED
  BY <1>1, <1>2, <1>3, PTL DEF Spec

(* With a single proposer a round, however long, implements the abstract
   consensus: one of the proposed values is chosen, once and for all. *)
THEOREM ConsensusRefinement ==
  ASSUME SingleProposer
  PROVE  Spec => ImplementsConsensus
<1>1. Init => C!Init
  BY ChosenAreVotes DEF Init, C!Init
<1>2. Agreement /\ Agreement' /\ SafetyInv /\ (Chosen \subseteq Values)' /\ [Next]_vars =>
        [C!Choose]_Chosen
  <2> SUFFICES ASSUME Agreement', SafetyInv, (Chosen \subseteq Values)', [Next]_vars,
                      Chosen' # Chosen
               PROVE  C!Choose
    OBVIOUS
  <2>1. Slot
    BY DEF Next, vars, Chosen, ChosenAt, VotedFor
  <2>2. PICK sent, heard : SlotStep(sent, heard)
    BY <2>1, SlotHasStep DEF SafetyInv
  <2>3. votes \subseteq votes'
    BY <2>2, HistoryGrows
  <2>4. Chosen \subseteq Chosen'
    BY <2>3, ChosenIsChosenIn, ChosenGrows
  <2>5. PICK v \in Chosen' : v \notin Chosen
    BY <2>4
  <2>6. Chosen' = {v} /\ v \in Values
    BY <2>5 DEF Agreement
  <2>7. Chosen = {}
    BY <2>4, <2>5, <2>6
  <2> QED
    BY <2>6, <2>7 DEF C!Choose
<1> QED
  BY <1>1, <1>2, Safety, SingleProposerAgreement, Validity, PTL
  DEF NoComeback, Spec, ImplementsConsensus, C!Spec
-----------------------------------------------------------------------------
(* Promises, with a single proposer. Then every flag in a packet is a promise
   for the packet's ballot, so the majority of flags that opens the accept
   phase is a majority of promises. With several proposers it need not be: a
   proposer that starts on hearing a lower ballot (paxos.c:497-503) keeps the
   flags that answered the other request. *)
Numbered(q) == q.ballot = 0 <=> q.phase = PAXOS_INIT

Promised(b) == {n \in Nodes : node[n].min_proposal >= b}

PromiseInv ==
  /\ \A m \in Nodes : Numbered(node[m].pkt)
  /\ slot < PAXOS_ROUND_MAX_SLOTS => \A m \in Nodes :
       /\ node[m].pkt.ballot = 0 \/ \E o \in Proposers : node[m].pkt.ballot = BallotOf(1, o)
       /\ node[m].pkt.flags \subseteq Promised(node[m].pkt.ballot)
  /\ \A n \in Proposers :
       /\ node[n].phase # PAXOS_INIT => node[n].min_proposal >= BallotOf(1, n)
       /\ node[n].phase = PAXOS_ACCEPT => Majority(Promised(BallotOf(1, n)))
  /\ \A x \in opened : Majority(Promised(x[1]))

(* The requests a proposer that has started puts into the buffer: none, that
   of its second ballot when the round is over, or the accept request. *)
LEMMA ProposerRequests ==
  ASSUME NEW n, NEW s, NEW p, NEW a, NEW left, ProposerBefore(n, s, p, a, left),
         s.phase # PAXOS_INIT,
         NEW u, NodeOK(u), Beside(a, u), ProposerEffect(n, a, p, u)
  PROVE  \/ u.pkt = a.pkt /\ (u.phase = PAXOS_ACCEPT => s.phase = PAXOS_ACCEPT)
         \/ ~(left > 1) /\ u.phase = PAXOS_PREPARE /\ Requests(n, u, u.pkt) /\ u.round = 2
         \/ /\ p.ballot = BallotOf(1, n) /\ a.pkt.ballot = BallotOf(1, n)
            /\ u.round = 1 /\ s.round = 1 /\ Opens(n, a, u)
<1>1. ProposerInts(n, s, p, a, u) /\ ProposerKept(n, s, a, left)
  BY ProposerTypes, ProposerKeeps
<1>2. CASE Unmoved(n, a, p, u)
  BY <1>1, <1>2 DEF Unmoved, ProposerKept
<1>3. CASE Waits(n, a, u)
  <2>1. a.round = 2 /\ u.round = 2 /\ u.phase = PAXOS_PREPARE
    BY <1>1, <1>3 DEF Waits, ProposerKept, ProposerInts
  <2>2. u.loser_timeout = 0 => ~(left > 1)
    BY <1>1, <1>3, <2>1 DEF Waits, ProposerKept, ProposerInts, ProposerBefore
  <2> QED
    BY <1>3, <2>1, <2>2 DEF Waits, PAXOS_PREPARE, PAXOS_ACCEPT
<1>4. CASE ~a.got_majority /\ Competes(n, a, p, u)
  <2>1. a.round = 1 /\ s.round = 1 /\ a.phase = s.phase
    BY <1>1, <1>4 DEF Competes, ProposerKept, ProposerInts, ProposerBefore
  <2>2. CASE p.ballot = Proposed(n, a) /\ p.phase = a.phase /\ CountEffect(n, a, u)
    <3>1. s.pkt.ballot <= Proposed(n, a) /\ Proposed(n, a) = BallotOf(1, n)
      BY <1>1, <1>4, <2>1 DEF ProposerKept, Proposed
    <3>2. a.pkt.ballot = p.ballot
      <4>1. CASE NotOlder(s, p)
        BY <4>1 DEF ProposerBefore
      <4>2. CASE ~NotOlder(s, p)
        <5>1. a.pkt.ballot = s.pkt.ballot
          BY <4>2 DEF ProposerBefore
        <5> QED
          BY <1>1, <2>2, <3>1, <4>2, <5>1 DEF NotOlder, ProposerInts
      <4> QED
        BY <4>1, <4>2
    <3>3. ~(a.rx_min_proposal > Proposed(n, a))
      BY <1>1, <2>2, <3>1, <3>2 DEF ProposerBefore, ProposerInts
    <3>4. CASE GoesOn(n, a, u)
      BY <2>1, <3>4 DEF GoesOn
    <3>5. CASE LoseEffect(a, u) /\ u.pkt = a.pkt
      BY <3>5 DEF LoseEffect, PAXOS_PREPARE, PAXOS_ACCEPT
    <3>6. CASE Opens(n, a, u)
      BY <2>1, <2>2, <3>1, <3>2, <3>6 DEF Opens
    <3> QED
      BY <2>2, <3>3, <3>4, <3>5, <3>6 DEF CountEffect
  <2>3. CASE LoseEffect(a, u) /\ u.pkt = a.pkt
    BY <2>3 DEF LoseEffect, PAXOS_PREPARE, PAXOS_ACCEPT
  <2> QED
    BY <1>4, <2>1, <2>2, <2>3 DEF Competes
<1> QED
  BY <1>2, <1>3, <1>4 DEF ProposerEffect

(* Why node f has promised ballot b after a slot of node n: it is n itself, or
   its flag was in a packet for ballot b before the slot. Ballot 0 is that of
   the heartbeat, which asks for no promise. *)
PromiseFrom(n, s, p, t, f, b) ==
  \/ b = 0
  \/ f = n /\ t.min_proposal >= b
  \/ f \in s.pkt.flags /\ s.pkt.ballot = b
  \/ f \in p.flags /\ p.ballot = b

PromiseOutcome(n, s, p, t, left) ==
  /\ Numbered(t.pkt)
  /\ left > 1 => \A f \in t.pkt.flags : PromiseFrom(n, s, p, t, f, t.pkt.ballot)
  /\ n \in Proposers /\ t.phase # PAXOS_INIT /\ s.phase = PAXOS_INIT =>
       t.min_proposal >= BallotOf(1, n)
  /\ n \in Proposers /\ t.phase = PAXOS_ACCEPT /\ s.phase # PAXOS_ACCEPT =>
       \E F \in SUBSET Nodes :
         Majority(F) /\ \A f \in F : PromiseFrom(n, s, p, t, f, BallotOf(1, n))

(* What PromiseInv says of node n and of the packet p it hears. *)
PromiseBefore(n, s, p) ==
  /\ Numbered(s.pkt) /\ Numbered(p)
  /\ n \in Proposers =>
       /\ s.phase = PAXOS_INIT => p.phase = PAXOS_INIT
       /\ s.phase # PAXOS_INIT => s.min_proposal >= BallotOf(1, n)

(* Nothing but timers and radio. *)
LEMMA CorePromise ==
  ASSUME NEW n \in Nodes, NEW s, NEW p, NEW t, NEW left, PromiseBefore(n, s, p), Core(n, s, t)
  PROVE  PromiseOutcome(n, s, p, t, left)
<1>1. t.pkt = s.pkt /\ (n \in Proposers => t.phase = s.phase)
  BY DEF Core, SameProposer
<1> QED
  BY <1>1 DEF PromiseOutcome, PromiseBefore, PromiseFrom

(* A heartbeat: a proposer that starts promises its own ballot. *)
LEMMA HeartbeatPromise ==
  ASSUME NEW n \in Nodes, NEW s, NodeOK(s), NEW p, NEW t, NodeOK(t), NEW left,
         n \in Proposers => OneAttempt(n, s, left), s.local.flags = {n},
         PromiseBefore(n, s, p), HeartbeatMove(n, s, p, t), p.phase = PAXOS_INIT
  PROVE  PromiseOutcome(n, s, p, t, left)
<1>1. CASE Core(n, s, t)
  BY <1>1, CorePromise
<1>2. CASE Starts(n, s, t) /\ t.pkt.flags = s.local.flags
  <2>1. /\ n \in Proposers /\ s.phase = PAXOS_INIT /\ t.phase = PAXOS_PREPARE
        /\ t.min_proposal = Proposed(n, s) /\ t.pkt.ballot = Proposed(n, s)
        /\ t.pkt.phase = PAXOS_PREPARE /\ t.pkt.flags = {n}
    BY <1>2 DEF Starts
  <2>2. Proposed(n, s) = BallotOf(1, n)
    BY <2>1, FirstBallot
  <2>3. BallotOf(1, n) \in Int /\ BallotOf(1, n) > 0
    BY NodesAssumption DEF NodesAssumption, Uint8, BallotOf
  <2> QED
    BY <2>1, <2>2, <2>3 DEF PromiseOutcome, PromiseFrom, Numbered, PAXOS_INIT, PAXOS_PREPARE,
                            PAXOS_ACCEPT
<1>3. CASE Relays(n, s, p, t)
  <2>1. n \notin Proposers /\ t.pkt.ballot = 0 /\ t.pkt.phase = PAXOS_INIT
    BY <1>3 DEF Relays, PromiseBefore, Numbered
  <2>2. s.min_proposal \in Nat /\ t.min_proposal \in Nat
    BY DEF NodeOK, AcceptorOK, Uint16
  <2> QED
    BY <2>1, <2>2 DEF PromiseOutcome, PromiseFrom, Numbered
<1> QED
  BY <1>1, <1>2, <1>3 DEF HeartbeatMove

(* The acceptor stage: the flags it merges belong to the ballot it heeds, and
   its own flag follows its own promise. *)
LEMMA AcceptorPromise ==
  ASSUME NEW n \in Nodes, NEW s, NodeOK(s), NEW p, PacketOK(p), NEW a, NodeOK(a), NEW t, NodeOK(t),
         s.min_proposal <= s.pkt.ballot, Numbered(s.pkt), Numbered(p),
         ~(p.phase = PAXOS_INIT /\ s.min_proposal = 0),
         AcceptorMove(n, s, p, a), t.min_proposal >= a.min_proposal
  PROVE  /\ Numbered(a.pkt)
         /\ \A f \in a.pkt.flags : PromiseFrom(n, s, p, t, f, a.pkt.ballot)
<1>1. /\ s.min_proposal \in Nat /\ s.pkt.ballot \in Nat /\ p.ballot \in Nat
      /\ a.min_proposal \in Nat /\ t.min_proposal \in Nat
  BY DEF NodeOK, AcceptorOK, PacketOK, Uint16
<1>2. CASE NotOlder(s, p)
  <2>1. /\ a.pkt.ballot = p.ballot /\ a.pkt.phase = p.phase
        /\ a.pkt.flags = Merged(s, p) \cup {n}
        /\ a.min_proposal = (IF p.phase = PAXOS_INIT THEN s.min_proposal
                             ELSE MaxOf(p.ballot, s.min_proposal))
    BY <1>2 DEF AcceptorMove
  <2>2. p.phase # PAXOS_INIT
    <3> SUFFICES ASSUME p.phase = PAXOS_INIT PROVE FALSE
      OBVIOUS
    <3>1. p.ballot = 0
      BY DEF Numbered
    <3> QED
      BY <1>1, <1>2, <3>1 DEF NotOlder
  <2>3. t.min_proposal >= p.ballot
    BY <1>1, <2>1, <2>2 DEF MaxOf
  <2>4. ASSUME NEW f \in a.pkt.flags PROVE PromiseFrom(n, s, p, t, f, a.pkt.ballot)
    BY <2>1, <2>3 DEF Merged, NewPhase, PromiseFrom
  <2> QED
    BY <2>1, <2>4 DEF Numbered
<1>3. CASE ~NotOlder(s, p)
  <2>1. a.pkt = s.pkt
    BY <1>3 DEF AcceptorMove
  <2> QED
    BY <2>1 DEF PromiseFrom
<1> QED
  BY <1>2, <1>3

(* A Paxos packet: the accept request of the proposer follows a majority of
   flags, and every flag a promise. *)
LEMMA PaxosPromise ==
  ASSUME NEW n \in Nodes, NEW s, NEW p, NEW t, NodeOK(t), NEW V, NEW O, NEW P, NEW left,
         NodeBefore(n, s, p, t, V, O, P, left), PromiseBefore(n, s, p), PaxosMove(n, s, p, t)
  PROVE  PromiseOutcome(n, s, p, t, left)
<1>1. PICK a, u : /\ NodeOK(a) /\ AcceptorMove(n, s, p, a)
                  /\ NodeOK(u) /\ Beside(a, u) /\ ProposerEffect(n, a, p, u)
                  /\ Core(n, u, t)
  BY DEF PaxosMove
<1>2. /\ t.pkt = u.pkt /\ t.min_proposal = u.min_proposal
      /\ t.accepted_proposal = a.accepted_proposal
      /\ t.accepted_value = a.accepted_value
      /\ n \in Proposers => SameProposer(u, t)
  BY <1>1, AfterCore
<1>3. OwnVote(n, a, V)
  BY <1>2 DEF NodeBefore, OwnVote
<1>4. /\ AcceptorOutcome(n, s, p, a, V, O)
      /\ a.pkt.ballot = IF NotOlder(s, p) THEN p.ballot ELSE s.pkt.ballot
      /\ a.local.flags = {n}
  BY <1>1, <1>3, PaxosAcceptorOutcome
<1>5. /\ NodeOK(s) /\ PacketOK(p) /\ s.min_proposal <= s.pkt.ballot
      /\ ~(p.phase = PAXOS_INIT /\ s.min_proposal = 0)
      /\ Numbered(s.pkt) /\ Numbered(p)
  BY DEF NodeBefore, PaxosMove, PromiseBefore
<1>6. /\ t.min_proposal \in Nat /\ a.min_proposal \in Nat /\ s.min_proposal \in Nat
      /\ n \in Nat
  BY <1>1, <1>5, NodesAssumption DEF NodeOK, AcceptorOK, Uint16, Uint8, NodesAssumption
<1>7. CASE n \notin Proposers
  <2>1. u = a
    BY <1>1, <1>7 DEF ProposerEffect, Unmoved
  <2>2. t.min_proposal >= a.min_proposal /\ t.pkt = a.pkt
    BY <1>2, <1>6, <2>1
  <2>3. Numbered(a.pkt) /\ \A f \in a.pkt.flags : PromiseFrom(n, s, p, t, f, a.pkt.ballot)
    BY <1>1, <1>5, <2>2, AcceptorPromise
  <2> QED
    BY <1>7, <2>2, <2>3 DEF PromiseOutcome
<1>8. CASE n \in Proposers
  <2>1. ProposerBefore(n, s, p, a, left)
    BY <1>1, <1>4, <1>8 DEF ProposerBefore, NodeBefore, AcceptorMove, AcceptorOutcome, ReportsInv
  <2>2. s.phase # PAXOS_INIT
    BY <1>5, <1>8, <2>1 DEF PromiseBefore, ProposerBefore, OneAttempt
  <2>3. ProposerOutcome(n, s, p, a, u, left)
    <3>1. t.round = u.round
      BY <1>2, <1>8 DEF SameProposer
    <3>2. PAXOS_ROUND_MAX_SLOTS <= 256 \/ u.round = 1
      BY <1>8, <3>1 DEF NodeBefore
    <3> QED
      BY <1>1, <2>1, <3>2, ProposerStage
  <2>4. /\ t.min_proposal >= a.min_proposal /\ t.min_proposal >= BallotOf(1, n)
    <3>1. /\ t.min_proposal >= a.min_proposal /\ t.min_proposal >= s.min_proposal
          /\ s.min_proposal >= BallotOf(1, n) /\ BallotOf(1, n) \in Nat
      BY <1>2, <1>6, <1>8, <2>2, <2>3 DEF ProposerOutcome, PromiseBefore, BallotOf
    <3> QED
      BY <1>6, <3>1
  <2>5. Numbered(a.pkt) /\ \A f \in a.pkt.flags : PromiseFrom(n, s, p, t, f, a.pkt.ballot)
    BY <1>1, <1>5, <2>4, AcceptorPromise
  <2>6. t.phase = u.phase /\ t.round = u.round
    BY <1>2, <1>8 DEF SameProposer
  <2>7. CASE u.pkt = a.pkt /\ (u.phase = PAXOS_ACCEPT => s.phase = PAXOS_ACCEPT)
    BY <1>2, <2>2, <2>5, <2>6, <2>7 DEF PromiseOutcome
  <2>8. CASE ~(left > 1) /\ u.phase = PAXOS_PREPARE /\ Requests(n, u, u.pkt) /\ u.round = 2
    <3>1. t.pkt.ballot = BallotOf(2, n) /\ t.pkt.phase = PAXOS_PREPARE
      BY <1>2, <2>8 DEF Requests, Proposed
    <3>2. Numbered(t.pkt)
      BY <1>6, <3>1 DEF Numbered, BallotOf, PAXOS_PREPARE, PAXOS_INIT
    <3> QED
      BY <2>2, <2>6, <2>8, <3>2 DEF PromiseOutcome, PAXOS_PREPARE, PAXOS_ACCEPT
  <2>9. CASE /\ p.ballot = BallotOf(1, n) /\ a.pkt.ballot = BallotOf(1, n)
             /\ u.round = 1 /\ s.round = 1 /\ Opens(n, a, u)
    <3>1. /\ t.pkt.ballot = BallotOf(1, n) /\ t.pkt.phase = PAXOS_ACCEPT
          /\ t.pkt.flags = {n} /\ Majority(a.pkt.flags)
      <4>1. u.local = a.local
        BY <1>1 DEF Beside
      <4> QED
        BY <1>2, <1>4, <2>9, <4>1 DEF Opens, Requests, Proposed
    <3>2. Numbered(t.pkt)
      BY <1>6, <3>1 DEF Numbered, BallotOf, PAXOS_ACCEPT, PAXOS_INIT
    <3>3. \A f \in t.pkt.flags : PromiseFrom(n, s, p, t, f, t.pkt.ballot)
      BY <2>4, <3>1 DEF PromiseFrom
    <3>4. a.pkt.flags \in SUBSET Nodes
      BY <1>1 DEF NodeOK, PacketOK
    <3>5. \A f \in a.pkt.flags : PromiseFrom(n, s, p, t, f, BallotOf(1, n))
      BY <2>5, <2>9
    <3> QED
      BY <2>2, <3>1, <3>2, <3>3, <3>4, <3>5 DEF PromiseOutcome
  <2> QED
    BY <1>1, <2>1, <2>2, <2>7, <2>8, <2>9, ProposerRequests
<1> QED
  BY <1>7, <1>8

(* A packet on the air: its flags are promises, and it carries no ballot while
   the proposer has not started. *)
LEMMA AirIsPromised ==
  ASSUME SingleProposer, SafetyInv, PromiseInv,
         NEW sent, NEW heard, SlotStep(sent, heard), NEW n \in Nodes, NEW p, OnTheAir(sent, p)
  PROVE  /\ PromiseBefore(n, node[n], p)
         /\ p.ballot = 0 \/ \E o \in Proposers : p.ballot = BallotOf(1, o)
         /\ p.flags \subseteq Promised(p.ballot)
<1>1. slot < PAXOS_ROUND_MAX_SLOTS /\ \A k \in sent : k \in Nodes
  BY DEF SlotStep, Transmitters
<1>2. /\ Numbered(p) /\ p.flags \subseteq Promised(p.ballot)
      /\ p.ballot = 0 \/ \E o \in Proposers : p.ballot = BallotOf(1, o)
  <2>1. CASE p = NoPacket
    BY <2>1 DEF NoPacket, Numbered
  <2>2. ASSUME NEW k \in sent, p = node[k].pkt
        PROVE  /\ Numbered(p) /\ p.flags \subseteq Promised(p.ballot)
               /\ p.ballot = 0 \/ \E o \in Proposers : p.ballot = BallotOf(1, o)
    BY <1>1, <2>2 DEF PromiseInv
  <2> QED
    BY <2>1, <2>2 DEF OnTheAir
<1>3. ASSUME n \in Proposers, node[n].phase = PAXOS_INIT PROVE p.phase = PAXOS_INIT
  <2>1. p.ballot # Proposed(n, node[n])
    BY <1>3, AirIsSound
  <2>2. Proposed(n, node[n]) = BallotOf(1, n)
    BY <1>3, FirstBallot DEF SafetyInv, ProposerInv
  <2>3. p.ballot = 0
    BY <1>2, <1>3, <2>1, <2>2 DEF SingleProposer
  <2> QED
    BY <1>2, <2>3 DEF Numbered
<1> QED
  BY <1>2, <1>3 DEF PromiseBefore, PromiseInv

(* What a slot does to the promises of a node. *)
LEMMA PromiseSlot ==
  ASSUME OneAttemptEach', SingleProposer, SafetyInv, PromiseInv,
         NEW sent, NEW heard, SlotStep(sent, heard), NEW n \in Nodes
  PROVE  \E p : /\ OnTheAir(sent, p)
                /\ PromiseOutcome(n, node[n], p, node'[n], SlotsLeft)
<1>1. NodeEffect(n, sent) /\ NodeOK(node'[n]) /\ NodeOK(node[n]) /\ node[n].local.flags = {n}
  <2>1. TypeOK /\ AcceptorInv(n)
    BY DEF SafetyInv
  <2> QED
    BY <2>1, NodeEffectLemma DEF NodeEffect, TypeOK, AcceptorInv
<1>2. ASSUME n \in Proposers PROVE OneAttempt(n, node[n], SlotsLeft)
  BY <1>2 DEF SafetyInv, ProposerInv, SlotsLeft
<1>3. CASE Core(n, node[n], node'[n])
  <2>1. OnTheAir(sent, NoPacket)
    BY DEF OnTheAir
  <2> QED
    BY <1>3, <2>1, AirIsPromised, CorePromise
<1>4. ASSUME NEW k \in sent,
             HeartbeatMove(n, node[n], node[k].pkt, node'[n]), node[k].pkt.phase = PAXOS_INIT
      PROVE  \E p : /\ OnTheAir(sent, p)
                    /\ PromiseOutcome(n, node[n], p, node'[n], SlotsLeft)
  <2>1. OnTheAir(sent, node[k].pkt)
    BY <1>4 DEF OnTheAir
  <2>2. PromiseBefore(n, node[n], node[k].pkt)
    BY <2>1, AirIsPromised
  <2> QED
    BY <1>1, <1>2, <1>4, <2>1, <2>2, HeartbeatPromise
<1>5. ASSUME NEW k \in sent, PaxosMove(n, node[n], node[k].pkt, node'[n])
      PROVE  \E p : /\ OnTheAir(sent, p)
                    /\ PromiseOutcome(n, node[n], p, node'[n], SlotsLeft)
  <2>1. OnTheAir(sent, node[k].pkt)
    BY <1>5 DEF OnTheAir
  <2>2. PromiseBefore(n, node[n], node[k].pkt)
    BY <2>1, AirIsPromised
  <2>3. NodeBefore(n, node[n], node[k].pkt, node'[n], votes', opened, opened', SlotsLeft)
    BY <2>1, BeforeSlot
  <2> QED
    BY <1>1, <1>5, <2>1, <2>2, <2>3, PaxosPromise
<1> QED
  BY <1>1, <1>3, <1>4, <1>5 DEF NodeEffect

(* No node takes a promise back, so a majority of promises stays one. *)
LEMMA PromisesGrow ==
  ASSUME OneAttemptEach', SafetyInv,
         NEW sent, NEW heard, SlotStep(sent, heard), NEW b \in Int
  PROVE  /\ Promised(b) \subseteq Promised(b)'
         /\ Majority(Promised(b)) => Majority(Promised(b)')
<1>1. ASSUME NEW n \in Promised(b) PROVE n \in Promised(b)'
  <2>1. n \in Nodes /\ node[n].min_proposal >= b
    BY DEF Promised
  <2>2. PICK p : NodeOutcome(n, node[n], p, node'[n], votes', opened, opened', SlotsLeft)
    BY <2>1, AfterSlot
  <2>3. node'[n].min_proposal >= node[n].min_proposal
    BY <2>2 DEF NodeOutcome
  <2>4. node'[n].min_proposal \in Int /\ node[n].min_proposal \in Int
    BY <2>1, AfterSlot DEF SafetyInv, TypeOK, NodeOK, AcceptorOK, Uint16
  <2>5. node'[n].min_proposal >= b
    BY <2>1, <2>3, <2>4
  <2> QED
    BY <2>1, <2>5 DEF Promised
<1>2. Promised(b) \subseteq Promised(b)' /\ Promised(b)' \subseteq Nodes
  BY <1>1 DEF Promised
<1> QED
  BY <1>2, MajorityGrows

(* A slot preserves PromiseInv. *)
LEMMA PromiseNext ==
  ASSUME OneAttemptEach', SingleProposer,
         SafetyInv, SafetyInv', PromiseInv, [Next]_vars
  PROVE  PromiseInv'
<1>1. CASE Slot
  <2>1. PICK sent, heard : SlotStep(sent, heard)
    BY <1>1, SlotHasStep DEF SafetyInv
  <2>2. ASSUME NEW n \in Nodes, NEW p, OnTheAir(sent, p), NEW b \in Int, NEW f \in Nodes,
               PromiseFrom(n, node[n], p, node'[n], f, b)
        PROVE  f \in Promised(b)'
    <3>1. Promised(b) \subseteq Promised(b)'
      BY <2>1, PromisesGrow
    <3>2. node[n].pkt.flags \subseteq Promised(node[n].pkt.ballot)
      BY <2>1 DEF PromiseInv, SlotStep
    <3>3. p.flags \subseteq Promised(p.ballot)
      BY <2>1, <2>2, AirIsPromised
    <3>4. node'[f].min_proposal \in Nat
      BY DEF SafetyInv, TypeOK, NodeOK, AcceptorOK, Uint16
    <3>5. CASE b = 0 \/ (f = n /\ node'[n].min_proposal >= b)
      BY <3>4, <3>5 DEF Promised
    <3> QED
      BY <2>2, <3>1, <3>2, <3>3, <3>5 DEF PromiseFrom
  <2>3. ASSUME NEW m \in Nodes
        PROVE  /\ Numbered(node'[m].pkt)
               /\ slot' < PAXOS_ROUND_MAX_SLOTS =>
                    /\ \/ node'[m].pkt.ballot = 0
                       \/ \E o \in Proposers : node'[m].pkt.ballot = BallotOf(1, o)
                    /\ node'[m].pkt.flags \subseteq Promised(node[m].pkt.ballot)'
    <3>1. PICK p : OnTheAir(sent, p) /\ PromiseOutcome(m, node[m], p, node'[m], SlotsLeft)
      BY <2>1, PromiseSlot
    <3>2. PICK q : /\ OnTheAir(sent, q)
                   /\ NodeOutcome(m, node[m], q, node'[m], votes', opened, opened', SlotsLeft)
      BY <2>1, AfterSlot
    <3>3. Numbered(node'[m].pkt)
      BY <3>1 DEF PromiseOutcome
    <3>4. ASSUME slot' < PAXOS_ROUND_MAX_SLOTS
          PROVE  /\ \/ node'[m].pkt.ballot = 0
                    \/ \E o \in Proposers : node'[m].pkt.ballot = BallotOf(1, o)
                 /\ node'[m].pkt.flags \subseteq Promised(node[m].pkt.ballot)'
      <4>1. slot < PAXOS_ROUND_MAX_SLOTS /\ SlotsLeft > 1
        BY <2>1, <3>4, ConfigAssumption DEF ConfigAssumption, Uint16, SlotStep, SlotsLeft
      <4>2. \/ node'[m].pkt.ballot = 0
            \/ \E o \in Proposers : node'[m].pkt.ballot = BallotOf(1, o)
        <5>1. BallotFrom(m, node[m], q, node'[m], SlotsLeft)
          BY <3>2 DEF NodeOutcome
        <5>2. CASE node'[m].pkt.ballot = node[m].pkt.ballot
          BY <4>1, <5>2 DEF PromiseInv
        <5>3. CASE node'[m].pkt.ballot = q.ballot
          BY <2>1, <3>2, <5>3, AirIsPromised
        <5>4. CASE m \in Proposers /\ node'[m].pkt.ballot = Proposed(m, node'[m])
                   /\ node'[m].round = 1
          BY <5>4 DEF Proposed
        <5> QED
          BY <4>1, <5>1, <5>2, <5>3, <5>4 DEF BallotFrom
      <4>3. ASSUME NEW f \in node'[m].pkt.flags PROVE f \in Promised(node[m].pkt.ballot)'
        <5>1. PromiseFrom(m, node[m], p, node'[m], f, node'[m].pkt.ballot)
          BY <3>1, <4>1, <4>3 DEF PromiseOutcome
        <5>2. PacketOK(node'[m].pkt)
          BY DEF SafetyInv, TypeOK, NodeOK
        <5>3. f \in Nodes /\ node'[m].pkt.ballot \in Int
          BY <4>3, <5>2 DEF PacketOK, Uint16
        <5> DEFINE b == node'[m].pkt.ballot
        <5>4. PromiseFrom(m, node[m], p, node'[m], f, b) /\ b \in Int
          BY <5>1, <5>3
        <5> HIDE DEF b
        <5>5. f \in {n \in Nodes : node'[n].min_proposal >= b}
          BY <2>2, <3>1, <5>3, <5>4 DEF Promised
        <5> QED
          BY <5>5 DEF Promised, b
      <4> QED
        BY <4>2, <4>3
    <3> QED
      BY <3>3, <3>4
  <2>4. ASSUME NEW n \in Proposers
        PROVE  /\ node'[n].phase # PAXOS_INIT => node'[n].min_proposal >= BallotOf(1, n)
               /\ node'[n].phase = PAXOS_ACCEPT => Majority(Promised(BallotOf(1, n))')
    <3>1. n \in Nodes /\ n \in Nat /\ BallotOf(1, n) \in Int
      BY NodesAssumption DEF NodesAssumption, Uint8, BallotOf
    <3>2. PICK p : OnTheAir(sent, p) /\ PromiseOutcome(n, node[n], p, node'[n], SlotsLeft)
      BY <2>1, <3>1, PromiseSlot
    <3>3. ASSUME node'[n].phase # PAXOS_INIT PROVE node'[n].min_proposal >= BallotOf(1, n)
      <4>1. CASE node[n].phase = PAXOS_INIT
        BY <3>2, <3>3, <4>1 DEF PromiseOutcome
      <4>2. CASE node[n].phase # PAXOS_INIT
        <5>1. n \in Promised(BallotOf(1, n))
          BY <3>1, <4>2 DEF PromiseInv, Promised
        <5>2. n \in Promised(BallotOf(1, n))'
          BY <2>1, <3>1, <5>1, PromisesGrow
        <5> QED
          BY <5>2 DEF Promised
      <4> QED
        BY <4>1, <4>2
    <3>4. ASSUME node'[n].phase = PAXOS_ACCEPT PROVE Majority(Promised(BallotOf(1, n))')
      <4>1. CASE node[n].phase = PAXOS_ACCEPT
        BY <2>1, <3>1, <4>1, PromisesGrow DEF PromiseInv
      <4>2. CASE node[n].phase # PAXOS_ACCEPT
        <5>1. PICK F \in SUBSET Nodes :
                /\ Majority(F)
                /\ \A f \in F : PromiseFrom(n, node[n], p, node'[n], f, BallotOf(1, n))
          BY <3>2, <3>4, <4>2 DEF PromiseOutcome
        <5>2. F \subseteq Promised(BallotOf(1, n))'
          BY <2>2, <3>1, <3>2, <5>1
        <5>3. Promised(BallotOf(1, n))' \in SUBSET Nodes
          BY DEF Promised
        <5> QED
          BY <5>1, <5>2, <5>3, MajorityGrows
      <4> QED
        BY <4>1, <4>2
    <3> QED
      BY <3>3, <3>4
  <2>5. ASSUME NEW x \in opened' PROVE Majority(Promised(x[1])')
    <3>1. CASE x \in opened
      <4>1. PICK o \in Proposers : x[1] = BallotOf(1, o)
        BY <3>1 DEF SafetyInv, OpenedInv
      <4>2. x[1] \in Int
        BY <4>1, NodesAssumption DEF NodesAssumption, Uint8, BallotOf
      <4> QED
        BY <2>1, <3>1, <4>2, PromisesGrow DEF PromiseInv
    <3>2. CASE x \notin opened
      <4>1. PICK n \in Proposers :
              /\ node'[n].phase = PAXOS_ACCEPT
              /\ x = <<Proposed(n, node'[n]), node'[n].proposed_value>>
        BY <2>1, <3>2, HistoryGrows
      <4>2. OneAttempt(n, node'[n], PAXOS_ROUND_MAX_SLOTS - slot')
        BY DEF SafetyInv, ProposerInv
      <4>3. x[1] = BallotOf(1, n)
        BY <4>1, <4>2, FirstBallot
      <4> QED
        BY <2>4, <4>1, <4>3
    <3> QED
      BY <3>1, <3>2
  <2> QED
    BY <2>3, <2>4, <2>5 DEF PromiseInv
<1>2. CASE UNCHANGED vars
  BY <1>2 DEF vars, PromiseInv, Promised
<1> QED
  BY <1>1, <1>2 DEF Next

(* The round begins with no promise but that of an initiator that proposes. *)
LEMMA PromiseInit == ASSUME Init PROVE PromiseInv
<1>1. ASSUME NEW n \in Nodes
      PROVE  /\ Numbered(node[n].pkt)
             /\ \/ node[n].pkt.ballot = 0
                \/ \E o \in Proposers : node[n].pkt.ballot = BallotOf(1, o)
             /\ node[n].pkt.flags \subseteq Promised(node[n].pkt.ballot)
             /\ n \in Proposers =>
                  /\ node[n].phase # PAXOS_ACCEPT
                  /\ node[n].phase # PAXOS_INIT => node[n].min_proposal >= BallotOf(1, n)
  <2>1. Begun(n, node[n]) /\ NodeOK(node[n])
    BY InitNodes
  <2>2. node[n].min_proposal = node[n].pkt.ballot /\ node[n].min_proposal \in Nat /\ n \in Nat
    BY <2>1, NodesAssumption DEF Begun, NodeOK, AcceptorOK, Uint16, Uint8, NodesAssumption
  <2>3. node[n].pkt.flags \subseteq Promised(node[n].pkt.ballot)
    BY <2>1, <2>2 DEF Begun, Promised
  <2>4. CASE /\ n \in Proposers /\ node[n].phase = PAXOS_PREPARE
             /\ node[n].pkt.ballot = Proposed(n, node[n]) /\ node[n].pkt.phase = PAXOS_PREPARE
    <3>1. node[n].pkt.ballot = BallotOf(1, n) /\ BallotOf(1, n) = 256 + n
      BY <2>1, <2>2, <2>4 DEF Begun, Proposed, BallotOf
    <3> QED
      BY <2>2, <2>3, <2>4, <3>1 DEF Numbered, PAXOS_INIT, PAXOS_PREPARE, PAXOS_ACCEPT
  <2>5. CASE /\ n \in Proposers => node[n].phase = PAXOS_INIT
             /\ node[n].pkt.ballot = 0 /\ node[n].pkt.phase = PAXOS_INIT
    BY <2>3, <2>5 DEF Numbered, PAXOS_INIT, PAXOS_ACCEPT
  <2> QED
    BY <2>1, <2>4, <2>5 DEF Begun
<1>2. opened = {} /\ \A n \in Proposers : n \in Nodes
  BY NodesAssumption DEF Init, NodesAssumption
<1> QED
  BY <1>1, <1>2 DEF PromiseInv

(* With a single proposer the two phases of a ballot come in order
   (paxos.c:449): what an acceptor accepts, a majority has promised. *)
THEOREM PromisesComeFirst ==
  ASSUME SingleProposer
  PROVE  Spec => []PromiseQuorum
<1>1. Init => PromiseInv
  BY PromiseInit
<1>2. OneAttemptEach' /\ SafetyInv /\ SafetyInv' /\ PromiseInv /\ [Next]_vars
        => PromiseInv'
  BY PromiseNext
<1>3. SafetyInv /\ PromiseInv => PromiseQuorum
  <2> SUFFICES ASSUME SafetyInv, PromiseInv, NEW w \in votes
               PROVE  Majority(Promised(w[2]))
    BY DEF PromiseQuorum, Promised
  <2> DEFINE x == <<w[2], w[3]>>
  <2>1. x \in opened /\ x[1] = w[2]
    BY DEF SafetyInv, VotesAreOpened
  <2> HIDE DEF x
  <2> QED
    BY <2>1 DEF PromiseInv
<1> QED
  BY <1>1, <1>2, <1>3, Safety, OneAttempts, PTL DEF NoComeback, Spec

-----------------------------------------------------------------------------
(* What a node carries from a round to the next one. *)
LEMMA CarriedRest ==
  ASSUME NEW s, NodeOK(s)
  PROVE  /\ RestOK(Carried(s))
         /\ ~Resets(s) => /\ Carried(s).pkt = s.pkt
                          /\ Carried(s).local = WithFlags(s.local, s.pkt.flags)
                          /\ SameProposer(s, Carried(s)) /\ SameVotes(s, Carried(s))
                          /\ SameAggregates(s, Carried(s))
         /\ Resets(s) => Carried(s) = ResetState
<1> DEFINE t == RoundEnd(s)
           q == WithFlags(s.local, s.pkt.flags)
<1>1. PacketOK(q)
  BY WithFlagsOK DEF NodeOK, PacketOK
<1> HIDE DEF q
<1>2. /\ t.pkt = s.pkt /\ t.local = q
      /\ SameProposer(s, t) /\ SameVotes(s, t) /\ SameAggregates(s, t) /\ SameLearner(s, t)
  BY DEF RoundEnd, SameProposer, SameVotes, SameAggregates, SameLearner, q
<1> HIDE DEF t
<1>3. RestOK(t)
  BY <1>1, <1>2, SameProposerOK, SameAcceptorOK, SameLearnerOK DEF NodeOK, RestOK
<1> QED
  BY <1>2, <1>3, ResetRest DEF Carried, t, q

(* The counter that the initiator proposes is a byte. *)
LEMMA RoundValueType ==
  ASSUME NEW r \in Nat PROVE RoundValue(r) \in Uint8
BY DEF RoundValue, Uint8

(* The application's initial states are well-typed. *)
LEMMA AppTypeInit == AppInit => AppTypeOK
<1> SUFFICES ASSUME AppInit PROVE AppTypeOK
  OBVIOUS
<1>1. PICK draw \in [Nodes -> Draws] :
        node = [n \in Nodes |-> RoundBegin(n, ResetState, RoundValue(1), draw[n])]
  BY DEF AppInit
<1>2. ASSUME NEW n \in Nodes PROVE NodeOK(node[n])
  <2>1. draw[n].threshold \in Thresholds
    BY DEF Draws
  <2>2. RoundValue(1) \in Uint8
    BY RoundValueType
  <2> QED
    BY <1>1, <2>1, <2>2, ResetRest, RoundBeginAny
<1>3. TypeOK
  BY <1>1, <1>2, ConfigAssumption DEF ConfigAssumption, Uint16, TypeOK, AppInit
<1>4. round_count \in 1..MAX_ROUNDS
  BY RoundsAssumption DEF RoundsAssumption, AppInit
<1>5. restarted \in BOOLEAN
  BY DEF AppInit
<1> QED
  BY <1>3, <1>4, <1>5 DEF AppTypeOK

(* A step of the application preserves the types. *)
LEMMA AppTypeNext == AppTypeOK /\ [AppNext]_appvars => AppTypeOK'
<1> SUFFICES ASSUME AppTypeOK, [AppNext]_appvars PROVE AppTypeOK'
  OBVIOUS
<1>1. CASE AppSlot
  BY <1>1, TypeNext DEF AppSlot, AppTypeOK, Next
<1>2. CASE NextRound
  <2>1. PICK draw \in [Nodes -> Draws] :
          node' = [n \in Nodes |-> RoundBegin(n, Carried(node[n]),
                                              RoundValue(round_count + 1), draw[n])]
    BY <1>2 DEF NextRound
  <2>2. RoundValue(round_count + 1) \in Uint8
    BY RoundValueType DEF AppTypeOK
  <2>3. ASSUME NEW n \in Nodes PROVE NodeOK(node'[n])
    <3>1. draw[n].threshold \in Thresholds
      BY DEF Draws
    <3>2. RestOK(Carried(node[n]))
      BY CarriedRest DEF AppTypeOK, TypeOK
    <3> QED
      BY <2>1, <2>2, <3>1, <3>2, RoundBeginAny
  <2>4. slot' \in 0..PAXOS_ROUND_MAX_SLOTS
    BY <1>2, ConfigAssumption DEF ConfigAssumption, Uint16, NextRound
  <2>5. TypeOK'
    BY <1>2, <2>1, <2>3, <2>4 DEF NextRound, AppTypeOK, TypeOK
  <2>6. round_count' \in 1..MAX_ROUNDS
    BY <1>2, RoundsAssumption DEF RoundsAssumption, NextRound, AppTypeOK
  <2>7. restarted' \in BOOLEAN
    BY <1>2 DEF NextRound
  <2> QED
    BY <2>5, <2>6, <2>7 DEF AppTypeOK
<1>3. CASE UNCHANGED appvars
  BY <1>3 DEF appvars, AppTypeOK, TypeOK
<1> QED
  BY <1>1, <1>2, <1>3 DEF AppNext

(* Types over rounds (paxos-app.c:140-175): however many rounds a consensus
   takes, what a node carries from one to the next keeps its C widths and the
   counters their bounds, with any set of proposers. *)
THEOREM AppTypeCorrect == AppSpec => []AppTypeOK
BY AppTypeInit, AppTypeNext, PTL DEF AppSpec
-----------------------------------------------------------------------------
(* The application as it is shipped: only the initiator proposes. *)
LEMMA InitiatorAlone == Proposers \subseteq {Initiator} => SingleProposer
BY DEF SingleProposer

(* The application boots into states that satisfy the invariant. *)
LEMMA SoleInit ==
  ASSUME Proposers \subseteq {Initiator}, AppInit
  PROVE  SoleInv
<1>1. PICK draw \in [Nodes -> Draws] :
        node = [n \in Nodes |-> RoundBegin(n, ResetState, RoundValue(1), draw[n])]
  BY DEF AppInit
<1>2. ASSUME NEW n \in Nodes PROVE SoleNode(n, node[n], opened)
  <2>1. draw[n].threshold \in Thresholds /\ RoundValue(1) \in Uint8
    BY RoundValueType DEF Draws
  <2> QED
    BY <1>1, <2>1, InitiatorAlone, ResetRest, ResetSole, RoundBeginSole
<1>3. OneBallot(opened)
  BY DEF OneBallot, AppInit
<1> QED
  BY <1>2, <1>3 DEF SoleInv

(* So does the beginning of the next round, where a node that has seen no
   completion goes on with its promise and its vote. *)
LEMMA SoleNextRound ==
  ASSUME Proposers \subseteq {Initiator}, AppTypeOK, SoleInv, NextRound
  PROVE  /\ SoleInv'
         /\ \A n \in Nodes : Resets(node[n]) \/ Keeps(node[n], node'[n])
<1>1. PICK draw \in [Nodes -> Draws] :
        node' = [n \in Nodes |-> RoundBegin(n, Carried(node[n]),
                                            RoundValue(round_count + 1), draw[n])]
  BY DEF NextRound
<1>2. RoundValue(round_count + 1) \in Uint8
  BY RoundValueType DEF AppTypeOK
<1>3. ASSUME NEW n \in Nodes
      PROVE  /\ SoleNode(n, node'[n], opened)
             /\ Resets(node[n]) \/ Keeps(node[n], node'[n])
  <2> DEFINE s == node[n]
             c == Carried(s)
             t == node'[n]
  <2>1. draw[n].threshold \in Thresholds
    BY DEF Draws
  <2>2. NodeOK(s) /\ SoleNode(n, s, opened)
    BY DEF AppTypeOK, TypeOK, SoleInv
  <2>3. /\ RestOK(c)
        /\ ~Resets(s) => /\ c.local = WithFlags(s.local, s.pkt.flags)
                         /\ SameProposer(s, c) /\ SameVotes(s, c)
                         /\ SameAggregates(s, c)
        /\ Resets(s) => c = ResetState
    BY <2>2, CarriedRest
  <2>4. t = RoundBegin(n, c, RoundValue(round_count + 1), draw[n])
    BY <1>1
  <2> HIDE DEF s, c, t
  <2>5. /\ SolePacket(c.local) /\ SoleAcceptor(c, opened)
        /\ c.loser_timeout = 0 \/ n \notin Proposers
        /\ n \notin Proposers =>
             /\ Requested(c.local, opened)
             /\ c.local.phase = PAXOS_ACCEPT => c.accepted_proposal # 0
    <3>1. CASE Resets(s)
      BY <2>3, <3>1, ResetSole
    <3>2. CASE ~Resets(s)
      <4>1. /\ c.local.ballot = s.local.ballot /\ c.local.phase = s.local.phase
            /\ c.local.value = s.local.value /\ c.local.proposal = s.local.proposal
        BY <2>3, <3>2, WithFlagsFields
      <4>2. SolePacket(c.local)
        BY <2>2, <4>1 DEF SoleNode, SolePacket
      <4>3. SoleAcceptor(c, opened)
        BY <2>2, <2>3, <3>2 DEF SoleNode, SoleAcceptor, SameVotes, SameAggregates
      <4>4. n \in Proposers => c.loser_timeout = 0
        BY <2>2, <2>3, <3>2 DEF SoleNode, SoleProposer, SameProposer
      <4>5. n \notin Proposers =>
              /\ Requested(c.local, opened)
              /\ c.local.phase = PAXOS_ACCEPT => c.accepted_proposal # 0
        BY <2>2, <2>3, <3>2, <4>1 DEF SoleNode, HasVoted, Requested, SameVotes
      <4> QED
        BY <4>2, <4>3, <4>4, <4>5
    <3> QED
      BY <3>1, <3>2
  <2>6. /\ SoleNode(n, t, opened)
        /\ t.min_proposal \in {c.min_proposal, TheBallot}
        /\ t.accepted_proposal = c.accepted_proposal
    <3>1. n \in Proposers => n = Initiator
      OBVIOUS
    <3> QED
      BY <1>2, <2>1, <2>3, <2>4, <2>5, <3>1, InitiatorAlone, RoundBeginSole
  <2>7. ~Resets(s) => /\ c.min_proposal = s.min_proposal
                      /\ c.accepted_proposal = s.accepted_proposal
    BY <2>3 DEF SameVotes
  <2> QED
    BY <2>6, <2>7, TheBallotType DEF s, t, Keeps
<1>4. opened' = opened
  BY DEF NextRound
<1> QED
  BY <1>3, <1>4 DEF SoleInv

(* The invariant is inductive. *)
LEMMA SoleNext ==
  ASSUME Proposers \subseteq {Initiator}, AppTypeOK, SoleInv, [AppNext]_appvars
  PROVE  SoleInv'
<1>1. CASE AppSlot
  BY <1>1, InitiatorAlone, SoleSlot DEF AppSlot, AppTypeOK
<1>2. CASE NextRound
  BY <1>2, SoleNextRound
<1>3. CASE UNCHANGED appvars
  BY <1>3 DEF appvars, SoleInv
<1> QED
  BY <1>1, <1>2, <1>3 DEF AppNext

(* Votes answer requests (paxos.c:296-309): over any number of rounds of any
   length, with losses, failures and rounds that end incomplete, an acceptor
   holds a vote only for an accept request that the proposer has made and in a
   ballot that the acceptor has promised. *)
THEOREM VotesAnswerRequests ==
  ASSUME Proposers \subseteq {Initiator}
  PROVE  AppSpec => []VotesAreRequested
<1>1. AppInit => SoleInv
  BY SoleInit
<1>2. AppTypeOK /\ SoleInv /\ [AppNext]_appvars => SoleInv'
  BY SoleNext
<1>3. SoleInv => VotesAreRequested
  <2> SUFFICES ASSUME SoleInv, NEW n \in Nodes, node[n].accepted_proposal # 0
               PROVE  /\ node[n].accepted_proposal <= node[n].min_proposal
                      /\ <<node[n].accepted_proposal, node[n].accepted_value>> \in opened
    BY DEF VotesAreRequested
  <2>1. SoleAcceptor(node[n], opened)
    BY DEF SoleInv, SoleNode
  <2> QED
    BY <2>1, TheBallotType DEF SoleAcceptor
<1> QED
  BY <1>1, <1>2, <1>3, AppTypeCorrect, PTL DEF AppSpec

(* Promises and votes outlive rounds, although a proposer that starts assigns
   min_proposal without comparing (paxos.c:500, 567): a node that does not
   reset never lowers its promise nor the ballot of its vote, in a slot or
   between two rounds. *)
THEOREM PromisesOutliveRounds ==
  ASSUME Proposers \subseteq {Initiator}
  PROVE  AppSpec => PromisesSurvive
<1>1. AppInit => SoleInv
  BY SoleInit
<1>2. AppTypeOK /\ SoleInv /\ [AppNext]_appvars => SoleInv'
  BY SoleNext
<1>3. ASSUME AppTypeOK, SoleInv, [AppNext]_appvars
      PROVE  [\A n \in Nodes :
                \/ /\ node'[n].min_proposal >= node[n].min_proposal
                   /\ node'[n].accepted_proposal >= node[n].accepted_proposal
                \/ RoundOver /\ Resets(node[n])]_appvars
  <2>1. CASE UNCHANGED appvars
    BY <2>1
  <2>2. CASE AppNext
    <3> SUFFICES ASSUME NEW n \in Nodes
                 PROVE  \/ /\ node'[n].min_proposal >= node[n].min_proposal
                           /\ node'[n].accepted_proposal >= node[n].accepted_proposal
                        \/ RoundOver /\ Resets(node[n])
      OBVIOUS
    <3>1. SoleAcceptor(node[n], opened) /\ SoleAcceptor(node'[n], opened')
      BY <1>2, <1>3 DEF SoleInv, SoleNode
    <3>2. Keeps(node[n], node'[n]) \/ (RoundOver /\ Resets(node[n]))
      <4>1. CASE AppSlot
        BY <1>3, <4>1, InitiatorAlone, SoleSlot DEF AppSlot, AppTypeOK
      <4>2. CASE NextRound
        BY <1>3, <4>2, SoleNextRound DEF NextRound
      <4> QED
        BY <2>2, <4>1, <4>2 DEF AppNext
    <3> QED
      BY <3>1, <3>2, TheBallotType DEF SoleAcceptor, Keeps
  <2> QED
    BY <1>3, <2>1, <2>2
<1> QED
  BY <1>1, <1>2, <1>3, AppTypeCorrect, PTL DEF AppSpec, PromisesSurvive
=============================================================================
