--------------------------- MODULE PaxosNodeProofs ---------------------------
(***************************************************************************)
(* Lemmas about the callback of one node (module PaxosNode): the types it  *)
(* preserves and the effect of its stages on the Paxos state.              *)
(***************************************************************************)
EXTENDS PaxosNode, TLAPS

(* A ballot is a 16 bit number (ballot_number_t). *)
LEMMA BallotType ==
  ASSUME NEW n \in Uint8, NEW r \in Uint8
  PROVE  BallotOf(r, n) \in Uint16
BY DEF Uint8, Uint16, BallotOf

(* Different rounds or different proposers have different ballots. *)
LEMMA BallotInjective ==
  ASSUME NEW m \in Uint8, NEW n \in Uint8, NEW q \in Uint8, NEW r \in Uint8,
         BallotOf(q, m) = BallotOf(r, n)
  PROVE  q = r /\ m = n
BY DEF Uint8, BallotOf

(* A node index fits the 8 bit id field of a ballot. *)
LEMMA NodeIsByte == ASSUME NEW n \in Nodes PROVE n \in Uint8
BY NodesAssumption DEF NodesAssumption

(* The ballot of a proposer fits its 16 bits. *)
LEMMA ProposedType ==
  ASSUME NEW n \in Nodes, NEW s, ProposerOK(s)
  PROVE  Proposed(n, s) \in Uint16
<1>1. n \in Uint8 /\ s.round \in Uint8
  BY NodeIsByte DEF ProposerOK
<1> QED
  BY <1>1, BallotType DEF Proposed

(* Which fields WithRequest sets and which it keeps. *)
LEMMA WithRequestFields ==
  ASSUME NEW p, NEW b, NEW ph
  PROVE  LET q == WithRequest(p, b, ph) IN
         /\ q.ballot = b /\ q.phase = ph
         /\ q.value = p.value /\ q.proposal = p.proposal /\ q.flags = p.flags
BY DEF WithRequest

(* Which fields WithReport sets and which it keeps. *)
LEMMA WithReportFields ==
  ASSUME NEW p, NEW b, NEW v
  PROVE  LET q == WithReport(p, b, v) IN
         /\ q.proposal = b /\ q.value = v
         /\ q.ballot = p.ballot /\ q.phase = p.phase /\ q.flags = p.flags
BY DEF WithReport

(* WithFlags sets the flags and keeps the rest. *)
LEMMA WithFlagsFields ==
  ASSUME NEW p, NEW f
  PROVE  LET q == WithFlags(p, f) IN
         /\ q.flags = f /\ q.ballot = p.ballot /\ q.phase = p.phase
         /\ q.value = p.value /\ q.proposal = p.proposal
BY DEF WithFlags

(* A new request in a well-typed packet leaves it well-typed. *)
LEMMA WithRequestOK ==
  ASSUME NEW p, PacketOK(p), NEW b \in Uint16, NEW ph \in Phases
  PROVE  PacketOK(WithRequest(p, b, ph))
BY DEF PacketOK, WithRequest

(* A new report in a well-typed packet leaves it well-typed. *)
LEMMA WithReportOK ==
  ASSUME NEW p, PacketOK(p), NEW b \in Uint16, NEW v \in Uint8
  PROVE  PacketOK(WithReport(p, b, v))
BY DEF PacketOK, WithReport

(* New flags in a well-typed packet leave it well-typed. *)
LEMMA WithFlagsOK ==
  ASSUME NEW p, PacketOK(p), NEW f \in SUBSET Nodes
  PROVE  PacketOK(WithFlags(p, f))
BY DEF PacketOK, WithFlags

(* The MAX macro stays within 16 bits. *)
LEMMA MaxOfType ==
  ASSUME NEW a \in Uint16, NEW b \in Uint16
  PROVE  MaxOf(a, b) \in Uint16 /\ MaxOf(a, b) >= a /\ MaxOf(a, b) >= b
BY DEF MaxOf, Uint16

(* Equality of the parts of two node states that a stage leaves alone. *)
SameProposer(s, t) ==
  /\ t.round = s.round
  /\ t.proposed_value = s.proposed_value
  /\ t.phase = s.phase
  /\ t.got_majority = s.got_majority
  /\ t.loser_timeout = s.loser_timeout

SameVotes(s, t) ==
  /\ t.min_proposal = s.min_proposal
  /\ t.accepted_proposal = s.accepted_proposal
  /\ t.accepted_value = s.accepted_value

SameAggregates(s, t) ==
  /\ t.rx_min_proposal = s.rx_min_proposal
  /\ t.rx_accepted_proposal = s.rx_accepted_proposal
  /\ t.rx_accepted_value = s.rx_accepted_value

SameLearner(s, t) ==
  /\ t.learned_value = s.learned_value
  /\ t.value_chosen = s.value_chosen
  /\ t.complete = s.complete
  /\ t.completion_slot = s.completion_slot

SameRadio(s, t) ==
  /\ t.state = s.state
  /\ t.got_valid_rx = s.got_valid_rx
  /\ t.tx_count_complete = s.tx_count_complete
  /\ t.restart_threshold = s.restart_threshold
  /\ t.invalid_rx_count = s.invalid_rx_count

(* The proposer's type depends on the proposer's fields only. *)
LEMMA SameProposerOK ==
  ASSUME NEW s, NEW t, ProposerOK(s), SameProposer(s, t) PROVE ProposerOK(t)
BY DEF ProposerOK, SameProposer

(* The acceptor's type depends on votes and aggregates only. *)
LEMMA SameAcceptorOK ==
  ASSUME NEW s, NEW t, AcceptorOK(s), SameVotes(s, t), SameAggregates(s, t)
  PROVE  AcceptorOK(t)
BY DEF AcceptorOK, SameVotes, SameAggregates

(* The learner's type depends on the learner's fields only. *)
LEMMA SameLearnerOK ==
  ASSUME NEW s, NEW t, LearnerOK(s), SameLearner(s, t) PROVE LearnerOK(t)
BY DEF LearnerOK, SameLearner

(* The radio's type depends on the Synchrotron fields only. *)
LEMMA SameRadioOK ==
  ASSUME NEW s, NEW t, RadioOK(s), SameRadio(s, t) PROVE RadioOK(t)
BY DEF RadioOK, SameRadio

-----------------------------------------------------------------------------
(* The node starts Paxos. *)
LEMMA BeginPrepareEffect ==
  ASSUME NEW n, NEW s
  PROVE  LET t == BeginPrepare(n, s) IN
         /\ t.phase = PAXOS_PREPARE
         /\ t.min_proposal = Proposed(n, s)
         /\ t.pkt = WithRequest(s.pkt, Proposed(n, s), PAXOS_PREPARE)
         /\ t.local = s.local
         /\ t.round = s.round /\ t.proposed_value = s.proposed_value
         /\ t.got_majority = s.got_majority /\ t.loser_timeout = s.loser_timeout
         /\ t.accepted_proposal = s.accepted_proposal
         /\ t.accepted_value = s.accepted_value
         /\ SameAggregates(s, t) /\ SameLearner(s, t) /\ SameRadio(s, t)
BY DEF BeginPrepare, SameAggregates, SameLearner, SameRadio

(* The types of a node whose radio is not considered. *)
RestOK(s) ==
  /\ PacketOK(s.pkt)
  /\ PacketOK(s.local)
  /\ ProposerOK(s)
  /\ AcceptorOK(s)
  /\ LearnerOK(s)

(* Starting Paxos leaves everything but phase, promise and request alone. *)
LEMMA BeginPrepareRest ==
  ASSUME NEW n \in Nodes, NEW s, RestOK(s)
  PROVE  RestOK(BeginPrepare(n, s))
<1> DEFINE t == BeginPrepare(n, s)
<1>1. Proposed(n, s) \in Uint16 /\ PAXOS_PREPARE \in Phases
  BY ProposedType DEF RestOK, Phases
<1>2. PacketOK(t.pkt) /\ PacketOK(t.local)
  BY <1>1, WithRequestOK, BeginPrepareEffect DEF RestOK
<1>3. ProposerOK(t)
  BY <1>1, BeginPrepareEffect DEF RestOK, ProposerOK
<1>4. AcceptorOK(t)
  BY <1>1, BeginPrepareEffect DEF RestOK, AcceptorOK, SameAggregates
<1>5. LearnerOK(t)
  BY BeginPrepareEffect, SameLearnerOK DEF RestOK
<1> QED
  BY <1>2, <1>3, <1>4, <1>5 DEF RestOK

(* Starting Paxos preserves the types, up to those of the radio. *)
LEMMA BeginPrepareType ==
  ASSUME NEW n \in Nodes, NEW s, NodeOK(s)
  PROVE  NodeOK(BeginPrepare(n, s))
<1>1. RestOK(BeginPrepare(n, s))
  BY BeginPrepareRest DEF NodeOK, RestOK
<1>2. RadioOK(BeginPrepare(n, s))
  BY BeginPrepareEffect, SameRadioOK DEF NodeOK
<1> QED
  BY <1>1, <1>2 DEF NodeOK, RestOK

-----------------------------------------------------------------------------
(* The highest promise the node has heard of in the phase of the packet. *)
HeardInPhase(s, p) == IF NewPhase(s, p) THEN 0 ELSE s.rx_min_proposal

(* The acceptor stage. *)
LEMMA AdoptEffect ==
  ASSUME NEW s, NEW p
  PROVE  LET t == Adopt(s, p) IN
         /\ t.pkt = IF NewPhase(s, p) THEN p ELSE s.pkt
         /\ t.local = s.local
         /\ t.rx_min_proposal = HeardInPhase(s, p)
         /\ SameProposer(s, t) /\ SameVotes(s, t) /\ SameLearner(s, t) /\ SameRadio(s, t)
BY DEF Adopt, HeardInPhase, SameProposer, SameVotes, SameLearner, SameRadio

(* Adopting a packet preserves the types. *)
LEMMA AdoptType ==
  ASSUME NEW s, NodeOK(s), NEW p, PacketOK(p)
  PROVE  NodeOK(Adopt(s, p))
<1> DEFINE t == Adopt(s, p)
<1>1. PacketOK(t.pkt) /\ PacketOK(t.local)
  BY AdoptEffect DEF NodeOK
<1>2. ProposerOK(t) /\ LearnerOK(t) /\ RadioOK(t)
  BY AdoptEffect, SameProposerOK, SameLearnerOK, SameRadioOK DEF NodeOK
<1>3. /\ t.rx_min_proposal \in {0, s.rx_min_proposal}
      /\ t.rx_accepted_proposal \in {0, s.rx_accepted_proposal}
      /\ t.rx_accepted_value \in {0, s.rx_accepted_value}
  BY DEF Adopt
<1>4. 0 \in Uint16 /\ 0 \in Uint8
  BY DEF Uint16, Uint8
<1>5. AcceptorOK(t)
  BY <1>3, <1>4, AdoptEffect DEF NodeOK, AcceptorOK, SameVotes
<1> QED
  BY <1>1, <1>2, <1>5 DEF NodeOK

(* The promise that a node reports after a packet, rx being the highest one it
   has heard of in the packet's phase: only accept requests are answered with
   one. *)
Reporting(rx, p, t) ==
  IF p.phase = PAXOS_ACCEPT
  THEN /\ t.rx_min_proposal = MaxOf(p.proposal, MaxOf(t.min_proposal, rx))
       /\ t.pkt.proposal = t.rx_min_proposal
  ELSE t.rx_min_proposal = rx

(* What a reply does: the promise rises to the request's ballot, a request
   that is not below the promise is accepted, and the packet buffer keeps its
   ballot, phase and flags, and in the accept phase its value. *)
ReplyEffect(s, p, t) ==
  /\ t.local = s.local
  /\ SameProposer(s, t) /\ SameLearner(s, t) /\ SameRadio(s, t)
  /\ t.pkt.ballot = s.pkt.ballot /\ t.pkt.phase = s.pkt.phase
  /\ t.pkt.flags = s.pkt.flags
  /\ p.phase # PAXOS_PREPARE => t.pkt.value = s.pkt.value
  /\ Reporting(s.rx_min_proposal, p, t)
  /\ t.min_proposal = IF p.phase = PAXOS_INIT THEN s.min_proposal
                      ELSE MaxOf(p.ballot, s.min_proposal)
  /\ IF p.phase = PAXOS_ACCEPT /\ p.ballot >= s.min_proposal
     THEN t.accepted_proposal = p.ballot /\ t.accepted_value = p.value
     ELSE t.accepted_proposal = s.accepted_proposal /\ t.accepted_value = s.accepted_value

(* Effect and type of the answer to a prepare request (paxos.c:250-272). *)
LEMMA PrepareReply ==
  ASSUME NEW s, NodeOK(s), NEW p, PacketOK(p), p.phase = PAXOS_PREPARE
  PROVE  ReplyEffect(s, p, Prepare(s, p)) /\ NodeOK(Prepare(s, p))
<1> DEFINE t == Prepare(s, p)
<1>1. /\ t.local = s.local
      /\ SameProposer(s, t) /\ SameLearner(s, t) /\ SameRadio(s, t)
  BY DEF Prepare, SameProposer, SameLearner, SameRadio
<1>2. /\ t.min_proposal = MaxOf(p.ballot, s.min_proposal)
      /\ t.accepted_proposal = s.accepted_proposal
      /\ t.accepted_value = s.accepted_value
      /\ t.rx_min_proposal = s.rx_min_proposal
  BY DEF Prepare
<1>3. \/ /\ t.pkt = WithReport(s.pkt, s.rx_accepted_proposal, s.rx_accepted_value)
         /\ t.rx_accepted_proposal = s.rx_accepted_proposal
         /\ t.rx_accepted_value = s.rx_accepted_value
      \/ /\ t.pkt = s.pkt
         /\ t.rx_accepted_proposal = p.proposal
         /\ t.rx_accepted_value = p.value
  BY DEF Prepare
<1>4. /\ t.pkt.ballot = s.pkt.ballot /\ t.pkt.phase = s.pkt.phase
      /\ t.pkt.flags = s.pkt.flags
  BY <1>3, WithReportFields
<1>5. ReplyEffect(s, p, t)
  BY <1>1, <1>2, <1>4 DEF ReplyEffect, Reporting, PAXOS_PREPARE, PAXOS_ACCEPT, PAXOS_INIT
<1>6. PacketOK(t.pkt) /\ PacketOK(t.local)
  BY <1>1, <1>3, WithReportOK DEF NodeOK, AcceptorOK
<1>7. AcceptorOK(t)
  BY <1>2, <1>3, MaxOfType DEF NodeOK, AcceptorOK, PacketOK
<1>8. ProposerOK(t) /\ LearnerOK(t) /\ RadioOK(t)
  BY <1>1, SameProposerOK, SameLearnerOK, SameRadioOK DEF NodeOK
<1> QED
  BY <1>5, <1>6, <1>7, <1>8 DEF NodeOK

(* Effect and type of the answer to an accept request (paxos.c:277-308). *)
LEMMA AcceptReply ==
  ASSUME NEW s, NodeOK(s), NEW p, PacketOK(p), p.phase = PAXOS_ACCEPT
  PROVE  ReplyEffect(s, p, Accept(s, p)) /\ NodeOK(Accept(s, p))
<1> DEFINE t == Accept(s, p)
<1>1. /\ t.local = s.local
      /\ SameProposer(s, t) /\ SameLearner(s, t) /\ SameRadio(s, t)
  BY DEF Accept, SameProposer, SameLearner, SameRadio
<1>2. IF p.ballot >= s.min_proposal
      THEN /\ t.min_proposal = p.ballot /\ t.accepted_proposal = p.ballot
           /\ t.accepted_value = p.value
      ELSE SameVotes(s, t)
  BY DEF Accept, SameVotes
<1>3. t.min_proposal = MaxOf(p.ballot, s.min_proposal)
  BY <1>2 DEF MaxOf, SameVotes, NodeOK, AcceptorOK, PacketOK, Uint16
<1>4. /\ t.rx_min_proposal = MaxOf(p.proposal, MaxOf(t.min_proposal, s.rx_min_proposal))
      /\ t.pkt = WithReport(s.pkt, t.rx_min_proposal, s.pkt.value)
  BY DEF Accept
<1>5. \/ /\ t.rx_accepted_proposal = t.accepted_proposal
         /\ t.rx_accepted_value = t.accepted_value
      \/ /\ t.rx_accepted_proposal = s.rx_accepted_proposal
         /\ t.rx_accepted_value = s.rx_accepted_value
  BY DEF Accept
<1>6. /\ t.pkt.ballot = s.pkt.ballot /\ t.pkt.phase = s.pkt.phase
      /\ t.pkt.flags = s.pkt.flags /\ t.pkt.value = s.pkt.value
      /\ t.pkt.proposal = t.rx_min_proposal
  BY <1>4, WithReportFields
<1>6a. Reporting(s.rx_min_proposal, p, t)
  BY <1>4, <1>6 DEF Reporting
<1>7. ReplyEffect(s, p, t)
  BY <1>1, <1>2, <1>3, <1>6, <1>6a DEF ReplyEffect, SameVotes, PAXOS_PREPARE, PAXOS_ACCEPT, PAXOS_INIT
<1>8. t.min_proposal \in Uint16 /\ t.accepted_proposal \in Uint16 /\ t.accepted_value \in Uint8
  BY <1>2 DEF SameVotes, NodeOK, AcceptorOK, PacketOK
<1>9. t.rx_min_proposal \in Uint16
  BY <1>4, <1>8, MaxOfType DEF NodeOK, AcceptorOK, PacketOK
<1>10. AcceptorOK(t)
  BY <1>5, <1>8, <1>9 DEF NodeOK, AcceptorOK
<1>11. PacketOK(t.pkt) /\ PacketOK(t.local)
  <2>1. PacketOK(s.pkt) /\ s.pkt.value \in Uint8
    BY DEF NodeOK, PacketOK
  <2> QED
    BY <1>1, <1>4, <1>9, <2>1, WithReportOK DEF NodeOK
<1>12. ProposerOK(t) /\ LearnerOK(t) /\ RadioOK(t)
  BY <1>1, SameProposerOK, SameLearnerOK, SameRadioOK DEF NodeOK
<1> QED
  BY <1>7, <1>10, <1>11, <1>12 DEF NodeOK

(* Effect and type of the answer to any packet. *)
LEMMA ReplyLemma ==
  ASSUME NEW s, NodeOK(s), NEW p, PacketOK(p)
  PROVE  ReplyEffect(s, p, Reply(s, p)) /\ NodeOK(Reply(s, p))
<1>1. CASE p.phase = PAXOS_PREPARE
  BY <1>1, PrepareReply DEF Reply
<1>2. CASE p.phase = PAXOS_ACCEPT
  BY <1>2, AcceptReply DEF Reply, PAXOS_PREPARE, PAXOS_ACCEPT
<1>3. CASE p.phase = PAXOS_INIT
  BY <1>3 DEF Reply, ReplyEffect, Reporting, PAXOS_PREPARE, PAXOS_ACCEPT, PAXOS_INIT,
     SameProposer, SameLearner, SameRadio
<1> QED
  BY <1>1, <1>2, <1>3 DEF PacketOK, Phases

(* The tally: the flags of the packet are merged with the own ones, and a
   value is learned, or the round complete, only in the accept phase and from
   a majority, or all, of the flags. *)
LEMMA TallyFrame ==
  ASSUME NEW n, NEW s, NEW p, NEW own, NEW flags, NEW slot
  PROVE  LET t == Tally(n, s, p, own, flags, slot) IN
         /\ t.pkt.flags = flags \cup {n}
         /\ t.pkt.ballot = s.pkt.ballot /\ t.pkt.phase = s.pkt.phase
         /\ t.pkt.value = s.pkt.value /\ t.pkt.proposal = s.pkt.proposal
         /\ t.local = s.local
         /\ SameProposer(s, t) /\ SameVotes(s, t) /\ SameAggregates(s, t) /\ SameRadio(s, t)
<1> DEFINE t == Tally(n, s, p, own, flags, slot)
           all == flags \cup {n}
<1> HIDE DEF all
<1>1. t.pkt = WithFlags(s.pkt, all)
  BY DEF Tally, all
<1>2. /\ t.local = s.local
      /\ SameProposer(s, t) /\ SameVotes(s, t) /\ SameAggregates(s, t) /\ SameRadio(s, t)
  BY DEF Tally, SameProposer, SameVotes, SameAggregates, SameRadio
<1>3. /\ t.pkt.flags = all
      /\ t.pkt.ballot = s.pkt.ballot /\ t.pkt.phase = s.pkt.phase
      /\ t.pkt.value = s.pkt.value /\ t.pkt.proposal = s.pkt.proposal
  BY <1>1, WithFlagsFields
<1> QED
  BY <1>2, <1>3 DEF all

(* A node learns from an accept packet with a majority of flags only. *)
LEMMA TallyLearns ==
  ASSUME NEW n, NEW s, LearnerOK(s), NEW p, NEW own, NEW flags, NEW slot
  PROVE  LET t == Tally(n, s, p, own, flags, slot) IN
         /\ \/ t.learned_value = s.learned_value /\ t.value_chosen = s.value_chosen
            \/ /\ p.phase = PAXOS_ACCEPT /\ Majority(flags)
               /\ t.learned_value = p.value
         /\ \/ t.completion_slot = s.completion_slot
            \/ /\ p.phase = PAXOS_ACCEPT /\ flags = Nodes
               /\ t.completion_slot = slot
         /\ t.complete \in BOOLEAN /\ t.value_chosen \in BOOLEAN
<1> DEFINE t == Tally(n, s, p, own, flags, slot)
<1>1. /\ t.learned_value = IF Learns(s, p, own, flags) THEN p.value ELSE s.learned_value
      /\ t.value_chosen = (s.value_chosen \/ Learns(s, p, own, flags))
  BY DEF Tally
<1>2. Learns(s, p, own, flags) => p.phase = PAXOS_ACCEPT /\ Majority(flags)
  BY DEF Learns
<1>3. s.value_chosen \in BOOLEAN /\ Learns(s, p, own, flags) \in BOOLEAN
  BY DEF LearnerOK, Learns
<1>4. \/ t.learned_value = s.learned_value /\ t.value_chosen = s.value_chosen
      \/ /\ p.phase = PAXOS_ACCEPT /\ Majority(flags)
         /\ t.learned_value = p.value
  <2>1. CASE Learns(s, p, own, flags)
    BY <1>1, <1>2, <2>1
  <2>2. CASE ~Learns(s, p, own, flags)
    BY <1>1, <1>3, <2>2
  <2> QED
    BY <2>1, <2>2
<1>5. \/ t.completion_slot = s.completion_slot
      \/ /\ p.phase = PAXOS_ACCEPT /\ flags = Nodes
         /\ t.completion_slot = slot
  BY DEF Tally
<1>6. t.complete \in BOOLEAN /\ t.value_chosen \in BOOLEAN
  BY DEF Tally
<1> QED
  BY <1>4, <1>5, <1>6

(* The tally (paxos.c:319-378) preserves the types. *)
LEMMA TallyType ==
  ASSUME NEW n \in Nodes, NEW s, NodeOK(s), NEW p, PacketOK(p), NEW own,
         NEW flags \in SUBSET Nodes, NEW slot \in 0..(PAXOS_ROUND_MAX_SLOTS - 1)
  PROVE  NodeOK(Tally(n, s, p, own, flags, slot))
<1> DEFINE t == Tally(n, s, p, own, flags, slot)
<1>1. PacketOK(s.pkt) /\ PacketOK(s.local) /\ LearnerOK(s)
  BY DEF NodeOK
<1>2. ProposerOK(t) /\ AcceptorOK(t) /\ RadioOK(t)
  BY TallyFrame, SameProposerOK, SameAcceptorOK, SameRadioOK DEF NodeOK
<1>3. /\ t.pkt.flags = flags \cup {n}
      /\ t.pkt.ballot = s.pkt.ballot /\ t.pkt.phase = s.pkt.phase
      /\ t.pkt.value = s.pkt.value /\ t.pkt.proposal = s.pkt.proposal
      /\ t.local = s.local
  BY TallyFrame
<1>4. /\ t.learned_value \in {s.learned_value, p.value}
      /\ t.completion_slot \in {s.completion_slot, slot}
      /\ t.complete \in BOOLEAN /\ t.value_chosen \in BOOLEAN
  BY <1>1, TallyLearns
<1> HIDE DEF t
<1>5. flags \cup {n} \in SUBSET Nodes
  OBVIOUS
<1>6. PacketOK(t.pkt) /\ PacketOK(t.local)
  BY <1>1, <1>3, <1>5 DEF PacketOK
<1>7. LearnerOK(t)
  BY <1>1, <1>4 DEF LearnerOK, PacketOK
<1> QED
  BY <1>2, <1>6, <1>7 DEF NodeOK, t

(* The flags that the acceptor merges before it adds its own. *)
Merged(s, p) == IF NewPhase(s, p) THEN p.flags ELSE s.pkt.flags \cup p.flags

(* The effect of the acceptor stage on a node. *)
AcceptorEffect(n, s, p, t) ==
  /\ t.local = s.local
  /\ SameProposer(s, t) /\ SameRadio(s, t)
  /\ ~NotOlder(s, p) => t = s
  /\ NotOlder(s, p) =>
       /\ t.pkt.ballot = p.ballot /\ t.pkt.phase = p.phase
       /\ t.pkt.flags = Merged(s, p) \cup {n}
       /\ p.phase = PAXOS_ACCEPT =>
            t.pkt.value = (IF NewPhase(s, p) THEN p.value ELSE s.pkt.value)
       /\ Reporting(HeardInPhase(s, p), p, t)
       /\ t.min_proposal = (IF p.phase = PAXOS_INIT THEN s.min_proposal
                            ELSE MaxOf(p.ballot, s.min_proposal))
       /\ IF p.phase = PAXOS_ACCEPT /\ p.ballot >= s.min_proposal
          THEN t.accepted_proposal = p.ballot /\ t.accepted_value = p.value
          ELSE /\ t.accepted_proposal = s.accepted_proposal
               /\ t.accepted_value = s.accepted_value
       /\ \/ t.learned_value = s.learned_value /\ t.value_chosen = s.value_chosen
          \/ /\ p.phase = PAXOS_ACCEPT /\ Majority(Merged(s, p))
             /\ t.learned_value = p.value
       /\ \/ t.completion_slot = s.completion_slot
          \/ p.phase = PAXOS_ACCEPT /\ Merged(s, p) = Nodes

(* Effect and type of the whole acceptor stage (paxos.c:230-383). *)
LEMMA AcceptorLemma ==
  ASSUME NEW n \in Nodes, NEW s, NodeOK(s), NEW p, PacketOK(p), NEW own,
         NEW slot \in 0..(PAXOS_ROUND_MAX_SLOTS - 1), NEW draw
  PROVE  LET w == Acceptor(n, s, p, own, slot, draw) IN
         /\ NodeOK(w.s)
         /\ AcceptorEffect(n, s, p, w.s)
<1> DEFINE w == Acceptor(n, s, p, own, slot, draw)
           a == Adopt(s, p)
           r == Reply(a, p)
           flags == r.pkt.flags \cup p.flags
           t == Tally(n, r, p, own, flags, slot)
<1>1. CASE ~NotOlder(s, p)
  <2>1. w.s = s
    BY <1>1 DEF Acceptor, Work
  <2>2. SameProposer(s, s) /\ SameRadio(s, s)
    BY DEF SameProposer, SameRadio
  <2> QED
    BY <1>1, <2>1, <2>2 DEF AcceptorEffect
<1>2. CASE NotOlder(s, p)
  <2>1. w.s = t
    BY <1>2 DEF Acceptor, Work
  <2>2. NodeOK(a) /\ NodeOK(r) /\ ReplyEffect(a, p, r)
    BY AdoptType, ReplyLemma
  <2>3. a.pkt.flags \cup p.flags = Merged(s, p)
    BY AdoptEffect DEF Merged
  <2>4. flags = Merged(s, p)
    BY <2>2, <2>3 DEF ReplyEffect
  <2>5. flags \in SUBSET Nodes
    BY <2>2 DEF NodeOK, PacketOK
  <2>6. NodeOK(t)
    BY <2>2, <2>5, TallyType
  <2>7. /\ t.pkt.flags = Merged(s, p) \cup {n}
        /\ t.pkt.ballot = r.pkt.ballot /\ t.pkt.phase = r.pkt.phase
        /\ t.pkt.value = r.pkt.value /\ t.local = r.local
        /\ t.pkt.proposal = r.pkt.proposal
        /\ SameProposer(r, t) /\ SameVotes(r, t) /\ SameAggregates(r, t)
        /\ SameRadio(r, t)
    BY <2>4, TallyFrame
  <2>8. /\ \/ t.learned_value = r.learned_value /\ t.value_chosen = r.value_chosen
           \/ /\ p.phase = PAXOS_ACCEPT /\ Majority(Merged(s, p))
              /\ t.learned_value = p.value
        /\ \/ t.completion_slot = r.completion_slot
           \/ p.phase = PAXOS_ACCEPT /\ Merged(s, p) = Nodes
    <3>1. LearnerOK(r)
      BY <2>2 DEF NodeOK
    <3> HIDE DEF r, flags
    <3> QED
      BY <2>4, <3>1, TallyLearns
  <2>9. /\ a.pkt = (IF NewPhase(s, p) THEN p ELSE s.pkt)
        /\ a.local = s.local
        /\ a.rx_min_proposal = HeardInPhase(s, p)
        /\ SameProposer(s, a) /\ SameVotes(s, a) /\ SameLearner(s, a) /\ SameRadio(s, a)
    BY AdoptEffect
  <2> HIDE DEF a, r, flags, t
  <2>10. a.pkt.ballot = p.ballot /\ a.pkt.phase = p.phase
    BY <2>9 DEF NewPhase
  <2>11. t.local = s.local
    BY <2>2, <2>7, <2>9 DEF ReplyEffect
  <2>12. SameProposer(s, t)
    BY <2>2, <2>7, <2>9 DEF ReplyEffect, SameProposer
  <2>13. SameRadio(s, t)
    BY <2>2, <2>7, <2>9 DEF ReplyEffect, SameRadio
  <2>14. t.pkt.ballot = p.ballot /\ t.pkt.phase = p.phase
    BY <2>2, <2>7, <2>10 DEF ReplyEffect
  <2>15. p.phase = PAXOS_ACCEPT =>
           t.pkt.value = (IF NewPhase(s, p) THEN p.value ELSE s.pkt.value)
    BY <2>2, <2>7, <2>9 DEF ReplyEffect, PAXOS_ACCEPT, PAXOS_PREPARE
  <2>16. t.min_proposal = (IF p.phase = PAXOS_INIT THEN s.min_proposal
                           ELSE MaxOf(p.ballot, s.min_proposal))
    BY <2>2, <2>7, <2>9 DEF ReplyEffect, SameVotes
  <2>17. IF p.phase = PAXOS_ACCEPT /\ p.ballot >= s.min_proposal
         THEN t.accepted_proposal = p.ballot /\ t.accepted_value = p.value
         ELSE /\ t.accepted_proposal = s.accepted_proposal
              /\ t.accepted_value = s.accepted_value
    BY <2>2, <2>7, <2>9 DEF ReplyEffect, SameVotes
  <2>18. /\ r.learned_value = s.learned_value /\ r.value_chosen = s.value_chosen
         /\ r.completion_slot = s.completion_slot
    BY <2>2, <2>9 DEF ReplyEffect, SameLearner
  <2>18a. Reporting(HeardInPhase(s, p), p, t)
    BY <2>2, <2>7, <2>9 DEF ReplyEffect, Reporting, SameVotes, SameAggregates
  <2>19. AcceptorEffect(n, s, p, t)
    BY <1>2, <2>7, <2>8, <2>11, <2>12, <2>13, <2>14, <2>15, <2>16, <2>17, <2>18, <2>18a
    DEF AcceptorEffect
  <2> QED
    BY <2>1, <2>6, <2>19
<1> QED
  BY <1>1, <1>2

-----------------------------------------------------------------------------
(* The proposer stage. Nothing in it touches the node's votes, its aggregates,
   what it learned or its radio. *)
Beside(s, t) ==
  /\ t.local = s.local
  /\ t.accepted_proposal = s.accepted_proposal
  /\ t.accepted_value = s.accepted_value
  /\ SameAggregates(s, t)
  /\ SameLearner(s, t)
  /\ SameRadio(s, t)

(* Only the proposer's fields and the packet changed. *)
LEMMA BesideType ==
  ASSUME NEW s, NodeOK(s), NEW t, Beside(s, t), ProposerOK(t), PacketOK(t.pkt),
         t.min_proposal \in Uint16
  PROVE  NodeOK(t)
<1>1. AcceptorOK(t)
  BY DEF NodeOK, AcceptorOK, Beside, SameAggregates
<1>2. LearnerOK(t) /\ RadioOK(t)
  BY SameLearnerOK, SameRadioOK DEF NodeOK, Beside
<1> QED
  BY <1>1, <1>2 DEF NodeOK, Beside

(* Beside is reflexive. *)
LEMMA BesideRefl == ASSUME NEW s PROVE Beside(s, s)
BY DEF Beside, SameAggregates, SameLearner, SameRadio

(* Beside is transitive. *)
LEMMA BesideTrans ==
  ASSUME NEW s, NEW t, NEW u, Beside(s, t), Beside(t, u) PROVE Beside(s, u)
BY DEF Beside, SameAggregates, SameLearner, SameRadio

LoseEffect(s, t) ==
  /\ t.round = (s.round + 1) % 256
  /\ t.phase = PAXOS_PREPARE
  /\ ~t.got_majority
  /\ t.loser_timeout = (PAXOS_ROUND_MAX_SLOTS - 1) % 256
  /\ t.min_proposal = s.min_proposal

(* Losing (paxos.c:507-521) changes the proposer only. *)
LEMMA LoseLemma ==
  ASSUME NEW s, NodeOK(s)
  PROVE  LET t == Lose(s) IN
         Beside(s, t) /\ LoseEffect(s, t) /\ t.pkt = s.pkt /\ NodeOK(t)
<1> DEFINE t == Lose(s)
<1>1. Beside(s, t)
  BY DEF Lose, Beside, SameAggregates, SameLearner, SameRadio
<1>2. LoseEffect(s, t) /\ t.pkt = s.pkt
  BY DEF Lose, LoseEffect
<1>3. /\ t.proposed_value \in {s.proposed_value, s.rx_accepted_value}
      /\ t.got_majority \in BOOLEAN
  BY DEF Lose
<1>4. s.round \in Int /\ PAXOS_ROUND_MAX_SLOTS \in Int
  BY ConfigAssumption DEF ConfigAssumption, NodeOK, ProposerOK, Uint8, Uint16
<1>5. (s.round + 1) % 256 \in Uint8 /\ (PAXOS_ROUND_MAX_SLOTS - 1) % 256 \in Uint8
  BY <1>4 DEF Uint8
<1>6. PAXOS_PREPARE \in Phases
  BY DEF Phases
<1>7. s.proposed_value \in Uint8 /\ s.rx_accepted_value \in Uint8
      /\ s.min_proposal \in Uint16 /\ PacketOK(s.pkt)
  BY DEF NodeOK, ProposerOK, AcceptorOK
<1> HIDE DEF t
<1>8. ProposerOK(t)
  BY <1>2, <1>3, <1>5, <1>6, <1>7 DEF LoseEffect, ProposerOK
<1>9. NodeOK(t)
  BY <1>1, <1>2, <1>7, <1>8, BesideType DEF LoseEffect
<1> QED
  BY <1>1, <1>2, <1>9 DEF t

(* The request that update_phase puts into the buffer. *)
Requests(n, s, q) ==
  /\ q.ballot = Proposed(n, s)
  /\ q.phase = s.phase
  /\ q.value = s.proposed_value
  /\ q.proposal = 0
  /\ q.flags = s.local.flags

(* update_phase (paxos.c:524-533) replaces the packet only. *)
LEMMA SendPhaseLemma ==
  ASSUME NEW n \in Nodes, NEW s, NodeOK(s)
  PROVE  LET t == SendPhase(n, s) IN
         /\ Beside(s, t) /\ SameProposer(s, t) /\ t.min_proposal = s.min_proposal
         /\ Requests(n, s, t.pkt)
         /\ NodeOK(t)
<1> DEFINE t == SendPhase(n, s)
<1>1. Beside(s, t) /\ SameProposer(s, t) /\ t.min_proposal = s.min_proposal
  BY DEF SendPhase, Beside, SameProposer, SameAggregates, SameLearner, SameRadio
<1>2. Requests(n, s, t.pkt)
  BY DEF SendPhase, Requests
<1>3. Proposed(n, s) \in Uint16 /\ 0 \in Uint16
  BY ProposedType DEF NodeOK, Uint16
<1>4. PacketOK(t.pkt)
  BY <1>2, <1>3 DEF Requests, PacketOK, NodeOK, ProposerOK
<1>5. ProposerOK(t) /\ t.min_proposal \in Uint16
  BY <1>1, SameProposerOK DEF NodeOK, AcceptorOK
<1>6. NodeOK(t)
  BY <1>1, <1>4, <1>5, BesideType
<1> QED
  BY <1>1, <1>2, <1>6

(* Counting the back-off down (paxos.c:397-402). *)
LEMMA BackoffLemma ==
  ASSUME NEW n \in Nodes, NEW w, NodeOK(w.s), w.s.loser_timeout > 0
  PROVE  LET u == Backoff(n, w).s IN
         /\ Beside(w.s, u) /\ NodeOK(u)
         /\ u.loser_timeout = w.s.loser_timeout - 1
         /\ u.round = w.s.round /\ u.phase = w.s.phase
         /\ u.proposed_value = w.s.proposed_value
         /\ u.got_majority = w.s.got_majority
         /\ u.min_proposal = w.s.min_proposal
         /\ u.pkt = w.s.pkt \/ (u.loser_timeout = 0 /\ Requests(n, u, u.pkt))
<1> DEFINE s == w.s
           d == [s EXCEPT !.loser_timeout = @ - 1]
           u == Backoff(n, w).s
<1>1. /\ Beside(s, d)
      /\ d.loser_timeout = s.loser_timeout - 1
      /\ d.round = s.round /\ d.phase = s.phase
      /\ d.proposed_value = s.proposed_value /\ d.got_majority = s.got_majority
      /\ d.min_proposal = s.min_proposal /\ d.pkt = s.pkt
  BY DEF Beside, SameAggregates, SameLearner, SameRadio
<1>2. u = IF d.loser_timeout = 0 THEN SendPhase(n, d) ELSE d
  BY DEF Backoff, Work
<1> HIDE DEF d, u
<1>3. s.loser_timeout - 1 \in Uint8
  BY DEF NodeOK, ProposerOK, Uint8
<1>4. ProposerOK(d) /\ PacketOK(d.pkt) /\ d.min_proposal \in Uint16
  BY <1>1, <1>3 DEF NodeOK, ProposerOK, AcceptorOK
<1>5. NodeOK(d)
  BY <1>1, <1>4, BesideType
<1>6. CASE d.loser_timeout = 0
  <2>1. u = SendPhase(n, d)
    BY <1>2, <1>6
  <2>2. /\ Beside(d, u) /\ SameProposer(d, u) /\ u.min_proposal = d.min_proposal
        /\ Requests(n, d, u.pkt) /\ NodeOK(u)
    BY <1>5, <2>1, SendPhaseLemma
  <2>3. Requests(n, u, u.pkt)
    BY <2>2 DEF Requests, SameProposer, Beside, Proposed
  <2>4. Beside(s, u)
    BY <1>1, <2>2, BesideTrans
  <2> QED
    BY <1>1, <1>6, <2>2, <2>3, <2>4 DEF u, SameProposer
<1>7. CASE d.loser_timeout # 0
  BY <1>1, <1>2, <1>5, <1>7 DEF u
<1> QED
  BY <1>6, <1>7

(* The outcomes of counting the replies: go on, lose, open the accept phase,
   or lose at the moment the accept phase would open. *)
GoesOn(n, s, t) ==
  /\ t.round = s.round /\ t.phase = s.phase /\ t.loser_timeout = s.loser_timeout
  /\ t.min_proposal = s.min_proposal /\ t.pkt = s.pkt
  /\ s.phase # PAXOS_PREPARE => t.proposed_value = s.proposed_value
  /\ t.got_majority => s.phase = PAXOS_ACCEPT /\ Majority(s.pkt.flags)

Opens(n, s, t) ==
  /\ s.phase = PAXOS_PREPARE /\ t.phase = PAXOS_ACCEPT
  /\ t.round = s.round /\ t.loser_timeout = s.loser_timeout
  /\ t.min_proposal = s.min_proposal /\ ~t.got_majority
  /\ Majority(s.pkt.flags)
  /\ Requests(n, t, t.pkt)

CountEffect(n, s, t) ==
  \/ GoesOn(n, s, t)
  \/ LoseEffect(s, t) /\ t.pkt = s.pkt
  \/ Opens(n, s, t)
  \/ /\ s.phase = PAXOS_PREPARE /\ s.rx_min_proposal > Proposed(n, s)
     /\ LoseEffect(s, t) /\ Requests(n, t, t.pkt)

(* Counting replies (paxos.c:407-473): the attempt goes on, is lost, or opens
   its accept phase. *)
LEMMA CountRepliesLemma ==
  ASSUME NEW n \in Nodes, NEW w, NodeOK(w.s)
  PROVE  LET u == CountReplies(n, w).s IN
         Beside(w.s, u) /\ NodeOK(u) /\ CountEffect(n, w.s, u)
<1> DEFINE u == CountReplies(n, w).s
           s == AdoptValue(w.s)
           heardHigher ==
             \/ s.phase = PAXOS_PREPARE /\ s.rx_accepted_proposal > Proposed(n, s)
             \/ s.phase = PAXOS_ACCEPT /\ s.rx_min_proposal > Proposed(n, s)
           won == ~heardHigher /\ Majority(s.pkt.flags)
           turned == won /\ s.phase = PAXOS_PREPARE
           counted == [s EXCEPT !.phase = IF turned THEN PAXOS_ACCEPT ELSE @,
                                !.got_majority = won /\ s.phase = PAXOS_ACCEPT]
           lost == \/ heardHigher
                   \/ /\ counted.phase = PAXOS_ACCEPT
                      /\ s.rx_min_proposal > Proposed(n, s)
                      /\ ~counted.got_majority
           after == IF lost THEN Lose(counted) ELSE counted
<1>1. u = IF turned THEN SendPhase(n, after) ELSE after
  BY DEF CountReplies, Work
<1>2. /\ Beside(w.s, s)
      /\ s.round = w.s.round /\ s.phase = w.s.phase
      /\ s.loser_timeout = w.s.loser_timeout /\ s.got_majority = w.s.got_majority
      /\ s.min_proposal = w.s.min_proposal /\ s.pkt = w.s.pkt
      /\ s.proposed_value \in {w.s.proposed_value, w.s.rx_accepted_value}
      /\ w.s.phase # PAXOS_PREPARE => s.proposed_value = w.s.proposed_value
  BY DEF AdoptValue, Beside, SameAggregates, SameLearner, SameRadio
<1> HIDE DEF s, heardHigher, u
<1>3. ProposerOK(s) /\ PacketOK(s.pkt) /\ s.min_proposal \in Uint16
  BY <1>2 DEF NodeOK, ProposerOK, AcceptorOK
<1>4. NodeOK(s)
  BY <1>2, <1>3, BesideType
<1>5. /\ Beside(s, counted)
      /\ counted.phase = IF turned THEN PAXOS_ACCEPT ELSE s.phase
      /\ counted.got_majority = (won /\ s.phase = PAXOS_ACCEPT)
      /\ counted.round = s.round /\ counted.loser_timeout = s.loser_timeout
      /\ counted.min_proposal = s.min_proposal /\ counted.pkt = s.pkt
      /\ counted.proposed_value = s.proposed_value
  BY DEF Beside, SameAggregates, SameLearner, SameRadio
<1> HIDE DEF won, turned, counted
<1>6. PAXOS_ACCEPT \in Phases /\ won \in BOOLEAN /\ turned \in BOOLEAN
  BY DEF Phases, won, turned
<1>7. ProposerOK(counted) /\ PacketOK(counted.pkt) /\ counted.min_proposal \in Uint16
  <2>1. counted.got_majority \in BOOLEAN
    BY <1>5
  <2> QED
    BY <1>3, <1>5, <1>6, <2>1 DEF ProposerOK
<1>8. NodeOK(counted)
  BY <1>4, <1>5, <1>7, BesideType
<1>9. turned => s.phase = PAXOS_PREPARE
  BY DEF turned
<1>10. won => Majority(s.pkt.flags)
  BY DEF won
<1>11. Beside(w.s, counted)
  BY <1>2, <1>5, BesideTrans
<1>12. CASE lost
  <2>1. after = Lose(counted)
    BY <1>12
  <2> HIDE DEF after
  <2>2. /\ Beside(counted, after) /\ LoseEffect(counted, after)
        /\ after.pkt = counted.pkt /\ NodeOK(after)
    BY <1>8, <2>1, LoseLemma
  <2>3. LoseEffect(w.s, after) /\ Beside(w.s, after) /\ after.pkt = w.s.pkt
    BY <1>2, <1>5, <1>11, <2>2, BesideTrans DEF LoseEffect
  <2>4. CASE turned
    <3>1. u = SendPhase(n, after)
      BY <1>1, <2>4 DEF after
    <3>2. /\ Beside(after, u) /\ SameProposer(after, u)
          /\ u.min_proposal = after.min_proposal
          /\ Requests(n, after, u.pkt) /\ NodeOK(u)
      BY <2>2, <3>1, SendPhaseLemma
    <3>3. Requests(n, u, u.pkt)
      BY <3>2 DEF Requests, SameProposer, Beside, Proposed
    <3>4. LoseEffect(w.s, u)
      BY <2>3, <3>2 DEF LoseEffect, SameProposer
    <3>5. Beside(w.s, u)
      BY <2>3, <3>2, BesideTrans
    <3>6. s.rx_min_proposal > Proposed(n, s)
      BY <1>12, <2>4 DEF turned, won
    <3>7. w.s.rx_min_proposal > Proposed(n, w.s)
      BY <1>2, <3>6 DEF Beside, SameAggregates, Proposed
    <3> QED
      BY <1>2, <1>9, <2>4, <3>2, <3>3, <3>4, <3>5, <3>7 DEF CountEffect, u
  <2>5. CASE ~turned
    <3>1. u = after
      BY <1>1, <2>5 DEF after
    <3> QED
      BY <2>2, <2>3, <3>1 DEF CountEffect, u
  <2> QED
    BY <2>4, <2>5
<1>13. CASE ~lost
  <2>1. after = counted
    BY <1>13
  <2>2. CASE turned
    <3>1. u = SendPhase(n, counted)
      BY <1>1, <2>1, <2>2
    <3>2. /\ Beside(counted, u) /\ SameProposer(counted, u)
          /\ u.min_proposal = counted.min_proposal
          /\ Requests(n, counted, u.pkt) /\ NodeOK(u)
      BY <1>8, <3>1, SendPhaseLemma
    <3>3. Requests(n, u, u.pkt)
      BY <3>2 DEF Requests, SameProposer, Beside, Proposed
    <3>4. ~counted.got_majority
      <4>1. counted.got_majority => s.phase = PAXOS_ACCEPT
        BY <1>5
      <4> QED
        BY <1>9, <2>2, <4>1 DEF PAXOS_PREPARE, PAXOS_ACCEPT
    <3>5. Majority(w.s.pkt.flags)
      BY <1>2, <1>10, <2>2 DEF turned
    <3>5a. Opens(n, w.s, u)
      BY <1>2, <1>5, <1>9, <2>2, <3>2, <3>3, <3>4, <3>5 DEF Opens, SameProposer
    <3>6. Beside(w.s, u)
      BY <1>11, <3>2, BesideTrans
    <3> QED
      BY <3>2, <3>5a, <3>6 DEF CountEffect, u
  <2>3. CASE ~turned
    <3>1. u = counted
      BY <1>1, <2>1, <2>3
    <3>2. counted.got_majority => w.s.phase = PAXOS_ACCEPT /\ Majority(w.s.pkt.flags)
      <4>1. counted.got_majority => won /\ s.phase = PAXOS_ACCEPT
        BY <1>5
      <4> QED
        BY <1>2, <1>10, <4>1
    <3>3. /\ counted.round = w.s.round /\ counted.phase = w.s.phase
          /\ counted.loser_timeout = w.s.loser_timeout
          /\ counted.min_proposal = w.s.min_proposal /\ counted.pkt = w.s.pkt
          /\ w.s.phase # PAXOS_PREPARE => counted.proposed_value = w.s.proposed_value
      BY <1>2, <1>5, <2>3
    <3>4. GoesOn(n, w.s, counted)
      BY <3>2, <3>3 DEF GoesOn
    <3> QED
      BY <1>8, <1>11, <3>1, <3>4 DEF CountEffect, u
  <2> QED
    BY <2>2, <2>3
<1> QED
  BY <1>12, <1>13

(* The whole proposer stage, by what the proposer heard. *)
Unmoved(n, s, p, t) ==
  /\ t = s
  /\ \/ n \notin Proposers
     \/ s.got_majority
     \/ p.ballot = Proposed(n, s) /\ p.phase # s.phase
     \/ p.ballot < Proposed(n, s) /\ s.phase # PAXOS_INIT

Waits(n, s, t) ==
  /\ s.loser_timeout > 0
  /\ t.loser_timeout = s.loser_timeout - 1
  /\ t.round = s.round /\ t.phase = s.phase
  /\ t.proposed_value = s.proposed_value
  /\ t.got_majority = s.got_majority
  /\ t.min_proposal = s.min_proposal
  /\ t.pkt = s.pkt \/ (t.loser_timeout = 0 /\ Requests(n, t, t.pkt))

Competes(n, s, p, t) ==
  /\ ~(s.loser_timeout > 0)
  /\ \/ p.ballot = Proposed(n, s) /\ p.phase = s.phase /\ CountEffect(n, s, t)
     \/ p.ballot > Proposed(n, s) /\ LoseEffect(s, t) /\ t.pkt = s.pkt
     \/ /\ p.ballot < Proposed(n, s) /\ s.phase = PAXOS_INIT
        /\ t = BeginPrepare(n, s)

ProposerEffect(n, s, p, t) ==
  \/ Unmoved(n, s, p, t)
  \/ n \in Proposers /\ ~s.got_majority /\ Waits(n, s, t)
  \/ n \in Proposers /\ ~s.got_majority /\ Competes(n, s, p, t)

(* Effect and type of the whole proposer stage (paxos.c:389-534). *)
LEMMA ProposerLemma ==
  ASSUME NEW n \in Nodes, NEW w, NodeOK(w.s), NEW p, PacketOK(p)
  PROVE  LET u == Proposer(n, w, p).s IN
         /\ NodeOK(u)
         /\ Beside(w.s, u)
         /\ ProposerEffect(n, w.s, p, u)
<1> DEFINE s == w.s
           u == Proposer(n, w, p).s
<1>1. p.ballot \in Int /\ Proposed(n, s) \in Int
  BY ProposedType DEF PacketOK, NodeOK, Uint16
<1>2. CASE n \notin Proposers \/ s.got_majority
  <2>1. u = s
    BY <1>2 DEF Proposer
  <2> QED
    BY <1>2, <2>1, BesideRefl DEF ProposerEffect, Unmoved
<1>3. CASE n \in Proposers /\ ~s.got_majority /\ s.loser_timeout > 0
  <2>1. u = Backoff(n, w).s
    BY <1>3 DEF Proposer
  <2> HIDE DEF u
  <2>2. Waits(n, s, u) /\ Beside(s, u) /\ NodeOK(u)
    BY <1>3, <2>1, BackoffLemma DEF Waits
  <2> QED
    BY <1>3, <2>2 DEF ProposerEffect, u
<1>4. CASE n \in Proposers /\ ~s.got_majority /\ ~(s.loser_timeout > 0)
  <2>1. u = Compete(n, w, p).s
    BY <1>4 DEF Proposer
  <2> HIDE DEF u
  <2>2. CASE p.ballot = Proposed(n, s) /\ p.phase = s.phase
    <3>1. u = CountReplies(n, w).s
      BY <2>1, <2>2 DEF Compete
    <3>2. Beside(s, u) /\ NodeOK(u) /\ CountEffect(n, s, u)
      BY <3>1, CountRepliesLemma
    <3> QED
      BY <1>4, <2>2, <3>2 DEF ProposerEffect, Competes, u
  <2>3. CASE p.ballot = Proposed(n, s) /\ p.phase # s.phase
    <3>1. u = s
      BY <2>1, <2>3 DEF Compete, Work
    <3> QED
      BY <2>3, <3>1, BesideRefl DEF ProposerEffect, Unmoved, u
  <2>4. CASE p.ballot > Proposed(n, s)
    <3>1. u = Lose(s)
      BY <1>1, <2>1, <2>4 DEF Compete, Work
    <3>2. Beside(s, u) /\ LoseEffect(s, u) /\ u.pkt = s.pkt /\ NodeOK(u)
      BY <3>1, LoseLemma
    <3> QED
      BY <1>4, <2>4, <3>2 DEF ProposerEffect, Competes, u
  <2>5. CASE p.ballot < Proposed(n, s) /\ s.phase = PAXOS_INIT
    <3>1. u = BeginPrepare(n, s)
      BY <1>1, <2>1, <2>5 DEF Compete, Work
    <3>2. NodeOK(u) /\ Beside(s, u)
      BY <3>1, BeginPrepareType, BeginPrepareEffect DEF Beside
    <3> QED
      BY <1>4, <2>5, <3>1, <3>2 DEF ProposerEffect, Competes, u
  <2>6. CASE p.ballot < Proposed(n, s) /\ s.phase # PAXOS_INIT
    <3>1. u = s
      BY <1>1, <2>1, <2>6 DEF Compete, Work
    <3> QED
      BY <2>6, <3>1, BesideRefl DEF ProposerEffect, Unmoved, u
  <2> QED
    BY <1>1, <2>2, <2>3, <2>4, <2>5, <2>6
<1> QED
  BY <1>2, <1>3, <1>4

-----------------------------------------------------------------------------
(* Setting got_valid_rx preserves the types. *)
LEMMA GotValidRxLemma ==
  ASSUME NEW s
  PROVE  LET t == GotValidRx(s) IN
         /\ t.pkt = s.pkt /\ t.local = s.local
         /\ SameProposer(s, t) /\ SameVotes(s, t) /\ SameAggregates(s, t) /\ SameLearner(s, t)
         /\ t.got_valid_rx \in BOOLEAN
         /\ t.state = s.state /\ t.tx_count_complete = s.tx_count_complete
         /\ t.restart_threshold = s.restart_threshold
         /\ t.invalid_rx_count = s.invalid_rx_count
BY DEF GotValidRx, SameProposer, SameVotes, SameAggregates, SameLearner

(* The Synchrotron stage moves the radio and nothing else. *)
LEMMA SynchrotronFrame ==
  ASSUME NEW n, NEW w, w.s.state # "INIT", NEW ok, NEW draw
  PROVE  LET t == Synchrotron(n, w, ok, draw) IN
         /\ t.pkt = w.s.pkt /\ t.local = w.s.local
         /\ SameProposer(w.s, t) /\ SameVotes(w.s, t) /\ SameAggregates(w.s, t)
         /\ SameLearner(w.s, t)
BY DEF Synchrotron, GotValidRx, SameProposer, SameVotes, SameAggregates, SameLearner

(* The Synchrotron switch (paxos.c:556-600) keeps its counters within bounds. *)
LEMMA SynchrotronRadio ==
  ASSUME NEW n, NEW w, RadioOK(w.s), NEW ok, NEW draw, draw.threshold \in Thresholds
  PROVE  RadioOK(Synchrotron(n, w, ok, draw))
<1> DEFINE s == w.s
           t == Synchrotron(n, w, ok, draw)
<1>1. s.state # "INIT" /\ s.tx_count_complete \in Int /\ N_TX_COMPLETE \in Int
  BY ConfigAssumption DEF ConfigAssumption, RadioOK
<1>2. t.state \in {"TX", "RX", "OFF"}
  BY <1>1 DEF Synchrotron, GotValidRx, RadioOK
<1>3. s.got_valid_rx \in BOOLEAN
  BY DEF RadioOK
<1>4. t = GotValidRx(s) \/ t.got_valid_rx = s.got_valid_rx
  BY <1>1 DEF Synchrotron
<1>5. t.got_valid_rx \in BOOLEAN
  BY <1>3, <1>4, GotValidRxLemma
<1>6. t.restart_threshold \in {s.restart_threshold, draw.threshold}
  BY <1>1 DEF Synchrotron, GotValidRx
<1>7. \/ t.tx_count_complete \in {0, s.tx_count_complete}
      \/ /\ ~(s.tx_count_complete > N_TX_COMPLETE)
         /\ t.tx_count_complete = s.tx_count_complete + 1
  BY <1>1 DEF Synchrotron, GotValidRx
<1>8. t.tx_count_complete \in 0..(N_TX_COMPLETE + 1)
  <2>1. N_TX_COMPLETE \in Nat
    BY ConfigAssumption DEF ConfigAssumption
  <2> HIDE DEF t
  <2> QED
    BY <1>7, <2>1 DEF RadioOK
<1>9. \/ t.invalid_rx_count \in {0, s.invalid_rx_count}
      \/ /\ ~(s.invalid_rx_count + 1 > s.restart_threshold)
         /\ t.invalid_rx_count = s.invalid_rx_count + 1
  BY <1>1 DEF Synchrotron, GotValidRx
<1>10. t.invalid_rx_count \in 0..CHAOS_RESTART_MAX
  <2>1. CHAOS_RESTART_MIN \in Nat /\ CHAOS_RESTART_MAX \in Nat
    BY ConfigAssumption DEF ConfigAssumption
  <2> HIDE DEF t
  <2> QED
    BY <1>9, <2>1 DEF RadioOK, Thresholds
<1> QED
  BY <1>2, <1>6, <1>8, <1>10, <1>5 DEF RadioOK

(* Failure injection turns the radio off and nothing else. *)
LEMMA InjectFailureLemma ==
  ASSUME NEW s, NodeOK(s), NEW draw
  PROVE  LET t == InjectFailure(s, draw) IN
         /\ NodeOK(t)
         /\ t.pkt = s.pkt /\ t.local = s.local
         /\ SameProposer(s, t) /\ SameVotes(s, t) /\ SameAggregates(s, t)
         /\ SameLearner(s, t)
<1> DEFINE t == InjectFailure(s, draw)
<1>1. /\ t.pkt = s.pkt /\ t.local = s.local
      /\ SameProposer(s, t) /\ SameVotes(s, t) /\ SameAggregates(s, t) /\ SameLearner(s, t)
  BY DEF InjectFailure, SameProposer, SameVotes, SameAggregates, SameLearner
<1>2. RadioOK(s)
  BY DEF NodeOK
<1>3. RadioOK(t)
  BY <1>2 DEF InjectFailure, RadioOK
<1>4. NodeOK(t)
  BY <1>1, <1>3, SameProposerOK, SameAcceptorOK, SameLearnerOK DEF NodeOK
<1> QED
  BY <1>1, <1>4

(* Reporting (paxos.c:610-619) fills the report buffer. *)
LEMMA ReportLemma ==
  ASSUME NEW n, NEW s, NodeOK(s), NEW slot
  PROVE  LET t == Report(n, s, slot) IN
         /\ NodeOK(t)
         /\ t.pkt = s.pkt /\ t.local.flags = s.local.flags
         /\ SameVotes(s, t) /\ SameAggregates(s, t) /\ SameLearner(s, t)
         /\ n \in Proposers => SameProposer(s, t)
<1> DEFINE t == Report(n, s, slot)
           q == [ballot |-> s.min_proposal, phase |-> s.pkt.phase,
                 value |-> s.accepted_value, proposal |-> s.accepted_proposal,
                 flags |-> s.local.flags]
<1>1. /\ t.pkt = s.pkt
      /\ SameVotes(s, t) /\ SameAggregates(s, t) /\ SameLearner(s, t) /\ SameRadio(s, t)
  BY DEF Report, SameVotes, SameAggregates, SameLearner, SameRadio
<1>2. n \in Proposers => SameProposer(s, t)
  BY DEF Report, SameProposer
<1>3. /\ t.phase \in {s.phase, s.pkt.phase}
      /\ t.round = s.round /\ t.proposed_value = s.proposed_value
      /\ t.got_majority = s.got_majority /\ t.loser_timeout = s.loser_timeout
  BY DEF Report
<1>4. t.local = s.local \/ t.local = q
  BY DEF Report
<1>5. q.flags = s.local.flags
  OBVIOUS
<1>6. PacketOK(s.pkt) /\ PacketOK(s.local) /\ AcceptorOK(s) /\ ProposerOK(s)
  BY DEF NodeOK
<1>7. PacketOK(q)
  BY <1>6 DEF PacketOK, AcceptorOK
<1> HIDE DEF q, t
<1>8. t.local.flags = s.local.flags /\ PacketOK(t.local)
  BY <1>4, <1>5, <1>6, <1>7
<1>9. ProposerOK(t)
  BY <1>3, <1>6 DEF ProposerOK, PacketOK
<1>10. NodeOK(t)
  BY <1>1, <1>6, <1>8, <1>9, SameAcceptorOK, SameLearnerOK, SameRadioOK DEF NodeOK
<1> QED
  BY <1>1, <1>2, <1>8, <1>10 DEF t

-----------------------------------------------------------------------------
(* A heartbeat: a proposer that has not started starts, another node relays. *)
SameOutcome(s, t) ==
  /\ t.accepted_proposal = s.accepted_proposal
  /\ t.accepted_value = s.accepted_value
  /\ t.learned_value = s.learned_value
  /\ t.value_chosen = s.value_chosen
  /\ t.completion_slot = s.completion_slot

Starts(n, s, t) ==
  /\ n \in Proposers /\ s.phase = PAXOS_INIT /\ t.phase = PAXOS_PREPARE
  /\ t.round = s.round /\ t.proposed_value = s.proposed_value
  /\ t.got_majority = s.got_majority /\ t.loser_timeout = s.loser_timeout
  /\ t.min_proposal = Proposed(n, s)
  /\ t.rx_min_proposal = s.rx_min_proposal
  /\ t.pkt.ballot = Proposed(n, s) /\ t.pkt.phase = PAXOS_PREPARE

Relays(n, s, p, t) ==
  /\ n \notin Proposers
  /\ t.min_proposal = s.min_proposal
  /\ t.rx_min_proposal = s.rx_min_proposal
  /\ t.pkt.ballot = p.ballot /\ t.pkt.phase = p.phase

HearEffect(n, s, p, t) ==
  \/ t = s
  \/ /\ t.local = s.local /\ SameOutcome(s, t) /\ Starts(n, s, t)
     /\ t.pkt.flags = s.local.flags
  \/ t.local = s.local /\ SameOutcome(s, t) /\ Relays(n, s, p, t)

(* BeginPrepare starts a proposer. *)
LEMMA BeginPrepareStarts ==
  ASSUME NEW n \in Proposers, NEW s, s.phase = PAXOS_INIT
  PROVE  LET t == BeginPrepare(n, s) IN
         /\ t.local = s.local /\ SameOutcome(s, t) /\ Starts(n, s, t)
         /\ t.pkt.flags = s.pkt.flags
<1> DEFINE t == BeginPrepare(n, s)
<1>1. /\ t.phase = PAXOS_PREPARE
      /\ t.min_proposal = Proposed(n, s)
      /\ t.pkt = WithRequest(s.pkt, Proposed(n, s), PAXOS_PREPARE)
      /\ t.local = s.local
      /\ t.round = s.round /\ t.proposed_value = s.proposed_value
      /\ t.got_majority = s.got_majority /\ t.loser_timeout = s.loser_timeout
      /\ t.accepted_proposal = s.accepted_proposal
      /\ t.accepted_value = s.accepted_value
      /\ SameAggregates(s, t) /\ SameLearner(s, t)
  BY BeginPrepareEffect
<1> HIDE DEF t
<1>2. /\ t.pkt.ballot = Proposed(n, s) /\ t.pkt.phase = PAXOS_PREPARE
      /\ t.pkt.flags = s.pkt.flags
  BY <1>1, WithRequestFields
<1> QED
  BY <1>1, <1>2 DEF Starts, SameOutcome, SameAggregates, SameLearner, t

(* Effect and type of hearing a heartbeat (paxos.c:187-219). *)
LEMMA HearInitLemma ==
  ASSUME NEW n \in Nodes, NEW s, NodeOK(s), NEW p, PacketOK(p)
  PROVE  LET t == HearInit(n, s, p).s IN NodeOK(t) /\ HearEffect(n, s, p, t)
<1> DEFINE t == HearInit(n, s, p).s
           c == [s EXCEPT !.pkt = WithFlags(@, s.local.flags)]
<1>1. CASE n \in Proposers /\ s.phase # PAXOS_INIT
  <2>1. t = s
    BY <1>1 DEF HearInit, Work
  <2> QED
    BY <2>1 DEF HearEffect
<1>2. CASE n \in Proposers /\ s.phase = PAXOS_INIT
  <2>1. t = BeginPrepare(n, c)
    BY <1>2 DEF HearInit, Work
  <2>2. /\ c.pkt = WithFlags(s.pkt, s.local.flags)
        /\ c.local = s.local /\ c.min_proposal = s.min_proposal
        /\ SameProposer(s, c) /\ Beside(s, c)
    BY DEF Beside, SameProposer, SameAggregates, SameLearner, SameRadio
  <2> HIDE DEF c, t
  <2>3. s.local.flags \in SUBSET Nodes
    BY DEF NodeOK, PacketOK
  <2>4. PacketOK(c.pkt) /\ ProposerOK(c) /\ c.min_proposal \in Uint16
    BY <2>2, <2>3, WithFlagsOK, SameProposerOK DEF NodeOK, AcceptorOK
  <2>5. NodeOK(c)
    BY <2>2, <2>4, BesideType
  <2>6. NodeOK(t)
    BY <2>1, <2>5, BeginPrepareType
  <2>7. c.phase = PAXOS_INIT
    BY <1>2, <2>2 DEF SameProposer
  <2>8. /\ t.local = c.local /\ SameOutcome(c, t) /\ Starts(n, c, t)
        /\ t.pkt.flags = c.pkt.flags
    BY <1>2, <2>1, <2>7, BeginPrepareStarts
  <2>9. t.local = s.local /\ SameOutcome(s, t)
    BY <2>2, <2>8 DEF SameOutcome, Beside, SameLearner
  <2>10. Proposed(n, c) = Proposed(n, s)
    BY <2>2 DEF SameProposer, Proposed
  <2>11. t.pkt.flags = s.local.flags
    BY <2>2, <2>8, WithFlagsFields
  <2>12. Starts(n, s, t)
    BY <1>2, <2>2, <2>8, <2>10 DEF Starts, SameProposer, Beside, SameAggregates
  <2> QED
    BY <2>6, <2>9, <2>11, <2>12 DEF HearEffect, t
<1>3. CASE n \notin Proposers
  <2> DEFINE flags == s.pkt.flags \cup p.flags
  <2>1. flags \in SUBSET Nodes
    BY DEF NodeOK, PacketOK
  <2> HIDE DEF flags
  <2> DEFINE all == s.complete \/ flags = Nodes
             e == [s EXCEPT !.pkt = WithFlags(p, flags), !.complete = all]
  <2>2. t = e
    BY <1>3 DEF HearInit, Work, flags
  <2> HIDE DEF all
  <2>3. /\ e.pkt = WithFlags(p, flags) /\ e.local = s.local
        /\ e.min_proposal = s.min_proposal
        /\ SameProposer(s, e) /\ SameVotes(s, e) /\ SameAggregates(s, e) /\ SameRadio(s, e)
        /\ SameOutcome(s, e)
    BY DEF SameProposer, SameVotes, SameAggregates, SameRadio, SameOutcome
  <2>4. e.complete \in BOOLEAN
    <3>1. e.complete = all
      OBVIOUS
    <3>2. all \in BOOLEAN
      BY DEF all
    <3> QED
      BY <3>1, <3>2
  <2> HIDE DEF t, e
  <2>5. LearnerOK(t)
    BY <2>2, <2>3, <2>4 DEF NodeOK, LearnerOK, SameOutcome
  <2>6. PacketOK(t.pkt)
    BY <2>1, <2>2, <2>3, WithFlagsOK
  <2>7. NodeOK(t)
    BY <2>2, <2>3, <2>5, <2>6, SameProposerOK, SameAcceptorOK, SameRadioOK DEF NodeOK
  <2>8. Relays(n, s, p, t)
    BY <1>3, <2>2, <2>3, WithFlagsFields DEF Relays, SameAggregates
  <2> QED
    BY <2>2, <2>3, <2>7, <2>8 DEF HearEffect, t
<1> QED
  BY <1>1, <1>2, <1>3

-----------------------------------------------------------------------------
(* The whole callback. Core: all that the protocol's safety depends on is the
   same in two node states. *)
Core(n, s, t) ==
  /\ t.pkt = s.pkt
  /\ t.local.flags = s.local.flags
  /\ t.min_proposal = s.min_proposal
  /\ t.rx_min_proposal = s.rx_min_proposal
  /\ SameOutcome(s, t)
  /\ n \in Proposers => SameProposer(s, t)

Finish(n, w, ok, slot, draw) ==
  Report(n, InjectFailure(Synchrotron(n, w, ok, draw), draw), slot)

(* The stages after Paxos proper leave the core of the state alone. *)
LEMMA FinishLemma ==
  ASSUME NEW n \in Nodes, NEW w, NodeOK(w.s), NEW ok, NEW slot, NEW draw,
         draw.threshold \in Thresholds
  PROVE  LET t == Finish(n, w, ok, slot, draw) IN NodeOK(t) /\ Core(n, w.s, t)
<1> DEFINE s == w.s
           y == Synchrotron(n, w, ok, draw)
           f == InjectFailure(y, draw)
           t == Report(n, f, slot)
<1>1. RadioOK(s) /\ s.state # "INIT"
  BY DEF NodeOK, RadioOK
<1>2. /\ y.pkt = s.pkt /\ y.local = s.local
      /\ SameProposer(s, y) /\ SameVotes(s, y) /\ SameAggregates(s, y) /\ SameLearner(s, y)
  BY <1>1, SynchrotronFrame
<1>3. RadioOK(y)
  BY <1>1, SynchrotronRadio
<1> HIDE DEF y
<1>4. NodeOK(y)
  BY <1>2, <1>3, SameProposerOK, SameAcceptorOK, SameLearnerOK DEF NodeOK
<1>5. /\ NodeOK(f)
      /\ f.pkt = y.pkt /\ f.local = y.local
      /\ SameProposer(y, f) /\ SameVotes(y, f) /\ SameAggregates(y, f)
      /\ SameLearner(y, f)
  BY <1>4, InjectFailureLemma
<1> HIDE DEF f
<1>6. /\ NodeOK(t)
      /\ t.pkt = f.pkt /\ t.local.flags = f.local.flags
      /\ SameVotes(f, t) /\ SameAggregates(f, t) /\ SameLearner(f, t)
      /\ n \in Proposers => SameProposer(f, t)
  BY <1>5, ReportLemma
<1> HIDE DEF t
<1>7. t.pkt = s.pkt /\ t.local.flags = s.local.flags
  BY <1>2, <1>5, <1>6
<1>8. /\ t.min_proposal = s.min_proposal /\ SameOutcome(s, t)
      /\ t.rx_min_proposal = s.rx_min_proposal
  BY <1>2, <1>5, <1>6 DEF SameVotes, SameAggregates, SameLearner, SameOutcome
<1>9. n \in Proposers => SameProposer(s, t)
  BY <1>2, <1>5, <1>6 DEF SameProposer
<1> QED
  BY <1>6, <1>7, <1>8, <1>9 DEF Core, Finish, t, f, y

(* got_valid_rx is not part of the core. *)
LEMMA GotValidRxCore ==
  ASSUME NEW n, NEW s, NodeOK(s)
  PROVE  LET h == GotValidRx(s) IN NodeOK(h) /\ Core(n, s, h)
<1> DEFINE h == GotValidRx(s)
<1>1. /\ h.pkt = s.pkt /\ h.local = s.local
      /\ SameProposer(s, h) /\ SameVotes(s, h) /\ SameAggregates(s, h) /\ SameLearner(s, h)
      /\ h.got_valid_rx \in BOOLEAN
      /\ h.state = s.state /\ h.tx_count_complete = s.tx_count_complete
      /\ h.restart_threshold = s.restart_threshold
      /\ h.invalid_rx_count = s.invalid_rx_count
  BY GotValidRxLemma
<1> HIDE DEF h
<1>2. RadioOK(h)
  BY <1>1 DEF NodeOK, RadioOK
<1>3. NodeOK(h)
  BY <1>1, <1>2, SameProposerOK, SameAcceptorOK, SameLearnerOK DEF NodeOK
<1>4. Core(n, s, h)
  BY <1>1 DEF Core, SameVotes, SameAggregates, SameLearner, SameOutcome
<1> QED
  BY <1>3, <1>4 DEF h

(* What one slot does to a node: nothing that matters when the callback heeds
   no packet; otherwise the effect of a heartbeat, or of the acceptor stage
   followed by the proposer stage. *)
HearsHeartbeat(n, s, p, t) ==
  /\ p.phase = PAXOS_INIT /\ s.min_proposal = 0
  /\ \E u : NodeOK(u) /\ HearEffect(n, GotValidRx(s), p, u) /\ Core(n, u, t)

HearsPaxos(n, s, p, t) ==
  /\ ~(p.phase = PAXOS_INIT /\ s.min_proposal = 0)
  /\ \E a, u : /\ NodeOK(a) /\ AcceptorEffect(n, GotValidRx(s), p, a)
               /\ NodeOK(u) /\ Beside(a, u) /\ ProposerEffect(n, a, p, u)
               /\ Core(n, u, t)

(* Effect and type of a whole slot of process() (paxos.c:156-657). *)
LEMMA ProcessLemma ==
  ASSUME NEW n \in Nodes, NEW s, NodeOK(s), NEW ok, NEW p, PacketOK(p),
         NEW slot \in 0..(PAXOS_ROUND_MAX_SLOTS - 1), NEW draw,
         draw.threshold \in Thresholds
  PROVE  LET t == Process(n, s, ok, p, slot, draw) IN
         /\ NodeOK(t)
         /\ IF Heeds(n, s, ok)
            THEN HearsHeartbeat(n, s, p, t) \/ HearsPaxos(n, s, p, t)
            ELSE Core(n, s, t)
<1> DEFINE t == Process(n, s, ok, p, slot, draw)
           h == GotValidRx(s)
<1>1. NodeOK(h)
  BY GotValidRxCore
<1>2. CASE ~Heeds(n, s, ok)
  <2> DEFINE w == Work(s, FALSE, FALSE)
  <2>1. t = Finish(n, w, ok, slot, draw)
    BY <1>2 DEF Process, Finish
  <2>2. w.s = s
    BY DEF Work
  <2> HIDE DEF w
  <2> QED
    BY <1>2, <2>1, <2>2, FinishLemma
<1>3. CASE Heeds(n, s, ok) /\ p.phase = PAXOS_INIT /\ s.min_proposal = 0
  <2> DEFINE w == HearInit(n, h, p)
  <2>1. t = Finish(n, w, ok, slot, draw)
    BY <1>3 DEF Process, Paxos, Finish
  <2>2. NodeOK(w.s) /\ HearEffect(n, h, p, w.s)
    BY <1>1, HearInitLemma
  <2> HIDE DEF w, t
  <2>3. NodeOK(t) /\ Core(n, w.s, t)
    BY <2>1, <2>2, FinishLemma
  <2>4. HearsHeartbeat(n, s, p, t)
    BY <1>3, <2>2, <2>3 DEF HearsHeartbeat
  <2> QED
    BY <1>3, <2>3, <2>4 DEF t
<1>4. CASE Heeds(n, s, ok) /\ ~(p.phase = PAXOS_INIT /\ s.min_proposal = 0)
  <2> DEFINE a == Acceptor(n, h, p, s.state = "TX", slot, draw)
             w == Proposer(n, a, p)
  <2>1. t = Finish(n, w, ok, slot, draw)
    BY <1>4 DEF Process, Paxos, Finish
  <2>2. NodeOK(a.s) /\ AcceptorEffect(n, h, p, a.s)
    BY <1>1, AcceptorLemma
  <2> HIDE DEF a
  <2>3. NodeOK(w.s) /\ Beside(a.s, w.s) /\ ProposerEffect(n, a.s, p, w.s)
    BY <2>2, ProposerLemma
  <2> HIDE DEF w, t
  <2>4. NodeOK(t) /\ Core(n, w.s, t)
    BY <2>1, <2>3, FinishLemma
  <2>5. HearsPaxos(n, s, p, t)
    BY <1>4, <2>2, <2>3, <2>4 DEF HearsPaxos
  <2> QED
    BY <1>4, <2>4, <2>5 DEF t
<1> QED
  BY <1>2, <1>3, <1>4

-----------------------------------------------------------------------------
(* The effects of a slot between the states before and after it. *)
HeartbeatMove(n, s, p, t) ==
  \/ Core(n, s, t)
  \/ /\ t.local.flags = s.local.flags
     /\ SameOutcome(s, t)
     /\ \/ Starts(n, s, t) /\ t.pkt.flags = s.local.flags
        \/ Relays(n, s, p, t)

(* A slot with a heartbeat, from the state before to the state after. *)
LEMMA HeartbeatLemma ==
  ASSUME NEW n, NEW s, NodeOK(s), NEW p, NEW t, HearsHeartbeat(n, s, p, t)
  PROVE  HeartbeatMove(n, s, p, t) /\ p.phase = PAXOS_INIT /\ s.min_proposal = 0
<1> DEFINE h == GotValidRx(s)
<1>1. Core(n, s, h)
  BY GotValidRxCore
<1>2. PICK u : HearEffect(n, h, p, u) /\ Core(n, u, t)
  BY DEF HearsHeartbeat
<1> HIDE DEF h
<1>3. CASE u = h
  <2>1. Core(n, s, t)
    BY <1>1, <1>2, <1>3 DEF Core, SameOutcome, SameProposer
  <2> QED
    BY <2>1 DEF HeartbeatMove, HearsHeartbeat
<1>4. CASE /\ u.local = h.local /\ SameOutcome(h, u) /\ Starts(n, h, u)
           /\ u.pkt.flags = h.local.flags
  <2>1. t.local.flags = s.local.flags /\ SameOutcome(s, t)
    BY <1>1, <1>2, <1>4 DEF Core, SameOutcome
  <2>2. Proposed(n, h) = Proposed(n, s)
    BY <1>1, <1>4 DEF Core, SameProposer, Proposed, Starts
  <2>3. n \in Proposers /\ SameProposer(s, h) /\ SameProposer(u, t)
    BY <1>1, <1>2, <1>4 DEF Core, Starts
  <2>4. Starts(n, s, t)
    BY <1>1, <1>2, <1>4, <2>2, <2>3 DEF Core, Starts, SameProposer
  <2>5. t.pkt.flags = s.local.flags
    BY <1>1, <1>2, <1>4 DEF Core
  <2> QED
    BY <2>1, <2>4, <2>5 DEF HeartbeatMove, HearsHeartbeat
<1>5. CASE u.local = h.local /\ SameOutcome(h, u) /\ Relays(n, h, p, u)
  <2>1. t.local.flags = s.local.flags /\ SameOutcome(s, t)
    BY <1>1, <1>2, <1>5 DEF Core, SameOutcome
  <2>2. Relays(n, s, p, t)
    BY <1>1, <1>2, <1>5 DEF Core, Relays
  <2> QED
    BY <2>1, <2>2 DEF HeartbeatMove, HearsHeartbeat
<1> QED
  BY <1>2, <1>3, <1>4, <1>5 DEF HearEffect

AcceptorMove(n, s, p, a) ==
  /\ a.local.flags = s.local.flags
  /\ n \in Proposers => SameProposer(s, a)
  /\ ~NotOlder(s, p) =>
       /\ a.pkt = s.pkt /\ a.min_proposal = s.min_proposal /\ SameOutcome(s, a)
       /\ a.rx_min_proposal = s.rx_min_proposal
  /\ NotOlder(s, p) =>
       /\ a.pkt.ballot = p.ballot /\ a.pkt.phase = p.phase
       /\ a.pkt.flags = Merged(s, p) \cup {n}
       /\ p.phase = PAXOS_ACCEPT =>
            a.pkt.value = (IF NewPhase(s, p) THEN p.value ELSE s.pkt.value)
       /\ Reporting(HeardInPhase(s, p), p, a)
       /\ a.min_proposal = (IF p.phase = PAXOS_INIT THEN s.min_proposal
                            ELSE MaxOf(p.ballot, s.min_proposal))
       /\ IF p.phase = PAXOS_ACCEPT /\ p.ballot >= s.min_proposal
          THEN a.accepted_proposal = p.ballot /\ a.accepted_value = p.value
          ELSE /\ a.accepted_proposal = s.accepted_proposal
               /\ a.accepted_value = s.accepted_value
       /\ \/ a.learned_value = s.learned_value /\ a.value_chosen = s.value_chosen
          \/ /\ p.phase = PAXOS_ACCEPT /\ Majority(Merged(s, p))
             /\ a.learned_value = p.value
       /\ \/ a.completion_slot = s.completion_slot
          \/ p.phase = PAXOS_ACCEPT /\ Merged(s, p) = Nodes

(* The acceptor stage, seen from the state before the slot. *)
LEMMA AcceptorMoveLemma ==
  ASSUME NEW n, NEW s, NEW h, Core(n, s, h), NEW p, NEW a, AcceptorEffect(n, h, p, a)
  PROVE  AcceptorMove(n, s, p, a)
<1>1. h.pkt = s.pkt /\ h.local.flags = s.local.flags /\ h.min_proposal = s.min_proposal
      /\ h.rx_min_proposal = s.rx_min_proposal
      /\ SameOutcome(s, h) /\ (n \in Proposers => SameProposer(s, h))
  BY DEF Core
<1>2. /\ NotOlder(h, p) = NotOlder(s, p)
      /\ NewPhase(h, p) = NewPhase(s, p)
      /\ HeardInPhase(h, p) = HeardInPhase(s, p)
  BY <1>1 DEF NotOlder, NewPhase, HeardInPhase
<1>3. Merged(h, p) = Merged(s, p)
  BY <1>1 DEF Merged, NewPhase
<1>4. a.local.flags = s.local.flags /\ (n \in Proposers => SameProposer(s, a))
  BY <1>1 DEF AcceptorEffect, SameProposer
<1>5. ASSUME ~NotOlder(s, p)
      PROVE  /\ a.pkt = s.pkt /\ a.min_proposal = s.min_proposal /\ SameOutcome(s, a)
             /\ a.rx_min_proposal = s.rx_min_proposal
  BY <1>1, <1>2, <1>5 DEF AcceptorEffect
<1>6. ASSUME NotOlder(s, p)
      PROVE  /\ a.pkt.ballot = p.ballot /\ a.pkt.phase = p.phase
             /\ a.pkt.flags = Merged(s, p) \cup {n}
             /\ p.phase = PAXOS_ACCEPT =>
                  a.pkt.value = (IF NewPhase(s, p) THEN p.value ELSE s.pkt.value)
             /\ Reporting(HeardInPhase(s, p), p, a)
             /\ a.min_proposal = (IF p.phase = PAXOS_INIT THEN s.min_proposal
                                  ELSE MaxOf(p.ballot, s.min_proposal))
  BY <1>1, <1>2, <1>3, <1>6 DEF AcceptorEffect
<1>7. ASSUME NotOlder(s, p)
      PROVE  /\ IF p.phase = PAXOS_ACCEPT /\ p.ballot >= s.min_proposal
                THEN a.accepted_proposal = p.ballot /\ a.accepted_value = p.value
                ELSE /\ a.accepted_proposal = s.accepted_proposal
                     /\ a.accepted_value = s.accepted_value
             /\ \/ a.learned_value = s.learned_value /\ a.value_chosen = s.value_chosen
                \/ /\ p.phase = PAXOS_ACCEPT /\ Majority(Merged(s, p))
                   /\ a.learned_value = p.value
             /\ \/ a.completion_slot = s.completion_slot
                \/ p.phase = PAXOS_ACCEPT /\ Merged(s, p) = Nodes
  BY <1>1, <1>2, <1>3, <1>7 DEF AcceptorEffect, SameOutcome
<1> QED
  BY <1>4, <1>5, <1>6, <1>7 DEF AcceptorMove

PaxosMove(n, s, p, t) ==
  /\ ~(p.phase = PAXOS_INIT /\ s.min_proposal = 0)
  /\ \E a, u : /\ NodeOK(a) /\ AcceptorMove(n, s, p, a)
               /\ NodeOK(u) /\ Beside(a, u) /\ ProposerEffect(n, a, p, u)
               /\ Core(n, u, t)

(* A slot with a Paxos packet, from the state before to the state after. *)
LEMMA PaxosMoveLemma ==
  ASSUME NEW n, NEW s, NodeOK(s), NEW p, NEW t, HearsPaxos(n, s, p, t)
  PROVE  PaxosMove(n, s, p, t)
<1>1. Core(n, s, GotValidRx(s))
  BY GotValidRxCore
<1>2. PICK a, u : /\ NodeOK(a) /\ AcceptorEffect(n, GotValidRx(s), p, a)
                  /\ NodeOK(u) /\ Beside(a, u) /\ ProposerEffect(n, a, p, u)
                  /\ Core(n, u, t)
  BY DEF HearsPaxos
<1>3. AcceptorMove(n, s, p, a)
  BY <1>1, <1>2, AcceptorMoveLemma
<1> QED
  BY <1>2, <1>3 DEF PaxosMove, HearsPaxos

-----------------------------------------------------------------------------
(* The start of a round with fresh state. *)
LEMMA LoadLemma ==
  ASSUME NEW n \in Nodes, NEW v \in Values, NEW draw
  PROVE  LET b == Load(n, ResetState, v, draw) IN
         /\ b.pkt = b.local /\ b.local.flags = {n}
         /\ b.local.ballot = 0 /\ b.local.phase = PAXOS_INIT
         /\ b.local.value \in {0, v} /\ b.local.proposal = 0
<1> DEFINE b == Load(n, ResetState, v, draw)
           q == IF n \in Proposers THEN WithValue(NoPacket, v) ELSE NoPacket
           all == q.flags \cup {n}
<1>1. /\ q.flags = {} /\ q.ballot = 0 /\ q.phase = PAXOS_INIT
      /\ q.value \in {0, v} /\ q.proposal = 0
  BY DEF WithValue, NoPacket
<1> HIDE DEF q
<1>2. all = {n}
  BY <1>1
<1> HIDE DEF all
<1>3. b.local = WithFlags(q, all) /\ b.pkt = b.local
  BY DEF Load, ResetState, q, all
<1> HIDE DEF b
<1> QED
  BY <1>1, <1>2, <1>3, WithFlagsFields DEF b

(* The scalar fields paxos_round_begin leaves. *)
LEMMA LoadScalars ==
  ASSUME NEW n, NEW v, NEW draw
  PROVE  LET b == Load(n, ResetState, v, draw) IN
         /\ b.phase = PAXOS_INIT /\ b.loser_timeout = 0
         /\ n \in Proposers => b.round = 1 /\ b.proposed_value = v
         /\ n \notin Proposers => b.round = 0 /\ b.proposed_value = 0
         /\ b.min_proposal = 0 /\ b.accepted_proposal = 0 /\ b.accepted_value = 0
         /\ b.rx_min_proposal = 0 /\ b.rx_accepted_proposal = 0 /\ b.rx_accepted_value = 0
         /\ b.learned_value = 0 /\ b.completion_slot = 0
         /\ b.state = "INIT" /\ b.tx_count_complete = 0
         /\ b.restart_threshold = draw.threshold /\ b.invalid_rx_count = 0
BY DEF Load, ResetState

(* The Boolean fields paxos_round_begin leaves. *)
LEMMA LoadBooleans ==
  ASSUME NEW n, NEW v, NEW draw
  PROVE  LET b == Load(n, ResetState, v, draw) IN
         /\ ~b.got_majority /\ b.got_majority \in BOOLEAN
         /\ ~b.value_chosen /\ b.value_chosen \in BOOLEAN
         /\ b.complete \in BOOLEAN /\ b.got_valid_rx \in BOOLEAN
BY DEF Load, ResetState

(* paxos_round_begin establishes the types, up to those of the radio. *)
LEMMA LoadType ==
  ASSUME NEW n \in Nodes, NEW v \in Values, NEW draw
  PROVE  RestOK(Load(n, ResetState, v, draw))
<1> DEFINE b == Load(n, ResetState, v, draw)
<1>1. /\ b.pkt = b.local /\ b.local.flags = {n}
      /\ b.local.ballot = 0 /\ b.local.phase = PAXOS_INIT
      /\ b.local.value \in {0, v} /\ b.local.proposal = 0
  BY LoadLemma
<1>2. /\ b.phase = PAXOS_INIT /\ b.loser_timeout = 0
      /\ b.round \in {0, 1} /\ b.proposed_value \in {0, v}
      /\ b.min_proposal = 0 /\ b.accepted_proposal = 0 /\ b.accepted_value = 0
      /\ b.rx_min_proposal = 0 /\ b.rx_accepted_proposal = 0 /\ b.rx_accepted_value = 0
      /\ b.learned_value = 0 /\ b.completion_slot = 0
  BY LoadScalars
<1>3. b.got_majority \in BOOLEAN /\ b.value_chosen \in BOOLEAN /\ b.complete \in BOOLEAN
  BY LoadBooleans
<1> HIDE DEF b
<1>4. v \in Uint8 /\ 0 \in Uint8 /\ 1 \in Uint8 /\ 0 \in Uint16
  BY ConfigAssumption DEF ConfigAssumption, Uint8, Uint16
<1>5. PAXOS_INIT \in Phases
  BY DEF Phases
<1>6. 0 \in 0..(PAXOS_ROUND_MAX_SLOTS - 1)
  BY ConfigAssumption DEF ConfigAssumption, Uint16
<1>7. PacketOK(b.local)
  BY <1>1, <1>4, <1>5 DEF PacketOK
<1>8. ProposerOK(b)
  BY <1>2, <1>3, <1>4, <1>5 DEF ProposerOK
<1>9. AcceptorOK(b)
  BY <1>2, <1>4 DEF AcceptorOK
<1>10. LearnerOK(b)
  BY <1>2, <1>3, <1>4, <1>6 DEF LearnerOK
<1> QED
  BY <1>1, <1>7, <1>8, <1>9, <1>10 DEF RestOK, b

(* After the first call of the callback the initiator, when it proposes, has
   started; every other node has not. *)
Begun(n, t) ==
  /\ t.local.flags = {n} /\ t.pkt.flags = {n}
  /\ t.accepted_proposal = 0 /\ t.completion_slot = 0
  /\ ~t.value_chosen /\ t.rx_min_proposal = 0
  /\ n \in Proposers => /\ t.round = 1 /\ t.loser_timeout = 0
                       /\ ~t.got_majority
  /\ \/ /\ n \in Proposers /\ t.phase = PAXOS_PREPARE
        /\ t.min_proposal = Proposed(n, t)
        /\ t.pkt.ballot = Proposed(n, t) /\ t.pkt.phase = PAXOS_PREPARE
     \/ /\ n \in Proposers => t.phase = PAXOS_INIT
        /\ t.min_proposal = 0
        /\ t.pkt.ballot = 0 /\ t.pkt.phase = PAXOS_INIT

(* What paxos_round_begin leaves is a round that has not begun. *)
LEMMA LoadBegun ==
  ASSUME NEW n \in Nodes, NEW v \in Values, NEW draw
  PROVE  LET b == Load(n, ResetState, v, draw) IN
         /\ Begun(n, b)
         /\ n \in Proposers => Begun(n, BeginPrepare(n, b))
<1> DEFINE b == Load(n, ResetState, v, draw)
           c == BeginPrepare(n, b)
<1>1. /\ b.pkt = b.local /\ b.local.flags = {n}
      /\ b.local.ballot = 0 /\ b.local.phase = PAXOS_INIT
  BY LoadLemma
<1>2. /\ b.phase = PAXOS_INIT /\ b.loser_timeout = 0
      /\ n \in Proposers => b.round = 1
      /\ b.min_proposal = 0 /\ b.accepted_proposal = 0 /\ b.completion_slot = 0
      /\ b.rx_min_proposal = 0
  BY LoadScalars
<1>3. ~b.got_majority /\ ~b.value_chosen
  BY LoadBooleans
<1>4. n \in Proposers => /\ c.local = b.local /\ SameOutcome(b, c) /\ Starts(n, b, c)
                        /\ c.pkt.flags = b.pkt.flags
  BY <1>2, BeginPrepareStarts
<1> HIDE DEF b, c
<1>5. Begun(n, b)
  BY <1>1, <1>2, <1>3 DEF Begun
<1>6. ASSUME n \in Proposers PROVE Begun(n, c)
  <2>1. Proposed(n, c) = Proposed(n, b)
    BY <1>4, <1>6 DEF Starts, Proposed
  <2>2. ~c.got_majority /\ ~c.value_chosen
    BY <1>3, <1>4, <1>6 DEF Starts, SameOutcome
  <2> QED
    BY <1>1, <1>2, <1>4, <1>6, <2>1, <2>2 DEF Begun, Starts, SameOutcome
<1> QED
  BY <1>5, <1>6 DEF b, c

(* The stages after Paxos proper keep a round at its beginning. *)
LEMMA CoreBegun ==
  ASSUME NEW n, NEW s, NEW t, Begun(n, s), Core(n, s, t)
  PROVE  Begun(n, t)
<1>1. n \in Proposers => Proposed(n, t) = Proposed(n, s)
  BY DEF Core, SameProposer, Proposed
<1>2. ~t.value_chosen /\ (n \in Proposers => ~t.got_majority)
  BY DEF Begun, Core, SameOutcome, SameProposer
<1> QED
  BY <1>1, <1>2 DEF Begun, Core, SameOutcome, SameProposer

(* The first call of the callback starts Paxos at an initiator that proposes. *)
Started(n, b) ==
  IF n = Initiator /\ n \in Proposers THEN BeginPrepare(n, b) ELSE b

(* The radio of a node whose callback is called for the first time. *)
LEMMA FirstSynchrotron ==
  ASSUME NEW n \in Nodes, NEW b, RestOK(b), b.state = "INIT",
         n \in Proposers => b.phase = PAXOS_INIT,
         b.tx_count_complete = 0, b.invalid_rx_count = 0,
         b.restart_threshold \in Thresholds, b.got_valid_rx \in BOOLEAN, NEW draw
  PROVE  LET y == Synchrotron(n, Work(b, FALSE, FALSE), FALSE, draw) IN
         /\ NodeOK(y)
         /\ \/ Core(n, b, y)
            \/ n \in Proposers /\ Core(n, BeginPrepare(n, b), y)
         /\ y.pkt = Started(n, b).pkt /\ y.local = Started(n, b).local
         /\ SameProposer(Started(n, b), y) /\ SameVotes(Started(n, b), y)
         /\ SameAggregates(Started(n, b), y)
<1> DEFINE y == Synchrotron(n, Work(b, FALSE, FALSE), FALSE, draw)
           c == Started(n, b)
           g == GotValidRx(c)
<1>1. N_TX_COMPLETE \in Nat /\ CHAOS_RESTART_MAX \in Nat
  BY ConfigAssumption DEF ConfigAssumption
<1>2. ~(0 > N_TX_COMPLETE)
  BY <1>1
<1>3. /\ RestOK(c) /\ c.tx_count_complete = 0 /\ c.invalid_rx_count = 0
      /\ c.restart_threshold \in Thresholds /\ c.got_valid_rx \in BOOLEAN
  BY BeginPrepareRest, BeginPrepareEffect DEF SameRadio, Started
<1>4. y = IF n = Initiator THEN [g EXCEPT !.state = "TX"] ELSE [c EXCEPT !.state = "RX"]
  <2>1. CASE n = Initiator
    BY <2>1 DEF Synchrotron, Work, Started
  <2>2. CASE n # Initiator
    BY <1>2, <2>2 DEF Synchrotron, Work, Started
  <2> QED
    BY <2>1, <2>2
<1> DEFINE e(s, x) == [s EXCEPT !.state = x]
<1>5. ASSUME NEW s, NEW x
      PROVE  /\ e(s, x).pkt = s.pkt /\ e(s, x).local = s.local
             /\ SameProposer(s, e(s, x)) /\ SameVotes(s, e(s, x))
             /\ SameAggregates(s, e(s, x)) /\ SameLearner(s, e(s, x))
             /\ e(s, x).state = x /\ e(s, x).got_valid_rx = s.got_valid_rx
             /\ e(s, x).tx_count_complete = s.tx_count_complete
             /\ e(s, x).restart_threshold = s.restart_threshold
             /\ e(s, x).invalid_rx_count = s.invalid_rx_count
  BY DEF SameProposer, SameVotes, SameAggregates, SameLearner
<1>6. y = IF n = Initiator THEN e(g, "TX") ELSE e(c, "RX")
  BY <1>4
<1>7. /\ g.pkt = c.pkt /\ g.local = c.local
      /\ SameProposer(c, g) /\ SameVotes(c, g) /\ SameAggregates(c, g) /\ SameLearner(c, g)
      /\ g.got_valid_rx \in BOOLEAN
      /\ g.tx_count_complete = c.tx_count_complete
      /\ g.restart_threshold = c.restart_threshold
      /\ g.invalid_rx_count = c.invalid_rx_count
  BY GotValidRxLemma
<1>8. Core(n, b, c) \/ (n \in Proposers /\ c = BeginPrepare(n, b))
  BY DEF Core, SameOutcome, SameProposer, Started
<1> HIDE DEF y, c, g, e
<1>9. /\ y.pkt = c.pkt /\ y.local = c.local
      /\ SameVotes(c, y) /\ SameAggregates(c, y)
  BY <1>5, <1>6, <1>7 DEF SameVotes, SameAggregates
<1>10. SameProposer(c, y) /\ SameLearner(c, y)
  BY <1>5, <1>6, <1>7 DEF SameProposer, SameLearner
<1>11. RadioOK(y)
  <2>1. /\ y.state \in {"TX", "RX"}
        /\ y.tx_count_complete = 0 /\ y.invalid_rx_count = 0
        /\ y.restart_threshold \in Thresholds
    BY <1>3, <1>5, <1>6, <1>7
  <2>2. y.got_valid_rx \in BOOLEAN
    BY <1>3, <1>5, <1>6, <1>7
  <2>3. 0 \in 0..(N_TX_COMPLETE + 1) /\ 0 \in 0..CHAOS_RESTART_MAX
    BY <1>1
  <2> QED
    BY <2>1, <2>2, <2>3 DEF RadioOK
<1>12. NodeOK(y)
  BY <1>3, <1>9, <1>10, <1>11, SameProposerOK, SameAcceptorOK, SameLearnerOK
  DEF RestOK, NodeOK
<1>13. Core(n, c, y)
  BY <1>9, <1>10 DEF Core, SameVotes, SameAggregates, SameLearner, SameOutcome
<1>14. Core(n, b, c) => Core(n, b, y)
  BY <1>13 DEF Core, SameOutcome, SameProposer
<1> QED
  BY <1>8, <1>9, <1>10, <1>12, <1>13, <1>14 DEF y, c

(* Type and shape of a node that has entered the round. *)
LEMMA RoundBeginLemma ==
  ASSUME NEW n \in Nodes, NEW v \in Values, NEW draw, draw.threshold \in Thresholds
  PROVE  LET t == RoundBegin(n, ResetState, v, draw) IN NodeOK(t) /\ Begun(n, t)
<1> DEFINE b == Load(n, ResetState, v, draw)
           w == Work(b, FALSE, FALSE)
           y == Synchrotron(n, w, FALSE, draw)
           f == InjectFailure(y, draw)
           t == Report(n, f, 0)
<1>1. RoundBegin(n, ResetState, v, draw) = t
  BY DEF RoundBegin, Process, Heeds
<1>2. /\ b.state = "INIT" /\ b.phase = PAXOS_INIT /\ b.tx_count_complete = 0
      /\ b.invalid_rx_count = 0 /\ b.restart_threshold \in Thresholds
      /\ b.got_valid_rx \in BOOLEAN
  BY LoadScalars, LoadBooleans
<1>3. RestOK(b) /\ Begun(n, b) /\ (n \in Proposers => Begun(n, BeginPrepare(n, b)))
  BY LoadType, LoadBegun
<1> HIDE DEF b
<1>4. /\ NodeOK(y)
      /\ \/ Core(n, b, y)
         \/ n \in Proposers /\ Core(n, BeginPrepare(n, b), y)
  BY <1>2, <1>3, FirstSynchrotron
<1> HIDE DEF y
<1>5. Begun(n, y)
  BY <1>3, <1>4, CoreBegun
<1>6. /\ NodeOK(f)
      /\ f.pkt = y.pkt /\ f.local = y.local
      /\ SameProposer(y, f) /\ SameVotes(y, f) /\ SameAggregates(y, f)
      /\ SameLearner(y, f)
  BY <1>4, InjectFailureLemma
<1> HIDE DEF f
<1>7. /\ NodeOK(t)
      /\ t.pkt = f.pkt /\ t.local.flags = f.local.flags
      /\ SameVotes(f, t) /\ SameAggregates(f, t) /\ SameLearner(f, t)
      /\ n \in Proposers => SameProposer(f, t)
  BY <1>6, ReportLemma
<1> HIDE DEF t
<1>8. /\ t.min_proposal = y.min_proposal /\ SameOutcome(y, t)
      /\ t.rx_min_proposal = y.rx_min_proposal
  BY <1>6, <1>7 DEF SameVotes, SameAggregates, SameLearner, SameOutcome
<1>9. n \in Proposers => SameProposer(y, t)
  BY <1>6, <1>7 DEF SameProposer
<1>10. Core(n, y, t)
  BY <1>6, <1>7, <1>8, <1>9 DEF Core
<1> QED
  BY <1>1, <1>5, <1>7, <1>10, CoreBegun
-----------------------------------------------------------------------------
(* Validity: a value that travels as a proposal was proposed. Where a packet
   or an aggregate reports no proposal its value may be 0. *)
ValidPacket(p) == p.phase = PAXOS_ACCEPT \/ p.proposal > 0 => p.value \in Values

ValidNode(n, s) ==
  /\ ValidPacket(s.pkt)
  /\ s.rx_accepted_proposal > 0 => s.rx_accepted_value \in Values
  /\ s.accepted_proposal > 0 => s.accepted_value \in Values
  /\ n \in Proposers => s.proposed_value \in Values

(* Validity depends on packet, proposal, votes and aggregates only. *)
LEMMA SameValid ==
  ASSUME NEW n, NEW s, NEW t, ValidNode(n, s), t.pkt = s.pkt, SameVotes(s, t),
         SameAggregates(s, t), n \in Proposers => SameProposer(s, t)
  PROVE  ValidNode(n, t)
BY DEF ValidNode, SameVotes, SameAggregates, SameProposer

(* Starting Paxos (paxos.c:197-206) keeps value and report of the packet. *)
LEMMA BeginPrepareValid ==
  ASSUME NEW n, NEW s, ValidNode(n, s)
  PROVE  ValidNode(n, BeginPrepare(n, s))
<1> DEFINE t == BeginPrepare(n, s)
<1>1. /\ t.pkt = WithRequest(s.pkt, Proposed(n, s), PAXOS_PREPARE)
      /\ t.proposed_value = s.proposed_value
      /\ t.accepted_proposal = s.accepted_proposal
      /\ t.accepted_value = s.accepted_value
      /\ SameAggregates(s, t)
  BY BeginPrepareEffect
<1> HIDE DEF t
<1>2. /\ t.pkt.phase = PAXOS_PREPARE
      /\ t.pkt.value = s.pkt.value /\ t.pkt.proposal = s.pkt.proposal
  BY <1>1, WithRequestFields
<1>3. ValidPacket(t.pkt)
  BY <1>2 DEF ValidNode, ValidPacket, PAXOS_PREPARE, PAXOS_ACCEPT
<1> QED
  BY <1>1, <1>3 DEF ValidNode, SameAggregates, t

(* The acceptor stage passes on reports of proposed values only. *)
LEMMA AcceptorValid ==
  ASSUME NEW n \in Nodes, NEW s, NodeOK(s), NEW p, PacketOK(p), NEW own,
         NEW slot \in 0..(PAXOS_ROUND_MAX_SLOTS - 1), NEW draw,
         ValidNode(n, s), ValidPacket(p)
  PROVE  ValidNode(n, Acceptor(n, s, p, own, slot, draw).s)
<1> DEFINE w == Acceptor(n, s, p, own, slot, draw)
           a == Adopt(s, p)
           r == Reply(a, p)
           flags == r.pkt.flags \cup p.flags
           t == Tally(n, r, p, own, flags, slot)
<1>1. CASE ~NotOlder(s, p)
  BY <1>1 DEF Acceptor, Work
<1>2. CASE NotOlder(s, p)
  <2>1. w.s = t
    BY <1>2 DEF Acceptor, Work
  <2>2. NodeOK(a)
    BY AdoptType
  <2>3. /\ a.pkt = (IF NewPhase(s, p) THEN p ELSE s.pkt)
        /\ SameProposer(s, a) /\ SameVotes(s, a)
    BY AdoptEffect
  <2>4. \/ a.rx_accepted_proposal = 0
        \/ /\ a.rx_accepted_proposal = s.rx_accepted_proposal
           /\ a.rx_accepted_value = s.rx_accepted_value
    BY DEF Adopt
  <2> HIDE DEF a
  <2>5. ValidNode(n, a) /\ a.pkt.phase = p.phase
    BY <2>3, <2>4 DEF ValidNode, SameProposer, SameVotes, NewPhase
  <2>6. /\ a.rx_accepted_proposal \in Nat /\ a.accepted_proposal \in Nat
        /\ p.proposal \in Nat /\ p.ballot \in Nat
    BY <2>2 DEF NodeOK, AcceptorOK, PacketOK, Uint16
  <2>7. ValidNode(n, r)
    <3>1. CASE p.phase = PAXOS_PREPARE
      <4>1. r = Prepare(a, p)
        BY <3>1 DEF Reply
      <4>2. /\ r.accepted_proposal = a.accepted_proposal
            /\ r.accepted_value = a.accepted_value
            /\ r.proposed_value = a.proposed_value
        BY <4>1 DEF Prepare
      <4>3. \/ /\ p.proposal < a.rx_accepted_proposal
               /\ r.pkt = WithReport(a.pkt, a.rx_accepted_proposal, a.rx_accepted_value)
               /\ r.rx_accepted_proposal = a.rx_accepted_proposal
               /\ r.rx_accepted_value = a.rx_accepted_value
            \/ /\ r.pkt = a.pkt
               /\ r.rx_accepted_proposal = p.proposal
               /\ r.rx_accepted_value = p.value
        BY <4>1 DEF Prepare
      <4> HIDE DEF r
      <4>4. r.pkt = a.pkt \/ (r.pkt.value = a.rx_accepted_value /\ a.rx_accepted_proposal > 0)
        BY <2>6, <4>3, WithReportFields
      <4>5. ValidPacket(r.pkt)
        BY <2>5, <4>4 DEF ValidNode, ValidPacket
      <4> QED
        BY <2>5, <4>2, <4>3, <4>5 DEF ValidNode, ValidPacket
    <3>2. CASE p.phase = PAXOS_ACCEPT
      <4>1. r = Accept(a, p)
        BY <3>2 DEF Reply, PAXOS_PREPARE, PAXOS_ACCEPT
      <4>2. /\ r.proposed_value = a.proposed_value
            /\ r.pkt = WithReport(a.pkt, r.rx_min_proposal, a.pkt.value)
        BY <4>1 DEF Accept
      <4>3. \/ /\ r.accepted_proposal = a.accepted_proposal
               /\ r.accepted_value = a.accepted_value
            \/ r.accepted_value = p.value
        BY <4>1 DEF Accept
      <4>4. \/ /\ r.rx_accepted_proposal = a.rx_accepted_proposal
               /\ r.rx_accepted_value = a.rx_accepted_value
            \/ /\ r.rx_accepted_proposal = r.accepted_proposal
               /\ r.rx_accepted_value = r.accepted_value
        BY <4>1 DEF Accept
      <4> HIDE DEF r
      <4>5. r.pkt.value = a.pkt.value
        BY <4>2, WithReportFields
      <4>6. a.pkt.value \in Values /\ p.value \in Values
        BY <2>5, <3>2 DEF ValidNode, ValidPacket
      <4>7. ValidPacket(r.pkt)
        BY <4>5, <4>6 DEF ValidPacket
      <4>8. r.accepted_proposal > 0 => r.accepted_value \in Values
        BY <2>5, <4>3, <4>6 DEF ValidNode
      <4> QED
        BY <2>5, <4>2, <4>4, <4>7, <4>8 DEF ValidNode
    <3>3. CASE p.phase = PAXOS_INIT
      BY <2>5, <3>3 DEF Reply, PAXOS_PREPARE, PAXOS_ACCEPT, PAXOS_INIT
    <3> QED
      BY <3>1, <3>2, <3>3 DEF PacketOK, Phases
  <2>8. /\ t.pkt.phase = r.pkt.phase
        /\ t.pkt.value = r.pkt.value /\ t.pkt.proposal = r.pkt.proposal
        /\ SameProposer(r, t) /\ SameVotes(r, t) /\ SameAggregates(r, t)
    BY TallyFrame
  <2> HIDE DEF r, t
  <2>9. ValidNode(n, t)
    BY <2>7, <2>8 DEF ValidNode, ValidPacket, SameProposer, SameVotes, SameAggregates
  <2> QED
    BY <2>1, <2>9
<1> QED
  BY <1>1, <1>2

(* Losing (paxos.c:507-521) adopts a value heard of, which was proposed. *)
LEMMA LoseValid ==
  ASSUME NEW n, NEW s, ValidNode(n, s) PROVE ValidNode(n, Lose(s))
<1> DEFINE t == Lose(s)
<1>1. /\ t.pkt = s.pkt
      /\ t.rx_accepted_proposal = s.rx_accepted_proposal
      /\ t.rx_accepted_value = s.rx_accepted_value
      /\ t.accepted_proposal = s.accepted_proposal
      /\ t.accepted_value = s.accepted_value
      /\ t.proposed_value = IF s.rx_accepted_proposal > 0
                            THEN s.rx_accepted_value ELSE s.proposed_value
  BY DEF Lose
<1> HIDE DEF t
<1> QED
  BY <1>1 DEF ValidNode, t

(* update_phase (paxos.c:524-533) sends the proposer's value. *)
LEMMA SendPhaseValid ==
  ASSUME NEW n \in Proposers, NEW s, ValidNode(n, s)
  PROVE  ValidNode(n, SendPhase(n, s))
<1> DEFINE t == SendPhase(n, s)
<1>1. /\ t.pkt.value = s.proposed_value /\ t.pkt.proposal = 0
      /\ t.rx_accepted_proposal = s.rx_accepted_proposal
      /\ t.rx_accepted_value = s.rx_accepted_value
      /\ t.accepted_proposal = s.accepted_proposal
      /\ t.accepted_value = s.accepted_value
      /\ t.proposed_value = s.proposed_value
  BY DEF SendPhase
<1> HIDE DEF t
<1> QED
  BY <1>1 DEF ValidNode, ValidPacket, t

(* Counting replies (paxos.c:407-473) adopts a value heard of. *)
LEMMA CountRepliesValid ==
  ASSUME NEW n \in Proposers, NEW w, ValidNode(n, w.s)
  PROVE  ValidNode(n, CountReplies(n, w).s)
<1> DEFINE s == AdoptValue(w.s)
           heardHigher ==
             \/ s.phase = PAXOS_PREPARE /\ s.rx_accepted_proposal > Proposed(n, s)
             \/ s.phase = PAXOS_ACCEPT /\ s.rx_min_proposal > Proposed(n, s)
           won == ~heardHigher /\ Majority(s.pkt.flags)
           turned == won /\ s.phase = PAXOS_PREPARE
           counted == [s EXCEPT !.phase = IF turned THEN PAXOS_ACCEPT ELSE @,
                                !.got_majority = won /\ s.phase = PAXOS_ACCEPT]
           lost == \/ heardHigher
                   \/ /\ counted.phase = PAXOS_ACCEPT
                      /\ s.rx_min_proposal > Proposed(n, s)
                      /\ ~counted.got_majority
           after == IF lost THEN Lose(counted) ELSE counted
           u == CountReplies(n, w).s
<1>1. u = IF turned THEN SendPhase(n, after) ELSE after
  BY DEF CountReplies, Work
<1>2. /\ s.pkt = w.s.pkt
      /\ s.rx_accepted_proposal = w.s.rx_accepted_proposal
      /\ s.rx_accepted_value = w.s.rx_accepted_value
      /\ s.accepted_proposal = w.s.accepted_proposal
      /\ s.accepted_value = w.s.accepted_value
      /\ \/ s.proposed_value = w.s.proposed_value
         \/ w.s.rx_accepted_proposal > 0 /\ s.proposed_value = w.s.rx_accepted_value
  BY DEF AdoptValue
<1> HIDE DEF s, heardHigher, won, turned, u
<1>3. ValidNode(n, s)
  BY <1>2 DEF ValidNode
<1>4. /\ counted.pkt = s.pkt
      /\ counted.rx_accepted_proposal = s.rx_accepted_proposal
      /\ counted.rx_accepted_value = s.rx_accepted_value
      /\ counted.accepted_proposal = s.accepted_proposal
      /\ counted.accepted_value = s.accepted_value
      /\ counted.proposed_value = s.proposed_value
  OBVIOUS
<1> HIDE DEF counted
<1>5. ValidNode(n, counted)
  BY <1>3, <1>4 DEF ValidNode
<1>6. ValidNode(n, after)
  BY <1>5, LoseValid
<1> HIDE DEF after
<1>7. ValidNode(n, u)
  BY <1>1, <1>6, SendPhaseValid
<1> QED
  BY <1>7 DEF u

(* The proposer stage proposes values that were proposed. *)
LEMMA ProposerValid ==
  ASSUME NEW n, NEW w, ValidNode(n, w.s), NEW p
  PROVE  ValidNode(n, Proposer(n, w, p).s)
<1> DEFINE s == w.s
           u == Proposer(n, w, p).s
<1>1. CASE n \notin Proposers \/ s.got_majority
  BY <1>1 DEF Proposer
<1>2. CASE n \in Proposers /\ ~s.got_majority /\ s.loser_timeout > 0
  <2> DEFINE d == [s EXCEPT !.loser_timeout = @ - 1]
  <2>1. u = IF d.loser_timeout = 0 THEN SendPhase(n, d) ELSE d
    BY <1>2 DEF Proposer, Backoff, Work
  <2>2. /\ d.pkt = s.pkt
        /\ d.rx_accepted_proposal = s.rx_accepted_proposal
        /\ d.rx_accepted_value = s.rx_accepted_value
        /\ d.accepted_proposal = s.accepted_proposal
        /\ d.accepted_value = s.accepted_value
        /\ d.proposed_value = s.proposed_value
    OBVIOUS
  <2> HIDE DEF d, u
  <2>3. ValidNode(n, d)
    BY <2>2 DEF ValidNode
  <2>4. ValidNode(n, u)
    BY <1>2, <2>1, <2>3, SendPhaseValid
  <2> QED
    BY <2>4 DEF u
<1>3. CASE n \in Proposers /\ ~s.got_majority /\ ~(s.loser_timeout > 0)
  <2>1. u \in {CountReplies(n, w).s, s, Lose(s), BeginPrepare(n, s)}
    BY <1>3 DEF Proposer, Compete, Work
  <2> QED
    BY <1>3, <2>1, CountRepliesValid, LoseValid, BeginPrepareValid
<1> QED
  BY <1>1, <1>2, <1>3

(* A heartbeat (paxos.c:187-219): the packet relayed is the one heard. *)
LEMMA HearInitValid ==
  ASSUME NEW n, NEW s, ValidNode(n, s), NEW p, ValidPacket(p)
  PROVE  ValidNode(n, HearInit(n, s, p).s)
<1> DEFINE t == HearInit(n, s, p).s
           e(q) == [s EXCEPT !.pkt = q]
<1>1. ASSUME NEW q, ValidPacket(q) PROVE ValidNode(n, e(q))
  <2>1. /\ e(q).pkt = q
        /\ e(q).rx_accepted_proposal = s.rx_accepted_proposal
        /\ e(q).rx_accepted_value = s.rx_accepted_value
        /\ e(q).accepted_proposal = s.accepted_proposal
        /\ e(q).accepted_value = s.accepted_value
        /\ e(q).proposed_value = s.proposed_value
    OBVIOUS
  <2> HIDE DEF e
  <2> QED
    BY <1>1, <2>1 DEF ValidNode
<1>2. ASSUME NEW q, ValidPacket(q), NEW f PROVE ValidPacket(WithFlags(q, f))
  BY <1>2, WithFlagsFields DEF ValidPacket
<1>3. CASE n \in Proposers /\ s.phase = PAXOS_INIT
  <2>1. t = BeginPrepare(n, e(WithFlags(s.pkt, s.local.flags)))
    BY <1>3 DEF HearInit, Work
  <2>2. ValidPacket(s.pkt)
    BY DEF ValidNode
  <2> HIDE DEF e
  <2> QED
    BY <1>1, <1>2, <2>1, <2>2, BeginPrepareValid
<1>4. CASE n \in Proposers /\ s.phase # PAXOS_INIT
  BY <1>4 DEF HearInit, Work
<1>5. CASE n \notin Proposers
  <2> DEFINE f == s.pkt.flags \cup p.flags
  <2> HIDE DEF f
  <2> DEFINE all == s.complete \/ f = Nodes
             g == [s EXCEPT !.pkt = WithFlags(p, f), !.complete = all]
  <2>0. t = g
    BY <1>5 DEF HearInit, Work, f
  <2> HIDE DEF all
  <2>1. /\ g.pkt = WithFlags(p, f)
        /\ g.rx_accepted_proposal = s.rx_accepted_proposal
        /\ g.rx_accepted_value = s.rx_accepted_value
        /\ g.accepted_proposal = s.accepted_proposal
        /\ g.accepted_value = s.accepted_value
    OBVIOUS
  <2> HIDE DEF t, g
  <2>2. ValidNode(n, t)
    BY <1>2, <1>5, <2>0, <2>1 DEF ValidNode
  <2> QED
    BY <2>2 DEF t
<1> QED
  BY <1>3, <1>4, <1>5

(* The stages after Paxos proper keep validity. *)
LEMMA FinishValid ==
  ASSUME NEW n \in Nodes, NEW w, w.s.state # "INIT", ValidNode(n, w.s), NEW ok, NEW slot,
         NEW draw
  PROVE  ValidNode(n, Finish(n, w, ok, slot, draw))
<1> DEFINE s == w.s
           y == Synchrotron(n, w, ok, draw)
           f == InjectFailure(y, draw)
           t == Report(n, f, slot)
<1>1. y.pkt = s.pkt /\ SameProposer(s, y) /\ SameVotes(s, y) /\ SameAggregates(s, y)
  BY SynchrotronFrame
<1> HIDE DEF y
<1>2. ValidNode(n, y)
  BY <1>1, SameValid
<1>3. f.pkt = y.pkt /\ SameProposer(y, f) /\ SameVotes(y, f) /\ SameAggregates(y, f)
  BY DEF InjectFailure, SameProposer, SameVotes, SameAggregates
<1> HIDE DEF f
<1>4. ValidNode(n, f)
  BY <1>2, <1>3, SameValid
<1>5. /\ t.pkt = f.pkt /\ SameVotes(f, t) /\ SameAggregates(f, t)
      /\ n \in Proposers => SameProposer(f, t)
  BY DEF Report, SameProposer, SameVotes, SameAggregates
<1> HIDE DEF t
<1>6. ValidNode(n, t)
  BY <1>4, <1>5, SameValid
<1> QED
  BY <1>6 DEF Finish, t, f, y

(* A whole slot of process() keeps validity. *)
LEMMA ProcessValid ==
  ASSUME NEW n \in Nodes, NEW s, NodeOK(s), NEW ok, NEW p, PacketOK(p),
         NEW slot \in 0..(PAXOS_ROUND_MAX_SLOTS - 1), NEW draw,
         ValidNode(n, s), ValidPacket(p)
  PROVE  ValidNode(n, Process(n, s, ok, p, slot, draw))
<1> DEFINE t == Process(n, s, ok, p, slot, draw)
           h == GotValidRx(s)
<1>1. NodeOK(h)
  BY GotValidRxCore
<1>2. ValidNode(n, h)
  BY GotValidRxLemma, SameValid
<1>3. \A u : NodeOK(u) => u.state # "INIT"
  BY DEF NodeOK, RadioOK
<1>4. CASE ~Heeds(n, s, ok)
  <2> DEFINE w == Work(s, FALSE, FALSE)
  <2>1. t = Finish(n, w, ok, slot, draw) /\ w.s = s
    BY <1>4 DEF Process, Finish, Work
  <2> HIDE DEF w
  <2> QED
    BY <1>3, <2>1, FinishValid
<1>5. CASE Heeds(n, s, ok) /\ p.phase = PAXOS_INIT /\ s.min_proposal = 0
  <2> DEFINE w == HearInit(n, h, p)
  <2>1. t = Finish(n, w, ok, slot, draw)
    BY <1>5 DEF Process, Paxos, Finish
  <2>2. NodeOK(w.s) /\ ValidNode(n, w.s)
    BY <1>1, <1>2, HearInitLemma, HearInitValid
  <2> HIDE DEF w
  <2> QED
    BY <1>3, <2>1, <2>2, FinishValid
<1>6. CASE Heeds(n, s, ok) /\ ~(p.phase = PAXOS_INIT /\ s.min_proposal = 0)
  <2> DEFINE a == Acceptor(n, h, p, s.state = "TX", slot, draw)
             w == Proposer(n, a, p)
  <2>1. t = Finish(n, w, ok, slot, draw)
    BY <1>6 DEF Process, Paxos, Finish
  <2>2. NodeOK(a.s) /\ ValidNode(n, a.s)
    BY <1>1, <1>2, AcceptorLemma, AcceptorValid
  <2> HIDE DEF a
  <2>3. NodeOK(w.s) /\ ValidNode(n, w.s)
    BY <2>2, ProposerLemma, ProposerValid
  <2> HIDE DEF w
  <2> QED
    BY <1>3, <2>1, <2>3, FinishValid
<1> QED
  BY <1>4, <1>5, <1>6

(* A node that has entered the round holds a valid state. *)
LEMMA RoundBeginValid ==
  ASSUME NEW n \in Nodes, NEW v \in Values, NEW draw, draw.threshold \in Thresholds
  PROVE  ValidNode(n, RoundBegin(n, ResetState, v, draw))
<1> DEFINE b == Load(n, ResetState, v, draw)
           c == IF n = Initiator /\ n \in Proposers THEN BeginPrepare(n, b) ELSE b
           w == Work(b, FALSE, FALSE)
           y == Synchrotron(n, w, FALSE, draw)
           f == InjectFailure(y, draw)
           t == Report(n, f, 0)
<1>1. RoundBegin(n, ResetState, v, draw) = t
  BY DEF RoundBegin, Process, Heeds
<1>2. ValidNode(n, b)
  <2>1. b.pkt = b.local /\ b.local.phase = PAXOS_INIT /\ b.local.proposal = 0
    BY LoadLemma
  <2>2. /\ b.rx_accepted_proposal = 0 /\ b.accepted_proposal = 0
        /\ n \in Proposers => b.proposed_value = v
    BY LoadScalars
  <2> HIDE DEF b
  <2> QED
    BY <2>1, <2>2 DEF ValidNode, ValidPacket, PAXOS_INIT, PAXOS_ACCEPT
<1>3. ValidNode(n, c)
  BY <1>2, BeginPrepareValid
<1>4. b.state = "INIT" /\ b.phase = PAXOS_INIT /\ b.tx_count_complete = 0
  BY LoadScalars
<1> HIDE DEF b
<1>5. y = IF n = Initiator THEN [GotValidRx(c) EXCEPT !.state = "TX"]
          ELSE [c EXCEPT !.state = "RX"]
  <2>1. CASE n = Initiator
    BY <1>4, <2>1 DEF Synchrotron, Work
  <2>2. CASE n # Initiator
    <3>1. ~(0 > N_TX_COMPLETE)
      BY ConfigAssumption DEF ConfigAssumption
    <3> QED
      BY <1>4, <2>2, <3>1 DEF Synchrotron, Work
  <2> QED
    BY <2>1, <2>2
<1> HIDE DEF c
<1>6. y.pkt = c.pkt /\ SameProposer(c, y) /\ SameVotes(c, y) /\ SameAggregates(c, y)
  <2> DEFINE g == GotValidRx(c)
             e(s, z) == [s EXCEPT !.state = z]
  <2>1. ASSUME NEW s, NEW z
        PROVE  /\ e(s, z).pkt = s.pkt /\ SameProposer(s, e(s, z))
               /\ SameVotes(s, e(s, z)) /\ SameAggregates(s, e(s, z))
    BY DEF SameProposer, SameVotes, SameAggregates
  <2>2. g.pkt = c.pkt /\ SameProposer(c, g) /\ SameVotes(c, g) /\ SameAggregates(c, g)
    BY GotValidRxLemma
  <2>3. y = IF n = Initiator THEN e(g, "TX") ELSE e(c, "RX")
    BY <1>5
  <2> HIDE DEF g, e, y
  <2>4. CASE n # Initiator
    BY <2>1, <2>3, <2>4
  <2>5. CASE n = Initiator
    <3>1. y.pkt = g.pkt /\ SameProposer(g, y) /\ SameVotes(g, y) /\ SameAggregates(g, y)
      BY <2>1, <2>3, <2>5
    <3> QED
      BY <2>2, <3>1 DEF SameProposer, SameVotes, SameAggregates
  <2> QED
    BY <2>4, <2>5
<1> HIDE DEF y
<1>7. ValidNode(n, y)
  BY <1>3, <1>6, SameValid
<1>8. f.pkt = y.pkt /\ SameProposer(y, f) /\ SameVotes(y, f) /\ SameAggregates(y, f)
  BY DEF InjectFailure, SameProposer, SameVotes, SameAggregates
<1> HIDE DEF f
<1>9. ValidNode(n, f)
  BY <1>7, <1>8, SameValid
<1>10. /\ t.pkt = f.pkt /\ SameVotes(f, t) /\ SameAggregates(f, t)
       /\ n \in Proposers => SameProposer(f, t)
  BY DEF Report, SameProposer, SameVotes, SameAggregates
<1> HIDE DEF t
<1>11. ValidNode(n, t)
  BY <1>9, <1>10, SameValid
<1> QED
  BY <1>1, <1>11
=============================================================================
