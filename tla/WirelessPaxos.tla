---------------------------- MODULE WirelessPaxos ----------------------------
(***************************************************************************)
(* One Synchrotron round of Wireless Paxos: all nodes enter the round with *)
(* fresh Paxos state and run process() (module PaxosNode) once per slot.   *)
(* A slot is one step: some of the transmissions go out, every listening   *)
(* node receives at most one of the packets on the air, and then all nodes *)
(* process the slot.                                                       *)
(***************************************************************************)
EXTENDS PaxosNode

VARIABLES
  slot,    \* slot_number of chaos_round
  node,    \* node[n]: the state of node n
  opened,  \* history: every <<ballot, value>> a proposer has asked to accept
  votes    \* history: every <<node, ballot, value>> an acceptor has accepted

vars == <<slot, node, opened, votes>>

(* Every field keeps to its C width (ballots 16 bits, the ballot round, the
   back-off counter and values 8 bits), and the retransmission counters of
   paxos.c:545-600 stay within the bounds the switch compares them with. *)
TypeOK ==
  /\ slot \in 0..PAXOS_ROUND_MAX_SLOTS
  /\ DOMAIN node = Nodes
  /\ \A n \in Nodes : NodeOK(node[n])
  /\ opened \subseteq Uint16 \X Uint8
  /\ votes \subseteq Nodes \X Uint16 \X Uint8

-----------------------------------------------------------------------------
Init ==
  /\ slot = 0
  /\ opened = {}
  /\ votes = {}
  /\ \E value \in [Nodes -> Values], draw \in [Nodes -> Draws] :
       node = [n \in Nodes |-> RoundBegin(n, ResetState, value[n], draw[n])]

Transmitters == {n \in Nodes : node[n].state = "TX"}

(* heard[n] is the transmitter whose packet listener n receives; heard[n] = n
   when it receives none. *)
Receptions(sent) ==
  {heard \in [Nodes -> Nodes] :
     \A n \in Nodes : heard[n] # n => node[n].state = "RX" /\ heard[n] \in sent}

(* The slot of node n: a node whose radio is off has left the round. *)
Step(n, sent, heard, draw) ==
  IF node[n].state = "OFF" THEN node[n]
  ELSE Process(n, node[n], n \in sent \/ heard[n] # n, node[heard[n]].pkt,
               slot, draw)

(* The accept request a proposer is making, the proposal an acceptor holds. *)
Opened(n, s) ==
  IF s.phase = PAXOS_ACCEPT THEN {<<Proposed(n, s), s.proposed_value>>} ELSE {}

Accepted(n, s) ==
  IF s.accepted_proposal = 0 THEN {}
  ELSE {<<n, s.accepted_proposal, s.accepted_value>>}

Slot ==
  /\ slot < PAXOS_ROUND_MAX_SLOTS
  /\ \E n \in Nodes : node[n].state # "OFF"
  /\ \E sent \in SUBSET Transmitters :
     \E heard \in Receptions(sent), draw \in [Nodes -> Draws] :
       node' = [n \in Nodes |-> Step(n, sent, heard, draw[n])]
  /\ opened' = opened \cup UNION {Opened(n, node'[n]) : n \in Proposers}
  /\ votes' = votes \cup UNION {Accepted(n, node'[n]) : n \in Nodes}
  /\ slot' = slot + 1

Next == Slot

Spec == Init /\ [][Next]_vars
-----------------------------------------------------------------------------
VotedFor(n, b, v) == <<n, b, v>> \in votes

(* A majority of the acceptors accepted value v in ballot b. *)
ChosenAt(b, v) == Majority({n \in Nodes : VotedFor(n, b, v)})

Chosen == {w[3] : w \in {x \in votes : ChosenAt(x[2], x[3])}}

(* Learner soundness (paxos.c:361): a node that reports a learned value read
   it off the flags of a packet, and a majority of acceptors really accepted
   that value in one ballot. *)
LearnedIsChosen ==
  \A n \in Nodes : node[n].value_chosen => node[n].learned_value \in Chosen

(* Proposer soundness (paxos.c:458): got_majority says that a majority
   accepted the proposer's current value in its current ballot. *)
MajorityIsReal ==
  \A n \in Proposers :
    node[n].got_majority =>
      ChosenAt(Proposed(n, node[n]), node[n].proposed_value)

(* Completion soundness (paxos.c:370): a node that saw all flags in an accept
   phase may reset its state at the next round only because every acceptor
   has accepted the value. *)
CompletionIsReal ==
  \A n \in Nodes :
    node[n].completion_slot > 0 =>
      \E w \in votes : \A m \in Nodes : VotedFor(m, w[2], w[3])

(* Consensus (README: "stays consistent"): at most one value is ever chosen. *)
Agreement == \A v, w \in Chosen : v = w

(* The refinement mapping to the abstract specification of consensus, and
   what it says of the code: in a round with a single proposer a value is
   chosen at most once, never replaced, and is one the application proposed. *)
C == INSTANCE Consensus WITH Value <- Values, chosen <- Chosen

ImplementsConsensus == C!Spec

(* A ballot stands for one value (paxos.h:74, ballots are unique per proposer
   and a proposer fixes its value when it enters the accept phase). *)
OneValuePerBallot ==
  \A x, y \in votes : x[2] = y[2] => x[3] = y[3]

(* A promise is kept (paxos.h:152, min_proposal is the "smallest proposal (=ballot)
   an acceptor can accept"): min_proposal never goes down. *)
PromisesAreKept ==
  [][\A n \in Nodes : node'[n].min_proposal >= node[n].min_proposal]_vars

(* Two phases in order (paxos.c:449): no acceptor accepts in a ballot that a
   majority has not promised, since the accept phase opens on a majority of
   the flags of the prepare phase. *)
PromiseQuorum ==
  \A w \in votes : Majority({n \in Nodes : node[n].min_proposal >= w[2]})

(* A proposer that lost "WILL NOT COMPETE THIS ROUND" (paxos.c:519): while the
   round runs, no packet asks for a proposer's second ballot. *)
LosersWait ==
  slot < PAXOS_ROUND_MAX_SLOTS =>
    \A n \in Proposers, m \in Nodes : node[m].pkt.ballot # BallotOf(2, n)
-----------------------------------------------------------------------------
(* The inductive invariant: what makes LearnedIsChosen, MajorityIsReal,
   CompletionIsReal, OneValuePerBallot and PromisesAreKept true where a
   proposer that lost does not compete again: in rounds short enough for its
   back-off counter, and in every round with a single proposer. *)

(* A flag in an accept packet is a vote; only the own flag of a proposer may
   be set ahead of its vote, until the packet is first transmitted. *)
FlagsAreVotes(n) ==
  LET p == node[n].pkt IN
  p.phase = PAXOS_ACCEPT =>
    /\ <<p.ballot, p.value>> \in opened
    /\ \A f \in p.flags :
         VotedFor(f, p.ballot, p.value) \/ (f = n /\ n \in Proposers)

(* No acceptor promises more than the ballot it answers, so no reply to an
   accept request reports a promise above its ballot. *)
ReportsInv(s) ==
  /\ s.rx_min_proposal <= s.min_proposal
  /\ s.pkt.phase = PAXOS_ACCEPT => s.pkt.proposal <= s.pkt.ballot

AcceptorInv(n) ==
  LET s == node[n] IN
  /\ s.local.flags = {n}
  /\ ReportsInv(s)
  /\ slot < PAXOS_ROUND_MAX_SLOTS => s.min_proposal <= s.pkt.ballot
  /\ s.accepted_proposal # 0 => VotedFor(n, s.accepted_proposal, s.accepted_value)
  /\ FlagsAreVotes(n)

(* A proposer makes one attempt; once it lost, its back-off outlasts the
   slots that are left. *)
OneAttempt(n, s, left) ==
  /\ s.round \in {1, 2}
  /\ s.round = 1 => s.loser_timeout = 0
  /\ s.round = 2 => /\ s.phase = PAXOS_PREPARE
                    /\ ~s.got_majority
                    /\ s.loser_timeout >= left
  /\ s.got_majority => s.phase = PAXOS_ACCEPT
  /\ s.round = 1 /\ ~s.got_majority => s.pkt.ballot <= Proposed(n, s)
  /\ s.phase = PAXOS_INIT => s.min_proposal = 0

ProposerInv(n) == OneAttempt(n, node[n], PAXOS_ROUND_MAX_SLOTS - slot)

(* No packet carries the ballot of a proposer that has not started. *)
NotStarted ==
  \A n \in Proposers, m \in Nodes :
    node[n].phase = PAXOS_INIT => node[m].pkt.ballot # Proposed(n, node[n])

(* An opened accept phase is that of its proposer's first ballot, with the
   value the proposer still holds unless it lost. *)
OpenedInv ==
  \A x \in opened : \E o \in Proposers :
    /\ x[1] = BallotOf(1, o)
    /\ \/ node[o].round = 2
       \/ node[o].phase = PAXOS_ACCEPT /\ node[o].proposed_value = x[2]

OneValueOpened == \A x, y \in opened : x[1] = y[1] => x[2] = y[2]

VotesAreOpened == \A w \in votes : <<w[2], w[3]>> \in opened

SafetyInv ==
  /\ TypeOK
  /\ \A n \in Nodes : AcceptorInv(n)
  /\ \A n \in Proposers : ProposerInv(n)
  /\ NotStarted
  /\ LosersWait
  /\ OpenedInv
  /\ OneValueOpened
  /\ VotesAreOpened
  /\ LearnedIsChosen
  /\ MajorityIsReal
  /\ CompletionIsReal
=============================================================================
