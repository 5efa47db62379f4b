------------------------------ MODULE PaxosNode ------------------------------
(***************************************************************************)
(* One node of Wireless Paxos: the per-slot callback process() of          *)
(* core/net/mac/chaos/lib/paxos/paxos.c, as a function from the node's     *)
(* state, the packet of the slot and the outcomes of the random draws to   *)
(* the node's next state.                                                  *)
(*                                                                         *)
(* The state of a node is one record: the struct paxos_state, the packet   *)
(* buffer tx_paxos ("pkt"), the report buffer paxos_local.paxos ("local")  *)
(* and the file's statics.  A packet is a record with the fields of        *)
(* paxos_t; its flag bit array is the set of nodes whose bit is set.       *)
(***************************************************************************)
EXTENDS Integers, FiniteSets

CONSTANTS
  Nodes,                   \* the values of chaos_node_index in the network
  Proposers,               \* the nodes that call paxos_round_begin with is_proposer = 1
  Initiator,               \* the node where IS_INITIATOR() holds
  Values,                  \* the values an application may propose (0: no value)
  PAXOS_ROUND_MAX_SLOTS,
  N_TX_COMPLETE,
  CHAOS_RESTART_MIN,
  CHAOS_RESTART_MAX,
  FAILURES_RATE            \* TRUE: built with failure injection

(* The widths of the code's unsigned integers. *)
Uint8 == {x \in Nat : x < 256}
Uint16 == {x \in Nat : x < 65536}

ASSUME NodesAssumption ==
  /\ Nodes \subseteq Uint8
  /\ Cardinality(Nodes) >= 2
  /\ Proposers \subseteq Nodes
  /\ Initiator \in Nodes

ASSUME ConfigAssumption ==
  /\ Values \subseteq Uint8 \ {0}
  /\ PAXOS_ROUND_MAX_SLOTS \in Uint16 \ {0}
  /\ N_TX_COMPLETE \in Nat
  /\ CHAOS_RESTART_MIN \in Nat
  /\ CHAOS_RESTART_MAX \in Nat
  /\ CHAOS_RESTART_MIN < CHAOS_RESTART_MAX
  /\ FAILURES_RATE \in BOOLEAN

-----------------------------------------------------------------------------
(* Phases are numbers because the code orders them.                        *)
PAXOS_INIT == 0
PAXOS_PREPARE == 1
PAXOS_ACCEPT == 2
Phases == {PAXOS_INIT, PAXOS_PREPARE, PAXOS_ACCEPT}

(* Mutant of BallotOf: the node index is left out of the ballot. *)
BallotWithoutId(round, n) == 256 * round

(* ballot_number_t: an 8 bit round above an 8 bit node index. *)
BallotOf(round, n) == 256 * round + n

(* bit_count(flags) > chaos_node_count / 2 *)
Majority(flags) == Cardinality(flags) > Cardinality(Nodes) \div 2

MaxOf(a, b) == IF a >= b THEN a ELSE b

NoPacket ==
  [ballot |-> 0, phase |-> PAXOS_INIT, value |-> 0, proposal |-> 0, flags |-> {}]

(* Assignments to some of the fields of the packet in the buffer. *)
WithRequest(p, ballot, phase) == [p EXCEPT !.ballot = ballot, !.phase = phase]
WithReport(p, proposal, value) == [p EXCEPT !.proposal = proposal, !.value = value]
WithFlags(p, flags) == [p EXCEPT !.flags = flags]
WithValue(p, value) == [p EXCEPT !.value = value]

(* proposed_ballot of the proposer at node n *)
Proposed(n, s) == BallotOf(s.round, n)

(* paxos_state_t and the statics that survive a slot, as C initialises them
   and as paxos_reset_state leaves them. *)
ResetState ==
  [round |-> 0, proposed_value |-> 0, phase |-> PAXOS_INIT,
   got_majority |-> FALSE, loser_timeout |-> 0,
   min_proposal |-> 0, accepted_proposal |-> 0, accepted_value |-> 0,
   learned_value |-> 0,
   rx_min_proposal |-> 0, rx_accepted_proposal |-> 0, rx_accepted_value |-> 0,
   local |-> NoPacket, pkt |-> NoPacket,
   complete |-> FALSE, completion_slot |-> 0, tx_count_complete |-> 0,
   invalid_rx_count |-> 0, got_valid_rx |-> FALSE, restart_threshold |-> 0,
   value_chosen |-> FALSE, state |-> "INIT"]

(* The outcomes of chaos_random_generator_fast: the backoff until the next
   restart, the thinning draw of an acceptor (rand % (count / 2) == 0, which
   two or three nodes always pass), and the failure injection. *)
Thresholds == CHAOS_RESTART_MIN .. (CHAOS_RESTART_MAX - 1)
ThinDraws == IF Cardinality(Nodes) \div 2 = 1 THEN {TRUE} ELSE BOOLEAN
FailDraws == IF FAILURES_RATE THEN BOOLEAN ELSE {FALSE}
Draws == [threshold : Thresholds, thin : ThinDraws, fail : FailDraws]

-----------------------------------------------------------------------------
(* While a slot is processed the node carries tx ("should we transmit") and
   rx_delta ("novel information") beside its state. *)
Work(s, tx, delta) == [s |-> s, tx |-> tx, delta |-> delta]

GotValidRx(s) == [s EXCEPT !.got_valid_rx = TRUE]

(* The node starts Paxos: the assignments that the code repeats at its three
   places (1/3), (2/3) and (3/3). Flags, proposal and value of the packet
   buffer stay as they are. *)
BeginPrepare(n, s) ==
  [s EXCEPT !.phase = PAXOS_PREPARE,
            !.min_proposal = Proposed(n, s),
            !.pkt = WithRequest(@, Proposed(n, s), PAXOS_PREPARE)]

(* A heartbeat of the initiator, at a node that has seen no request yet. A
   proposer starts (1/3); another node relays what it heard. *)
HearInit(n, s, p) ==
  IF n \in Proposers
  THEN Work(IF s.phase = PAXOS_INIT
              THEN BeginPrepare(n, [s EXCEPT !.pkt = WithFlags(@, s.local.flags)])
              ELSE s,
            TRUE, TRUE)
  ELSE LET flags == s.pkt.flags \cup p.flags
           differs == p.flags # s.pkt.flags
       IN Work([s EXCEPT !.pkt = WithFlags(p, flags),
                         !.complete = @ \/ flags = Nodes],
               differs, differs)

-----------------------------------------------------------------------------
(* Acceptor logic. *)

(* The packet is not older than the one the node holds. *)
NotOlder(s, p) ==
  \/ p.ballot > s.pkt.ballot
  \/ p.ballot = s.pkt.ballot /\ p.phase >= s.pkt.phase

NewPhase(s, p) == ~(p.ballot = s.pkt.ballot /\ p.phase = s.pkt.phase)

(* A new phase replaces the packet buffer and forgets the aggregates. *)
Adopt(s, p) ==
  IF NewPhase(s, p)
  THEN [s EXCEPT !.pkt = p, !.rx_min_proposal = 0,
                 !.rx_accepted_proposal = 0, !.rx_accepted_value = 0]
  ELSE s

(* Mutant of Prepare: the promise is taken from the wrong ballot field. *)
PreparePromisesProposal(s, p) ==
  [s EXCEPT !.min_proposal = p.proposal,
            !.rx_accepted_proposal = p.proposal, !.rx_accepted_value = p.value]

(* A prepare request: promise, and aggregate the highest accepted proposal
   heard of. *)
Prepare(s, p) ==
  LET promised == [s EXCEPT !.min_proposal = MaxOf(p.ballot, @)]
  IN IF p.proposal < s.rx_accepted_proposal
     THEN [promised EXCEPT
             !.pkt = WithReport(@, s.rx_accepted_proposal, s.rx_accepted_value)]
     ELSE [promised EXCEPT !.rx_accepted_proposal = p.proposal,
                           !.rx_accepted_value = p.value]

(* Mutant of Accept: the vote does not raise the promise. *)
AcceptWithoutPromise(s, p) ==
  LET voted == IF p.ballot >= s.min_proposal
                 THEN [s EXCEPT !.accepted_proposal = p.ballot,
                                !.accepted_value = p.value]
                 ELSE s
  IN [voted EXCEPT !.pkt = WithReport(@, p.ballot, s.pkt.value)]

(* An accept request: accept unless a higher ballot was promised, report the
   highest promise heard of, and aggregate the accepted proposal. *)
Accept(s, p) ==
  LET voted == IF p.ballot >= s.min_proposal
                 THEN [s EXCEPT !.min_proposal = p.ballot,
                                !.accepted_proposal = p.ballot,
                                !.accepted_value = p.value]
                 ELSE s
      highest == MaxOf(p.proposal, MaxOf(voted.min_proposal, s.rx_min_proposal))
      reported == [voted EXCEPT !.rx_min_proposal = highest,
                                !.pkt = WithReport(@, highest, s.pkt.value)]
  IN IF voted.accepted_proposal > s.rx_accepted_proposal
     THEN [reported EXCEPT !.rx_accepted_proposal = voted.accepted_proposal,
                           !.rx_accepted_value = voted.accepted_value]
     ELSE reported

Reply(s, p) ==
  IF p.phase = PAXOS_PREPARE THEN Prepare(s, p)
  ELSE IF p.phase = PAXOS_ACCEPT THEN Accept(s, p)
  ELSE s

(* The packet opens a phase, differs in its flags from the buffer, or reports
   less than the node knows. *)
Novel(s, p) ==
  LET a == Adopt(s, p) IN
  \/ NewPhase(s, p)
  \/ p.flags # s.pkt.flags
  \/ p.phase = PAXOS_PREPARE /\ p.proposal < a.rx_accepted_proposal
  \/ p.phase = PAXOS_ACCEPT /\ a.pkt.proposal # Accept(a, p).pkt.proposal

(* Mutant of Learns: neither phase nor promises of the replies are checked. *)
LearnsFromAnyMajority(s, p, own, flags) == Majority(flags)

(* Quorum read and completion. The flags are counted before the node adds
   its own; "own" says that the packet is the node's own transmission, where
   payload and tx_paxos are the same memory. *)
Learns(s, p, own, flags) ==
  /\ p.phase = PAXOS_ACCEPT
  /\ p.ballot = (IF own THEN s.pkt.proposal ELSE p.proposal)
  /\ Majority(flags)

(* Mutant of Tally: completion is declared in any phase. *)
TallyAnyPhase(n, s, p, own, flags, slot) ==
  LET learns == Learns(s, p, own, flags)
  IN [s EXCEPT !.pkt = WithFlags(@, flags \cup {n}),
               !.learned_value = IF learns THEN p.value ELSE @,
               !.value_chosen = @ \/ learns,
               !.completion_slot = IF flags = Nodes /\ ~s.complete THEN slot ELSE @,
               !.complete = @ \/ flags = Nodes]

Tally(n, s, p, own, flags, slot) ==
  LET all == p.phase = PAXOS_ACCEPT /\ flags = Nodes
      learns == Learns(s, p, own, flags)
  IN [s EXCEPT !.pkt = WithFlags(@, flags \cup {n}),
               !.learned_value = IF learns THEN p.value ELSE @,
               !.value_chosen = @ \/ learns,
               !.completion_slot = IF all /\ ~s.complete THEN slot ELSE @,
               !.complete = @ \/ all]

Thinned(n, p, flags) ==
  n \notin Proposers /\ p.phase = PAXOS_PREPARE /\ Majority(flags)

Acceptor(n, s, p, own, slot, draw) ==
  IF ~NotOlder(s, p) THEN Work(s, TRUE, FALSE)
  ELSE LET replied == Reply(Adopt(s, p), p)
           flags == replied.pkt.flags \cup p.flags
           novel == Novel(s, p)
       IN Work(Tally(n, replied, p, own, flags, slot),
               \/ novel /\ (Thinned(n, p, flags) => draw.thin)
               \/ p.phase = PAXOS_ACCEPT /\ flags = Nodes,
               novel)

-----------------------------------------------------------------------------
(* Proposer logic. *)

(* Mutants of Lose: no back-off, and one that ends within the round. *)
LoseWithoutBackoff(s) ==
  [s EXCEPT !.round = (@ + 1) % 256, !.phase = PAXOS_PREPARE, !.got_majority = FALSE]

LoseBriefly(s) == [LoseWithoutBackoff(s) EXCEPT !.loser_timeout = 2]

(* The competition is lost: take the next ballot and wait. The two fields are
   8 bits wide. *)
Lose(s) ==
  [s EXCEPT !.round = (@ + 1) % 256,
            !.proposed_value = IF s.rx_accepted_proposal > 0
                                 THEN s.rx_accepted_value ELSE @,
            !.phase = PAXOS_PREPARE,
            !.got_majority = FALSE,
            !.loser_timeout = (PAXOS_ROUND_MAX_SLOTS - 1) % 256]

(* Mutants of SendPhase: the flags of the finished phase stay in the packet;
   the accept request carries the acceptor's value. *)
SendPhaseKeepsFlags(n, s) ==
  [s EXCEPT !.pkt = [ballot |-> Proposed(n, s), phase |-> s.phase,
                     value |-> s.proposed_value, proposal |-> 0,
                     flags |-> s.pkt.flags]]

SendPhaseAcceptedValue(n, s) ==
  [s EXCEPT !.pkt = [ballot |-> Proposed(n, s), phase |-> s.phase,
                     value |-> s.accepted_value, proposal |-> 0,
                     flags |-> s.local.flags]]

(* update_phase: put the request of the proposer's phase into the buffer. *)
SendPhase(n, s) ==
  [s EXCEPT !.pkt = [ballot |-> Proposed(n, s), phase |-> s.phase,
                     value |-> s.proposed_value, proposal |-> 0,
                     flags |-> s.local.flags]]

(* The values adopted from the replies to a prepare request. *)
AdoptValue(s) ==
  IF s.phase = PAXOS_PREPARE /\ s.rx_accepted_proposal > 0
  THEN [s EXCEPT !.proposed_value = s.rx_accepted_value]
  ELSE s

(* A reply to the proposer's current request. *)
CountReplies(n, w) ==
  LET s == AdoptValue(w.s)
      heardHigher ==
        \/ s.phase = PAXOS_PREPARE /\ s.rx_accepted_proposal > Proposed(n, s)
        \/ s.phase = PAXOS_ACCEPT /\ s.rx_min_proposal > Proposed(n, s)
      won == ~heardHigher /\ Majority(s.pkt.flags)
      turned == won /\ s.phase = PAXOS_PREPARE
      counted == [s EXCEPT !.phase = IF turned THEN PAXOS_ACCEPT ELSE @,
                           !.got_majority = won /\ s.phase = PAXOS_ACCEPT]
      lost == \/ heardHigher
              \/ /\ counted.phase = PAXOS_ACCEPT
                 /\ s.rx_min_proposal > Proposed(n, s)
                 /\ ~counted.got_majority
      after == IF lost THEN Lose(counted) ELSE counted
  IN IF turned THEN Work(SendPhase(n, after), TRUE, TRUE)
     ELSE Work(after, w.tx, w.delta)

Compete(n, w, p) ==
  IF p.ballot = Proposed(n, w.s)
  THEN IF p.phase = w.s.phase THEN CountReplies(n, w)
       ELSE Work(w.s, TRUE, w.delta)
  ELSE IF p.ballot > Proposed(n, w.s) THEN Work(Lose(w.s), w.tx, w.delta)
  ELSE Work(IF w.s.phase = PAXOS_INIT THEN BeginPrepare(n, w.s) ELSE w.s,
            TRUE, w.delta)

Backoff(n, w) ==
  LET s == [w.s EXCEPT !.loser_timeout = @ - 1]
  IN IF s.loser_timeout = 0 THEN Work(SendPhase(n, s), TRUE, TRUE)
     ELSE Work(s, w.tx, w.delta)

(* Mutant of Proposer: the back-off also counts down from 0. *)
ProposerCountsBelowZero(n, w, p) ==
  IF n \notin Proposers \/ w.s.got_majority THEN w
  ELSE IF w.s.loser_timeout >= 0 THEN Backoff(n, w)
  ELSE Compete(n, w, p)

Proposer(n, w, p) ==
  IF n \notin Proposers \/ w.s.got_majority THEN w
  ELSE IF w.s.loser_timeout > 0 THEN Backoff(n, w)
  ELSE Compete(n, w, p)

-----------------------------------------------------------------------------
(* Synchrotron logic: the radio state of the next slot. A transmission that
   missed its go time is retried. *)
Synchrotron(n, w, ok, draw) ==
  LET s == w.s IN
  IF n = Initiator /\ s.state = "INIT"
  THEN [GotValidRx(IF n \in Proposers /\ s.phase = PAXOS_INIT
                     THEN BeginPrepare(n, s) ELSE s)
          EXCEPT !.state = "TX"]
  ELSE IF s.tx_count_complete > N_TX_COMPLETE THEN [s EXCEPT !.state = "OFF"]
  ELSE IF s.state = "RX" /\ ok
  THEN [s EXCEPT !.invalid_rx_count = 0,
                 !.state = IF w.tx THEN "TX" ELSE "RX",
                 !.tx_count_complete = IF ~(w.tx /\ s.complete) THEN @
                                       ELSE IF w.delta THEN 0 ELSE @ + 1]
  ELSE IF s.state = "RX" /\ s.got_valid_rx
  THEN IF s.invalid_rx_count + 1 > s.restart_threshold
       THEN [s EXCEPT !.invalid_rx_count = 0, !.state = "TX",
                      !.tx_count_complete = IF s.complete THEN @ + 1 ELSE @,
                      !.restart_threshold = draw.threshold]
       ELSE [s EXCEPT !.invalid_rx_count = @ + 1]
  ELSE IF s.state = "TX" /\ ~ok THEN GotValidRx(s)
  ELSE [s EXCEPT !.state = "RX"]

InjectFailure(s, draw) == IF draw.fail THEN [s EXCEPT !.state = "OFF"] ELSE s

(* Final results are copied to the report buffer. *)
Report(n, s, slot) ==
  IF s.complete \/ slot >= PAXOS_ROUND_MAX_SLOTS - 1
  THEN [s EXCEPT !.local = [ballot |-> s.min_proposal, phase |-> s.pkt.phase,
                            value |-> s.accepted_value,
                            proposal |-> s.accepted_proposal,
                            flags |-> s.local.flags],
                 !.phase = IF n \in Proposers THEN @ ELSE s.pkt.phase]
  ELSE s

(* The whole callback. ok: the slot's transmission or reception succeeded; p:
   the packet received, or the node's own when it transmitted. *)
Heeds(n, s, ok) == ok /\ (s.state = "RX" \/ (s.state = "TX" /\ n \in Proposers))

Paxos(n, s, p, slot, draw) ==
  LET heard == GotValidRx(s)
  IN IF p.phase = PAXOS_INIT /\ s.min_proposal = 0 THEN HearInit(n, heard, p)
     ELSE Proposer(n, Acceptor(n, heard, p, s.state = "TX", slot, draw), p)

Process(n, s, ok, p, slot, draw) ==
  LET w == IF Heeds(n, s, ok) THEN Paxos(n, s, p, slot, draw)
           ELSE Work(s, FALSE, FALSE)
  IN Report(n, InjectFailure(Synchrotron(n, w, ok, draw), draw), slot)

-----------------------------------------------------------------------------
(* paxos_round_begin up to the call of chaos_round, and the first call of the
   callback, with CHAOS_INIT, that chaos_round makes. *)
Load(n, s, value, draw) ==
  LET fresh == [s EXCEPT !.got_valid_rx = FALSE, !.complete = FALSE,
                         !.completion_slot = 0, !.tx_count_complete = 0,
                         !.invalid_rx_count = 0, !.value_chosen = FALSE,
                         !.restart_threshold = draw.threshold,
                         !.state = "INIT"]
      proposer == IF n \in Proposers
                    THEN [fresh EXCEPT !.phase = PAXOS_INIT, !.round = 1,
                                       !.proposed_value = value,
                                       !.local = WithValue(@, value)]
                    ELSE fresh
      flagged == [proposer EXCEPT !.local = WithFlags(@, proposer.local.flags \cup {n})]
  IN [flagged EXCEPT !.pkt = flagged.local]

RoundBegin(n, s, value, draw) ==
  Process(n, Load(n, s, value, draw), FALSE, NoPacket, 0, draw)

-----------------------------------------------------------------------------
(* The types of a packet and of a node: the struct members with their C
   widths, and the counters of the Synchrotron logic. *)
PacketOK(p) ==
  /\ p.ballot \in Uint16
  /\ p.phase \in Phases
  /\ p.value \in Uint8
  /\ p.proposal \in Uint16
  /\ p.flags \subseteq Nodes

ProposerOK(s) ==
  /\ s.round \in Uint8
  /\ s.proposed_value \in Uint8
  /\ s.phase \in Phases
  /\ s.got_majority \in BOOLEAN
  /\ s.loser_timeout \in Uint8

AcceptorOK(s) ==
  /\ s.min_proposal \in Uint16
  /\ s.accepted_proposal \in Uint16
  /\ s.accepted_value \in Uint8
  /\ s.rx_min_proposal \in Uint16
  /\ s.rx_accepted_proposal \in Uint16
  /\ s.rx_accepted_value \in Uint8

LearnerOK(s) ==
  /\ s.learned_value \in Uint8
  /\ s.value_chosen \in BOOLEAN
  /\ s.complete \in BOOLEAN
  /\ s.completion_slot \in 0..(PAXOS_ROUND_MAX_SLOTS - 1)

RadioOK(s) ==
  /\ s.state \in {"TX", "RX", "OFF"}
  /\ s.got_valid_rx \in BOOLEAN
  /\ s.tx_count_complete \in 0..(N_TX_COMPLETE + 1)
  /\ s.restart_threshold \in Thresholds
  /\ s.invalid_rx_count \in 0..CHAOS_RESTART_MAX

NodeOK(s) ==
  /\ PacketOK(s.pkt)
  /\ PacketOK(s.local)
  /\ ProposerOK(s)
  /\ AcceptorOK(s)
  /\ LearnerOK(s)
  /\ RadioOK(s)
=============================================================================
