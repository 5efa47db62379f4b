--------------------------- MODULE MultiPaxosNode ---------------------------
(***************************************************************************)
(* Wireless Multi-Paxos at one node: process() of lib/multipaxos/          *)
(* multipaxos.c and the functions around it, as operators on the node's    *)
(* statics.  A node s is a record of                                       *)
(*   - pkt, the packet buffer: ballot, phase, round, max_heard_round,      *)
(*     values, proposals and flags (multipaxos_t);                         *)
(*   - leader, acceptor, learner and rx (multipaxos_state_t);              *)
(*   - the counters of the Synchrotron state logic.                        *)
(* Arrays start at 0 as in C; a ballot is the number round * 256 + id.     *)
(***************************************************************************)
EXTENDS ChaosSlot, FiniteSetsExt

CONSTANTS
  MULTIPAXOS_PKT_SIZE,   \* the rounds that one packet agrees on
  MULTIPAXOS_LOG_SIZE,   \* the rounds that a node remembers
  Uint8,                 \* what fits into a byte: 256
  Uint16                 \* what fits into a round number: 65536

ASSUME MultiPaxosAssumption ==
  /\ MULTIPAXOS_PKT_SIZE \in Nat \ {0}
  /\ MULTIPAXOS_LOG_SIZE \in Nat
  /\ MULTIPAXOS_PKT_SIZE <= MULTIPAXOS_LOG_SIZE
  /\ Uint8 \in Nat \ {0} /\ Uint16 \in Nat /\ Uint8 < Uint16

MULTIPAXOS_INIT == 0
MULTIPAXOS_PREPARE == 1
MULTIPAXOS_ACCEPT == 2
MULTIPAXOS_NO_OP == Uint8 - 1

Batch == 0..(MULTIPAXOS_PKT_SIZE - 1)
LogSlots == 0..(MULTIPAXOS_LOG_SIZE - 1)

(* What a multipaxos_round_t holds of k; on the 16-bit nodes of the testbed the
   sums and differences of round numbers are as wide as these. *)
Round(k) == k % Uint16
LogSlot(round) == Round(round) % MULTIPAXOS_LOG_SIZE
NoBatch == [i \in Batch |-> 0]
NoRx == [min |-> 0, proposals |-> NoBatch, values |-> NoBatch, max_heard |-> 0]

Majority(replies) == replies > Cardinality(Nodes) \div 2

-----------------------------------------------------------------------------
(* The leader sends its first prepare request, or goes on where it was: with
   new values if the last ones got a majority. *)
Lead(n, s) ==
  LET fresh == s.leader.phase = MULTIPAXOS_INIT
      phase == IF fresh THEN MULTIPAXOS_PREPARE ELSE s.leader.phase
      again == ~fresh /\ s.leader.got_majority
  IN [s EXCEPT
       !.leader.phase = phase, !.leader.got_majority = FALSE,
       !.pkt.round = s.leader.round, !.pkt.phase = phase, !.pkt.flags = {n},
       !.pkt.ballot = IF fresh THEN s.leader.ballot ELSE @,
       !.pkt.values = IF again THEN s.leader.values ELSE @,
       !.pkt.proposals = IF again THEN NoBatch ELSE @,
       !.acceptor.min = IF fresh THEN s.leader.ballot ELSE @]

(* What handling a packet leaves: the node, whether to transmit, whether the
   packet was novel, and the replies counted in it. *)
Work(s, tx, delta, replies) ==
  [s |-> s, tx |-> tx, delta |-> delta, replies |-> replies]

(* A heartbeat of the initiator starts a leader and is passed on by nodes
   that have not heard of any leader. *)
HearInit(n, s, p) ==
  LET flags == s.pkt.flags \cup p.flags
      tx == p.flags # s.pkt.flags
  IN IF s.leader.is_leader THEN Work(Lead(n, s), TRUE, TRUE, 0)
     ELSE IF s.pkt.ballot # 0 THEN Work(s, FALSE, FALSE, 0)
     ELSE Work([s EXCEPT !.pkt = [p EXCEPT !.flags = flags],
                         !.complete = @ \/ flags = Nodes], tx, tx, 0)

-----------------------------------------------------------------------------
(* The acceptor: packets are ordered by ballot, round and phase. *)
NotOlder(p, q) ==
  \/ p.ballot > q.ballot
  \/ p.ballot = q.ballot /\ p.round > q.round
  \/ p.ballot = q.ballot /\ p.round = q.round /\ p.phase >= q.phase

NewPhase(p, q) ==
  p.ballot # q.ballot \/ p.round # q.round \/ p.phase # q.phase

Adopt(s, p) ==
  IF NewPhase(p, s.pkt) THEN [s EXCEPT !.pkt = p, !.rx = NoRx] ELSE s

(* The prepare phase: promise, and report for each round of the packet the
   vote with the highest ballot among the own log, what was heard in this
   phase and the packet. *)
Prepare(s, p) ==
  LET max_heard == Max({p.max_heard, s.rx.max_heard, s.acceptor.last})
      mine(i) == /\ Round(p.round + i) <= s.acceptor.last
                 /\ s.acceptor.proposals[LogSlot(p.round + i)]
                      > s.rx.proposals[i]
      proposal == [i \in Batch |->
                     IF mine(i) THEN s.acceptor.proposals[LogSlot(p.round + i)]
                     ELSE s.rx.proposals[i]]
      value == [i \in Batch |->
                  IF mine(i) THEN s.acceptor.values[LogSlot(p.round + i)]
                  ELSE s.rx.values[i]]
      higher(i) == proposal[i] > p.proposals[i]
      pick(i, a, b) == IF higher(i) THEN a ELSE b
  IN Work([s EXCEPT
            !.acceptor.min = Max({@, p.ballot}),
            !.pkt.max_heard = max_heard,
            !.pkt.proposals = [i \in Batch |-> pick(i, proposal[i], @[i])],
            !.pkt.values = [i \in Batch |-> pick(i, value[i], @[i])],
            !.rx.max_heard = max_heard,
            !.rx.proposals =
              [i \in Batch |-> pick(i, proposal[i], p.proposals[i])],
            !.rx.values = [i \in Batch |-> pick(i, value[i], p.values[i])]],
          \E i \in Batch : higher(i), \E i \in Batch : higher(i), 0)

(* Mutant of Nullified: what is left of rounds that were missed stays. *)
NullifiedNever(s, p) == {}

(* The rounds between the last one the node took part in and this one, whose
   log entries are of older rounds. The loop counts in a byte. *)
Nullified(s, p) ==
  {LogSlot(i) : i \in (s.acceptor.last + 1)..(p.round % Uint8)}

(* The vote: the log has the ballot and the values of the packet. *)
Cast(s, p) ==
  LET written == {LogSlot(p.round + i) : i \in Batch}
      value(k) == p.values[CHOOSE i \in Batch : LogSlot(p.round + i) = k]
  IN [s EXCEPT
       !.acceptor.min = p.ballot,
       !.acceptor.proposals = [k \in LogSlots |->
         IF k \in written THEN p.ballot
         ELSE IF k \in Nullified(s, p) THEN 0 ELSE @[k]],
       !.acceptor.values = [k \in LogSlots |->
         IF k \in written THEN value(k)
         ELSE IF k \in Nullified(s, p) THEN 0 ELSE @[k]],
       !.acceptor.last = Max({@, Round(p.round + MULTIPAXOS_PKT_SIZE - 1)})]

(* The accept phase: vote unless a higher ballot has the promise ... *)
Accept(s, p) == IF p.ballot >= s.acceptor.min THEN Cast(s, p) ELSE s

(* ... and report the highest promise heard of. *)
ReplyAccept(s, p) ==
  LET accepted == Accept(s, p)
      min == Max({accepted.acceptor.min, s.rx.min, p.proposals[0]})
      higher == p.proposals[0] < min
  IN Work([accepted EXCEPT !.rx.min = min,
                           !.pkt.proposals[0] = IF higher THEN min ELSE @],
          higher, higher, 0)

(* Mutant of Learned: one round too far. *)
LearnedOffByOne(s, p) ==
  [s EXCEPT
    !.chosen_this_round = TRUE,
    !.learner.values = [k \in LogSlots |->
      IF \E i \in Batch : LogSlot(p.round + i) = k
      THEN p.values[CHOOSE i \in Batch : LogSlot(p.round + i) = k] ELSE @[k]],
    !.learner.last = Round(p.round + MULTIPAXOS_PKT_SIZE)]

(* The values of the packet are learned. *)
Learned(s, p) ==
  [s EXCEPT
    !.chosen_this_round = TRUE,
    !.learner.values = [k \in LogSlots |->
      IF \E i \in Batch : LogSlot(p.round + i) = k
      THEN p.values[CHOOSE i \in Batch : LogSlot(p.round + i) = k] ELSE @[k]],
    !.learner.last = Round(p.round + MULTIPAXOS_PKT_SIZE - 1)]

(* Mutant of Learn: promises count as votes. *)
LearnInPrepare(s, p, replies) == IF Majority(replies) THEN Learned(s, p) ELSE s

(* The quorum read: the flags of an accept request show a majority. *)
Learn(s, p, replies) ==
  IF p.phase = MULTIPAXOS_ACCEPT /\ Majority(replies) THEN Learned(s, p) ELSE s

(* Flags are merged with those of the same phase; the replies are the flags
   the node had before, and in a new phase the packet's, without its own. *)
Tally(n, w, p, new) ==
  LET had == w.s.pkt.flags
      flags == had \cup p.flags
      replies == Cardinality(had)
      all == p.phase = MULTIPAXOS_ACCEPT /\ flags = Nodes
      tx == w.tx \/ new \/ p.flags # had
      s == [w.s EXCEPT !.pkt.flags = IF new THEN flags \cup {n} ELSE flags,
                       !.complete = @ \/ all]
  IN Work(Learn(s, p, replies), tx \/ all, w.delta \/ tx, replies)

(* Older packets are answered with the newer one. *)
Acceptor(n, s, p) ==
  LET new == NewPhase(p, s.pkt)
      adopted == Adopt(s, p)
  IN IF ~NotOlder(p, s.pkt) THEN Work(s, TRUE, FALSE, 0)
     ELSE Tally(n, IF p.phase = MULTIPAXOS_PREPARE THEN Prepare(adopted, p)
                   ELSE ReplyAccept(adopted, p), p, new)

-----------------------------------------------------------------------------
(* The leader. It proposes what was accepted before, and no operation in the
   rounds without a vote below one with a vote. The subtraction of the two
   rounds is unsigned: a negative one is large, and the loop takes the whole
   batch. *)
Heard(p) ==
  {i \in Batch : i <= Round(p.max_heard - p.round)}

ProposedValues(s, p) ==
  [i \in Batch |->
     IF i \notin Heard(p) THEN s.leader.values[i]
     ELSE IF s.rx.proposals[i] # 0 THEN s.rx.values[i]
     ELSE IF \E j \in Heard(p) : j > i /\ s.rx.proposals[j] # 0
     THEN MULTIPAXOS_NO_OP
     ELSE s.leader.values[i]]

(* Mutant of SendAccept: the flags of the promises go out as votes. *)
SendAcceptKeepsFlags(n, s) ==
  [s EXCEPT !.pkt.ballot = s.leader.ballot, !.pkt.phase = MULTIPAXOS_ACCEPT,
            !.pkt.proposals = [@ EXCEPT ![0] = 0], !.pkt.values = s.leader.values,
            !.rx = NoRx, !.leader.phase = MULTIPAXOS_ACCEPT]

(* From the prepare phase to the accept phase, and back when there are rounds
   left to ask for. *)
SendAccept(n, s) ==
  [s EXCEPT !.pkt.ballot = s.leader.ballot, !.pkt.phase = MULTIPAXOS_ACCEPT,
            !.pkt.proposals = [@ EXCEPT ![0] = 0], !.pkt.values = s.leader.values,
            !.pkt.flags = {n}, !.rx = NoRx,
            !.leader.phase = MULTIPAXOS_ACCEPT]

SendPrepare(n, s) ==
  [s EXCEPT !.pkt.ballot = s.leader.ballot, !.pkt.phase = MULTIPAXOS_PREPARE,
            !.pkt.round = s.leader.round, !.pkt.max_heard = s.leader.round,
            !.pkt.proposals = NoBatch, !.pkt.values = NoBatch,
            !.pkt.flags = {n}, !.rx = NoRx,
            !.leader.values = NoBatch, !.leader.got_majority = FALSE,
            !.leader.phase = MULTIPAXOS_PREPARE]

Resign(s) == [s EXCEPT !.leader.is_leader = FALSE]

CountPromises(n, w, p) ==
  LET lost == \E i \in Heard(p) : w.s.rx.proposals[i] > w.s.leader.ballot
      s == [w.s EXCEPT
             !.leader.values = ProposedValues(w.s, p),
             !.leader.another =
               p.max_heard > Round(p.round + MULTIPAXOS_PKT_SIZE - 1)]
  IN IF lost THEN Work(Resign(s), w.tx, w.delta, w.replies)
     ELSE IF Majority(w.replies)
     THEN Work(SendAccept(n, s), TRUE, TRUE, w.replies)
     ELSE Work(s, w.tx, w.delta, w.replies)

(* Mutant of CountVotes: the leader stays in its round. *)
CountVotesInPlace(n, w) ==
  IF w.s.rx.min > w.s.leader.ballot
  THEN Work(Resign(w.s), w.tx, w.delta, w.replies)
  ELSE IF ~Majority(w.replies) THEN w
  ELSE Work([w.s EXCEPT !.leader.got_majority = TRUE],
            w.tx, w.delta, w.replies)

CountVotes(n, w) ==
  LET won == [w.s EXCEPT !.leader.got_majority = TRUE,
                         !.leader.round = Round(@ + MULTIPAXOS_PKT_SIZE)]
  IN IF w.s.rx.min > w.s.leader.ballot
     THEN Work(Resign(w.s), w.tx, w.delta, w.replies)
     ELSE IF ~Majority(w.replies) THEN w
     ELSE IF w.s.leader.another
     THEN Work(SendPrepare(n, won), TRUE, TRUE, w.replies)
     ELSE Work(won, w.tx, w.delta, w.replies)

(* p is what the leader has received or, after its own transmission, the
   packet that its acceptor has just updated. *)
Leader(n, w, p) ==
  LET l == w.s.leader
      seen == [w EXCEPT !.delta = @ \/ w.s.pkt.phase # l.phase]
  IN CASE ~l.is_leader \/ l.got_majority -> w
       [] l.is_leader /\ ~l.got_majority /\ p.ballot > l.ballot ->
            Work(Resign(w.s), w.tx, w.delta, w.replies)
       [] l.is_leader /\ ~l.got_majority /\ p.ballot = l.ballot
            /\ p.phase = l.phase /\ p.round = l.round ->
            IF l.phase = MULTIPAXOS_PREPARE THEN CountPromises(n, seen, p)
            ELSE CountVotes(n, seen)
       [] OTHER -> Work(w.s, TRUE, w.delta, w.replies)

-----------------------------------------------------------------------------
(* process() up to the state logic: for a packet received, and at a leader
   also for the one it has sent. *)
MultiPaxos(n, s, p) ==
  LET heard == [s EXCEPT !.got_valid_rx = TRUE]
      w == Acceptor(n, heard, p)
  IN IF p.phase = MULTIPAXOS_INIT THEN HearInit(n, heard, p)
     ELSE Leader(n, w, IF s.state = "TX" THEN w.s.pkt ELSE p)

Hear(n, s, p) ==
  LET w == MultiPaxos(n, s, p)
  IN [w.s EXCEPT !.invalid_rx_count = 0,
                 !.state = IF w.tx THEN "TX" ELSE "RX",
                 !.tx_count_complete =
                   IF ~(w.tx /\ w.s.complete) THEN @
                   ELSE IF w.delta THEN 0
                   ELSE CountTx(w.s, N_TX_COMPLETE + 1)]

(* A transmission that missed its time is repeated. *)
Transmit(n, s, missed) ==
  LET sent == IF s.leader.is_leader THEN MultiPaxos(n, s, s.pkt).s ELSE s
  IN IF missed THEN [s EXCEPT !.got_valid_rx = TRUE]
     ELSE [sent EXCEPT !.state = IF s.tx_count_complete > N_TX_COMPLETE
                                 THEN "OFF" ELSE "RX"]

-----------------------------------------------------------------------------
(* The state of a node at boot: static memory is 0. *)
Boot ==
  [pkt |-> [ballot |-> 0, phase |-> MULTIPAXOS_INIT, round |-> 0,
            max_heard |-> 0, values |-> NoBatch, proposals |-> NoBatch,
            flags |-> {}],
   leader |-> [is_leader |-> FALSE, ballot |-> 0, values |-> NoBatch,
               phase |-> MULTIPAXOS_INIT, round |-> 0, got_majority |-> FALSE,
               another |-> FALSE],
   acceptor |-> [min |-> 0, last |-> 0,
                 proposals |-> [k \in LogSlots |-> 0],
                 values |-> [k \in LogSlots |-> 0]],
   learner |-> [values |-> [k \in LogSlots |-> 0], last |-> 0],
   rx |-> NoRx, complete |-> FALSE, chosen_this_round |-> FALSE,
   state |-> "RX", got_valid_rx |-> FALSE, invalid_rx_count |-> 0,
   restart_threshold |-> CHAOS_RESTART_MIN, tx_count_complete |-> 0]

(* What the application is given at the end of a round. *)
Report(s) ==
  [i \in Batch |->
     IF s.chosen_this_round
     THEN s.learner.values[LogSlot(s.learner.last - MULTIPAXOS_PKT_SIZE + 1 + i)]
     ELSE 0]

multipaxos_leader_got_majority(s) ==
  /\ s.leader.is_leader
  /\ s.leader.got_majority
  /\ s.leader.phase = MULTIPAXOS_ACCEPT

(* The application counts on from the chosen values, each with its step. *)
NewValues(s) == [i \in Batch |-> (Report(s)[i] + i + 1) % Uint8]

(* A node becomes leader: its ballot has round 1 for ever, and it asks for
   the rounds since the last one that it knows to be chosen. *)
InitialLeader(n, s) ==
  LET next == Round(s.learner.last + 1)
      own == Round(s.acceptor.last - MULTIPAXOS_PKT_SIZE + 1)
  IN [s EXCEPT !.leader.is_leader = TRUE,
               !.leader.ballot = Uint8 * Max({@ \div Uint8, 1}) + n,
               !.leader.round = IF s.acceptor.last > 0 THEN Max({next, own})
                                ELSE next]

Designate(n, s, values) ==
  IF ~s.leader.is_leader THEN InitialLeader(n, s)
  ELSE IF multipaxos_leader_got_majority(s)
  THEN [s EXCEPT !.leader.values = values] ELSE s

(* multipaxos_round_begin, with the call of process() for CHAOS_INIT. *)
RoundBegin(n, s, is_leader, threshold) ==
  LET first == n = Initiator
      fresh == [s EXCEPT !.pkt.flags = {n}, !.complete = FALSE,
                         !.chosen_this_round = FALSE,
                         !.tx_count_complete = 0, !.invalid_rx_count = 0,
                         !.got_valid_rx = first, !.restart_threshold = threshold,
                         !.state = IF first THEN "TX" ELSE "RX"]
      led == IF is_leader THEN Designate(n, fresh, NewValues(s)) ELSE fresh
  IN IF first /\ led.leader.is_leader THEN Lead(n, led) ELSE led

(* multipaxos_replay_last_consensus, for the application to call. *)
Replay(s) ==
  IF multipaxos_leader_got_majority(s)
  THEN [s EXCEPT !.leader.phase = MULTIPAXOS_PREPARE,
                 !.leader.round = Round(@ - MULTIPAXOS_PKT_SIZE),
                 !.leader.got_majority = FALSE]
  ELSE s
=============================================================================
