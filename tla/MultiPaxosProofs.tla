--------------------------- MODULE MultiPaxosProofs ---------------------------
(***************************************************************************)
(* Proofs about module MultiPaxos for the application as it is shipped,    *)
(* where the initiator is the leader (multipaxos-app.c:125): types,        *)
(* learner and leader soundness, the ring buffer of the acceptor, and the  *)
(* refinement of a replicated log, for any number of nodes, log slots and  *)
(* values in a packet, and as many rounds as their 16-bit numbers count.   *)
(***************************************************************************)
EXTENDS MultiPaxos, FiniteSetTheorems, TLAPS

(* What the proofs use of the constants. *)
LEMMA Constants ==
  /\ MULTIPAXOS_PKT_SIZE \in Nat /\ MULTIPAXOS_PKT_SIZE > 0
  /\ MULTIPAXOS_LOG_SIZE \in Nat /\ MULTIPAXOS_PKT_SIZE <= MULTIPAXOS_LOG_SIZE
  /\ Uint8 \in Nat /\ Uint8 > 0 /\ Uint16 \in Nat /\ Uint8 < Uint16
  /\ Nodes \subseteq Nat /\ IsFiniteSet(Nodes) /\ Initiator \in Nodes
  /\ MAX_ROUNDS \in Nat
BY MultiPaxosAssumption, ChaosAssumption, LeadersAssumption
DEF MultiPaxosAssumption, ChaosAssumption, LeadersAssumption

(* The number of a round is 16 bits wide (multipaxos.h:121) and counted up for
   ever (multipaxos.c:465): the rounds before it wraps. *)
RoundsFit == MAX_ROUND + 1 < Uint16

(* Up to there, rounds are what they are in the 16 bits. *)
LEMMA RoundIsSame ==
  ASSUME NEW k \in Nat, k < Uint16 PROVE Round(k) = k
BY Constants DEF Round

(* The larger of two numbers. *)
LEMMA MaxOfTwo ==
  ASSUME NEW a \in Int, NEW b \in Int
  PROVE  Max({a, b}) = IF a >= b THEN a ELSE b
<1> DEFINE m == IF a >= b THEN a ELSE b
<1>1. m \in {a, b} /\ \A y \in {a, b} : m >= y
  OBVIOUS
<1>2. ASSUME NEW x \in {a, b}, \A y \in {a, b} : x >= y PROVE x = m
  BY <1>2
<1> QED
  BY <1>1, <1>2 DEF Max

(* The largest of three numbers. *)
LEMMA MaxOfThree ==
  ASSUME NEW a \in Int, NEW b \in Int, NEW c \in Int
  PROVE  /\ Max({a, b, c}) \in {a, b, c}
         /\ Max({a, b, c}) >= a /\ Max({a, b, c}) >= b /\ Max({a, b, c}) >= c
<1>1. \E x \in {a, b, c} : \A y \in {a, b, c} : x >= y
  <2>1. CASE a >= b /\ a >= c
    BY <2>1
  <2>2. CASE b >= a /\ b >= c
    BY <2>2
  <2>3. CASE c >= a /\ c >= b
    BY <2>3
  <2> QED
    BY <2>1, <2>2, <2>3
<1> QED
  BY <1>1 DEF Max

(* The largest number of an interval and 0. *)
LEMMA MaxOfInterval ==
  ASSUME NEW m \in Nat
  PROVE  Max({0} \cup (1..m)) = m
<1>1. m \in {0} \cup (1..m) /\ \A y \in {0} \cup (1..m) : m >= y
  OBVIOUS
<1>2. ASSUME NEW x \in {0} \cup (1..m), \A y \in {0} \cup (1..m) : x >= y PROVE x = m
  BY <1>1, <1>2
<1> QED
  BY <1>1, <1>2 DEF Max

-----------------------------------------------------------------------------
(* The ring (multipaxos.c:288). *)
LEMMA LogSlotType ==
  ASSUME NEW r \in Nat PROVE LogSlot(r) \in LogSlots
<1>1. MULTIPAXOS_LOG_SIZE \in Nat \ {0}
  BY Constants
<1>2. Round(r) \in Nat
  BY Constants DEF Round
<1>3. Round(r) % MULTIPAXOS_LOG_SIZE \in 0..(MULTIPAXOS_LOG_SIZE - 1)
  BY <1>1, <1>2
<1> QED
  BY <1>3 DEF LogSlot, LogSlots

(* Two rounds in one log entry are at least MULTIPAXOS_LOG_SIZE apart. *)
LEMMA RingDistance ==
  ASSUME NEW size \in Nat, size > 0, NEW a \in Nat, NEW b \in Nat, a < b,
         a % size = b % size
  PROVE  b - a >= size
<1> DEFINE q == a \div size
           u == b \div size
<1>1. q \in Int /\ u \in Int
  OBVIOUS
<1>2. a = (size * q) + (a % size)
  OBVIOUS
<1>3. b = (size * u) + (b % size)
  OBVIOUS
<1>4. a % size \in Int
  OBVIOUS
<1> HIDE DEF q, u
<1>5. b - a = (size * u) - (size * q)
  BY <1>1, <1>2, <1>3, <1>4
<1>6. size * (u - q) = (size * u) - (size * q)
  BY <1>1
<1>7. u > q
  <2> SUFFICES ASSUME u <= q PROVE FALSE
    BY <1>1
  <2>1. size * u <= size * q
    BY <1>1
  <2> QED
    BY <1>1, <1>5, <2>1
<1>8. size * (u - q) >= size
  BY <1>1, <1>7
<1> QED
  BY <1>1, <1>5, <1>6, <1>8

(* Rounds less than MULTIPAXOS_LOG_SIZE apart have log entries of their
   own. *)
LEMMA LogSlotInjective ==
  ASSUME NEW a \in Nat, NEW b \in Nat, a < Uint16, b < Uint16,
         a - b < MULTIPAXOS_LOG_SIZE, b - a < MULTIPAXOS_LOG_SIZE,
         LogSlot(a) = LogSlot(b)
  PROVE  a = b
<1>1. /\ MULTIPAXOS_LOG_SIZE \in Nat /\ MULTIPAXOS_LOG_SIZE > 0
      /\ Round(a) = a /\ Round(b) = b
  BY Constants, RoundIsSame
<1>2. a % MULTIPAXOS_LOG_SIZE = b % MULTIPAXOS_LOG_SIZE
  BY <1>1 DEF LogSlot
<1>3. ~(a < b)
  BY <1>1, <1>2, RingDistance
<1>4. ~(b < a)
  BY <1>1, <1>2, RingDistance
<1> QED
  BY <1>3, <1>4

(* The rounds of a batch have log entries of their own. *)
LEMMA BatchSlots ==
  ASSUME NEW r \in Nat, r + MULTIPAXOS_PKT_SIZE < Uint16,
         NEW i \in Batch, NEW j \in Batch, LogSlot(r + i) = LogSlot(r + j)
  PROVE  i = j
<1>1. /\ r + i \in Nat /\ r + j \in Nat /\ r + i < Uint16 /\ r + j < Uint16
      /\ (r + i) - (r + j) < MULTIPAXOS_LOG_SIZE
      /\ (r + j) - (r + i) < MULTIPAXOS_LOG_SIZE
  BY Constants DEF Batch
<1>2. r + i = r + j
  BY <1>1, LogSlotInjective
<1> QED
  BY <1>2 DEF Batch

-----------------------------------------------------------------------------
(* The batch that begins with round r, and the first round of the next one, fit
   into 16 bits. *)
Fits(r) == r + MULTIPAXOS_PKT_SIZE < Uint16

(* The last rounds of batches; the first round of a batch follows one. *)
Ends == {MULTIPAXOS_PKT_SIZE * k : k \in Nat}

(* Batches do not overlap: an end that is not before a batch's first round is
   not before its last. *)
LEMMA EndsApart ==
  ASSUME NEW e \in Ends, NEW f \in Ends, e > f
  PROVE  e >= f + MULTIPAXOS_PKT_SIZE
<1> DEFINE P == MULTIPAXOS_PKT_SIZE
<1>1. PICK k \in Nat : e = P * k
  BY DEF Ends
<1>2. PICK m \in Nat : f = P * m
  BY DEF Ends
<1>3. P \in Nat /\ P > 0
  BY Constants
<1> HIDE DEF P
<1>4. k > m
  <2> SUFFICES ASSUME k <= m PROVE FALSE
    OBVIOUS
  <2>1. P * k <= P * m
    BY <1>3
  <2> QED
    BY <1>1, <1>2, <1>3, <2>1
<1>5. P * k >= P * (m + 1)
  BY <1>3, <1>4
<1>6. P * (m + 1) = P * m + P
  BY <1>3
<1> QED
  BY <1>1, <1>2, <1>3, <1>5, <1>6 DEF P

(* Ends are natural numbers, the first is 0, and one follows another. *)
LEMMA EndsType ==
  /\ Ends \subseteq Nat
  /\ 0 \in Ends
  /\ \A e \in Ends : e + MULTIPAXOS_PKT_SIZE \in Ends
<1> DEFINE P == MULTIPAXOS_PKT_SIZE
<1>1. P \in Nat
  BY Constants
<1> HIDE DEF P
<1>2. \A k \in Nat : P * k \in Nat /\ P * (k + 1) = P * k + P
  BY <1>1
<1>3. P * 0 = 0
  BY <1>1
<1> QED
  BY <1>2, <1>3 DEF Ends, P
-----------------------------------------------------------------------------
(* The application makes the initiator the one leader, so one ballot is ever
   proposed.  What follows is about the votes V cast so far and the first
   round r of the batch the leader works on. *)
LeaderBallot == Uint8 + Initiator
Two == {0, LeaderBallot}
LastOf(r) == r + MULTIPAXOS_PKT_SIZE - 1

Vote(n, r, v) == [node |-> n, round |-> r, ballot |-> LeaderBallot, value |-> v]

(* Node n voted for these values in the batch that begins with round r. *)
Voted(V, n, r, values) == \A i \in Batch : Vote(n, r + i, values[i]) \in V

(* A majority voted for v in round r. *)
Quorum(V, r, v) ==
  \E F \in SUBSET Nodes :
    Majority(Cardinality(F)) /\ \A f \in F : Vote(f, r, v) \in V

(* One value per round, and these values in a batch. *)
OneValue(V) == \A x, y \in V : x.round = y.round => x.value = y.value
Agreed(V, r, values) ==
  \A x \in V, i \in Batch : x.round = r + i => x.value = values[i]

(* Votes that are reported were cast. *)
Backed(V, r, proposals, values) ==
  \A i \in Batch :
    proposals[i] # 0 => \E m \in Nodes : Vote(m, r + i, values[i]) \in V

(* The packet buffer. *)
PacketInv(V, r, q) ==
  /\ q.ballot \in Two /\ q.phase \in 0..2 /\ q.flags \subseteq Nodes
  /\ q.values \in [Batch -> Bytes] /\ q.proposals \in [Batch -> Two]
  /\ q.ballot = 0 => q.phase = 0 /\ q.round = 0
  /\ q.ballot # 0 => q.phase # 0 /\ q.round - 1 \in Ends
  /\ q.round \in Nat /\ q.round <= r
  /\ q.max_heard \in Ends /\ q.max_heard <= LastOf(r)
  /\ Backed(V, q.round, q.proposals, q.values)

(* The flags of an accept request are votes; the leader flags itself and votes
   when it sends. *)
FlagsInv(V, n, q) ==
  q.phase = MULTIPAXOS_ACCEPT =>
    /\ \A f \in q.flags : \/ f = n /\ n = Initiator
                          \/ Voted(V, f, q.round, q.values)
    /\ n # Initiator => Voted(V, n, q.round, q.values)

(* The acceptor: where its log ends with the batch r, it has its own votes. *)
AcceptorInv(V, r, n, a) ==
  /\ a.min \in Two /\ a.last \in Ends /\ a.last <= LastOf(r)
  /\ a.proposals \in [LogSlots -> Two] /\ a.values \in [LogSlots -> Bytes]
  /\ a.last = LastOf(r) =>
       \A i \in Batch : /\ a.proposals[LogSlot(r + i)] = LeaderBallot
                        /\ Vote(n, r + i, a.values[LogSlot(r + i)]) \in V

(* What was heard in this phase. *)
RxInv(V, r, q, rx) ==
  /\ rx.min \in Two /\ rx.max_heard \in Ends /\ rx.max_heard <= LastOf(r)
  /\ rx.proposals \in [Batch -> Two] /\ rx.values \in [Batch -> Bytes]
  /\ Backed(V, q.round, rx.proposals, rx.values)
  /\ q.phase # MULTIPAXOS_PREPARE => \A i \in Batch : rx.proposals[i] = 0

(* The learner. *)
LearnerInv(V, r, s) ==
  /\ s.learner.values \in [LogSlots -> Bytes]
  /\ s.learner.last \in Nat /\ s.learner.last <= LastOf(r)
  /\ s.chosen_this_round =>
       /\ s.learner.last = LastOf(r)
       /\ \A i \in Batch :
            Quorum(V, r + i, s.learner.values[LogSlot(r + i)])

(* Nodes that send have a request of the leader for the batch r. *)
RadioInv(r, s) ==
  /\ RadioOK(s)
  /\ s.got_valid_rx \/ s.state = "TX" =>
       s.pkt.ballot = LeaderBallot /\ s.pkt.round = r

(* The leader: before its first vote nobody votes; what it asks for in accept
   requests agrees with all votes; what it counts as chosen is. *)
LeaderInv(V, r, n, s) ==
  LET l == s.leader IN
  /\ l.is_leader = (n = Initiator)
  /\ l.values \in [Batch -> Bytes] /\ ~l.another
  /\ n # Initiator => l.round = 0 /\ ~l.got_majority
  /\ n = Initiator =>
       /\ l.ballot = LeaderBallot /\ l.phase \in 1..2 /\ l.got_majority \in BOOLEAN
       /\ s.pkt.ballot = LeaderBallot /\ s.pkt.round = r
       /\ l.round = IF l.got_majority THEN r + MULTIPAXOS_PKT_SIZE ELSE r
       /\ l.got_majority => /\ l.phase = MULTIPAXOS_ACCEPT
                            /\ s.acceptor.last = LastOf(r)
                            /\ \A i \in Batch : Quorum(V, r + i, l.values[i])
       /\ l.phase = MULTIPAXOS_ACCEPT =>
            s.pkt.phase = MULTIPAXOS_ACCEPT /\ s.pkt.values = l.values
       /\ l.phase = MULTIPAXOS_PREPARE =>
            \/ s.acceptor.last = LastOf(r)
            \/ V = {} /\ s.pkt.phase = MULTIPAXOS_PREPARE
       /\ s.pkt.phase = MULTIPAXOS_ACCEPT => Agreed(V, r, s.pkt.values)

CoreInv(V, r, n, s) ==
  /\ PacketInv(V, r, s.pkt) /\ FlagsInv(V, n, s.pkt)
  /\ AcceptorInv(V, r, n, s.acceptor) /\ RxInv(V, r, s.pkt, s.rx)
  /\ LearnerInv(V, r, s) /\ LeaderInv(V, r, n, s)
  /\ s.complete \in BOOLEAN

NodeInv(V, r, n, s) == CoreInv(V, r, n, s) /\ RadioInv(r, s)

(* The votes: one ballot, one value per round, whole batches; every round
   before the batch r has been decided. *)
VotesInv(V, r) ==
  /\ OneValue(V)
  /\ \A x \in V : /\ x.node \in Nodes /\ x.round \in 1..LastOf(r)
                  /\ x.value \in Bytes /\ x = Vote(x.node, x.round, x.value)
  /\ \A k \in 1..(r - 1) : \E v \in Bytes : Quorum(V, k, v)
  /\ \A x \in V, i, j \in Batch : x.round = r + i =>
       \E v \in Bytes : Vote(x.node, r + j, v) \in V

CurrentRound == node[Initiator].pkt.round

LogInv == log = IF votes = {} THEN <<>> ELSE ChosenLog(votes)

(* The inductive invariant. *)
MultiInv ==
  /\ DOMAIN node = Nodes
  /\ \A n \in Nodes : NodeInv(votes, CurrentRound, n, node[n])
  /\ VotesInv(votes, CurrentRound)
  /\ LogInv
  /\ round_count \in 1..MAX_ROUNDS
  /\ CurrentRound - 1 \in Ends /\ Fits(CurrentRound)
  /\ LastOf(CurrentRound) <= MULTIPAXOS_PKT_SIZE * round_count

-----------------------------------------------------------------------------
(* More votes keep what the votes so far support. *)
LEMMA SupportGrows ==
  ASSUME NEW V, NEW W, V \subseteq W, NEW r
  PROVE  /\ \A n, values : Voted(V, n, r, values) => Voted(W, n, r, values)
         /\ \A k, v : Quorum(V, k, v) => Quorum(W, k, v)
         /\ \A ps, vs : Backed(V, r, ps, vs) => Backed(W, r, ps, vs)
<1>1. \A n, values : Voted(V, n, r, values) => Voted(W, n, r, values)
  BY DEF Voted
<1>2. \A k, v : Quorum(V, k, v) => Quorum(W, k, v)
  BY DEF Quorum
<1>3. \A ps, vs : Backed(V, r, ps, vs) => Backed(W, r, ps, vs)
  <2> SUFFICES ASSUME NEW ps, NEW vs, Backed(V, r, ps, vs), NEW i \in Batch,
                      ps[i] # 0
               PROVE  \E m \in Nodes : Vote(m, r + i, vs[i]) \in W
    BY DEF Backed
  <2>1. PICK m \in Nodes : Vote(m, r + i, vs[i]) \in V
    BY DEF Backed
  <2> QED
    BY <2>1
<1> QED
  BY <1>1, <1>2, <1>3

(* A packet stays sound as votes are cast. *)
LEMMA PacketGrows ==
  ASSUME NEW V, NEW W, V \subseteq W, NEW r, NEW q, PacketInv(V, r, q)
  PROVE  PacketInv(W, r, q)
<1>1. Backed(W, q.round, q.proposals, q.values)
  BY SupportGrows DEF PacketInv
<1> QED
  BY <1>1 DEF PacketInv

(* So do the flags of a packet. *)
LEMMA FlagsGrow ==
  ASSUME NEW V, NEW W, V \subseteq W, NEW n, NEW q, FlagsInv(V, n, q)
  PROVE  FlagsInv(W, n, q)
<1>1. \A f : Voted(V, f, q.round, q.values) => Voted(W, f, q.round, q.values)
  BY SupportGrows
<1> QED
  BY <1>1 DEF FlagsInv

(* A node stays sound as others vote, if the votes agree with the accept
   request of the leader and nobody votes before there is one. *)
LEMMA NodeGrows ==
  ASSUME NEW V, NEW W, V \subseteq W, NEW r, NEW n, NEW s, NodeInv(V, r, n, s),
         n = Initiator /\ s.pkt.phase = MULTIPAXOS_ACCEPT =>
           Agreed(W, r, s.pkt.values),
         n = Initiator /\ V = {} /\ s.pkt.phase = MULTIPAXOS_PREPARE => W = {}
  PROVE  NodeInv(W, r, n, s)
<1>1. PacketInv(W, r, s.pkt)
  BY PacketGrows DEF NodeInv, CoreInv
<1>2. FlagsInv(W, n, s.pkt)
  BY FlagsGrow DEF NodeInv, CoreInv
<1>3. AcceptorInv(W, r, n, s.acceptor)
  BY DEF NodeInv, CoreInv, AcceptorInv
<1>4. RxInv(W, r, s.pkt, s.rx)
  BY SupportGrows DEF NodeInv, CoreInv, RxInv
<1>5. LearnerInv(W, r, s)
  BY SupportGrows DEF NodeInv, CoreInv, LearnerInv
<1>6. LeaderInv(W, r, n, s)
  <2>1. CASE n = Initiator
    <3>1. s.leader.got_majority =>
            \A i \in Batch : Quorum(W, r + i, s.leader.values[i])
      BY <2>1, SupportGrows DEF NodeInv, CoreInv, LeaderInv
    <3>2. s.leader.phase = MULTIPAXOS_PREPARE =>
            \/ s.acceptor.last = LastOf(r)
            \/ W = {} /\ s.pkt.phase = MULTIPAXOS_PREPARE
      BY <2>1 DEF NodeInv, CoreInv, LeaderInv
    <3> QED
      BY <2>1, <3>1, <3>2 DEF NodeInv, CoreInv, LeaderInv
  <2>2. CASE n # Initiator
    BY <2>2 DEF NodeInv, CoreInv, LeaderInv
  <2> QED
    BY <2>1, <2>2
<1> QED
  BY <1>1, <1>2, <1>3, <1>4, <1>5, <1>6 DEF NodeInv, CoreInv

-----------------------------------------------------------------------------
(* What a handler leaves alone. *)
SameRadio(s, q) ==
  /\ q.state = s.state /\ q.got_valid_rx = s.got_valid_rx
  /\ q.invalid_rx_count = s.invalid_rx_count
  /\ q.restart_threshold = s.restart_threshold
  /\ q.tx_count_complete = s.tx_count_complete

SameLearner(s, q) ==
  q.learner = s.learner /\ q.chosen_this_round = s.chosen_this_round

(* The first round of a batch. *)
Begins(r) == r \in Nat /\ r - 1 \in Ends /\ Fits(r)

(* A request for the batch r that is on the air. *)
OnAir(V, r, p) == PacketInv(V, r, p) /\ p.ballot = LeaderBallot /\ p.round = r

(* What a node that handles p can count on when W are the votes after the
   slot: the flags of an accept request are votes, and so is its own reply. *)
Handles(W, r, n, p) ==
  /\ OnAir(W, r, p) /\ OneValue(W)
  /\ p.phase = MULTIPAXOS_ACCEPT =>
       \A f \in p.flags \cup {n} : Voted(W, f, r, p.values)

(* The rounds of the batch r: natural numbers of 16 bits, each with its log
   entry, and the last one is an end. *)
LEMMA BatchRounds ==
  ASSUME NEW r, Begins(r)
  PROVE  /\ r \in Nat /\ r > 0 /\ LastOf(r) \in Ends /\ LastOf(r) \in Nat
         /\ Fits(r) /\ Round(LastOf(r)) = LastOf(r)
         /\ Round(r + MULTIPAXOS_PKT_SIZE) = r + MULTIPAXOS_PKT_SIZE
         /\ \A i \in Batch : /\ r + i \in Nat /\ r + i <= LastOf(r)
                             /\ LogSlot(r + i) \in LogSlots
                             /\ Round(r + i) = r + i
<1>1. r \in Nat /\ r - 1 \in Nat
  BY EndsType DEF Begins
<1>2. LastOf(r) = (r - 1) + MULTIPAXOS_PKT_SIZE
  BY <1>1, Constants DEF LastOf
<1>3. LastOf(r) \in Ends
  BY <1>2, EndsType DEF Begins
<1>4. \A i \in Batch : r + i \in Nat /\ r + i <= LastOf(r)
  BY <1>1, Constants DEF Batch, LastOf
<1>5. \A i \in Batch : LogSlot(r + i) \in LogSlots
  BY <1>4, LogSlotType
<1>6. r > 0
  BY <1>1
<1>7. /\ r + MULTIPAXOS_PKT_SIZE \in Nat /\ r + MULTIPAXOS_PKT_SIZE < Uint16
      /\ LastOf(r) \in Nat /\ LastOf(r) < Uint16
  BY <1>1, <1>2, Constants DEF Begins, Fits
<1>8. /\ Round(LastOf(r)) = LastOf(r)
      /\ Round(r + MULTIPAXOS_PKT_SIZE) = r + MULTIPAXOS_PKT_SIZE
  BY <1>7, RoundIsSame
<1>9. \A i \in Batch : Round(r + i) = r + i
  BY <1>4, <1>7, Constants, RoundIsSame
<1>10. Fits(r)
  BY DEF Begins
<1> QED
  BY <1>1, <1>3, <1>4, <1>5, <1>6, <1>8, <1>9, <1>10, EndsType

(* Zero and the ballot of the leader are different numbers. *)
LEMMA TwoType == Two \subseteq Nat /\ LeaderBallot \in Nat /\ LeaderBallot > 0
BY Constants DEF Two, LeaderBallot

(* The log entries of the batch of p, the round of it that has entry k, and the
   log after a vote. *)
Written(p) == {LogSlot(p.round + i) : i \in Batch}
EntryOf(p, k) == CHOOSE i \in Batch : LogSlot(p.round + i) = k

LogBallots(s, p) ==
  [k \in LogSlots |->
     IF k \in Written(p) THEN p.ballot
     ELSE IF k \in Nullified(s, p) THEN 0 ELSE s.acceptor.proposals[k]]

LogValues(s, p) ==
  [k \in LogSlots |->
     IF k \in Written(p) THEN p.values[EntryOf(p, k)]
     ELSE IF k \in Nullified(s, p) THEN 0 ELSE s.acceptor.values[k]]

(* Which fields the vote of an acceptor changes. *)
LEMMA CastFields ==
  ASSUME NEW s, NEW p
  PROVE  LET q == Cast(s, p) IN
         /\ q.pkt = s.pkt /\ q.leader = s.leader /\ q.rx = s.rx
         /\ q.complete = s.complete
         /\ SameRadio(s, q) /\ SameLearner(s, q)
         /\ q.acceptor.min = p.ballot
         /\ q.acceptor.proposals = LogBallots(s, p)
         /\ q.acceptor.values = LogValues(s, p)
         /\ q.acceptor.last =
              Max({s.acceptor.last, Round(p.round + MULTIPAXOS_PKT_SIZE - 1)})
<1> DEFINE q == Cast(s, p)
           last == Max({s.acceptor.last, Round(p.round + MULTIPAXOS_PKT_SIZE - 1)})
<1>1. q.acceptor = [s.acceptor EXCEPT !.min = p.ballot,
                      !.proposals = LogBallots(s, p),
                      !.values = LogValues(s, p), !.last = last]
  BY DEF Cast, LogBallots, LogValues, Written, EntryOf
<1>2. /\ q.pkt = s.pkt /\ q.leader = s.leader /\ q.rx = s.rx
      /\ q.complete = s.complete /\ SameRadio(s, q) /\ SameLearner(s, q)
  BY DEF Cast, SameRadio, SameLearner
<1> HIDE DEF q, last
<1>3. /\ q.acceptor.min = p.ballot /\ q.acceptor.proposals = LogBallots(s, p)
      /\ q.acceptor.values = LogValues(s, p) /\ q.acceptor.last = last
  BY <1>1
<1> QED
  BY <1>2, <1>3 DEF q, last

(* A vote for the batch r puts the ballot and the values of the request into
   the log entries of its rounds (multipaxos.c:288-298). *)
LEMMA CastVotes ==
  ASSUME NEW s, NEW p, NEW r, Begins(r), p.round = r, NEW i \in Batch
  PROVE  LET a == Cast(s, p).acceptor IN
         /\ a.proposals[LogSlot(r + i)] = p.ballot
         /\ a.values[LogSlot(r + i)] = p.values[i]
<1> DEFINE k == LogSlot(r + i)
<1>1. k \in LogSlots /\ r \in Nat
  BY BatchRounds
<1>2. k \in Written(p)
  BY DEF Written
<1>3. EntryOf(p, k) = i
  <2>1. \A j \in Batch : LogSlot(p.round + j) = k => j = i
    BY <1>1, BatchRounds, BatchSlots DEF Fits
  <2> QED
    BY <2>1 DEF EntryOf
<1> HIDE DEF k
<1>4. LogBallots(s, p)[k] = p.ballot /\ LogValues(s, p)[k] = p.values[i]
  BY <1>1, <1>2, <1>3 DEF LogBallots, LogValues
<1>5. /\ Cast(s, p).acceptor.proposals = LogBallots(s, p)
      /\ Cast(s, p).acceptor.values = LogValues(s, p)
  BY CastFields
<1> QED
  BY <1>4, <1>5 DEF k

(* The acceptor is sound after a vote that is on record. *)
LEMMA CastLemma ==
  ASSUME NEW W, NEW r, Begins(r), NEW n \in Nodes, NEW s, NEW p,
         AcceptorInv(W, r, n, s.acceptor), OnAir(W, r, p),
         Voted(W, n, r, p.values)
  PROVE  /\ AcceptorInv(W, r, n, Cast(s, p).acceptor)
         /\ Cast(s, p).acceptor.last = LastOf(r)
<1> DEFINE a == Cast(s, p).acceptor
<1>1. /\ p.ballot = LeaderBallot /\ p.round = r /\ p.values \in [Batch -> Bytes]
      /\ LeaderBallot \in Two /\ 0 \in Two /\ 0 \in Bytes
  BY Constants DEF OnAir, PacketInv, Two, Bytes
<1>2. a.min \in Two
  BY <1>1, CastFields
<1>3. a.last = LastOf(r)
  <2>1. s.acceptor.last \in Nat /\ LastOf(r) \in Nat /\ s.acceptor.last <= LastOf(r)
    BY BatchRounds, EndsType DEF AcceptorInv
  <2>2. a.last = Max({s.acceptor.last, LastOf(r)})
    BY <1>1, CastFields, BatchRounds DEF LastOf
  <2> QED
    BY <2>1, <2>2, MaxOfTwo
<1>4. \A i \in Batch : /\ a.proposals[LogSlot(r + i)] = LeaderBallot
                       /\ a.values[LogSlot(r + i)] = p.values[i]
  BY <1>1, CastVotes
<1>5. /\ a.proposals = LogBallots(s, p) /\ a.values = LogValues(s, p)
  BY CastFields
<1> HIDE DEF a
<1>6. a.proposals \in [LogSlots -> Two] /\ a.values \in [LogSlots -> Bytes]
  <2>1. ASSUME NEW k \in LogSlots
        PROVE  LogBallots(s, p)[k] \in Two /\ LogValues(s, p)[k] \in Bytes
    <3>1. CASE k \in Written(p)
      <4>1. PICK i \in Batch : k = LogSlot(r + i)
        BY <3>1, <1>1 DEF Written
      <4> QED
        BY <4>1, <1>4, <1>5, <1>1
    <3>2. CASE k \notin Written(p)
      <4>1. s.acceptor.proposals[k] \in Two /\ s.acceptor.values[k] \in Bytes
        BY DEF AcceptorInv
      <4> QED
        BY <3>2, <4>1, <1>1 DEF LogBallots, LogValues
    <3> QED
      BY <3>1, <3>2
  <2>2. LogBallots(s, p) \in [LogSlots -> Two]
    BY <2>1 DEF LogBallots
  <2>3. LogValues(s, p) \in [LogSlots -> Bytes]
    BY <2>1 DEF LogValues
  <2> QED
    BY <2>2, <2>3, <1>5
<1>7. LastOf(r) \in Ends /\ LastOf(r) \in Nat
  BY BatchRounds
<1>8. \A i \in Batch : Vote(n, r + i, a.values[LogSlot(r + i)]) \in W
  BY <1>4 DEF Voted
<1> QED
  BY <1>2, <1>3, <1>4, <1>6, <1>7, <1>8 DEF AcceptorInv, a

(* What taking over p changes in s; q is the node afterwards. *)
Adopted(W, r, s, p, q) ==
  /\ q.leader = s.leader /\ q.acceptor = s.acceptor
  /\ q.complete = s.complete
  /\ SameRadio(s, q) /\ SameLearner(s, q)
  /\ OnAir(W, r, q.pkt) /\ q.pkt.phase = p.phase
  /\ RxInv(W, r, q.pkt, q.rx)
  /\ p.phase = MULTIPAXOS_ACCEPT =>
       /\ q.pkt.values = p.values
       /\ \A f \in q.pkt.flags : Voted(W, f, r, p.values)

(* A node that takes over p, or has the same request already, is sound and in
   the phase of p; in an accept phase all its flags are votes for the values
   of p. *)
LEMMA AdoptLemma ==
  ASSUME NEW W, NEW r, Begins(r), NEW n \in Nodes, NEW s, NEW p,
         CoreInv(W, r, n, s), Handles(W, r, n, p)
  PROVE  Adopted(W, r, s, p, Adopt(s, p))
<1> DEFINE q == Adopt(s, p)
<1>1. CASE NewPhase(p, s.pkt)
  <2>1. q = [s EXCEPT !.pkt = p, !.rx = NoRx]
    BY <1>1 DEF Adopt
  <2> HIDE DEF q
  <2>2. /\ q.leader = s.leader /\ q.acceptor = s.acceptor
        /\ q.complete = s.complete
        /\ SameRadio(s, q) /\ SameLearner(s, q) /\ q.pkt = p /\ q.rx = NoRx
    BY <2>1 DEF SameRadio, SameLearner
  <2>3. RxInv(W, r, p, NoRx)
    <3>1. NoBatch \in [Batch -> Two] /\ NoBatch \in [Batch -> Bytes]
      BY Constants DEF NoBatch, Two, Bytes
    <3>2. \A i \in Batch : NoBatch[i] = 0
      BY DEF NoBatch
    <3>3. 0 \in Ends /\ 0 <= LastOf(r) /\ 0 \in Two
      BY BatchRounds, EndsType DEF Two
    <3>4. /\ NoRx.min = 0 /\ NoRx.max_heard = 0 /\ NoRx.proposals = NoBatch
          /\ NoRx.values = NoBatch
      BY DEF NoRx
    <3> QED
      BY <3>1, <3>2, <3>3, <3>4 DEF RxInv, Backed
  <2> QED
    BY <2>2, <2>3 DEF Handles, Adopted, q
<1>2. CASE ~NewPhase(p, s.pkt)
  <2>1. q = s
    BY <1>2 DEF Adopt
  <2>2. p.ballot = LeaderBallot /\ p.round = r
    BY DEF Handles, OnAir
  <2>3. s.pkt.ballot = LeaderBallot /\ s.pkt.round = r /\ s.pkt.phase = p.phase
    BY <1>2, <2>2 DEF NewPhase
  <2>4. ASSUME p.phase = MULTIPAXOS_ACCEPT
        PROVE  /\ s.pkt.values = p.values
               /\ \A f \in s.pkt.flags : Voted(W, f, r, p.values)
    <3>1. \A f \in p.flags \cup {n} : Voted(W, f, r, p.values)
      BY <2>4 DEF Handles
    <3>2. s.pkt.values \in [Batch -> Bytes] /\ p.values \in [Batch -> Bytes]
      BY DEF CoreInv, PacketInv, Handles, OnAir
    <3>3. ASSUME NEW i \in Batch PROVE s.pkt.values[i] = p.values[i]
      <4>1. Vote(n, r + i, p.values[i]) \in W
        BY <3>1 DEF Voted
      <4>2. CASE n = Initiator
        <5>1. Agreed(W, r, s.pkt.values)
          BY <4>2, <2>3, <2>4 DEF CoreInv, LeaderInv
        <5> QED
          BY <4>1, <5>1 DEF Agreed, Vote
      <4>3. CASE n # Initiator
        <5>1. Voted(W, n, r, s.pkt.values)
          BY <4>3, <2>3, <2>4 DEF CoreInv, FlagsInv
        <5>2. Vote(n, r + i, s.pkt.values[i]) \in W
          BY <5>1 DEF Voted
        <5>3. OneValue(W)
          BY DEF Handles
        <5> QED
          BY <4>1, <5>2, <5>3 DEF OneValue, Vote
      <4> QED
        BY <4>2, <4>3
    <3>4. s.pkt.values = p.values
      BY <3>2, <3>3
    <3>5. ASSUME NEW f \in s.pkt.flags PROVE Voted(W, f, r, p.values)
      <4>1. f = n \/ Voted(W, f, s.pkt.round, s.pkt.values)
        BY <2>3, <2>4 DEF CoreInv, FlagsInv
      <4> QED
        BY <4>1, <3>1, <3>4, <2>3
    <3> QED
      BY <3>4, <3>5
  <2>5. /\ OnAir(W, r, s.pkt) /\ RxInv(W, r, s.pkt, s.rx)
    BY <2>3 DEF CoreInv, OnAir
  <2> QED
    BY <2>1, <2>3, <2>4, <2>5 DEF SameRadio, SameLearner, Adopted
<1> QED
  BY <1>1, <1>2

(* The reply of an acceptor to an accept request: it votes, since no other
   ballot has its promise, and reports its own ballot. *)
LEMMA ReplyAcceptLemma ==
  ASSUME NEW W, NEW r, Begins(r), NEW n \in Nodes, NEW s, NEW p,
         OnAir(W, r, s.pkt), s.pkt.phase = MULTIPAXOS_ACCEPT,
         s.pkt.values = p.values, RxInv(W, r, s.pkt, s.rx),
         AcceptorInv(W, r, n, s.acceptor), OnAir(W, r, p),
         Voted(W, n, r, p.values)
  PROVE  LET q == ReplyAccept(s, p).s IN
         /\ q.leader = s.leader /\ q.acceptor = Cast(s, p).acceptor
         /\ q.complete = s.complete
         /\ SameRadio(s, q) /\ SameLearner(s, q)
         /\ OnAir(W, r, q.pkt) /\ q.pkt.phase = MULTIPAXOS_ACCEPT
         /\ q.pkt.values = p.values /\ q.pkt.flags = s.pkt.flags
         /\ RxInv(W, r, q.pkt, q.rx)
<1> DEFINE c == Cast(s, p)
           min == Max({c.acceptor.min, s.rx.min, p.proposals[0]})
           top == IF p.proposals[0] < min THEN min ELSE s.pkt.proposals[0]
           q == ReplyAccept(s, p).s
<1>1. /\ 0 \in Batch /\ LeaderBallot \in Two /\ Two \subseteq Nat
      /\ p.ballot = LeaderBallot /\ s.acceptor.min \in Two
      /\ s.rx.min \in Two /\ p.proposals[0] \in Two /\ s.pkt.proposals[0] \in Two
  BY Constants, TwoType DEF Batch, Two, OnAir, PacketInv, AcceptorInv, RxInv
<1>2. Accept(s, p) = c
  BY <1>1, TwoType DEF Accept, Two
<1>3. /\ c.pkt = s.pkt /\ c.leader = s.leader /\ c.rx = s.rx
      /\ c.complete = s.complete /\ SameRadio(s, c) /\ SameLearner(s, c)
      /\ c.acceptor.min = LeaderBallot
  BY <1>1, CastFields
<1> HIDE DEF c
<1>4. min \in Two
  <2>1. \A x \in Two : x \in Int
    BY <1>1
  <2>2. min \in {c.acceptor.min, s.rx.min, p.proposals[0]}
    BY <1>1, <1>3, <2>1, MaxOfThree
  <2> QED
    BY <1>1, <1>3, <2>2
<1>5. q = [c EXCEPT !.rx.min = min, !.pkt.proposals[0] = top]
  BY <1>2, <1>3 DEF ReplyAccept, Work
<1>6. top \in Two
  BY <1>1, <1>4
<1> HIDE DEF q, min, top
<1>7. /\ q.leader = s.leader /\ q.acceptor = c.acceptor /\ q.complete = s.complete
      /\ SameRadio(s, q) /\ SameLearner(s, q)
  BY <1>3, <1>5 DEF SameRadio, SameLearner
<1>8. /\ q.rx = [s.rx EXCEPT !.min = min]
      /\ q.pkt = [s.pkt EXCEPT !.proposals[0] = top]
  BY <1>3, <1>5
<1>9. /\ q.rx.min = min /\ q.rx.max_heard = s.rx.max_heard
      /\ q.rx.proposals = s.rx.proposals /\ q.rx.values = s.rx.values
  BY <1>8
<1>10. /\ q.pkt.ballot = s.pkt.ballot /\ q.pkt.phase = s.pkt.phase
       /\ q.pkt.round = s.pkt.round /\ q.pkt.max_heard = s.pkt.max_heard
       /\ q.pkt.values = s.pkt.values /\ q.pkt.flags = s.pkt.flags
       /\ q.pkt.proposals = [s.pkt.proposals EXCEPT ![0] = top]
  BY <1>8
<1>11. RxInv(W, r, q.pkt, q.rx)
  BY <1>4, <1>9, <1>10 DEF RxInv
<1>12. q.pkt.proposals \in [Batch -> Two]
  BY <1>6, <1>10 DEF OnAir, PacketInv
<1>13. Backed(W, q.pkt.round, q.pkt.proposals, q.pkt.values)
  <2> SUFFICES ASSUME NEW i \in Batch, q.pkt.proposals[i] # 0
               PROVE  \E m \in Nodes : Vote(m, r + i, p.values[i]) \in W
    BY <1>10 DEF Backed, OnAir
  <2> QED
    BY DEF Voted
<1>14. OnAir(W, r, q.pkt)
  BY <1>10, <1>12, <1>13 DEF OnAir, PacketInv
<1> QED
  BY <1>7, <1>10, <1>11, <1>14 DEF q, c

(* The report of an acceptor in its promise: per round of the batch its own
   vote or one that it has heard of. *)
Mine(s, p, i) ==
  /\ Round(p.round + i) <= s.acceptor.last
  /\ s.acceptor.proposals[LogSlot(p.round + i)] > s.rx.proposals[i]

KnownBallots(s, p) ==
  [i \in Batch |-> IF Mine(s, p, i)
                   THEN s.acceptor.proposals[LogSlot(p.round + i)]
                   ELSE s.rx.proposals[i]]

KnownValues(s, p) ==
  [i \in Batch |-> IF Mine(s, p, i)
                   THEN s.acceptor.values[LogSlot(p.round + i)]
                   ELSE s.rx.values[i]]

(* Where the ballot is higher, the known votes, and the others elsewhere. *)
Merged(s, p, known, others) ==
  [i \in Batch |-> IF KnownBallots(s, p)[i] > p.proposals[i]
                   THEN known[i] ELSE others[i]]

(* What a promise changes in s; q is the node afterwards. *)
Promises(s, p, q) ==
  LET heard == Max({p.max_heard, s.rx.max_heard, s.acceptor.last})
  IN /\ q.leader = s.leader /\ q.complete = s.complete
     /\ SameRadio(s, q) /\ SameLearner(s, q)
     /\ q.acceptor.min = Max({s.acceptor.min, p.ballot})
     /\ q.acceptor.last = s.acceptor.last
     /\ q.acceptor.proposals = s.acceptor.proposals
     /\ q.acceptor.values = s.acceptor.values
     /\ q.pkt.ballot = s.pkt.ballot /\ q.pkt.phase = s.pkt.phase
     /\ q.pkt.round = s.pkt.round /\ q.pkt.flags = s.pkt.flags
     /\ q.pkt.max_heard = heard
     /\ q.pkt.proposals = Merged(s, p, KnownBallots(s, p), s.pkt.proposals)
     /\ q.pkt.values = Merged(s, p, KnownValues(s, p), s.pkt.values)
     /\ q.rx.min = s.rx.min /\ q.rx.max_heard = heard
     /\ q.rx.proposals = Merged(s, p, KnownBallots(s, p), p.proposals)
     /\ q.rx.values = Merged(s, p, KnownValues(s, p), p.values)

(* Which fields a promise changes. *)
LEMMA PrepareFields ==
  ASSUME NEW s, NEW p
  PROVE  Promises(s, p, Prepare(s, p).s)
<1> DEFINE q == Prepare(s, p).s
           heard == Max({p.max_heard, s.rx.max_heard, s.acceptor.last})
           min == Max({s.acceptor.min, p.ballot})
           pp == Merged(s, p, KnownBallots(s, p), s.pkt.proposals)
           pv == Merged(s, p, KnownValues(s, p), s.pkt.values)
           rp == Merged(s, p, KnownBallots(s, p), p.proposals)
           rv == Merged(s, p, KnownValues(s, p), p.values)
<1>1. q = [s EXCEPT !.acceptor.min = min, !.pkt.max_heard = heard,
                    !.pkt.proposals = pp, !.pkt.values = pv,
                    !.rx.max_heard = heard, !.rx.proposals = rp,
                    !.rx.values = rv]
  BY DEF Prepare, Work, Merged, KnownBallots, KnownValues, Mine
<1> HIDE DEF q, heard, min, pp, pv, rp, rv
<1>2. /\ q.leader = s.leader /\ q.complete = s.complete
      /\ SameRadio(s, q) /\ SameLearner(s, q)
  BY <1>1 DEF SameRadio, SameLearner
<1>3. /\ q.acceptor = [s.acceptor EXCEPT !.min = min]
      /\ q.pkt = [s.pkt EXCEPT !.max_heard = heard, !.proposals = pp, !.values = pv]
      /\ q.rx = [s.rx EXCEPT !.max_heard = heard, !.proposals = rp, !.values = rv]
  BY <1>1
<1>4. /\ q.acceptor.min = min /\ q.acceptor.last = s.acceptor.last
      /\ q.acceptor.proposals = s.acceptor.proposals
      /\ q.acceptor.values = s.acceptor.values
  BY <1>3
<1>5. /\ q.pkt.ballot = s.pkt.ballot /\ q.pkt.phase = s.pkt.phase
      /\ q.pkt.round = s.pkt.round /\ q.pkt.flags = s.pkt.flags
      /\ q.pkt.max_heard = heard /\ q.pkt.proposals = pp /\ q.pkt.values = pv
  BY <1>3
<1>6. /\ q.rx.min = s.rx.min /\ q.rx.max_heard = heard
      /\ q.rx.proposals = rp /\ q.rx.values = rv
  BY <1>3
<1> QED
  BY <1>2, <1>4, <1>5, <1>6 DEF Promises, q, heard, min, pp, pv, rp, rv

(* Reports that are taken from backed ones are backed. *)
LEMMA MergedLemma ==
  ASSUME NEW W, NEW r, NEW s, NEW p, NEW ps \in [Batch -> Two],
         NEW vs \in [Batch -> Bytes], Backed(W, r, ps, vs),
         KnownBallots(s, p) \in [Batch -> Two],
         KnownValues(s, p) \in [Batch -> Bytes],
         Backed(W, r, KnownBallots(s, p), KnownValues(s, p))
  PROVE  LET mp == Merged(s, p, KnownBallots(s, p), ps)
             mv == Merged(s, p, KnownValues(s, p), vs)
         IN /\ mp \in [Batch -> Two] /\ mv \in [Batch -> Bytes]
            /\ Backed(W, r, mp, mv)
<1> DEFINE mp == Merged(s, p, KnownBallots(s, p), ps)
           mv == Merged(s, p, KnownValues(s, p), vs)
<1>1. mp \in [Batch -> Two] /\ mv \in [Batch -> Bytes]
  BY DEF Merged
<1>2. ASSUME NEW i \in Batch, mp[i] # 0
      PROVE  \E m \in Nodes : Vote(m, r + i, mv[i]) \in W
  <2>1. CASE KnownBallots(s, p)[i] > p.proposals[i]
    <3>1. mp[i] = KnownBallots(s, p)[i] /\ mv[i] = KnownValues(s, p)[i]
      BY <2>1 DEF Merged
    <3> QED
      BY <1>2, <3>1 DEF Backed
  <2>2. CASE ~(KnownBallots(s, p)[i] > p.proposals[i])
    <3>1. mp[i] = ps[i] /\ mv[i] = vs[i]
      BY <2>2 DEF Merged
    <3> QED
      BY <1>2, <3>1 DEF Backed
  <2> QED
    BY <2>1, <2>2
<1> QED
  BY <1>1, <1>2 DEF Backed

(* What an acceptor knows of the batch r was voted for; an acceptor that voted
   in it knows a vote for every round of the batch. *)
LEMMA KnownLemma ==
  ASSUME NEW W, NEW r, Begins(r), NEW n \in Nodes, NEW s, NEW p, p.round = r,
         s.pkt.round = r, RxInv(W, r, s.pkt, s.rx),
         AcceptorInv(W, r, n, s.acceptor)
  PROVE  /\ KnownBallots(s, p) \in [Batch -> Two]
         /\ KnownValues(s, p) \in [Batch -> Bytes]
         /\ Backed(W, r, KnownBallots(s, p), KnownValues(s, p))
         /\ s.acceptor.last = LastOf(r) =>
              \A i \in Batch : KnownBallots(s, p)[i] = LeaderBallot
<1>1. /\ \A i \in Batch : /\ LogSlot(r + i) \in LogSlots /\ r + i \in Nat
                          /\ r + i <= LastOf(r) /\ Round(r + i) = r + i
      /\ LastOf(r) \in Nat /\ r \in Nat
  BY BatchRounds
<1>2. ASSUME NEW i \in Batch
      PROVE  KnownBallots(s, p)[i] \in Two /\ KnownValues(s, p)[i] \in Bytes
  <2>1. /\ s.acceptor.proposals[LogSlot(r + i)] \in Two
        /\ s.acceptor.values[LogSlot(r + i)] \in Bytes
    BY <1>1 DEF AcceptorInv
  <2>2. s.rx.proposals[i] \in Two /\ s.rx.values[i] \in Bytes
    BY DEF RxInv
  <2> QED
    BY <2>1, <2>2 DEF KnownBallots, KnownValues
<1>3. KnownBallots(s, p) \in [Batch -> Two]
  BY <1>2 DEF KnownBallots
<1>4. KnownValues(s, p) \in [Batch -> Bytes]
  BY <1>2 DEF KnownValues
<1>5. ASSUME NEW i \in Batch, r + i <= s.acceptor.last
      PROVE  s.acceptor.last = LastOf(r)
  <2>1. /\ s.acceptor.last \in Ends /\ s.acceptor.last <= LastOf(r)
        /\ s.acceptor.last \in Nat /\ r - 1 \in Ends
    BY EndsType DEF AcceptorInv, Begins
  <2>2. s.acceptor.last > r - 1
    BY <1>1, <1>5, <2>1 DEF Batch
  <2>3. s.acceptor.last >= (r - 1) + MULTIPAXOS_PKT_SIZE
    BY <2>1, <2>2, EndsApart
  <2> QED
    BY <1>1, <2>1, <2>3, Constants DEF LastOf
<1>6. ASSUME NEW i \in Batch, KnownBallots(s, p)[i] # 0
      PROVE  \E m \in Nodes : Vote(m, r + i, KnownValues(s, p)[i]) \in W
  <2>1. CASE Mine(s, p, i)
    <3>1. KnownValues(s, p)[i] = s.acceptor.values[LogSlot(r + i)]
      BY <2>1 DEF KnownValues
    <3>2. s.acceptor.last = LastOf(r)
      BY <2>1, <1>1, <1>5 DEF Mine
    <3> QED
      BY <3>1, <3>2 DEF AcceptorInv
  <2>2. CASE ~Mine(s, p, i)
    <3>1. /\ KnownBallots(s, p)[i] = s.rx.proposals[i]
          /\ KnownValues(s, p)[i] = s.rx.values[i]
      BY <2>2 DEF KnownBallots, KnownValues
    <3> QED
      BY <1>6, <3>1 DEF RxInv, Backed
  <2> QED
    BY <2>1, <2>2
<1>7. ASSUME s.acceptor.last = LastOf(r), NEW i \in Batch
      PROVE  KnownBallots(s, p)[i] = LeaderBallot
  <2>1. s.acceptor.proposals[LogSlot(r + i)] = LeaderBallot
    BY <1>7 DEF AcceptorInv
  <2>2. s.rx.proposals[i] \in Two
    BY DEF RxInv
  <2>3. Mine(s, p, i) \/ s.rx.proposals[i] = LeaderBallot
    BY <1>1, <1>7, <2>1, <2>2, TwoType DEF Mine, Two
  <2> QED
    BY <2>1, <2>3 DEF KnownBallots
<1> QED
  BY <1>3, <1>4, <1>6, <1>7 DEF Backed

(* What a promise leaves of s; q is the node afterwards. *)
Promised(W, r, n, s, q) ==
  /\ q.leader = s.leader /\ q.complete = s.complete
  /\ SameRadio(s, q) /\ SameLearner(s, q)
  /\ AcceptorInv(W, r, n, q.acceptor)
  /\ q.acceptor.last = s.acceptor.last
  /\ q.acceptor.proposals = s.acceptor.proposals
  /\ q.acceptor.values = s.acceptor.values
  /\ OnAir(W, r, q.pkt) /\ q.pkt.phase = MULTIPAXOS_PREPARE
  /\ q.pkt.flags = s.pkt.flags
  /\ RxInv(W, r, q.pkt, q.rx)
  /\ q.acceptor.last = LastOf(r) =>
       \A i \in Batch : q.rx.proposals[i] = LeaderBallot

(* A promise leaves a sound node; where the acceptor voted in the batch
   itself, it has heard of a vote for every round of it. *)
LEMMA PrepareLemma ==
  ASSUME NEW W, NEW r, Begins(r), NEW n \in Nodes, NEW s, NEW p,
         OnAir(W, r, s.pkt), s.pkt.phase = MULTIPAXOS_PREPARE,
         RxInv(W, r, s.pkt, s.rx), AcceptorInv(W, r, n, s.acceptor),
         OnAir(W, r, p)
  PROVE  Promised(W, r, n, s, Prepare(s, p).s)
<1> DEFINE q == Prepare(s, p).s
           heard == Max({p.max_heard, s.rx.max_heard, s.acceptor.last})
           kb == KnownBallots(s, p)
           kv == KnownValues(s, p)
<1>1. /\ q.leader = s.leader /\ q.complete = s.complete
      /\ SameRadio(s, q) /\ SameLearner(s, q)
      /\ q.acceptor.min = Max({s.acceptor.min, p.ballot})
      /\ q.acceptor.last = s.acceptor.last
      /\ q.acceptor.proposals = s.acceptor.proposals
      /\ q.acceptor.values = s.acceptor.values
      /\ q.pkt.ballot = s.pkt.ballot /\ q.pkt.phase = s.pkt.phase
      /\ q.pkt.round = s.pkt.round /\ q.pkt.flags = s.pkt.flags
      /\ q.pkt.max_heard = heard
      /\ q.pkt.proposals = Merged(s, p, kb, s.pkt.proposals)
      /\ q.pkt.values = Merged(s, p, kv, s.pkt.values)
      /\ q.rx.min = s.rx.min /\ q.rx.max_heard = heard
      /\ q.rx.proposals = Merged(s, p, kb, p.proposals)
      /\ q.rx.values = Merged(s, p, kv, p.values)
  <2>1. Promises(s, p, q)
    BY PrepareFields
  <2> HIDE DEF q
  <2> QED
    BY <2>1 DEF Promises
<1>2. /\ kb \in [Batch -> Two] /\ kv \in [Batch -> Bytes]
      /\ Backed(W, r, kb, kv)
      /\ s.acceptor.last = LastOf(r) => \A i \in Batch : kb[i] = LeaderBallot
  <2>1. p.round = r /\ s.pkt.round = r
    BY DEF OnAir
  <2> QED
    BY <2>1, KnownLemma
<1>3. /\ s.pkt.proposals \in [Batch -> Two] /\ s.pkt.values \in [Batch -> Bytes]
      /\ Backed(W, r, s.pkt.proposals, s.pkt.values) /\ s.pkt.round = r
  BY DEF OnAir, PacketInv
<1>4. /\ p.proposals \in [Batch -> Two] /\ p.values \in [Batch -> Bytes]
      /\ Backed(W, r, p.proposals, p.values) /\ p.ballot = LeaderBallot
  BY DEF OnAir, PacketInv
<1>5. heard \in Ends /\ heard <= LastOf(r)
  <2>1. /\ p.max_heard \in Ends /\ p.max_heard <= LastOf(r)
        /\ s.rx.max_heard \in Ends /\ s.rx.max_heard <= LastOf(r)
        /\ s.acceptor.last \in Ends /\ s.acceptor.last <= LastOf(r)
    BY DEF OnAir, PacketInv, RxInv, AcceptorInv
  <2>2. \A e \in Ends : e \in Int
    BY EndsType
  <2>3. heard \in {p.max_heard, s.rx.max_heard, s.acceptor.last}
    BY <2>1, <2>2, MaxOfThree
  <2> QED
    BY <2>1, <2>3
<1>6. q.acceptor.min \in Two
  <2>1. s.acceptor.min \in Two
    BY DEF AcceptorInv
  <2>2. LeaderBallot \in Two /\ \A b \in Two : b \in Int
    BY TwoType DEF Two
  <2> QED
    BY <1>1, <1>4, <2>1, <2>2, MaxOfTwo
<1> HIDE DEF q, heard, kb, kv
<1>7. AcceptorInv(W, r, n, q.acceptor)
  BY <1>1, <1>6 DEF AcceptorInv
<1>8. /\ q.pkt.proposals \in [Batch -> Two] /\ q.pkt.values \in [Batch -> Bytes]
      /\ Backed(W, r, q.pkt.proposals, q.pkt.values)
  BY <1>1, <1>2, <1>3, MergedLemma DEF kb, kv
<1>9. /\ q.rx.proposals \in [Batch -> Two] /\ q.rx.values \in [Batch -> Bytes]
      /\ Backed(W, r, q.rx.proposals, q.rx.values)
  BY <1>1, <1>2, <1>4, MergedLemma DEF kb, kv
<1>10. OnAir(W, r, q.pkt)
  BY <1>1, <1>3, <1>5, <1>8 DEF OnAir, PacketInv
<1>11. RxInv(W, r, q.pkt, q.rx)
  BY <1>1, <1>3, <1>5, <1>9 DEF RxInv
<1>12. ASSUME q.acceptor.last = LastOf(r), NEW i \in Batch
       PROVE  q.rx.proposals[i] = LeaderBallot
  <2>1. kb[i] = LeaderBallot /\ p.proposals[i] \in Two
    BY <1>1, <1>2, <1>4, <1>12
  <2>2. q.rx.proposals[i] = IF kb[i] > p.proposals[i] THEN kb[i] ELSE p.proposals[i]
    BY <1>1 DEF Merged, kb
  <2> QED
    BY <2>1, <2>2, TwoType DEF Two
<1> QED
  BY <1>1, <1>7, <1>10, <1>11, <1>12 DEF Promised, q

-----------------------------------------------------------------------------
(* The learner after it has learned the values of p. *)
LearnedValues(s, p) ==
  [k \in LogSlots |-> IF k \in Written(p) THEN p.values[EntryOf(p, k)]
                      ELSE s.learner.values[k]]

(* A learner is sound if the values it learns have a majority each. *)
LEMMA LearnedLemma ==
  ASSUME NEW W, NEW r, Begins(r), NEW s, NEW p, OnAir(W, r, p),
         LearnerInv(W, r, s), \A i \in Batch : Quorum(W, r + i, p.values[i])
  PROVE  LET q == Learned(s, p) IN
         /\ q.pkt = s.pkt /\ q.leader = s.leader /\ q.acceptor = s.acceptor
         /\ q.rx = s.rx /\ q.complete = s.complete /\ SameRadio(s, q)
         /\ LearnerInv(W, r, q)
<1> DEFINE q == Learned(s, p)
           last == Round(p.round + MULTIPAXOS_PKT_SIZE - 1)
           values == LearnedValues(s, p)
<1>1. q = [s EXCEPT !.chosen_this_round = TRUE, !.learner.values = values,
                    !.learner.last = last]
  <2>1. \A k : k \in Written(p) <=> \E i \in Batch : LogSlot(p.round + i) = k
    BY DEF Written
  <2>2. values = [k \in LogSlots |->
          IF \E i \in Batch : LogSlot(p.round + i) = k
          THEN p.values[CHOOSE i \in Batch : LogSlot(p.round + i) = k]
          ELSE s.learner.values[k]]
    BY <2>1 DEF LearnedValues, EntryOf
  <2> HIDE DEF values
  <2> QED
    BY <2>2 DEF Learned
<1> HIDE DEF q, values
<1>2. /\ q.pkt = s.pkt /\ q.leader = s.leader /\ q.acceptor = s.acceptor
      /\ q.rx = s.rx /\ q.complete = s.complete /\ SameRadio(s, q)
  BY <1>1 DEF SameRadio
<1>3. q.learner = [s.learner EXCEPT !.values = values, !.last = last]
  BY <1>1
<1>4. q.learner.values = values /\ q.learner.last = last
  BY <1>3
<1>5. p.round = r /\ p.values \in [Batch -> Bytes]
  BY DEF OnAir, PacketInv
<1>6. last = LastOf(r) /\ LastOf(r) \in Nat
  BY <1>5, BatchRounds DEF LastOf
<1>7. ASSUME NEW i \in Batch PROVE values[LogSlot(r + i)] = p.values[i]
  <2>1. LogSlot(r + i) \in LogSlots /\ r \in Nat
    BY BatchRounds
  <2>2. LogSlot(r + i) \in Written(p)
    BY <1>5 DEF Written
  <2>3. EntryOf(p, LogSlot(r + i)) = i
    <3>1. \A j \in Batch : LogSlot(p.round + j) = LogSlot(r + i) => j = i
      BY <1>5, <2>1, BatchRounds, BatchSlots DEF Fits
    <3> QED
      BY <1>5, <3>1 DEF EntryOf
  <2> QED
    BY <2>1, <2>2, <2>3 DEF values, LearnedValues
<1>8. values \in [LogSlots -> Bytes]
  <2>1. ASSUME NEW k \in LogSlots PROVE values[k] \in Bytes
    <3>1. CASE k \in Written(p)
      <4>1. PICK i \in Batch : k = LogSlot(r + i)
        BY <3>1, <1>5 DEF Written
      <4> QED
        BY <4>1, <1>5, <1>7
    <3>2. CASE k \notin Written(p)
      BY <3>2 DEF values, LearnedValues, LearnerInv
    <3> QED
      BY <3>1, <3>2
  <2> QED
    BY <2>1 DEF values, LearnedValues
<1>9. LearnerInv(W, r, q)
  BY <1>4, <1>6, <1>7, <1>8 DEF LearnerInv
<1> QED
  BY <1>2, <1>9 DEF q

(* All of a request but its flags. *)
SameRequest(q, p) ==
  /\ q.ballot = p.ballot /\ q.phase = p.phase /\ q.round = p.round
  /\ q.max_heard = p.max_heard /\ q.values = p.values
  /\ q.proposals = p.proposals

(* What counting the replies changes; t is the outcome. *)
Tallied(W, r, n, w, p, new, t) ==
  LET flags == w.s.pkt.flags \cup p.flags
  IN /\ t.s.leader = w.s.leader /\ t.s.acceptor = w.s.acceptor
     /\ t.s.rx = w.s.rx /\ SameRadio(w.s, t.s)
     /\ SameRequest(t.s.pkt, w.s.pkt)
     /\ t.s.pkt.flags = IF new THEN flags \cup {n} ELSE flags
     /\ t.s.complete \in BOOLEAN /\ LearnerInv(W, r, t.s)
     /\ t.replies = Cardinality(w.s.pkt.flags)

(* Counting the replies: flags are merged, and a majority of votes is learned
   (multipaxos.c:333-372). *)
LEMMA TallyLemma ==
  ASSUME NEW W, NEW r, Begins(r), NEW n, NEW w, NEW p, NEW new \in BOOLEAN,
         OnAir(W, r, p), LearnerInv(W, r, w.s), w.s.complete \in BOOLEAN,
         p.phase = MULTIPAXOS_ACCEPT /\ Majority(Cardinality(w.s.pkt.flags)) =>
           \A i \in Batch : Quorum(W, r + i, p.values[i])
  PROVE  Tallied(W, r, n, w, p, new, Tally(n, w, p, new))
<1> DEFINE t == Tally(n, w, p, new)
           had == w.s.pkt.flags
           flags == IF new THEN had \cup p.flags \cup {n} ELSE had \cup p.flags
           all == p.phase = MULTIPAXOS_ACCEPT /\ had \cup p.flags = Nodes
           complete == w.s.complete \/ all
           s == [w.s EXCEPT !.pkt.flags = flags, !.complete = complete]
<1>1. t.s = Learn(s, p, Cardinality(had)) /\ t.replies = Cardinality(had)
  BY DEF Tally, Work
<1>2. complete \in BOOLEAN
  OBVIOUS
<1> HIDE DEF t, complete, flags
<1>3. /\ s.leader = w.s.leader /\ s.acceptor = w.s.acceptor /\ s.rx = w.s.rx
      /\ SameRadio(w.s, s) /\ SameLearner(w.s, s) /\ s.complete = complete
  BY DEF SameRadio, SameLearner
<1>4. s.pkt = [w.s.pkt EXCEPT !.flags = flags]
  OBVIOUS
<1> HIDE DEF s
<1>5. SameRequest(s.pkt, w.s.pkt) /\ s.pkt.flags = flags
  BY <1>4 DEF SameRequest
<1>6. LearnerInv(W, r, s)
  BY <1>3 DEF SameLearner, LearnerInv
<1>7. /\ t.s.pkt = s.pkt /\ t.s.leader = s.leader /\ t.s.acceptor = s.acceptor
      /\ t.s.rx = s.rx /\ t.s.complete = s.complete /\ SameRadio(s, t.s)
      /\ LearnerInv(W, r, t.s)
  <2>1. CASE p.phase = MULTIPAXOS_ACCEPT /\ Majority(Cardinality(had))
    <3>1. t.s = Learned(s, p)
      BY <1>1, <2>1 DEF Learn
    <3> QED
      BY <2>1, <3>1, <1>6, LearnedLemma
  <2>2. CASE ~(p.phase = MULTIPAXOS_ACCEPT /\ Majority(Cardinality(had)))
    <3>1. t.s = s
      BY <1>1, <2>2 DEF Learn
    <3> QED
      BY <3>1, <1>6 DEF SameRadio
  <2> QED
    BY <2>1, <2>2
<1>8. SameRadio(w.s, t.s)
  BY <1>3, <1>7 DEF SameRadio
<1> QED
  BY <1>1, <1>2, <1>3, <1>5, <1>7, <1>8 DEF Tallied, t, flags

(* Flags that are votes and make a majority show that the batch is chosen. *)
LEMMA FlagsMakeQuorum ==
  ASSUME NEW W, NEW r, NEW F \in SUBSET Nodes, NEW values,
         \A f \in F : Voted(W, f, r, values), Majority(Cardinality(F))
  PROVE  \A i \in Batch : Quorum(W, r + i, values[i])
BY DEF Voted, Quorum

(* Votes for a batch fix its values. *)
LEMMA VotedAgrees ==
  ASSUME NEW W, OneValue(W), NEW r, NEW n, NEW values, Voted(W, n, r, values)
  PROVE  Agreed(W, r, values)
<1> SUFFICES ASSUME NEW x \in W, NEW i \in Batch, x.round = r + i
             PROVE  x.value = values[i]
  BY DEF Agreed
<1>1. Vote(n, r + i, values[i]) \in W
  BY DEF Voted
<1>2. /\ Vote(n, r + i, values[i]).round = r + i
      /\ Vote(n, r + i, values[i]).value = values[i]
  BY DEF Vote
<1> QED
  BY <1>1, <1>2 DEF OneValue

(* What handling a request leaves: a sound node that has a request for the
   batch r, and a majority of replies that is one. *)
Handled(W, r, s, p, w) ==
  /\ OnAir(W, r, w.s.pkt) /\ SameRadio(s, w.s) /\ w.s.leader = s.leader
  /\ p.phase = MULTIPAXOS_ACCEPT =>
       /\ w.s.acceptor.last = LastOf(r)
       /\ w.s.acceptor.proposals = LogBallots(s, p)
       /\ w.s.acceptor.values = LogValues(s, p)
       /\ w.s.pkt.phase = MULTIPAXOS_ACCEPT
       /\ Majority(w.replies) =>
            \A i \in Batch : Quorum(W, r + i, w.s.pkt.values[i])
  /\ p.phase # MULTIPAXOS_ACCEPT =>
       /\ w.s.acceptor.last = s.acceptor.last
       /\ w.s.acceptor.proposals = s.acceptor.proposals
       /\ w.s.acceptor.values = s.acceptor.values
       /\ Majority(w.replies) =>
            /\ w.s.pkt.phase = MULTIPAXOS_PREPARE
            /\ w.s.acceptor.last = LastOf(r) =>
                 \A i \in Batch : w.s.rx.proposals[i] = LeaderBallot

(* An accept request that a node handles. *)
LEMMA AcceptHandled ==
  ASSUME NEW W, NEW r, Begins(r), NEW n \in Nodes, NEW s, NEW p,
         CoreInv(W, r, n, s), Handles(W, r, n, p),
         p.phase = MULTIPAXOS_ACCEPT, NEW new \in BOOLEAN
  PROVE  LET w == Tally(n, ReplyAccept(Adopt(s, p), p), p, new) IN
         CoreInv(W, r, n, w.s) /\ Handled(W, r, s, p, w)
<1> DEFINE a == Adopt(s, p)
           v == ReplyAccept(a, p)
           w == Tally(n, v, p, new)
           flags == v.s.pkt.flags \cup p.flags
<1>1. /\ a.leader = s.leader /\ a.acceptor = s.acceptor
      /\ a.complete = s.complete /\ SameRadio(s, a) /\ SameLearner(s, a)
      /\ OnAir(W, r, a.pkt) /\ a.pkt.phase = MULTIPAXOS_ACCEPT
      /\ RxInv(W, r, a.pkt, a.rx) /\ a.pkt.values = p.values
      /\ \A f \in a.pkt.flags : Voted(W, f, r, p.values)
  <2>1. Adopted(W, r, s, p, a)
    BY AdoptLemma
  <2> HIDE DEF a
  <2> QED
    BY <2>1 DEF Adopted
<1> HIDE DEF a
<1>2. /\ OnAir(W, r, p) /\ OneValue(W)
      /\ \A f \in p.flags \cup {n} : Voted(W, f, r, p.values)
  BY DEF Handles
<1>3. AcceptorInv(W, r, n, a.acceptor) /\ Voted(W, n, r, p.values)
  BY <1>1, <1>2 DEF CoreInv
<1>4. /\ v.s.leader = a.leader /\ v.s.acceptor = Cast(a, p).acceptor
      /\ v.s.complete = a.complete
      /\ SameRadio(a, v.s) /\ SameLearner(a, v.s)
      /\ OnAir(W, r, v.s.pkt) /\ v.s.pkt.phase = MULTIPAXOS_ACCEPT
      /\ v.s.pkt.values = p.values /\ v.s.pkt.flags = a.pkt.flags
      /\ RxInv(W, r, v.s.pkt, v.s.rx)
  BY <1>1, <1>2, <1>3, ReplyAcceptLemma
<1>5. /\ AcceptorInv(W, r, n, v.s.acceptor) /\ v.s.acceptor.last = LastOf(r)
  BY <1>2, <1>3, <1>4, CastLemma
<1>6. /\ v.s.acceptor.proposals = LogBallots(s, p)
      /\ v.s.acceptor.values = LogValues(s, p)
  <2>1. LogBallots(a, p) = LogBallots(s, p) /\ LogValues(a, p) = LogValues(s, p)
    BY <1>1 DEF LogBallots, LogValues, Nullified
  <2>2. /\ Cast(a, p).acceptor.proposals = LogBallots(a, p)
        /\ Cast(a, p).acceptor.values = LogValues(a, p)
    BY CastFields
  <2> QED
    BY <1>4, <2>1, <2>2
<1> HIDE DEF v
<1>7. v.s.pkt.flags \in SUBSET Nodes /\ p.flags \in SUBSET Nodes
  BY <1>2, <1>4 DEF OnAir, PacketInv
<1>8. Majority(Cardinality(v.s.pkt.flags)) =>
        \A i \in Batch : Quorum(W, r + i, p.values[i])
  BY <1>1, <1>4, <1>7, FlagsMakeQuorum
<1>9. LearnerInv(W, r, v.s) /\ v.s.complete \in BOOLEAN
  BY <1>1, <1>4 DEF CoreInv, LearnerInv, SameLearner
<1>10. /\ w.s.leader = v.s.leader /\ w.s.acceptor = v.s.acceptor
       /\ w.s.rx = v.s.rx /\ SameRadio(v.s, w.s)
       /\ SameRequest(w.s.pkt, v.s.pkt)
       /\ w.s.pkt.flags = IF new THEN flags \cup {n} ELSE flags
       /\ w.s.complete \in BOOLEAN /\ LearnerInv(W, r, w.s)
       /\ w.replies = Cardinality(v.s.pkt.flags)
  <2>1. Tallied(W, r, n, v, p, new, w)
    BY <1>2, <1>8, <1>9, TallyLemma
  <2> HIDE DEF w
  <2> QED
    BY <2>1 DEF Tallied
<1> HIDE DEF w
<1>11. w.s.pkt.flags \subseteq Nodes
  BY <1>7, <1>10
<1>12. OnAir(W, r, w.s.pkt)
  BY <1>4, <1>10, <1>11 DEF OnAir, PacketInv, SameRequest
<1>13. /\ w.s.pkt.phase = MULTIPAXOS_ACCEPT /\ w.s.pkt.values = p.values
       /\ w.s.pkt.round = r
  BY <1>4, <1>10, <1>12 DEF SameRequest, OnAir
<1>14. FlagsInv(W, n, w.s.pkt)
  <2>1. \A f \in w.s.pkt.flags : Voted(W, f, r, p.values)
    BY <1>1, <1>2, <1>4, <1>10
  <2> QED
    BY <1>3, <1>13, <2>1 DEF FlagsInv
<1>15. RxInv(W, r, w.s.pkt, w.s.rx)
  BY <1>4, <1>10 DEF RxInv, SameRequest
<1>16. LeaderInv(W, r, n, w.s)
  <2>1. CASE n = Initiator
    <3>1. Agreed(W, r, p.values)
      BY <1>2, <1>3, VotedAgrees
    <3>2. s.leader.phase = MULTIPAXOS_ACCEPT => s.leader.values = p.values
      <4> SUFFICES ASSUME s.leader.phase = MULTIPAXOS_ACCEPT
                   PROVE  s.leader.values = p.values
        OBVIOUS
      <4>1. /\ s.pkt.phase = MULTIPAXOS_ACCEPT /\ s.pkt.values = s.leader.values
            /\ s.pkt.ballot = LeaderBallot /\ s.pkt.round = r
        BY <2>1 DEF CoreInv, LeaderInv
      <4>2. a = s
        BY <4>1, <1>2 DEF a, Adopt, NewPhase, OnAir
      <4> QED
        BY <1>1, <4>1, <4>2
    <3>3. w.s.leader = s.leader /\ w.s.acceptor.last = LastOf(r)
      BY <1>1, <1>4, <1>5, <1>10
    <3>4. w.s.pkt.ballot = LeaderBallot
      BY <1>12 DEF OnAir
    <3> QED
      BY <1>13, <2>1, <3>1, <3>2, <3>3, <3>4 DEF CoreInv, LeaderInv
  <2>2. CASE n # Initiator
    BY <1>1, <1>4, <1>10, <2>2 DEF CoreInv, LeaderInv
  <2> QED
    BY <2>1, <2>2
<1>17. CoreInv(W, r, n, w.s)
  BY <1>5, <1>10, <1>12, <1>14, <1>15, <1>16 DEF CoreInv, OnAir
<1>18. SameRadio(s, w.s)
  BY <1>1, <1>4, <1>10 DEF SameRadio
<1>19. Handled(W, r, s, p, w)
  BY <1>1, <1>4, <1>5, <1>6, <1>8, <1>10, <1>12, <1>13, <1>18 DEF Handled
<1> QED
  BY <1>17, <1>19 DEF w, v, a

(* A prepare request that a node handles. *)
LEMMA PrepareHandled ==
  ASSUME NEW W, NEW r, Begins(r), NEW n \in Nodes, NEW s, NEW p,
         CoreInv(W, r, n, s), Handles(W, r, n, p),
         p.phase = MULTIPAXOS_PREPARE, NotOlder(p, s.pkt), NEW new \in BOOLEAN
  PROVE  LET w == Tally(n, Prepare(Adopt(s, p), p), p, new) IN
         CoreInv(W, r, n, w.s) /\ Handled(W, r, s, p, w)
<1> DEFINE a == Adopt(s, p)
           v == Prepare(a, p)
           w == Tally(n, v, p, new)
           flags == v.s.pkt.flags \cup p.flags
<1>1. /\ a.leader = s.leader /\ a.acceptor = s.acceptor
      /\ a.complete = s.complete /\ SameRadio(s, a) /\ SameLearner(s, a)
      /\ OnAir(W, r, a.pkt) /\ a.pkt.phase = MULTIPAXOS_PREPARE
      /\ RxInv(W, r, a.pkt, a.rx)
  <2>1. Adopted(W, r, s, p, a)
    BY AdoptLemma
  <2> HIDE DEF a
  <2> QED
    BY <2>1 DEF Adopted
<1> HIDE DEF a
<1>2. OnAir(W, r, p) /\ p.phase # MULTIPAXOS_ACCEPT
  BY DEF Handles, MULTIPAXOS_PREPARE, MULTIPAXOS_ACCEPT
<1>3. AcceptorInv(W, r, n, a.acceptor)
  BY <1>1 DEF CoreInv
<1>4. /\ v.s.leader = a.leader /\ v.s.complete = a.complete
      /\ SameRadio(a, v.s) /\ SameLearner(a, v.s)
      /\ AcceptorInv(W, r, n, v.s.acceptor)
      /\ v.s.acceptor.last = a.acceptor.last
      /\ v.s.acceptor.proposals = a.acceptor.proposals
      /\ v.s.acceptor.values = a.acceptor.values
      /\ OnAir(W, r, v.s.pkt) /\ v.s.pkt.phase = MULTIPAXOS_PREPARE
      /\ RxInv(W, r, v.s.pkt, v.s.rx)
      /\ v.s.acceptor.last = LastOf(r) =>
           \A i \in Batch : v.s.rx.proposals[i] = LeaderBallot
  <2>1. Promised(W, r, n, a, v.s)
    BY <1>1, <1>2, <1>3, PrepareLemma
  <2> HIDE DEF v
  <2> QED
    BY <2>1 DEF Promised
<1> HIDE DEF v
<1>5. v.s.pkt.flags \in SUBSET Nodes /\ p.flags \in SUBSET Nodes
  BY <1>2, <1>4 DEF OnAir, PacketInv
<1>6. LearnerInv(W, r, v.s) /\ v.s.complete \in BOOLEAN
  BY <1>1, <1>4 DEF CoreInv, LearnerInv, SameLearner
<1>7. /\ w.s.leader = v.s.leader /\ w.s.acceptor = v.s.acceptor
      /\ w.s.rx = v.s.rx /\ SameRadio(v.s, w.s)
      /\ SameRequest(w.s.pkt, v.s.pkt)
      /\ w.s.pkt.flags = IF new THEN flags \cup {n} ELSE flags
      /\ w.s.complete \in BOOLEAN /\ LearnerInv(W, r, w.s)
  <2>1. Tallied(W, r, n, v, p, new, w)
    BY <1>2, <1>6, TallyLemma
  <2> HIDE DEF w
  <2> QED
    BY <2>1 DEF Tallied
<1> HIDE DEF w
<1>8. w.s.pkt.flags \subseteq Nodes
  BY <1>5, <1>7
<1>9. OnAir(W, r, w.s.pkt) /\ w.s.pkt.phase = MULTIPAXOS_PREPARE
  BY <1>4, <1>7, <1>8 DEF OnAir, PacketInv, SameRequest
<1>10. FlagsInv(W, n, w.s.pkt)
  BY <1>9 DEF FlagsInv, MULTIPAXOS_PREPARE, MULTIPAXOS_ACCEPT
<1>11. RxInv(W, r, w.s.pkt, w.s.rx)
  BY <1>4, <1>7 DEF RxInv, SameRequest
<1>12. LeaderInv(W, r, n, w.s)
  <2>1. CASE n = Initiator
    <3>1. /\ s.pkt.ballot = LeaderBallot /\ s.pkt.round = r
          /\ s.pkt.phase \in 0..2 /\ p.ballot = LeaderBallot /\ p.round = r
      BY <2>1, <1>2 DEF CoreInv, LeaderInv, PacketInv, OnAir
    <3>2. s.pkt.phase # MULTIPAXOS_ACCEPT
      BY <3>1, TwoType, BatchRounds
      DEF NotOlder, MULTIPAXOS_PREPARE, MULTIPAXOS_ACCEPT
    <3>3. /\ s.leader.phase # MULTIPAXOS_ACCEPT /\ ~s.leader.got_majority
      BY <2>1, <3>2 DEF CoreInv, LeaderInv
    <3>4. w.s.leader = s.leader /\ w.s.acceptor.last = s.acceptor.last
      BY <1>1, <1>4, <1>7
    <3>5. w.s.pkt.ballot = LeaderBallot /\ w.s.pkt.round = r
      BY <1>9 DEF OnAir
    <3>6. w.s.pkt.phase # MULTIPAXOS_ACCEPT
      BY <1>9 DEF MULTIPAXOS_PREPARE, MULTIPAXOS_ACCEPT
    <3> QED
      BY <1>9, <2>1, <3>3, <3>4, <3>5, <3>6 DEF CoreInv, LeaderInv
  <2>2. CASE n # Initiator
    BY <1>1, <1>4, <1>7, <2>2 DEF CoreInv, LeaderInv
  <2> QED
    BY <2>1, <2>2
<1>13. CoreInv(W, r, n, w.s)
  BY <1>4, <1>7, <1>9, <1>10, <1>11, <1>12 DEF CoreInv, OnAir
<1>14. SameRadio(s, w.s)
  BY <1>1, <1>4, <1>7 DEF SameRadio
<1>15. Handled(W, r, s, p, w)
  BY <1>1, <1>2, <1>4, <1>7, <1>9, <1>14 DEF Handled
<1> QED
  BY <1>13, <1>15 DEF w, v, a

(* No reply is no majority. *)
LEMMA NobodyIsNoMajority == ~Majority(0)
<1>1. Cardinality(Nodes) \in Nat
  BY Constants, FS_CardinalityType
<1> QED
  BY <1>1 DEF Majority

(* The acceptor: whatever request is on the air, the node handles it or
   answers it with its newer one (multipaxos.c:205-372). *)
LEMMA AcceptorLemma ==
  ASSUME NEW W, NEW r, Begins(r), NEW n \in Nodes, NEW s, NEW p,
         CoreInv(W, r, n, s), Handles(W, r, n, p)
  PROVE  LET w == Acceptor(n, s, p) IN
         CoreInv(W, r, n, w.s) /\ Handled(W, r, s, p, w)
<1> DEFINE w == Acceptor(n, s, p)
           new == NewPhase(p, s.pkt)
<1>1. /\ OnAir(W, r, p) /\ p.ballot = LeaderBallot /\ p.round = r
      /\ p.phase \in 1..2 /\ PacketInv(W, r, p)
  <2>1. /\ OnAir(W, r, p) /\ p.ballot = LeaderBallot /\ p.round = r
        /\ PacketInv(W, r, p)
    BY DEF Handles, OnAir
  <2>2. p.phase \in 0..2 /\ p.phase # 0
    BY <2>1, TwoType DEF PacketInv
  <2> QED
    BY <2>1, <2>2
<1>2. new \in BOOLEAN
  BY DEF NewPhase
<1> HIDE DEF new
<1>3. CASE ~NotOlder(p, s.pkt)
  <2>1. w = Work(s, TRUE, FALSE, 0)
    BY <1>3 DEF Acceptor
  <2>2. w.s = s /\ w.replies = 0
    BY <2>1 DEF Work
  <2>3. /\ s.pkt.ballot \in Two /\ s.pkt.round \in Nat /\ s.pkt.round <= r
        /\ s.pkt.phase \in 0..2 /\ PacketInv(W, r, s.pkt)
    BY DEF CoreInv, PacketInv
  <2>4. s.pkt.ballot = LeaderBallot
    BY <1>1, <1>3, <2>3, TwoType DEF NotOlder, Two
  <2>5. s.pkt.round = r
    BY <1>1, <1>3, <2>3, <2>4, BatchRounds DEF NotOlder
  <2>6. p.phase # MULTIPAXOS_ACCEPT
    <3>1. p.ballot = s.pkt.ballot /\ p.round = s.pkt.round
      BY <1>1, <2>4, <2>5
    <3>2. ~(p.phase >= s.pkt.phase)
      BY <1>3, <3>1 DEF NotOlder
    <3> QED
      BY <2>3, <3>2 DEF MULTIPAXOS_ACCEPT
  <2>7. OnAir(W, r, s.pkt) /\ SameRadio(s, s)
    BY <2>3, <2>4, <2>5 DEF OnAir, SameRadio
  <2> HIDE DEF w
  <2>8. Handled(W, r, s, p, w)
    BY <2>2, <2>6, <2>7, NobodyIsNoMajority DEF Handled
  <2> QED
    BY <2>2, <2>8 DEF w
<1>4. CASE NotOlder(p, s.pkt) /\ p.phase = MULTIPAXOS_PREPARE
  <2>1. w = Tally(n, Prepare(Adopt(s, p), p), p, new)
    BY <1>4 DEF Acceptor, new
  <2> QED
    BY <1>2, <1>4, <2>1, PrepareHandled
<1>5. CASE NotOlder(p, s.pkt) /\ p.phase # MULTIPAXOS_PREPARE
  <2>1. w = Tally(n, ReplyAccept(Adopt(s, p), p), p, new)
    BY <1>5 DEF Acceptor, new
  <2>2. p.phase = MULTIPAXOS_ACCEPT
    BY <1>1, <1>5 DEF MULTIPAXOS_PREPARE, MULTIPAXOS_ACCEPT
  <2> QED
    BY <1>2, <2>1, <2>2, AcceptHandled
<1> QED
  BY <1>3, <1>4, <1>5

-----------------------------------------------------------------------------
(* A new phase starts with nothing heard. *)
LEMMA NoRxLemma ==
  ASSUME NEW W, NEW r, Begins(r), NEW q
  PROVE  RxInv(W, r, q, NoRx)
<1>1. NoBatch \in [Batch -> Two] /\ NoBatch \in [Batch -> Bytes]
  BY Constants DEF NoBatch, Two, Bytes
<1>2. \A i \in Batch : NoBatch[i] = 0
  BY DEF NoBatch
<1>3. 0 \in Ends /\ 0 <= LastOf(r) /\ 0 \in Two
  BY BatchRounds, EndsType DEF Two
<1>4. /\ NoRx.min = 0 /\ NoRx.max_heard = 0 /\ NoRx.proposals = NoBatch
      /\ NoRx.values = NoBatch
  BY DEF NoRx
<1> QED
  BY <1>1, <1>2, <1>3, <1>4 DEF RxInv, Backed

(* What the leader may count on when it looks at request q: a majority of
   replies is one. *)
Counted(W, r, w, q) ==
  /\ q.ballot = LeaderBallot /\ q.round = r /\ q.phase \in 1..2
  /\ q.max_heard \in Ends /\ q.max_heard <= LastOf(r)
  /\ Majority(w.replies) =>
       /\ q.phase = MULTIPAXOS_ACCEPT =>
            /\ w.s.acceptor.last = LastOf(r)
            /\ \A i \in Batch : Quorum(W, r + i, w.s.pkt.values[i])
       /\ q.phase = MULTIPAXOS_PREPARE =>
            /\ w.s.pkt.phase = MULTIPAXOS_PREPARE
            /\ w.s.acceptor.last = LastOf(r) =>
                 \A i \in Batch : w.s.rx.proposals[i] = LeaderBallot

(* What the leader leaves of s; q is the node afterwards. *)
Led(W, r, n, s, q) ==
  /\ CoreInv(W, r, n, q) /\ OnAir(W, r, q.pkt)
  /\ q.acceptor = s.acceptor /\ SameRadio(s, q)

(* The last round that was heard of ends a batch, so the leader looks at the
   whole batch and asks for no other (multipaxos.c:402-424, 444). *)
LEMMA HeardIsBatch ==
  ASSUME NEW r, Begins(r), NEW q, q.round = r, q.max_heard \in Ends,
         q.max_heard <= LastOf(r)
  PROVE  /\ Heard(q) = Batch
         /\ ~(q.max_heard > Round(q.round + MULTIPAXOS_PKT_SIZE - 1))
<1>1. /\ q.max_heard \in Nat /\ r \in Nat /\ r - 1 \in Ends /\ LastOf(r) \in Nat
      /\ Round(LastOf(r)) = LastOf(r) /\ r + MULTIPAXOS_PKT_SIZE < Uint16
      /\ MULTIPAXOS_PKT_SIZE \in Nat /\ Uint16 \in Nat
  BY EndsType, BatchRounds, Constants DEF Begins, Fits
<1>2. ~(q.max_heard > Round(q.round + MULTIPAXOS_PKT_SIZE - 1))
  BY <1>1 DEF LastOf
<1>3. ASSUME NEW i \in Batch PROVE i <= Round(q.max_heard - q.round)
  <2>0. i \in Nat /\ i < MULTIPAXOS_PKT_SIZE
    BY <1>1 DEF Batch
  <2>1. CASE q.max_heard < q.round
    <3> DEFINE d == (q.max_heard - r) + Uint16
    <3>1. d \in Nat /\ d < Uint16 /\ i <= d
      BY <1>1, <2>0, <2>1
    <3>2. (q.max_heard - r) % Uint16 = d
      BY <1>1, <2>1, <3>1
    <3> QED
      BY <3>1, <3>2 DEF Round
  <2>2. CASE ~(q.max_heard < q.round)
    <3>1. q.max_heard > r - 1
      BY <1>1, <2>2
    <3>2. q.max_heard >= (r - 1) + MULTIPAXOS_PKT_SIZE
      BY <1>1, <3>1, EndsApart
    <3>3. q.max_heard - r \in Nat /\ q.max_heard - r < Uint16
      <4>1. q.max_heard <= r + MULTIPAXOS_PKT_SIZE - 1
        BY DEF LastOf
      <4> QED
        BY <1>1, <2>2, <4>1
    <3>4. Round(q.max_heard - r) = q.max_heard - r
      BY <3>3, RoundIsSame
    <3> QED
      BY <1>1, <2>0, <3>2, <3>4
  <2> QED
    BY <2>1, <2>2
<1> QED
  BY <1>2, <1>3 DEF Heard

(* What the leader proposes has the type of a batch, and it is what was heard
   where something was heard for every round. *)
LEMMA ProposedLemma ==
  ASSUME NEW s, NEW q, Heard(q) = Batch, s.leader.values \in [Batch -> Bytes],
         s.rx.values \in [Batch -> Bytes]
  PROVE  /\ ProposedValues(s, q) \in [Batch -> Bytes]
         /\ \A i \in Batch : s.rx.proposals[i] # 0 =>
              ProposedValues(s, q)[i] = s.rx.values[i]
<1>1. MULTIPAXOS_NO_OP \in Bytes
  BY Constants DEF MULTIPAXOS_NO_OP, Bytes
<1> QED
  BY <1>1 DEF ProposedValues

(* The accept request of the leader: which fields it sets. *)
LEMMA SendAcceptFields ==
  ASSUME NEW n, NEW s
  PROVE  LET q == SendAccept(n, s) IN
         /\ q.acceptor = s.acceptor /\ q.complete = s.complete
         /\ SameRadio(s, q) /\ SameLearner(s, q) /\ q.rx = NoRx
         /\ q.pkt.ballot = s.leader.ballot /\ q.pkt.phase = MULTIPAXOS_ACCEPT
         /\ q.pkt.round = s.pkt.round /\ q.pkt.max_heard = s.pkt.max_heard
         /\ q.pkt.values = s.leader.values /\ q.pkt.flags = {n}
         /\ q.pkt.proposals = [s.pkt.proposals EXCEPT ![0] = 0]
         /\ q.leader.phase = MULTIPAXOS_ACCEPT
         /\ q.leader.is_leader = s.leader.is_leader
         /\ q.leader.ballot = s.leader.ballot /\ q.leader.round = s.leader.round
         /\ q.leader.values = s.leader.values
         /\ q.leader.got_majority = s.leader.got_majority
         /\ q.leader.another = s.leader.another
<1> DEFINE q == SendAccept(n, s)
<1>1. /\ q.acceptor = s.acceptor /\ q.complete = s.complete
      /\ SameRadio(s, q) /\ SameLearner(s, q) /\ q.rx = NoRx
  BY DEF SendAccept, SameRadio, SameLearner
<1>2. q.pkt = [s.pkt EXCEPT !.ballot = s.leader.ballot,
                 !.phase = MULTIPAXOS_ACCEPT,
                 !.proposals = [s.pkt.proposals EXCEPT ![0] = 0],
                 !.values = s.leader.values, !.flags = {n}]
  BY DEF SendAccept
<1>3. q.leader = [s.leader EXCEPT !.phase = MULTIPAXOS_ACCEPT]
  BY DEF SendAccept
<1> HIDE DEF q
<1>4. /\ q.pkt.ballot = s.leader.ballot /\ q.pkt.phase = MULTIPAXOS_ACCEPT
      /\ q.pkt.round = s.pkt.round /\ q.pkt.max_heard = s.pkt.max_heard
      /\ q.pkt.values = s.leader.values /\ q.pkt.flags = {n}
      /\ q.pkt.proposals = [s.pkt.proposals EXCEPT ![0] = 0]
  BY <1>2
<1>5. /\ q.leader.phase = MULTIPAXOS_ACCEPT
      /\ q.leader.is_leader = s.leader.is_leader
      /\ q.leader.ballot = s.leader.ballot /\ q.leader.round = s.leader.round
      /\ q.leader.values = s.leader.values
      /\ q.leader.got_majority = s.leader.got_majority
      /\ q.leader.another = s.leader.another
  BY <1>3
<1> QED
  BY <1>1, <1>4, <1>5 DEF q

(* The leader asks for votes: for what an acceptor of the batch reported, or
   for its own values where nobody has voted. *)
LEMMA SendAcceptLemma ==
  ASSUME NEW W, NEW r, Begins(r), OneValue(W), NEW s,
         CoreInv(W, r, Initiator, s), OnAir(W, r, s.pkt),
         ~s.leader.got_majority, s.leader.phase = MULTIPAXOS_PREPARE,
         s.acceptor.last = LastOf(r) =>
           \A i \in Batch : \E m \in Nodes :
             Vote(m, r + i, s.leader.values[i]) \in W
  PROVE  Led(W, r, Initiator, s, SendAccept(Initiator, s))
<1> DEFINE q == SendAccept(Initiator, s)
           l == s.leader
<1>1. /\ q.acceptor = s.acceptor /\ q.complete = s.complete
      /\ SameRadio(s, q) /\ SameLearner(s, q) /\ q.rx = NoRx
      /\ q.pkt.ballot = l.ballot /\ q.pkt.phase = MULTIPAXOS_ACCEPT
      /\ q.pkt.round = s.pkt.round /\ q.pkt.max_heard = s.pkt.max_heard
      /\ q.pkt.values = l.values /\ q.pkt.flags = {Initiator}
      /\ q.pkt.proposals = [s.pkt.proposals EXCEPT ![0] = 0]
      /\ q.leader.phase = MULTIPAXOS_ACCEPT
      /\ q.leader.is_leader = l.is_leader
      /\ q.leader.ballot = l.ballot /\ q.leader.round = l.round
      /\ q.leader.values = l.values
      /\ q.leader.got_majority = l.got_majority
      /\ q.leader.another = l.another
  BY SendAcceptFields
<1>2. /\ l.ballot = LeaderBallot /\ l.values \in [Batch -> Bytes]
      /\ l.is_leader = TRUE /\ ~l.another /\ l.round = r
      /\ s.acceptor.last = LastOf(r) \/ W = {}
  <2>1. LeaderInv(W, r, Initiator, s)
    BY DEF CoreInv
  <2> QED
    BY <2>1 DEF LeaderInv
<1>3. /\ s.pkt.round = r /\ s.pkt.max_heard \in Ends /\ s.pkt.max_heard <= LastOf(r)
      /\ s.pkt.proposals \in [Batch -> Two] /\ r \in Nat /\ r - 1 \in Ends
      /\ Backed(W, r, s.pkt.proposals, s.pkt.values)
  BY DEF OnAir, PacketInv, Begins
<1> HIDE DEF q, l
<1>4. W # {} =>
        \A i \in Batch : \E m \in Nodes : Vote(m, r + i, l.values[i]) \in W
  BY <1>2 DEF l
<1>5. Agreed(W, r, l.values)
  <2> SUFFICES ASSUME NEW x \in W, NEW i \in Batch, x.round = r + i
               PROVE  x.value = l.values[i]
    BY DEF Agreed
  <2>1. PICK m \in Nodes : Vote(m, r + i, l.values[i]) \in W
    BY <1>4
  <2>2. /\ Vote(m, r + i, l.values[i]).round = r + i
        /\ Vote(m, r + i, l.values[i]).value = l.values[i]
    BY DEF Vote
  <2> QED
    BY <2>1, <2>2 DEF OneValue
<1>6. 0 \in Two /\ LeaderBallot \in Two /\ LeaderBallot # 0
  BY TwoType DEF Two
<1>7. q.pkt.proposals \in [Batch -> Two]
  BY <1>1, <1>3, <1>6
<1>8. Backed(W, r, q.pkt.proposals, q.pkt.values)
  <2> SUFFICES ASSUME NEW i \in Batch, q.pkt.proposals[i] # 0
               PROVE  \E m \in Nodes : Vote(m, r + i, l.values[i]) \in W
    BY <1>1 DEF Backed
  <2>1. s.pkt.proposals[i] # 0
    BY <1>1, <1>3
  <2>2. W # {}
    BY <1>3, <2>1 DEF Backed
  <2> QED
    BY <1>4, <2>2
<1>9. PacketInv(W, r, q.pkt)
  <2>1. Initiator \in Nodes
    BY Constants
  <2>2. q.pkt.phase \in 0..2 /\ q.pkt.phase # 0
    BY <1>1 DEF MULTIPAXOS_ACCEPT
  <2> QED
    BY <1>1, <1>2, <1>3, <1>6, <1>7, <1>8, <2>1, <2>2 DEF PacketInv
<1>10. OnAir(W, r, q.pkt)
  BY <1>1, <1>2, <1>3, <1>9 DEF OnAir
<1>11. FlagsInv(W, Initiator, q.pkt)
  BY <1>1 DEF FlagsInv
<1>12. RxInv(W, r, q.pkt, q.rx)
  BY <1>1, NoRxLemma
<1>13. LearnerInv(W, r, q)
  BY <1>1 DEF SameLearner, LearnerInv, CoreInv
<1>14. AcceptorInv(W, r, Initiator, q.acceptor) /\ q.complete \in BOOLEAN
  BY <1>1 DEF CoreInv
<1>15. LeaderInv(W, r, Initiator, q)
  <2>1. q.leader.phase \in 1..2 /\ q.leader.phase # MULTIPAXOS_PREPARE
    BY <1>1 DEF MULTIPAXOS_ACCEPT, MULTIPAXOS_PREPARE
  <2>2. q.leader.got_majority = FALSE
    <3>1. l.got_majority \in BOOLEAN
      BY DEF CoreInv, LeaderInv, l
    <3> QED
      BY <1>1, <3>1 DEF l
  <2> QED
    BY <1>1, <1>2, <1>3, <1>5, <2>1, <2>2 DEF LeaderInv
<1>16. CoreInv(W, r, Initiator, q)
  BY <1>9, <1>11, <1>12, <1>13, <1>14, <1>15 DEF CoreInv
<1> QED
  BY <1>1, <1>10, <1>16 DEF Led, q

(* The leader has decided what to propose. *)
Plans(s, values, another) ==
  [s EXCEPT !.leader.values = values, !.leader.another = another]

(* What this leaves; q is the node afterwards. *)
Planned(W, r, s, values, q) ==
  /\ Led(W, r, Initiator, s, q) /\ q.leader.values = values
  /\ q.leader.got_majority = s.leader.got_majority
  /\ q.leader.phase = s.leader.phase

(* A sound leader that only has other values in its prepare phase is sound. *)
LEMMA ValuesLemma ==
  ASSUME NEW W, NEW r, NEW s, NEW values \in [Batch -> Bytes], NEW another,
         another = FALSE, CoreInv(W, r, Initiator, s), OnAir(W, r, s.pkt),
         ~s.leader.got_majority, s.leader.phase = MULTIPAXOS_PREPARE
  PROVE  Planned(W, r, s, values, Plans(s, values, another))
<1> DEFINE q == Plans(s, values, another)
<1>1. /\ q.pkt = s.pkt /\ q.acceptor = s.acceptor /\ q.rx = s.rx
      /\ q.complete = s.complete /\ SameRadio(s, q) /\ SameLearner(s, q)
  BY DEF SameRadio, SameLearner, Plans
<1>2. q.leader = [s.leader EXCEPT !.values = values, !.another = another]
  BY DEF Plans
<1> HIDE DEF q
<1>3. /\ q.leader.values = values /\ q.leader.another = another
      /\ q.leader.is_leader = s.leader.is_leader
      /\ q.leader.ballot = s.leader.ballot /\ q.leader.round = s.leader.round
      /\ q.leader.got_majority = s.leader.got_majority
      /\ q.leader.phase = s.leader.phase
  BY <1>2
<1>4. LeaderInv(W, r, Initiator, s)
  BY DEF CoreInv
<1>5. q.leader.phase # MULTIPAXOS_ACCEPT
  BY <1>3 DEF MULTIPAXOS_ACCEPT, MULTIPAXOS_PREPARE
<1>6. LeaderInv(W, r, Initiator, q)
  BY <1>1, <1>3, <1>4, <1>5 DEF LeaderInv
<1>7. LearnerInv(W, r, q)
  BY <1>1 DEF SameLearner, LearnerInv, CoreInv
<1>8. CoreInv(W, r, Initiator, q)
  BY <1>1, <1>6, <1>7 DEF CoreInv
<1> QED
  BY <1>1, <1>3, <1>8 DEF Led, Planned, q

(* The leader counts promises (multipaxos.c:395-437). *)
LEMMA CountPromisesLemma ==
  ASSUME NEW W, NEW r, Begins(r), OneValue(W), NEW w, NEW p,
         CoreInv(W, r, Initiator, w.s), OnAir(W, r, w.s.pkt),
         Counted(W, r, w, p), p.phase = MULTIPAXOS_PREPARE,
         ~w.s.leader.got_majority, w.s.leader.phase = MULTIPAXOS_PREPARE
  PROVE  Led(W, r, Initiator, w.s, CountPromises(Initiator, w, p).s)
<1> DEFINE values == ProposedValues(w.s, p)
           another == p.max_heard > Round(p.round + MULTIPAXOS_PKT_SIZE - 1)
           s == Plans(w.s, values, another)
           x == CountPromises(Initiator, w, p)
<1>1. Heard(p) = Batch /\ another = FALSE
  BY HeardIsBatch DEF Counted
<1>2. /\ w.s.rx.proposals \in [Batch -> Two] /\ w.s.rx.values \in [Batch -> Bytes]
      /\ Backed(W, r, w.s.rx.proposals, w.s.rx.values)
      /\ w.s.leader.values \in [Batch -> Bytes]
      /\ w.s.leader.ballot = LeaderBallot
  BY DEF CoreInv, RxInv, OnAir, LeaderInv
<1>3. /\ values \in [Batch -> Bytes]
      /\ \A i \in Batch : w.s.rx.proposals[i] # 0 => values[i] = w.s.rx.values[i]
  BY <1>1, <1>2, ProposedLemma
<1>4. ~\E i \in Heard(p) : w.s.rx.proposals[i] > w.s.leader.ballot
  BY <1>1, <1>2, TwoType DEF Two
<1>5. x.s = IF Majority(w.replies) THEN SendAccept(Initiator, s) ELSE s
  BY <1>4 DEF CountPromises, Work, Plans
<1> HIDE DEF values, another, x
<1>6. /\ Led(W, r, Initiator, w.s, s) /\ s.leader.values = values
      /\ s.leader.got_majority = w.s.leader.got_majority
      /\ s.leader.phase = w.s.leader.phase
  <2>1. Planned(W, r, w.s, values, s)
    BY <1>1, <1>3, ValuesLemma
  <2> HIDE DEF s
  <2> QED
    BY <2>1 DEF Planned
<1> HIDE DEF s
<1>7. CASE ~Majority(w.replies)
  BY <1>5, <1>6, <1>7 DEF x
<1>8. CASE Majority(w.replies)
  <2>1. /\ w.s.acceptor.last = LastOf(r) =>
             \A i \in Batch : w.s.rx.proposals[i] = LeaderBallot
    BY <1>8 DEF Counted
  <2>2. s.acceptor.last = LastOf(r) =>
          \A i \in Batch : \E m \in Nodes : Vote(m, r + i, values[i]) \in W
    <3> SUFFICES ASSUME s.acceptor.last = LastOf(r), NEW i \in Batch
                 PROVE  \E m \in Nodes : Vote(m, r + i, values[i]) \in W
      OBVIOUS
    <3>1. s.acceptor = w.s.acceptor
      BY <1>6 DEF Led
    <3>2. w.s.rx.proposals[i] # 0
      BY <2>1, <3>1, TwoType
    <3> QED
      BY <1>2, <1>3, <3>2 DEF Backed
  <2>3. CoreInv(W, r, Initiator, s) /\ OnAir(W, r, s.pkt)
    BY <1>6 DEF Led
  <2>4. Led(W, r, Initiator, s, SendAccept(Initiator, s))
    BY <1>6, <2>2, <2>3, SendAcceptLemma
  <2>5. Led(W, r, Initiator, w.s, SendAccept(Initiator, s))
    BY <1>6, <2>4 DEF Led, SameRadio
  <2> QED
    BY <1>5, <1>8, <2>5 DEF x
<1> QED
  BY <1>7, <1>8

(* The leader counts votes (multipaxos.c:440-470). *)
LEMMA CountVotesLemma ==
  ASSUME NEW W, NEW r, Begins(r), NEW w, NEW p,
         CoreInv(W, r, Initiator, w.s), OnAir(W, r, w.s.pkt),
         Counted(W, r, w, p), p.phase = MULTIPAXOS_ACCEPT,
         ~w.s.leader.got_majority, w.s.leader.phase = MULTIPAXOS_ACCEPT
  PROVE  Led(W, r, Initiator, w.s, CountVotes(Initiator, w).s)
<1> DEFINE s == w.s
           won == [s EXCEPT !.leader.got_majority = TRUE,
                            !.leader.round = Round(@ + MULTIPAXOS_PKT_SIZE)]
           x == CountVotes(Initiator, w)
<1>1. LeaderInv(W, r, Initiator, s)
  BY DEF CoreInv
<1>2. /\ s.leader.ballot = LeaderBallot /\ s.leader.another = FALSE
      /\ s.leader.round = r /\ s.leader.values = s.pkt.values
      /\ s.pkt.phase = MULTIPAXOS_ACCEPT
  BY <1>1 DEF LeaderInv
<1>3. ~(s.rx.min > s.leader.ballot)
  BY <1>2, TwoType DEF CoreInv, RxInv, Two
<1>4. CASE ~Majority(w.replies)
  <2>1. x = w
    BY <1>3, <1>4 DEF CountVotes
  <2> QED
    BY <2>1 DEF Led, SameRadio
<1>5. CASE Majority(w.replies)
  <2>1. x.s = won
    BY <1>2, <1>3, <1>5 DEF CountVotes, Work
  <2>2. /\ won.pkt = s.pkt /\ won.acceptor = s.acceptor /\ won.rx = s.rx
        /\ won.complete = s.complete /\ SameRadio(s, won) /\ SameLearner(s, won)
    BY DEF SameRadio, SameLearner
  <2>3. won.leader = [s.leader EXCEPT !.got_majority = TRUE,
                                      !.round = Round(@ + MULTIPAXOS_PKT_SIZE)]
    OBVIOUS
  <2> HIDE DEF won, s
  <2>4. /\ won.leader.got_majority = TRUE
        /\ won.leader.round = Round(s.leader.round + MULTIPAXOS_PKT_SIZE)
        /\ won.leader.is_leader = s.leader.is_leader
        /\ won.leader.ballot = s.leader.ballot
        /\ won.leader.phase = s.leader.phase
        /\ won.leader.values = s.leader.values
        /\ won.leader.another = s.leader.another
    BY <2>3
  <2>5. /\ s.acceptor.last = LastOf(r)
        /\ \A i \in Batch : Quorum(W, r + i, s.leader.values[i])
    BY <1>2, <1>5 DEF Counted, s
  <2>6. s.leader.phase = MULTIPAXOS_ACCEPT
    BY DEF s
  <2>7. LeaderInv(W, r, Initiator, won)
    BY <1>1, <1>2, <2>2, <2>4, <2>5, <2>6, BatchRounds DEF LeaderInv
  <2>8. LearnerInv(W, r, won)
    BY <2>2 DEF SameLearner, LearnerInv, CoreInv, s
  <2>9. CoreInv(W, r, Initiator, won)
    BY <2>2, <2>7, <2>8 DEF CoreInv, s
  <2> QED
    BY <2>1, <2>2, <2>9 DEF Led, s
<1> QED
  BY <1>4, <1>5

(* The leader's part of process(). *)
LEMMA LeaderLemma ==
  ASSUME NEW W, NEW r, Begins(r), OneValue(W), NEW n \in Nodes, NEW w, NEW p,
         CoreInv(W, r, n, w.s), OnAir(W, r, w.s.pkt), Counted(W, r, w, p)
  PROVE  Led(W, r, n, w.s, Leader(n, w, p).s)
<1> DEFINE l == w.s.leader
           x == Leader(n, w, p)
           seen == [w EXCEPT !.delta = w.delta \/ w.s.pkt.phase # l.phase]
<1>1. Led(W, r, n, w.s, w.s)
  BY DEF Led, SameRadio
<1>2. LeaderInv(W, r, n, w.s) /\ p.ballot = LeaderBallot /\ p.round = r
  BY DEF CoreInv, Counted
<1>3. CASE n # Initiator \/ l.got_majority
  <2>1. ~l.is_leader \/ l.got_majority
    BY <1>2, <1>3 DEF LeaderInv
  <2>2. x = w
    BY <2>1 DEF Leader
  <2> QED
    BY <1>1, <2>2
<1>4. CASE n = Initiator /\ ~l.got_majority
  <2>1. /\ l.is_leader /\ ~l.got_majority /\ l.ballot = LeaderBallot
        /\ l.round = r /\ l.phase \in 1..2
    BY <1>2, <1>4 DEF LeaderInv
  <2>2. ~(p.ballot > l.ballot)
    BY <1>2, <2>1, TwoType
  <2>3. seen.s = w.s /\ seen.replies = w.replies
    OBVIOUS
  <2>4. Counted(W, r, seen, p)
    BY <2>3 DEF Counted
  <2>5. CASE p.phase = l.phase /\ l.phase = MULTIPAXOS_PREPARE
    <3>1. x = CountPromises(n, seen, p)
      BY <1>2, <2>1, <2>2, <2>5 DEF Leader
    <3> HIDE DEF seen
    <3>2. /\ CoreInv(W, r, Initiator, seen.s) /\ OnAir(W, r, seen.s.pkt)
          /\ ~seen.s.leader.got_majority
          /\ seen.s.leader.phase = MULTIPAXOS_PREPARE
          /\ p.phase = MULTIPAXOS_PREPARE
      BY <1>4, <2>3, <2>5
    <3>3. Led(W, r, Initiator, seen.s, CountPromises(Initiator, seen, p).s)
      BY <2>4, <3>2, CountPromisesLemma
    <3> QED
      BY <1>4, <2>3, <3>1, <3>3
  <2>6. CASE p.phase = l.phase /\ l.phase # MULTIPAXOS_PREPARE
    <3>1. x = CountVotes(n, seen)
      BY <1>2, <2>1, <2>2, <2>6 DEF Leader
    <3> HIDE DEF seen
    <3>2. /\ CoreInv(W, r, Initiator, seen.s) /\ OnAir(W, r, seen.s.pkt)
          /\ ~seen.s.leader.got_majority
          /\ seen.s.leader.phase = MULTIPAXOS_ACCEPT
          /\ p.phase = MULTIPAXOS_ACCEPT
      BY <1>4, <2>1, <2>3, <2>6 DEF MULTIPAXOS_PREPARE, MULTIPAXOS_ACCEPT
    <3>3. Led(W, r, Initiator, seen.s, CountVotes(Initiator, seen).s)
      BY <2>4, <3>2, CountVotesLemma
    <3> QED
      BY <1>4, <2>3, <3>1, <3>3
  <2>7. CASE p.phase # l.phase
    <3>1. x = Work(w.s, TRUE, w.delta, w.replies)
      BY <2>1, <2>2, <2>7 DEF Leader
    <3>2. x.s = w.s
      BY <3>1 DEF Work
    <3> QED
      BY <1>1, <3>2
  <2> QED
    BY <2>5, <2>6, <2>7
<1> QED
  BY <1>3, <1>4

-----------------------------------------------------------------------------
(* What process() does to the log of an acceptor. *)
LogMoves(r, s, p, q) ==
  /\ p.phase = MULTIPAXOS_ACCEPT =>
       /\ q.acceptor.last = LastOf(r)
       /\ q.acceptor.proposals = LogBallots(s, p)
       /\ q.acceptor.values = LogValues(s, p)
  /\ p.phase # MULTIPAXOS_ACCEPT =>
       /\ q.acceptor.last = s.acceptor.last
       /\ q.acceptor.proposals = s.acceptor.proposals
       /\ q.acceptor.values = s.acceptor.values

(* What process() leaves of s after request p, before the state logic; q is
   the node afterwards. *)
Processed(W, r, n, s, p, q) ==
  /\ CoreInv(W, r, n, q) /\ OnAir(W, r, q.pkt) /\ LogMoves(r, s, p, q)
  /\ q.got_valid_rx = TRUE /\ q.state = s.state
  /\ q.invalid_rx_count = s.invalid_rx_count
  /\ q.restart_threshold = s.restart_threshold
  /\ q.tx_count_complete = s.tx_count_complete

(* process() up to the state logic, for a request that a node has received
   or, at the leader, has sent (multipaxos.c:500-560). *)
LEMMA MultiPaxosLemma ==
  ASSUME NEW W, NEW r, Begins(r), NEW n \in Nodes, NEW s, NEW p,
         CoreInv(W, r, n, s), Handles(W, r, n, p)
  PROVE  Processed(W, r, n, s, p, MultiPaxos(n, s, p).s)
<1> DEFINE h == [s EXCEPT !.got_valid_rx = TRUE]
           w == Acceptor(n, h, p)
           g == IF s.state = "TX" THEN w.s.pkt ELSE p
           x == Leader(n, w, g)
<1>1. /\ h.pkt = s.pkt /\ h.leader = s.leader /\ h.acceptor = s.acceptor
      /\ h.rx = s.rx /\ h.complete = s.complete /\ SameLearner(s, h)
      /\ h.got_valid_rx = TRUE /\ h.state = s.state
      /\ h.invalid_rx_count = s.invalid_rx_count
      /\ h.restart_threshold = s.restart_threshold
      /\ h.tx_count_complete = s.tx_count_complete
  BY DEF SameLearner
<1>2. /\ OnAir(W, r, p) /\ OneValue(W) /\ p.phase \in 1..2
  <2>1. OnAir(W, r, p) /\ OneValue(W)
    BY DEF Handles
  <2>2. p.phase \in 0..2 /\ p.phase # 0
    BY <2>1, TwoType DEF OnAir, PacketInv
  <2> QED
    BY <2>1, <2>2
<1>3. MultiPaxos(n, s, p) = x
  BY <1>2 DEF MultiPaxos, MULTIPAXOS_INIT
<1> HIDE DEF h
<1>4. CoreInv(W, r, n, h)
  <2>1. LearnerInv(W, r, h)
    BY <1>1 DEF CoreInv, LearnerInv, SameLearner
  <2>2. LeaderInv(W, r, n, h)
    BY <1>1 DEF CoreInv, LeaderInv
  <2> QED
    BY <1>1, <2>1, <2>2 DEF CoreInv
<1>5. CoreInv(W, r, n, w.s) /\ Handled(W, r, h, p, w)
  BY <1>4, AcceptorLemma
<1> HIDE DEF w
<1>6. OnAir(W, r, w.s.pkt)
  BY <1>5 DEF Handled
<1>7. /\ g.ballot = LeaderBallot /\ g.round = r /\ g.phase \in 1..2
      /\ g.max_heard \in Ends /\ g.max_heard <= LastOf(r)
  <2>1. OnAir(W, r, g)
    BY <1>2, <1>6
  <2> HIDE DEF g
  <2>2. g.phase \in 0..2 /\ g.phase # 0
    BY <2>1, TwoType DEF OnAir, PacketInv
  <2> QED
    BY <2>1, <2>2 DEF OnAir, PacketInv
<1>8. g = p \/ g = w.s.pkt
  OBVIOUS
<1> HIDE DEF g
<1>9. Counted(W, r, w, g)
  <2>1. ASSUME Majority(w.replies), g.phase = MULTIPAXOS_ACCEPT
        PROVE  /\ w.s.acceptor.last = LastOf(r)
               /\ \A i \in Batch : Quorum(W, r + i, w.s.pkt.values[i])
    <3>1. p.phase = MULTIPAXOS_ACCEPT
      BY <1>5, <1>8, <2>1 DEF Handled, MULTIPAXOS_PREPARE, MULTIPAXOS_ACCEPT
    <3> QED
      BY <1>5, <2>1, <3>1 DEF Handled
  <2>2. ASSUME Majority(w.replies), g.phase = MULTIPAXOS_PREPARE
        PROVE  /\ w.s.pkt.phase = MULTIPAXOS_PREPARE
               /\ w.s.acceptor.last = LastOf(r) =>
                    \A i \in Batch : w.s.rx.proposals[i] = LeaderBallot
    <3>1. p.phase # MULTIPAXOS_ACCEPT
      BY <1>5, <1>8, <2>2 DEF Handled, MULTIPAXOS_PREPARE, MULTIPAXOS_ACCEPT
    <3> QED
      BY <1>5, <2>2, <3>1 DEF Handled
  <2> QED
    BY <1>7, <2>1, <2>2 DEF Counted
<1>10. Led(W, r, n, w.s, x.s)
  BY <1>2, <1>5, <1>6, <1>9, LeaderLemma
<1> HIDE DEF x
<1>11. LogMoves(r, s, p, x.s)
  <2>1. LogBallots(h, p) = LogBallots(s, p) /\ LogValues(h, p) = LogValues(s, p)
    BY <1>1 DEF LogBallots, LogValues, Nullified
  <2> QED
    BY <1>1, <1>5, <1>10, <2>1 DEF Handled, Led, LogMoves
<1>12. /\ x.s.got_valid_rx = TRUE /\ x.s.state = s.state
       /\ x.s.invalid_rx_count = s.invalid_rx_count
       /\ x.s.restart_threshold = s.restart_threshold
       /\ x.s.tx_count_complete = s.tx_count_complete
  BY <1>1, <1>5, <1>10 DEF Handled, Led, SameRadio
<1> QED
  BY <1>3, <1>10, <1>11, <1>12 DEF Processed, Led

(* A step of the radio alone. *)
SameCore(s, q) ==
  /\ q.pkt = s.pkt /\ q.leader = s.leader /\ q.acceptor = s.acceptor
  /\ q.rx = s.rx /\ q.complete = s.complete /\ SameLearner(s, q)

(* The radio has no part in the soundness of a node. *)
LEMMA SameCoreLemma ==
  ASSUME NEW W, NEW r, NEW n, NEW s, NEW q, CoreInv(W, r, n, s), SameCore(s, q)
  PROVE  CoreInv(W, r, n, q)
<1>1. LearnerInv(W, r, q)
  BY DEF CoreInv, LearnerInv, SameCore, SameLearner
<1>2. LeaderInv(W, r, n, q)
  BY DEF CoreInv, LeaderInv, SameCore
<1> QED
  BY <1>1, <1>2 DEF CoreInv, SameCore

(* The counter of the final flood stays in its range. *)
LEMMA CountTxLemma ==
  ASSUME NEW s, s.tx_count_complete \in 0..(N_TX_COMPLETE + 1)
  PROVE  CountTx(s, N_TX_COMPLETE + 1) \in 0..(N_TX_COMPLETE + 1)
BY ChaosAssumption DEF ChaosAssumption, CountTx

(* What a node is after a slot in which it handled request p. *)
Moved(W, r, n, s, p, q) == NodeInv(W, r, n, q) /\ LogMoves(r, s, p, q)

(* A reception. *)
LEMMA HearLemma ==
  ASSUME NEW W, NEW r, Begins(r), NEW n \in Nodes, NEW s, NEW p,
         CoreInv(W, r, n, s), RadioOK(s), Handles(W, r, n, p)
  PROVE  Moved(W, r, n, s, p, Hear(n, s, p))
<1> DEFINE w == MultiPaxos(n, s, p)
           state == IF w.tx THEN "TX" ELSE "RX"
           count == IF ~(w.tx /\ w.s.complete) THEN w.s.tx_count_complete
                    ELSE IF w.delta THEN 0 ELSE CountTx(w.s, N_TX_COMPLETE + 1)
           q == Hear(n, s, p)
<1>1. Processed(W, r, n, s, p, w.s)
  BY MultiPaxosLemma
<1>2. q = [w.s EXCEPT !.invalid_rx_count = 0, !.state = state,
                      !.tx_count_complete = count]
  BY DEF Hear
<1> HIDE DEF w
<1>3. w.s.tx_count_complete \in 0..(N_TX_COMPLETE + 1)
  BY <1>1 DEF Processed, RadioOK
<1>4. count \in 0..(N_TX_COMPLETE + 1)
  BY <1>3, CountTxLemma, ChaosAssumption DEF ChaosAssumption
<1>5. state \in {"TX", "RX", "OFF"}
  OBVIOUS
<1> HIDE DEF state, count, q
<1>6. /\ SameCore(w.s, q) /\ q.invalid_rx_count = 0 /\ q.state = state
      /\ q.tx_count_complete = count /\ q.got_valid_rx = w.s.got_valid_rx
      /\ q.restart_threshold = w.s.restart_threshold
  BY <1>2 DEF SameCore, SameLearner
<1>7. CoreInv(W, r, n, q)
  BY <1>1, <1>6, SameCoreLemma DEF Processed
<1>8. RadioOK(q)
  <2>1. q.complete \in BOOLEAN
    BY <1>7 DEF CoreInv
  <2>2. 0 \in 0..CHAOS_RESTART_MAX
    BY ChaosAssumption DEF ChaosAssumption
  <2> QED
    BY <1>1, <1>4, <1>5, <1>6, <2>1, <2>2 DEF Processed, RadioOK
<1>9. RadioInv(r, q)
  BY <1>1, <1>6, <1>8 DEF RadioInv, Processed, SameCore, OnAir
<1>10. LogMoves(r, s, p, q)
  BY <1>1, <1>6 DEF Processed, SameCore, LogMoves
<1> QED
  BY <1>7, <1>9, <1>10 DEF Moved, NodeInv, q

(* A transmission of the leader, which handles its own request. *)
LEMMA SendLemma ==
  ASSUME NEW W, NEW r, Begins(r), NEW n \in Nodes, NEW s, NodeInv(W, r, n, s),
         s.leader.is_leader, Handles(W, r, n, s.pkt)
  PROVE  Moved(W, r, n, s, s.pkt, Transmit(n, s, FALSE))
<1> DEFINE w == MultiPaxos(n, s, s.pkt)
           state == IF s.tx_count_complete > N_TX_COMPLETE THEN "OFF" ELSE "RX"
           q == Transmit(n, s, FALSE)
<1>1. CoreInv(W, r, n, s) /\ RadioOK(s)
  BY DEF NodeInv, RadioInv
<1>2. Processed(W, r, n, s, s.pkt, w.s)
  BY <1>1, MultiPaxosLemma
<1>3. q = [w.s EXCEPT !.state = state]
  BY DEF Transmit
<1> HIDE DEF w
<1>4. state \in {"TX", "RX", "OFF"}
  OBVIOUS
<1> HIDE DEF state, q
<1>5. /\ SameCore(w.s, q) /\ q.state = state
      /\ q.invalid_rx_count = w.s.invalid_rx_count
      /\ q.tx_count_complete = w.s.tx_count_complete
      /\ q.got_valid_rx = w.s.got_valid_rx
      /\ q.restart_threshold = w.s.restart_threshold
  BY <1>3 DEF SameCore, SameLearner
<1>6. CoreInv(W, r, n, q)
  BY <1>2, <1>5, SameCoreLemma DEF Processed
<1>7. RadioOK(q)
  <2>1. q.complete \in BOOLEAN
    BY <1>6 DEF CoreInv
  <2> QED
    BY <1>1, <1>2, <1>4, <1>5, <2>1 DEF Processed, RadioOK
<1>8. RadioInv(r, q)
  BY <1>2, <1>5, <1>7 DEF RadioInv, Processed, SameCore, OnAir
<1>9. LogMoves(r, s, s.pkt, q)
  BY <1>2, <1>5 DEF Processed, SameCore, LogMoves
<1> QED
  BY <1>6, <1>8, <1>9 DEF Moved, NodeInv, q

(* A slot of a node that handles nothing: it is off, or it passes on a
   request, misses its transmission, or hears nothing. *)
LEMMA IdleLemma ==
  ASSUME NEW W, NEW r, NEW n \in Nodes, NEW s, NodeInv(W, r, n, s),
         NEW t, NEW q,
         \/ q = s
         \/ q = [s EXCEPT !.got_valid_rx = TRUE] /\ s.state = "TX"
         \/ /\ q = [s EXCEPT !.state = IF s.tx_count_complete > N_TX_COMPLETE
                                       THEN "OFF" ELSE "RX"]
            /\ s.state = "TX"
         \/ /\ q = Listen(s, N_TX_COMPLETE + 1, t)
            /\ s.state = "RX" /\ (RestartDue(s) => t \in Thresholds)
  PROVE  NodeInv(W, r, n, q) /\ q.acceptor = s.acceptor
<1>1. CoreInv(W, r, n, s) /\ RadioInv(r, s) /\ RadioOK(s)
  BY DEF NodeInv, RadioInv
<1>2. ASSUME SameCore(s, q), RadioInv(r, q)
      PROVE  NodeInv(W, r, n, q) /\ q.acceptor = s.acceptor
  <2>1. CoreInv(W, r, n, q)
    BY <1>1, <1>2, SameCoreLemma
  <2> QED
    BY <1>2, <2>1 DEF NodeInv, SameCore
<1>3. CASE q = s
  BY <1>3
<1>4. CASE q = [s EXCEPT !.got_valid_rx = TRUE] /\ s.state = "TX"
  <2>1. /\ SameCore(s, q) /\ q.got_valid_rx = TRUE /\ q.state = s.state
        /\ q.invalid_rx_count = s.invalid_rx_count
        /\ q.tx_count_complete = s.tx_count_complete
        /\ q.restart_threshold = s.restart_threshold
    BY <1>4 DEF SameCore, SameLearner
  <2>2. RadioInv(r, q)
    BY <1>1, <1>4, <2>1 DEF RadioInv, RadioOK, SameCore
  <2> QED
    BY <1>2, <2>1, <2>2
<1>5. CASE /\ q = [s EXCEPT !.state = IF s.tx_count_complete > N_TX_COMPLETE
                                      THEN "OFF" ELSE "RX"]
           /\ s.state = "TX"
  <2>1. /\ SameCore(s, q) /\ q.got_valid_rx = s.got_valid_rx
        /\ q.state \in {"OFF", "RX"}
        /\ q.invalid_rx_count = s.invalid_rx_count
        /\ q.tx_count_complete = s.tx_count_complete
        /\ q.restart_threshold = s.restart_threshold
    BY <1>5 DEF SameCore, SameLearner
  <2>2. RadioInv(r, q)
    BY <1>1, <1>5, <2>1 DEF RadioInv, RadioOK, SameCore
  <2> QED
    BY <1>2, <2>1, <2>2
<1>6. CASE /\ q = Listen(s, N_TX_COMPLETE + 1, t)
           /\ s.state = "RX" /\ (RestartDue(s) => t \in Thresholds)
  <2>1. CASE RestartDue(s)
    <3> DEFINE count == CountTx(s, N_TX_COMPLETE + 1)
    <3>1. count \in 0..(N_TX_COMPLETE + 1)
      BY <1>1, CountTxLemma DEF RadioOK
    <3>2. q = [s EXCEPT !.state = "TX", !.invalid_rx_count = 0,
                        !.tx_count_complete = count, !.restart_threshold = t]
      BY <1>6, <2>1 DEF Listen
    <3> HIDE DEF count
    <3>3. /\ SameCore(s, q) /\ q.got_valid_rx = s.got_valid_rx
          /\ q.state = "TX" /\ q.invalid_rx_count = 0
          /\ q.tx_count_complete = count /\ q.restart_threshold = t
      BY <3>2 DEF SameCore, SameLearner
    <3>4. /\ s.got_valid_rx /\ 0 \in 0..CHAOS_RESTART_MAX
      BY <2>1, ChaosAssumption DEF RestartDue, ChaosAssumption
    <3>5. RadioInv(r, q)
      BY <1>1, <1>6, <2>1, <3>1, <3>3, <3>4 DEF RadioInv, RadioOK, SameCore
    <3> QED
      BY <1>2, <3>3, <3>5
  <2>2. CASE ~RestartDue(s)
    <3> DEFINE count == IF s.got_valid_rx THEN s.invalid_rx_count + 1
                        ELSE s.invalid_rx_count
    <3>1. q = [s EXCEPT !.invalid_rx_count = count]
      BY <1>6, <2>2 DEF Listen
    <3>2. count \in 0..CHAOS_RESTART_MAX
      <4>1. /\ s.restart_threshold \in Thresholds
            /\ s.invalid_rx_count \in 0..CHAOS_RESTART_MAX
        BY <1>1 DEF RadioOK
      <4> QED
        BY <1>6, <2>2, <4>1, ChaosAssumption DEF RestartDue, Thresholds, ChaosAssumption
    <3> HIDE DEF count
    <3>3. /\ SameCore(s, q) /\ q.got_valid_rx = s.got_valid_rx
          /\ q.state = s.state /\ q.invalid_rx_count = count
          /\ q.tx_count_complete = s.tx_count_complete
          /\ q.restart_threshold = s.restart_threshold
      BY <3>1 DEF SameCore, SameLearner
    <3>4. RadioInv(r, q)
      BY <1>1, <3>2, <3>3 DEF RadioInv, RadioOK, SameCore
    <3> QED
      BY <1>2, <3>3, <3>4
  <2> QED
    BY <2>1, <2>2
<1> QED
  BY <1>3, <1>4, <1>5, <1>6

-----------------------------------------------------------------------------
(* A slot of the network: which nodes handle a request, which one, and the
   votes that the accept requests among them bring. *)
HandlesIn(n, sent, heard) ==
  \/ n \in sent /\ node[n].leader.is_leader
  \/ node[n].state = "RX" /\ heard[n] # Silence

RequestOf(n, sent, heard) ==
  IF n \in sent THEN node[n].pkt ELSE node[heard[n]].pkt

Accepters(sent, heard) ==
  {n \in Nodes : /\ HandlesIn(n, sent, heard)
                 /\ RequestOf(n, sent, heard).phase = MULTIPAXOS_ACCEPT}

VotesFrom(n, p) == {Vote(n, CurrentRound + i, p.values[i]) : i \in Batch}

VotesAfter(sent, heard) ==
  votes \cup UNION {VotesFrom(n, RequestOf(n, sent, heard)) :
                      n \in Accepters(sent, heard)}

(* The votes of a slot, one by one. *)
LEMMA VotesAfterAre ==
  ASSUME NEW sent, NEW heard
  PROVE  \A x : x \in VotesAfter(sent, heard) <=>
           \/ x \in votes
           \/ \E n \in Accepters(sent, heard), i \in Batch :
                x = Vote(n, CurrentRound + i, RequestOf(n, sent, heard).values[i])
BY DEF VotesAfter, VotesFrom

(* What a node that sends has on the air: a request of the leader for the
   current batch, in an accept phase with values that all votes agree with and
   that the accept request of the leader has, too. *)
LEMMA AirLemma ==
  ASSUME MultiInv, NEW m \in Nodes, node[m].state = "TX"
  PROVE  LET p == node[m].pkt
             l == node[Initiator].pkt
         IN /\ OnAir(votes, CurrentRound, p) /\ FlagsInv(votes, m, p)
            /\ p.phase = MULTIPAXOS_ACCEPT =>
                 /\ Agreed(votes, CurrentRound, p.values)
                 /\ m # Initiator => Voted(votes, m, CurrentRound, p.values)
                 /\ l.phase = MULTIPAXOS_ACCEPT => p.values = l.values
<1> DEFINE p == node[m].pkt
           l == node[Initiator].pkt
           r == CurrentRound
<1>1. NodeInv(votes, r, m, node[m]) /\ NodeInv(votes, r, Initiator, node[Initiator])
  BY Constants DEF MultiInv
<1>2. OneValue(votes)
  BY DEF MultiInv, VotesInv
<1> HIDE DEF r
<1>3. OnAir(votes, r, p) /\ FlagsInv(votes, m, p)
  BY <1>1 DEF NodeInv, CoreInv, RadioInv, OnAir
<1>4. ASSUME p.phase = MULTIPAXOS_ACCEPT
      PROVE  /\ Agreed(votes, r, p.values)
             /\ m # Initiator => Voted(votes, m, r, p.values)
             /\ l.phase = MULTIPAXOS_ACCEPT => p.values = l.values
  <2>1. CASE m = Initiator
    <3>1. LeaderInv(votes, r, Initiator, node[Initiator])
      BY <1>1 DEF NodeInv, CoreInv
    <3> QED
      BY <1>4, <2>1, <3>1 DEF LeaderInv
  <2>2. CASE m # Initiator
    <3>1. Voted(votes, m, r, p.values)
      BY <1>3, <1>4, <2>2 DEF FlagsInv, OnAir
    <3>2. Agreed(votes, r, p.values)
      BY <1>2, <3>1, VotedAgrees
    <3>3. ASSUME l.phase = MULTIPAXOS_ACCEPT PROVE p.values = l.values
      <4>1. Agreed(votes, r, l.values)
        BY <1>1, <3>3 DEF NodeInv, CoreInv, LeaderInv
      <4>2. p.values \in [Batch -> Bytes] /\ l.values \in [Batch -> Bytes]
        BY <1>1 DEF NodeInv, CoreInv, PacketInv
      <4>3. ASSUME NEW i \in Batch PROVE p.values[i] = l.values[i]
        <5>1. Vote(m, r + i, p.values[i]) \in votes
          BY <3>1 DEF Voted
        <5>2. /\ Vote(m, r + i, p.values[i]).round = r + i
              /\ Vote(m, r + i, p.values[i]).value = p.values[i]
          BY DEF Vote
        <5> QED
          BY <4>1, <5>1, <5>2 DEF Agreed
      <4> QED
        BY <4>2, <4>3
    <3> QED
      BY <2>2, <3>1, <3>2, <3>3
  <2> QED
    BY <2>1, <2>2
<1> QED
  BY <1>3, <1>4 DEF r

(* All accept requests on the air have the same values. *)
LEMMA AirAgrees ==
  ASSUME MultiInv, NEW m \in Nodes, node[m].state = "TX",
         node[m].pkt.phase = MULTIPAXOS_ACCEPT, NEW k \in Nodes,
         node[k].state = "TX", node[k].pkt.phase = MULTIPAXOS_ACCEPT
  PROVE  node[m].pkt.values = node[k].pkt.values
<1> DEFINE r == CurrentRound
           a == node[m].pkt.values
           b == node[k].pkt.values
<1>1. /\ Agreed(votes, r, a) /\ Agreed(votes, r, b)
      /\ m # Initiator => Voted(votes, m, r, a)
      /\ k # Initiator => Voted(votes, k, r, b)
      /\ a \in [Batch -> Bytes] /\ b \in [Batch -> Bytes]
  BY AirLemma DEF OnAir, PacketInv
<1> HIDE DEF r, a, b
<1>2. ASSUME NEW V, NEW j, NEW x \in [Batch -> Bytes], NEW y \in [Batch -> Bytes],
             Voted(V, j, r, x), Agreed(V, r, y)
      PROVE  x = y
  <2>1. ASSUME NEW i \in Batch PROVE x[i] = y[i]
    <3>1. Vote(j, r + i, x[i]) \in V
      BY <1>2 DEF Voted
    <3>2. Vote(j, r + i, x[i]).round = r + i /\ Vote(j, r + i, x[i]).value = x[i]
      BY DEF Vote
    <3> QED
      BY <1>2, <3>1, <3>2 DEF Agreed
  <2> QED
    BY <2>1
<1>3. CASE m # Initiator
  BY <1>1, <1>2, <1>3 DEF a, b
<1>4. CASE k # Initiator
  BY <1>1, <1>2, <1>4 DEF a, b
<1>5. CASE m = Initiator /\ k = Initiator
  BY <1>5
<1> QED
  BY <1>3, <1>4, <1>5

(* A request that is handled is the packet of a node that has sent. *)
LEMMA HandledIsSent ==
  ASSUME NEW sent \in SUBSET Transmitters(node),
         NEW heard \in Receptions(node, sent), NEW n \in Nodes,
         HandlesIn(n, sent, heard)
  PROVE  \E m \in sent : /\ m \in Nodes /\ node[m].state = "TX"
                         /\ RequestOf(n, sent, heard) = node[m].pkt
<1>1. \A m \in sent : m \in Nodes /\ node[m].state = "TX"
  BY DEF Transmitters
<1>2. CASE n \in sent
  BY <1>1, <1>2 DEF RequestOf
<1>3. CASE n \notin sent
  <2>1. node[n].state = "RX" /\ heard[n] # Silence
    BY <1>3 DEF HandlesIn
  <2>2. heard[n] \in sent
    BY <2>1 DEF Receptions, Listeners
  <2> QED
    BY <1>1, <1>3, <2>2 DEF RequestOf
<1> QED
  BY <1>2, <1>3

(* The votes after a slot: one value per round, whole batches, in agreement
   with the accept request of the leader, and none before there is one. *)
LEMMA SlotVotes ==
  ASSUME MultiInv, NEW sent \in SUBSET Transmitters(node),
         NEW heard \in Receptions(node, sent)
  PROVE  LET W == VotesAfter(sent, heard)
             l == node[Initiator].pkt
         IN /\ votes \subseteq W /\ VotesInv(W, CurrentRound)
            /\ l.phase = MULTIPAXOS_ACCEPT => Agreed(W, CurrentRound, l.values)
            /\ votes = {} /\ l.phase = MULTIPAXOS_PREPARE => W = {}
<1> DEFINE W == VotesAfter(sent, heard)
           l == node[Initiator].pkt
           r == CurrentRound
           p(n) == RequestOf(n, sent, heard)
<1>1. /\ Begins(r) /\ VotesInv(votes, r)
      /\ NodeInv(votes, r, Initiator, node[Initiator])
  <2>1. CurrentRound \in Nat
    BY Constants DEF MultiInv, NodeInv, CoreInv, PacketInv, CurrentRound
  <2> QED
    BY <2>1, Constants DEF MultiInv, Begins
<1>2. \A x : x \in W <=>
        \/ x \in votes
        \/ \E n \in Accepters(sent, heard), i \in Batch :
             x = Vote(n, r + i, p(n).values[i])
  BY VotesAfterAre
<1>3. ASSUME NEW n \in Accepters(sent, heard)
      PROVE  /\ n \in Nodes /\ p(n).values \in [Batch -> Bytes]
             /\ Agreed(votes, r, p(n).values)
             /\ l.phase = MULTIPAXOS_ACCEPT => p(n).values = l.values
             /\ votes # {} \/ l.phase = MULTIPAXOS_ACCEPT
             /\ \A k \in Accepters(sent, heard) : p(k).values = p(n).values
  <2>1. /\ n \in Nodes /\ HandlesIn(n, sent, heard)
        /\ p(n).phase = MULTIPAXOS_ACCEPT
    BY DEF Accepters
  <2>2. PICK m \in sent : m \in Nodes /\ node[m].state = "TX" /\ p(n) = node[m].pkt
    BY <2>1, HandledIsSent
  <2>3. /\ OnAir(votes, r, p(n)) /\ Agreed(votes, r, p(n).values)
        /\ m # Initiator => Voted(votes, m, r, p(n).values)
        /\ l.phase = MULTIPAXOS_ACCEPT => p(n).values = l.values
    BY <2>1, <2>2, AirLemma
  <2>4. p(n).values \in [Batch -> Bytes]
    BY <2>3 DEF OnAir, PacketInv
  <2>5. votes # {} \/ l.phase = MULTIPAXOS_ACCEPT
    <3>1. 0 \in Batch
      BY Constants DEF Batch
    <3>2. CASE m = Initiator
      BY <2>1, <2>2, <3>2
    <3>3. CASE m # Initiator
      BY <2>3, <3>1, <3>3 DEF Voted
    <3> QED
      BY <3>2, <3>3
  <2>6. ASSUME NEW k \in Accepters(sent, heard) PROVE p(k).values = p(n).values
    <3>1. /\ k \in Nodes /\ HandlesIn(k, sent, heard)
          /\ p(k).phase = MULTIPAXOS_ACCEPT
      BY DEF Accepters
    <3>2. PICK j \in sent : j \in Nodes /\ node[j].state = "TX"
                            /\ p(k) = node[j].pkt
      BY <3>1, HandledIsSent
    <3> QED
      BY <2>1, <2>2, <3>1, <3>2, AirAgrees
  <2> QED
    BY <2>1, <2>3, <2>4, <2>5, <2>6
<1> HIDE DEF W, l, r, p
<1>4. votes \subseteq W
  BY <1>2
<1>5. /\ r \in Nat /\ r > 0 /\ LastOf(r) \in Nat
      /\ \A i \in Batch : r + i \in Nat /\ r + i <= LastOf(r) /\ i \in Nat
  BY <1>1, BatchRounds, Constants DEF Batch
<1>6. ASSUME NEW n, NEW i \in Batch, NEW v
      PROVE  /\ Vote(n, r + i, v).node = n /\ Vote(n, r + i, v).round = r + i
             /\ Vote(n, r + i, v).value = v
  BY DEF Vote
<1>7. ASSUME NEW x \in W, x \notin votes
      PROVE  \E n \in Accepters(sent, heard), i \in Batch :
               /\ x = Vote(n, r + i, p(n).values[i]) /\ x.node = n
               /\ x.round = r + i /\ x.value = p(n).values[i]
  <2>1. PICK n \in Accepters(sent, heard), i \in Batch :
          x = Vote(n, r + i, p(n).values[i])
    BY <1>2, <1>7
  <2> QED
    BY <2>1, <1>6
<1>8. ASSUME NEW n \in Accepters(sent, heard) PROVE Agreed(W, r, p(n).values)
  <2> SUFFICES ASSUME NEW x \in W, NEW i \in Batch, x.round = r + i
               PROVE  x.value = p(n).values[i]
    BY DEF Agreed
  <2>1. CASE x \in votes
    BY <1>3, <2>1 DEF Agreed
  <2>2. CASE x \notin votes
    <3>1. PICK k \in Accepters(sent, heard), j \in Batch :
            x.round = r + j /\ x.value = p(k).values[j]
      BY <1>7, <2>2
    <3>2. i = j
      BY <1>5, <3>1
    <3> QED
      BY <1>3, <3>1, <3>2
  <2> QED
    BY <2>1, <2>2
<1>9. OneValue(W)
  <2> SUFFICES ASSUME NEW x \in W, NEW y \in W, x.round = y.round
               PROVE  x.value = y.value
    BY DEF OneValue
  <2>1. CASE x \in votes /\ y \in votes
    BY <1>1, <2>1 DEF VotesInv, OneValue
  <2>2. CASE x \notin votes
    <3>1. PICK n \in Accepters(sent, heard), i \in Batch :
            x.round = r + i /\ x.value = p(n).values[i]
      BY <1>7, <2>2
    <3> QED
      BY <1>8, <3>1 DEF Agreed
  <2>3. CASE y \notin votes
    <3>1. PICK n \in Accepters(sent, heard), i \in Batch :
            y.round = r + i /\ y.value = p(n).values[i]
      BY <1>7, <2>3
    <3> QED
      BY <1>8, <3>1 DEF Agreed
  <2> QED
    BY <2>1, <2>2, <2>3
<1>10. ASSUME NEW x \in W
       PROVE  /\ x.node \in Nodes /\ x.round \in 1..LastOf(r)
              /\ x.value \in Bytes /\ x = Vote(x.node, x.round, x.value)
  <2>1. CASE x \in votes
    BY <1>1, <2>1 DEF VotesInv
  <2>2. CASE x \notin votes
    <3>1. PICK n \in Accepters(sent, heard), i \in Batch :
            /\ x = Vote(n, r + i, p(n).values[i]) /\ x.node = n
            /\ x.round = r + i /\ x.value = p(n).values[i]
      BY <1>7, <2>2
    <3>2. n \in Nodes /\ p(n).values[i] \in Bytes
      BY <1>3
    <3>3. r + i \in 1..LastOf(r)
      BY <1>5
    <3> QED
      BY <3>1, <3>2, <3>3
  <2> QED
    BY <2>1, <2>2
<1>11. \A k \in 1..(r - 1) : \E v \in Bytes : Quorum(W, k, v)
  BY <1>1, <1>4, SupportGrows DEF VotesInv
<1>12. ASSUME NEW x \in W, NEW i \in Batch, NEW j \in Batch, x.round = r + i
       PROVE  \E v \in Bytes : Vote(x.node, r + j, v) \in W
  <2>1. CASE x \in votes
    <3>1. \E v \in Bytes : Vote(x.node, r + j, v) \in votes
      BY <1>1, <1>12, <2>1 DEF VotesInv
    <3> QED
      BY <1>4, <3>1
  <2>2. CASE x \notin votes
    <3>1. PICK n \in Accepters(sent, heard) : x.node = n
      BY <1>7, <2>2
    <3>2. p(n).values[j] \in Bytes /\ Vote(n, r + j, p(n).values[j]) \in W
      BY <1>2, <1>3
    <3> QED
      BY <3>1, <3>2
  <2> QED
    BY <2>1, <2>2
<1>13. VotesInv(W, r)
  BY <1>9, <1>10, <1>11, <1>12 DEF VotesInv
<1>14. ASSUME l.phase = MULTIPAXOS_ACCEPT PROVE Agreed(W, r, l.values)
  <2>1. CASE Accepters(sent, heard) = {}
    <3>1. W = votes
      BY <1>2, <2>1
    <3>2. LeaderInv(votes, r, Initiator, node[Initiator])
      BY <1>1 DEF NodeInv, CoreInv
    <3> QED
      BY <1>14, <3>1, <3>2 DEF LeaderInv, l
  <2>2. CASE Accepters(sent, heard) # {}
    BY <1>3, <1>8, <1>14, <2>2
  <2> QED
    BY <2>1, <2>2
<1>15. ASSUME votes = {}, l.phase = MULTIPAXOS_PREPARE PROVE W = {}
  <2>1. l.phase # MULTIPAXOS_ACCEPT
    BY <1>15 DEF MULTIPAXOS_ACCEPT, MULTIPAXOS_PREPARE
  <2>2. Accepters(sent, heard) = {}
    BY <1>3, <1>15, <2>1
  <2> QED
    BY <1>2, <1>15, <2>2
<1> QED
  BY <1>4, <1>13, <1>14, <1>15 DEF W, l, r

(* What a slot does to one node, given the votes after the slot: it handles a
   request, or its log stays as it is. *)
LEMMA SlotNode ==
  ASSUME MultiInv, NEW sent \in SUBSET Transmitters(node),
         NEW heard \in Receptions(node, sent),
         NEW threshold \in ThresholdDraws(node), NEW n \in Nodes
  PROVE  LET W == VotesAfter(sent, heard)
             q == Step(n, sent, heard, threshold)
             p == RequestOf(n, sent, heard)
         IN /\ NodeInv(W, CurrentRound, n, q)
            /\ HandlesIn(n, sent, heard) =>
                 /\ LogMoves(CurrentRound, node[n], p, q)
                 /\ p.round = CurrentRound /\ p.ballot = LeaderBallot
                 /\ p.values \in [Batch -> Bytes]
            /\ ~HandlesIn(n, sent, heard) => q.acceptor = node[n].acceptor
<1> DEFINE W == VotesAfter(sent, heard)
           q == Step(n, sent, heard, threshold)
           p == RequestOf(n, sent, heard)
           r == CurrentRound
           s == node[n]
           l == node[Initiator].pkt
<1>1. /\ votes \subseteq W /\ VotesInv(W, r)
      /\ l.phase = MULTIPAXOS_ACCEPT => Agreed(W, r, l.values)
      /\ votes = {} /\ l.phase = MULTIPAXOS_PREPARE => W = {}
  BY SlotVotes
<1>2. NodeInv(votes, r, n, s) /\ r \in Nat /\ Begins(r)
  <2>1. CurrentRound \in Nat
    BY Constants DEF MultiInv, NodeInv, CoreInv, PacketInv, CurrentRound
  <2> QED
    BY <2>1 DEF MultiInv, Begins
<1>3. NodeInv(W, r, n, s)
  BY <1>1, <1>2, NodeGrows
<1>4. CoreInv(W, r, n, s) /\ RadioOK(s) /\ OneValue(W)
  BY <1>1, <1>3 DEF NodeInv, RadioInv, VotesInv
<1>5. \A m \in sent : m \in Nodes /\ node[m].state = "TX"
  BY DEF Transmitters
<1>6. ASSUME HandlesIn(n, sent, heard)
      PROVE  /\ Handles(W, r, n, p) /\ p.round = r /\ p.ballot = LeaderBallot
             /\ p.values \in [Batch -> Bytes]
  <2>1. PICK m \in sent : m \in Nodes /\ node[m].state = "TX" /\ p = node[m].pkt
    BY <1>6, HandledIsSent
  <2>2. OnAir(votes, r, p) /\ FlagsInv(votes, m, p)
    BY <2>1, AirLemma
  <2>3. OnAir(W, r, p)
    BY <1>1, <2>2, PacketGrows DEF OnAir
  <2>4. ASSUME p.phase = MULTIPAXOS_ACCEPT, NEW f \in p.flags \cup {n}
        PROVE  Voted(W, f, r, p.values)
    <3>1. ASSUME NEW k \in Accepters(sent, heard), RequestOf(k, sent, heard) = p
          PROVE  Voted(W, k, r, p.values)
      BY <3>1, VotesAfterAre DEF Voted
    <3>2. CASE f = n
      <4>1. n \in Accepters(sent, heard)
        BY <1>6, <2>4 DEF Accepters
      <4> QED
        BY <3>1, <3>2, <4>1
    <3>3. CASE f \in p.flags /\ Voted(votes, f, r, p.values)
      BY <1>1, <3>3, SupportGrows
    <3>4. CASE f = m /\ m = Initiator
      <4>1. node[m].leader.is_leader
        BY <3>4, <2>1 DEF MultiInv, NodeInv, CoreInv, LeaderInv
      <4>2. HandlesIn(m, sent, heard) /\ RequestOf(m, sent, heard) = p
        BY <2>1, <4>1 DEF HandlesIn, RequestOf
      <4>3. m \in Accepters(sent, heard)
        BY <2>1, <2>4, <4>2 DEF Accepters
      <4> QED
        BY <3>1, <3>4, <4>2, <4>3
    <3>5. f \in p.flags => Voted(votes, f, r, p.values) \/ (f = m /\ m = Initiator)
      BY <2>2, <2>4 DEF FlagsInv, OnAir
    <3> QED
      BY <3>2, <3>3, <3>4, <3>5
  <2>5. Handles(W, r, n, p)
    BY <1>4, <2>3, <2>4 DEF Handles
  <2> QED
    BY <2>3, <2>5 DEF OnAir, PacketInv
<1> HIDE DEF W, r
<1>7. CASE HandlesIn(n, sent, heard)
  <2>1. CASE n \in sent
    <3>1. s.state = "TX" /\ p = s.pkt
      BY <1>5, <2>1 DEF RequestOf
    <3>2. s.leader.is_leader
      BY <1>7, <3>1 DEF HandlesIn
    <3>3. q = Transmit(n, s, FALSE)
      BY <2>1, <3>1 DEF Step
    <3>4. Moved(W, r, n, s, p, q)
      BY <1>2, <1>3, <1>6, <1>7, <3>1, <3>2, <3>3, SendLemma
    <3> QED
      BY <1>6, <1>7, <3>4 DEF Moved, W, r
  <2>2. CASE n \notin sent
    <3>1. s.state = "RX" /\ heard[n] # Silence /\ p = node[heard[n]].pkt
      BY <1>7, <2>2 DEF HandlesIn, RequestOf
    <3>2. q = Hear(n, s, p)
      BY <3>1 DEF Step
    <3>3. Moved(W, r, n, s, p, q)
      BY <1>2, <1>4, <1>6, <1>7, <3>2, HearLemma
    <3> QED
      BY <1>6, <1>7, <3>3 DEF Moved, W, r
  <2> QED
    BY <2>1, <2>2
<1>8. CASE ~HandlesIn(n, sent, heard)
  <2> DEFINE passed == [s EXCEPT !.state = IF s.tx_count_complete > N_TX_COMPLETE
                                           THEN "OFF" ELSE "RX"]
  <2>1. \/ q = s
        \/ q = [s EXCEPT !.got_valid_rx = TRUE] /\ s.state = "TX"
        \/ q = passed /\ s.state = "TX"
        \/ /\ q = Listen(s, N_TX_COMPLETE + 1, threshold[n])
           /\ s.state = "RX" /\ (RestartDue(s) => threshold[n] \in Thresholds)
    <3>1. s.state \in {"TX", "RX", "OFF"}
      BY <1>4 DEF RadioOK
    <3>2. CASE s.state = "OFF"
      BY <3>2 DEF Step
    <3>3. CASE s.state = "TX" /\ n \notin sent
      <4>1. q = Transmit(n, s, TRUE)
        BY <3>3 DEF Step
      <4> QED
        BY <3>3, <4>1 DEF Transmit
    <3>4. CASE s.state = "TX" /\ n \in sent
      <4>1. q = Transmit(n, s, FALSE)
        BY <3>4 DEF Step
      <4>2. ~s.leader.is_leader
        BY <1>8, <3>4 DEF HandlesIn
      <4> QED
        BY <3>4, <4>1, <4>2 DEF Transmit
    <3>5. CASE s.state = "RX"
      <4>1. heard[n] = Silence
        BY <1>8, <3>5 DEF HandlesIn
      <4>2. q = Listen(s, N_TX_COMPLETE + 1, threshold[n])
        BY <3>5, <4>1 DEF Step
      <4>3. RestartDue(s) => threshold[n] \in Thresholds
        BY DEF ThresholdDraws
      <4> QED
        BY <3>5, <4>2, <4>3
    <3> QED
      BY <3>1, <3>2, <3>3, <3>4, <3>5
  <2> HIDE DEF q
  <2>2. NodeInv(W, r, n, q) /\ q.acceptor = s.acceptor
    BY <1>3, <2>1, IdleLemma
  <2> QED
    BY <1>8, <2>2 DEF W, r, q
<1> QED
  BY <1>7, <1>8

(* The votes that the model records are the ones in the logs. *)
LEMMA NewVotesLemma ==
  ASSUME MultiInv, NEW sent \in SUBSET Transmitters(node),
         NEW heard \in Receptions(node, sent),
         NEW threshold \in ThresholdDraws(node), NEW n \in Nodes
  PROVE  NewVotes(n, sent, heard, Step(n, sent, heard, threshold)) =
           IF n \in Accepters(sent, heard)
           THEN VotesFrom(n, RequestOf(n, sent, heard)) ELSE {}
<1> DEFINE q == Step(n, sent, heard, threshold)
           p == RequestOf(n, sent, heard)
           r == CurrentRound
<1>1. CASE n \notin Accepters(sent, heard)
  <2>1. NewVotes(n, sent, heard, q) = {}
    BY <1>1 DEF NewVotes, Accepters, HandlesIn, RequestOf
  <2> QED
    BY <1>1, <2>1
<1>2. CASE n \in Accepters(sent, heard)
  <2>1. HandlesIn(n, sent, heard) /\ p.phase = MULTIPAXOS_ACCEPT
    BY <1>2 DEF Accepters
  <2>2. /\ LogMoves(r, node[n], p, q) /\ p.round = r /\ p.ballot = LeaderBallot
        /\ p.values \in [Batch -> Bytes]
    BY <2>1, SlotNode
  <2>3. Begins(r)
    <3>1. CurrentRound \in Nat
      BY Constants DEF MultiInv, NodeInv, CoreInv, PacketInv, CurrentRound
    <3> QED
      BY <3>1 DEF MultiInv, Begins
  <2>4. ASSUME NEW i \in Batch
        PROVE  /\ q.acceptor.proposals[LogSlot(r + i)] = LeaderBallot
               /\ q.acceptor.values[LogSlot(r + i)] = p.values[i]
    <3>1. /\ Cast(node[n], p).acceptor.proposals[LogSlot(r + i)] = p.ballot
          /\ Cast(node[n], p).acceptor.values[LogSlot(r + i)] = p.values[i]
      BY <2>2, <2>3, CastVotes
    <3>2. /\ Cast(node[n], p).acceptor.proposals = LogBallots(node[n], p)
          /\ Cast(node[n], p).acceptor.values = LogValues(node[n], p)
      BY CastFields
    <3> QED
      BY <2>1, <2>2, <3>1, <3>2 DEF LogMoves
  <2> DEFINE vote(k) == [node |-> n, round |-> k, ballot |-> p.ballot,
                         value |-> q.acceptor.values[LogSlot(k)]]
             voted == {j \in Batch : q.acceptor.proposals[LogSlot(p.round + j)]
                                       = p.ballot}
  <2>5. NewVotes(n, sent, heard, q) = {vote(k) : k \in {p.round + i : i \in voted}}
    BY <2>1 DEF NewVotes, HandlesIn, RequestOf
  <2> HIDE DEF q, p, r
  <2>6. voted = Batch
    BY <2>2, <2>4
  <2>7. ASSUME NEW i \in Batch PROVE vote(r + i) = Vote(n, r + i, p.values[i])
    BY <2>2, <2>4 DEF Vote
  <2> HIDE DEF vote, voted
  <2>8. NewVotes(n, sent, heard, q) = {Vote(n, r + i, p.values[i]) : i \in Batch}
    BY <2>2, <2>5, <2>6, <2>7
  <2> QED
    BY <1>2, <2>8 DEF VotesFrom, p, q, r
<1> QED
  BY <1>1, <1>2

(* The current round begins a batch, and the nodes are sound. *)
LEMMA RoundType ==
  ASSUME MultiInv
  PROVE  /\ Begins(CurrentRound)
         /\ NodeInv(votes, CurrentRound, Initiator, node[Initiator])
<1>1. CurrentRound \in Nat
  BY Constants DEF MultiInv, NodeInv, CoreInv, PacketInv, CurrentRound
<1> QED
  BY <1>1, Constants DEF MultiInv, Begins

(* A slot keeps the invariant. *)
LEMMA SlotKeeps ==
  ASSUME MultiInv, Slot
  PROVE  MultiInv' /\ votes \subseteq votes' /\ CurrentRound' = CurrentRound
<1> DEFINE r == CurrentRound
<1> DEFINE After(s, h, d) ==
             /\ node' = [n \in Nodes |-> Step(n, s, h, d)]
             /\ votes' = votes \cup UNION {NewVotes(n, s, h,
                   [k \in Nodes |-> Step(k, s, h, d)][n]) : n \in Nodes}
<1>0. PICK sent \in SUBSET Transmitters(node) :
        \E h \in Receptions(node, sent), d \in ThresholdDraws(node) : After(sent, h, d)
  BY DEF Slot
<1>1. PICK heard \in Receptions(node, sent), threshold \in ThresholdDraws(node) :
        After(sent, heard, threshold)
  BY <1>0
<1>2. round_count' = round_count
      /\ log' = IF votes' = votes THEN log ELSE ChosenLog(votes')
  BY DEF Slot
<1> DEFINE q(n) == Step(n, sent, heard, threshold)
           W == VotesAfter(sent, heard)
<1>3. node' = [n \in Nodes |-> q(n)]
  BY <1>1
<1>4. ASSUME NEW n \in Nodes PROVE NodeInv(W, r, n, q(n))
  BY SlotNode
<1>5. votes \subseteq W /\ VotesInv(W, r)
  BY SlotVotes
<1>6. votes' = W
  <2> DEFINE A == Accepters(sent, heard)
             from(n) == VotesFrom(n, RequestOf(n, sent, heard))
             new(n) == NewVotes(n, sent, heard, q(n))
  <2>1. ASSUME NEW n \in Nodes PROVE new(n) = IF n \in A THEN from(n) ELSE {}
    BY NewVotesLemma
  <2>2. A \subseteq Nodes
    BY DEF Accepters
  <2>3. votes' = votes \cup UNION {new(n) : n \in Nodes}
    BY <1>1
  <2>4. W = votes \cup UNION {from(n) : n \in A}
    BY DEF VotesAfter
  <2> HIDE DEF A, from, new, W
  <2>5. ASSUME NEW x PROVE (\E n \in Nodes : x \in new(n)) <=> \E n \in A : x \in from(n)
    BY <2>1, <2>2
  <2> QED
    BY <2>3, <2>4, <2>5
<1> HIDE DEF q, W
<1>7. \A n \in Nodes : NodeInv(W, r, n, node'[n])
  BY <1>3, <1>4
<1>8. CurrentRound' = r
  <2>1. NodeInv(W, r, Initiator, node'[Initiator])
    BY <1>7, Constants
  <2>2. CurrentRound' = node'[Initiator].pkt.round
    BY DEF CurrentRound
  <2> HIDE DEF r
  <2> QED
    BY <2>1, <2>2 DEF NodeInv, CoreInv, LeaderInv
<1>9. LogInv'
  <2>1. CASE votes' = votes
    BY <1>2, <2>1 DEF MultiInv, LogInv
  <2>2. CASE votes' # votes
    BY <1>2, <1>5, <1>6, <2>2 DEF LogInv
  <2> QED
    BY <2>1, <2>2
<1>10. DOMAIN node' = Nodes
  BY <1>3
<1>11. /\ round_count' \in 1..MAX_ROUNDS /\ (CurrentRound - 1 \in Ends)'
       /\ Fits(CurrentRound)'
       /\ (LastOf(CurrentRound) <= MULTIPAXOS_PKT_SIZE * round_count)'
  BY <1>2, <1>8 DEF MultiInv, Ends, LastOf, Fits
<1>12. \A n \in Nodes : NodeInv(votes', CurrentRound', n, node'[n])
  BY <1>6, <1>7, <1>8
<1>13. VotesInv(votes', CurrentRound')
  BY <1>5, <1>6, <1>8
<1>14. MultiInv'
  BY <1>9, <1>10, <1>11, <1>12, <1>13 DEF MultiInv
<1> QED
  BY <1>5, <1>6, <1>8, <1>14

-----------------------------------------------------------------------------
(* What every node does when a Synchrotron round begins. *)
Fresh(n, s, threshold) ==
  [s EXCEPT !.pkt.flags = {n}, !.complete = FALSE, !.chosen_this_round = FALSE,
            !.tx_count_complete = 0, !.invalid_rx_count = 0,
            !.got_valid_rx = n = Initiator, !.restart_threshold = threshold,
            !.state = IF n = Initiator THEN "TX" ELSE "RX"]

(* The radio at the beginning of a round. *)
AtStart(n, s, threshold) ==
  /\ s.complete = FALSE /\ s.chosen_this_round = FALSE
  /\ s.tx_count_complete = 0 /\ s.invalid_rx_count = 0
  /\ s.got_valid_rx = (n = Initiator) /\ s.restart_threshold = threshold
  /\ s.state = IF n = Initiator THEN "TX" ELSE "RX"

(* Which fields this changes. *)
LEMMA FreshFields ==
  ASSUME NEW n, NEW s, NEW threshold
  PROVE  LET q == Fresh(n, s, threshold) IN
         /\ SameRequest(s.pkt, q.pkt) /\ q.pkt.flags \subseteq {n}
         /\ q.leader = s.leader /\ q.acceptor = s.acceptor
         /\ q.learner = s.learner /\ q.rx = s.rx
         /\ AtStart(n, q, threshold)
<1> DEFINE q == Fresh(n, s, threshold)
<1>1. q.pkt = [s.pkt EXCEPT !.flags = {n}]
  BY DEF Fresh
<1>2. /\ q.leader = s.leader /\ q.acceptor = s.acceptor
      /\ q.learner = s.learner /\ q.rx = s.rx
  BY DEF Fresh
<1>3. AtStart(n, q, threshold)
  BY DEF Fresh, AtStart
<1> HIDE DEF q
<1>4. SameRequest(s.pkt, q.pkt) /\ q.pkt.flags \subseteq {n}
  BY <1>1 DEF SameRequest
<1> QED
  BY <1>2, <1>3, <1>4 DEF q

(* Batch t is r or a later one. *)
Later(r, t) == Begins(r) /\ Begins(t) /\ r <= t

(* Later batches end later. *)
LEMMA LaterEnds ==
  ASSUME NEW r, NEW t, Later(r, t)
  PROVE  /\ r \in Nat /\ t \in Nat /\ LastOf(r) \in Nat /\ LastOf(t) \in Nat
         /\ LastOf(r) <= LastOf(t) /\ (r # t => LastOf(r) < t /\ LastOf(r) < LastOf(t))
<1>1. /\ r \in Nat /\ r - 1 \in Nat /\ r - 1 \in Ends
      /\ t \in Nat /\ t - 1 \in Nat /\ t - 1 \in Ends
      /\ LastOf(r) \in Nat /\ LastOf(t) \in Nat
  BY EndsType, BatchRounds DEF Later, Begins
<1>2. r # t => t - 1 >= (r - 1) + MULTIPAXOS_PKT_SIZE
  BY <1>1, EndsApart DEF Later
<1>3. MULTIPAXOS_PKT_SIZE \in Nat /\ MULTIPAXOS_PKT_SIZE > 0
  BY Constants
<1> QED
  BY <1>1, <1>2, <1>3 DEF LastOf, Later

(* What does not depend on the batch, or only on its end, is sound for a later
   batch. *)
LEMMA LaterNode ==
  ASSUME NEW V, NEW r, NEW t, Later(r, t), NEW n, NEW s, CoreInv(V, r, n, s)
  PROVE  /\ PacketInv(V, t, s.pkt) /\ AcceptorInv(V, t, n, s.acceptor)
         /\ RxInv(V, t, s.pkt, s.rx)
         /\ s.learner.values \in [LogSlots -> Bytes]
         /\ s.learner.last \in Nat /\ s.learner.last <= LastOf(t)
<1>1. /\ r \in Nat /\ t \in Nat /\ r <= t /\ LastOf(r) \in Nat /\ LastOf(t) \in Nat
      /\ LastOf(r) <= LastOf(t) /\ (r # t => LastOf(r) < LastOf(t))
  BY LaterEnds DEF Later
<1>2. Ends \subseteq Nat
  BY EndsType
<1>7. \A e \in Nat : (e <= r => e <= t) /\ (e <= LastOf(r) => e <= LastOf(t))
  BY <1>1
<1>3. PacketInv(V, t, s.pkt)
  BY <1>2, <1>7 DEF CoreInv, PacketInv
<1>4. RxInv(V, t, s.pkt, s.rx)
  BY <1>2, <1>7 DEF CoreInv, RxInv
<1>5. AcceptorInv(V, t, n, s.acceptor)
  <2>1. CASE r = t
    BY <2>1 DEF CoreInv
  <2>2. CASE r # t
    <3>1. \A e \in Nat : e <= LastOf(r) => e <= LastOf(t) /\ e # LastOf(t)
      BY <1>1, <2>2
    <3> QED
      BY <1>2, <3>1 DEF CoreInv, AcceptorInv
  <2> QED
    BY <2>1, <2>2
<1>6. /\ s.learner.values \in [LogSlots -> Bytes]
      /\ s.learner.last \in Nat /\ s.learner.last <= LastOf(t)
  BY <1>1 DEF CoreInv, LearnerInv
<1> QED
  BY <1>3, <1>4, <1>5, <1>6

(* A follower at the beginning of a round. *)
LEMMA FollowerBegins ==
  ASSUME NEW V, NEW r, NEW t, Later(r, t), NEW n \in Nodes, n # Initiator,
         NEW s, NodeInv(V, r, n, s), NEW threshold \in Thresholds
  PROVE  NodeInv(V, t, n, Fresh(n, s, threshold))
<1> DEFINE q == Fresh(n, s, threshold)
<1>1. /\ SameRequest(s.pkt, q.pkt) /\ q.pkt.flags \subseteq {n}
      /\ q.leader = s.leader /\ q.acceptor = s.acceptor
      /\ q.learner = s.learner /\ q.rx = s.rx
      /\ AtStart(n, q, threshold)
  BY FreshFields
<1> HIDE DEF q
<1>2. /\ PacketInv(V, t, s.pkt) /\ AcceptorInv(V, t, n, s.acceptor)
      /\ RxInv(V, t, s.pkt, s.rx)
      /\ s.learner.values \in [LogSlots -> Bytes]
      /\ s.learner.last \in Nat /\ s.learner.last <= LastOf(t)
  BY LaterNode DEF NodeInv
<1>3. PacketInv(V, t, q.pkt)
  BY <1>1, <1>2 DEF PacketInv, SameRequest
<1>4. FlagsInv(V, n, q.pkt)
  BY <1>1 DEF NodeInv, CoreInv, FlagsInv, SameRequest
<1>5. AcceptorInv(V, t, n, q.acceptor) /\ RxInv(V, t, q.pkt, q.rx)
  BY <1>1, <1>2 DEF RxInv, SameRequest
<1>6. LearnerInv(V, t, q)
  BY <1>1, <1>2 DEF LearnerInv, AtStart
<1>7. LeaderInv(V, t, n, q)
  BY <1>1 DEF NodeInv, CoreInv, LeaderInv
<1>8. CHAOS_RESTART_MAX \in Nat /\ N_TX_COMPLETE \in Nat
  BY ChaosAssumption DEF ChaosAssumption
<1>9. RadioOK(q) /\ ~q.got_valid_rx /\ q.state = "RX"
  <2>1. /\ q.complete = FALSE /\ q.got_valid_rx = FALSE /\ q.state = "RX"
        /\ q.restart_threshold = threshold
        /\ q.invalid_rx_count = 0 /\ q.tx_count_complete = 0
    BY <1>1 DEF AtStart
  <2>2. 0 \in 0..CHAOS_RESTART_MAX /\ 0 \in 0..(N_TX_COMPLETE + 1)
    BY <1>8
  <2> QED
    BY <2>1, <2>2 DEF RadioOK
<1>10. RadioInv(t, q) /\ q.complete \in BOOLEAN
  BY <1>9 DEF RadioInv, RadioOK
<1> QED
  BY <1>3, <1>4, <1>5, <1>6, <1>7, <1>10 DEF NodeInv, CoreInv, q

(* Which fields the leader changes when it goes on. *)
LEMMA LeadFields ==
  ASSUME NEW n, NEW s
  PROVE  LET q == Lead(n, s)
             fresh == s.leader.phase = MULTIPAXOS_INIT
             phase == IF fresh THEN MULTIPAXOS_PREPARE ELSE s.leader.phase
             again == ~fresh /\ s.leader.got_majority
         IN /\ q.leader = [s.leader EXCEPT !.phase = phase, !.got_majority = FALSE]
            /\ q.pkt.round = s.leader.round /\ q.pkt.phase = phase
            /\ q.pkt.flags \subseteq {n} /\ q.pkt.max_heard = s.pkt.max_heard
            /\ q.pkt.ballot = IF fresh THEN s.leader.ballot ELSE s.pkt.ballot
            /\ q.pkt.values = IF again THEN s.leader.values ELSE s.pkt.values
            /\ q.pkt.proposals = IF again THEN NoBatch ELSE s.pkt.proposals
            /\ q.acceptor = [s.acceptor EXCEPT
                 !.min = IF fresh THEN s.leader.ballot ELSE @]
            /\ q.learner = s.learner /\ q.rx = s.rx
            /\ \A threshold : AtStart(n, s, threshold) => AtStart(n, q, threshold)
<1> DEFINE q == Lead(n, s)
           fresh == s.leader.phase = MULTIPAXOS_INIT
           phase == IF fresh THEN MULTIPAXOS_PREPARE ELSE s.leader.phase
           again == ~fresh /\ s.leader.got_majority
<1>1. q.leader = [s.leader EXCEPT !.phase = phase, !.got_majority = FALSE]
  BY DEF Lead
<1>2. q.pkt = [s.pkt EXCEPT !.round = s.leader.round, !.phase = phase,
                 !.flags = {n}, !.ballot = IF fresh THEN s.leader.ballot ELSE @,
                 !.values = IF again THEN s.leader.values ELSE @,
                 !.proposals = IF again THEN NoBatch ELSE @]
  BY DEF Lead
<1>3. q.acceptor = [s.acceptor EXCEPT !.min = IF fresh THEN s.leader.ballot ELSE @]
  BY DEF Lead
<1>4. q.learner = s.learner /\ q.rx = s.rx
  BY DEF Lead
<1>5. /\ q.complete = s.complete /\ q.chosen_this_round = s.chosen_this_round
      /\ SameRadio(s, q)
  BY DEF Lead, SameRadio
<1> HIDE DEF q, fresh, phase, again
<1>6. \A threshold : AtStart(n, s, threshold) => AtStart(n, q, threshold)
  BY <1>5 DEF AtStart, SameRadio
<1>7. /\ q.pkt.round = s.leader.round /\ q.pkt.phase = phase
      /\ q.pkt.flags \subseteq {n} /\ q.pkt.max_heard = s.pkt.max_heard
      /\ q.pkt.ballot = IF fresh THEN s.leader.ballot ELSE s.pkt.ballot
      /\ q.pkt.values = IF again THEN s.leader.values ELSE s.pkt.values
      /\ q.pkt.proposals = IF again THEN NoBatch ELSE s.pkt.proposals
  BY <1>2
<1> QED
  BY <1>1, <1>3, <1>4, <1>6, <1>7 DEF q, fresh, phase, again

(* The values of the next batch are bytes. *)
LEMMA NewValuesType ==
  ASSUME NEW s, s.learner.values \in [LogSlots -> Bytes], s.learner.last \in Nat,
         s.chosen_this_round => s.learner.last \in Ends \ {0}
  PROVE  NewValues(s) \in [Batch -> Bytes]
<1>1. Uint8 \in Nat /\ Uint8 > 0
  BY Constants
<1>2. ASSUME NEW i \in Batch PROVE Report(s)[i] \in Nat /\ i \in Nat
  <2>1. i \in Nat
    BY DEF Batch
  <2>2. CASE ~s.chosen_this_round
    BY <2>1, <2>2 DEF Report
  <2>3. CASE s.chosen_this_round
    <3> DEFINE k == s.learner.last - MULTIPAXOS_PKT_SIZE + 1 + i
    <3>1. s.learner.last >= 0 + MULTIPAXOS_PKT_SIZE
      BY <2>3, EndsType, EndsApart
    <3>2. k \in Nat
      BY <2>1, <3>1, Constants
    <3>3. LogSlot(k) \in LogSlots
      BY <3>2, LogSlotType
    <3>4. Report(s)[i] = s.learner.values[LogSlot(k)]
      BY <2>3 DEF Report
    <3>5. Report(s)[i] \in Bytes
      BY <3>3, <3>4
    <3> QED
      BY <1>1, <2>1, <3>5 DEF Bytes
  <2> QED
    BY <2>2, <2>3
<1>3. ASSUME NEW a \in Nat PROVE a % Uint8 \in Bytes
  BY <1>1 DEF Bytes
<1>4. ASSUME NEW i \in Batch PROVE (Report(s)[i] + i + 1) % Uint8 \in Bytes
  <2>1. Report(s)[i] + i + 1 \in Nat
    BY <1>2
  <2> QED
    BY <1>3, <2>1
<1> QED
  BY <1>4 DEF NewValues

(* The batch that the leader works on after the beginning of a round. *)
NextOf(r, s) == IF s.leader.got_majority THEN r + MULTIPAXOS_PKT_SIZE ELSE r

(* It is the same one or the one after it. *)
LEMMA NextIsLater ==
  ASSUME NEW r, Begins(r), NEW s, Fits(NextOf(r, s))
  PROVE  /\ Later(r, NextOf(r, s))
         /\ s.leader.got_majority => NextOf(r, s) = LastOf(r) + 1 /\ NextOf(r, s) # r
<1>1. r \in Nat /\ r - 1 \in Nat /\ r - 1 \in Ends
  BY EndsType DEF Begins
<1>2. MULTIPAXOS_PKT_SIZE \in Nat /\ MULTIPAXOS_PKT_SIZE > 0
  BY Constants
<1>3. (r - 1) + MULTIPAXOS_PKT_SIZE \in Ends
  BY <1>1, EndsType
<1>4. (r + MULTIPAXOS_PKT_SIZE) - 1 = (r - 1) + MULTIPAXOS_PKT_SIZE
  BY <1>1, <1>2
<1>5. Later(r, NextOf(r, s))
  BY <1>1, <1>2, <1>3, <1>4 DEF Later, Begins, NextOf
<1>6. r + MULTIPAXOS_PKT_SIZE = LastOf(r) + 1 /\ r + MULTIPAXOS_PKT_SIZE # r
  BY <1>1, <1>2 DEF LastOf
<1> QED
  BY <1>5, <1>6 DEF NextOf

(* The votes are sound for the batch that comes next. *)
LEMMA NextVotes ==
  ASSUME NEW V, NEW r, Begins(r), VotesInv(V, r), NEW s, Fits(NextOf(r, s)),
         LeaderInv(V, r, Initiator, s)
  PROVE  /\ VotesInv(V, NextOf(r, s))
         /\ s.leader.got_majority => \A x \in V : x.round < NextOf(r, s)
<1> DEFINE t == NextOf(r, s)
<1>1. CASE ~s.leader.got_majority
  BY <1>1 DEF NextOf
<1>2. CASE s.leader.got_majority
  <2>1. t = LastOf(r) + 1 /\ Later(r, t) /\ t # r
    BY <1>2, NextIsLater
  <2>2. /\ r \in Nat /\ t \in Nat /\ LastOf(r) \in Nat /\ LastOf(t) \in Nat
        /\ LastOf(r) < t /\ LastOf(r) < LastOf(t)
    BY <2>1, LaterEnds
  <2> HIDE DEF t
  <2>3. \A x \in V : x.round \in Nat /\ x.round < t /\ x.round \in 1..LastOf(t)
    BY <2>2 DEF VotesInv
  <2>4. ASSUME NEW k \in 1..(t - 1) PROVE \E v \in Bytes : Quorum(V, k, v)
    <3>1. CASE k < r
      BY <2>2, <3>1 DEF VotesInv
    <3>2. CASE k >= r
      <4>1. k - r \in Batch /\ r + (k - r) = k
        BY <2>1, <2>2, <3>2, Constants DEF LastOf, Batch
      <4>2. /\ s.leader.values \in [Batch -> Bytes]
            /\ \A i \in Batch : Quorum(V, r + i, s.leader.values[i])
        BY <1>2 DEF LeaderInv
      <4>3. Quorum(V, r + (k - r), s.leader.values[k - r])
        BY <4>1, <4>2
      <4> QED
        BY <4>1, <4>2, <4>3
    <3> QED
      BY <2>2, <3>1, <3>2
  <2>5. \A x \in V, i \in Batch : x.round # t + i
    BY <2>2, <2>3 DEF Batch
  <2>6. VotesInv(V, t)
    BY <2>3, <2>4, <2>5 DEF VotesInv
  <2> QED
    BY <2>3, <2>6 DEF t
<1> QED
  BY <1>1, <1>2

(* The leader at the beginning of a round: sound for its next batch, with the
   log it had. *)
LeaderStarted(V, r, s, q) ==
  /\ NodeInv(V, NextOf(r, s), Initiator, q)
  /\ q.pkt.round = NextOf(r, s) /\ q.acceptor.last = s.acceptor.last
  /\ q.acceptor.proposals = s.acceptor.proposals
  /\ q.acceptor.values = s.acceptor.values

(* This is what round_begin leaves. *)
LEMMA LeaderBegins ==
  ASSUME NEW V, NEW r, Begins(r), VotesInv(V, r), NEW s,
         Fits(NextOf(r, s)), NodeInv(V, r, Initiator, s),
         NEW threshold \in Thresholds
  PROVE  LeaderStarted(V, r, s, RoundBegin(Initiator, s, TRUE, threshold))
<1> DEFINE n == Initiator
           f == Fresh(n, s, threshold)
           got == s.leader.got_majority
           d == IF got THEN [f EXCEPT !.leader.values = NewValues(s)] ELSE f
           q == Lead(n, d)
           t == NextOf(r, s)
           l == s.leader
<1>1. LeaderInv(V, r, n, s) /\ CoreInv(V, r, n, s)
  BY DEF NodeInv, CoreInv
<1>2. /\ l.is_leader /\ l.ballot = LeaderBallot /\ l.phase \in 1..2
      /\ l.values \in [Batch -> Bytes] /\ ~l.another
      /\ s.pkt.ballot = LeaderBallot /\ s.pkt.round = r
      /\ l.round = t /\ (got => l.phase = MULTIPAXOS_ACCEPT)
      /\ l.phase = MULTIPAXOS_ACCEPT =>
           s.pkt.phase = MULTIPAXOS_ACCEPT /\ s.pkt.values = l.values
      /\ l.phase # MULTIPAXOS_INIT
  <2>1. l.is_leader = (n = Initiator) /\ l.phase \in 1..2
    BY <1>1 DEF LeaderInv
  <2>2. l.phase # MULTIPAXOS_INIT
    BY <2>1 DEF MULTIPAXOS_INIT
  <2>3. l.round = t
    BY <1>1 DEF LeaderInv, NextOf
  <2> QED
    BY <1>1, <2>1, <2>2, <2>3 DEF LeaderInv
<1>3. /\ SameRequest(s.pkt, f.pkt)
      /\ f.leader = s.leader /\ f.acceptor = s.acceptor
      /\ f.learner = s.learner /\ f.rx = s.rx
      /\ AtStart(n, f, threshold)
  BY FreshFields
<1>4. RoundBegin(n, s, TRUE, threshold) = q
  <2>1. multipaxos_leader_got_majority(f) <=> got
    BY <1>2, <1>3 DEF multipaxos_leader_got_majority
  <2>2. d.leader.is_leader
    BY <1>2, <1>3
  <2>3. Designate(n, f, NewValues(s)) = d
    BY <1>2, <1>3, <2>1 DEF Designate
  <2> HIDE DEF d
  <2>4. RoundBegin(n, s, TRUE, threshold) =
          LET led == Designate(n, f, NewValues(s))
          IN IF led.leader.is_leader THEN Lead(n, led) ELSE led
    BY DEF RoundBegin, Fresh
  <2> QED
    BY <2>2, <2>3, <2>4
<1>5. /\ d.pkt = f.pkt /\ d.acceptor = s.acceptor /\ d.learner = s.learner
      /\ d.rx = s.rx /\ AtStart(n, d, threshold)
      /\ d.leader = IF got THEN [l EXCEPT !.values = NewValues(s)] ELSE l
  BY <1>3 DEF AtStart
<1> HIDE DEF f
<1>6. /\ d.leader.is_leader = l.is_leader /\ d.leader.ballot = l.ballot
      /\ d.leader.phase = l.phase /\ d.leader.round = l.round
      /\ d.leader.got_majority = l.got_majority /\ d.leader.another = l.another
      /\ d.leader.values = IF got THEN NewValues(s) ELSE l.values
  <2> HIDE DEF got, l, d
  <2>1. CASE got
    <3>1. d.leader = [l EXCEPT !.values = NewValues(s)]
      BY <1>5, <2>1
    <3> QED
      BY <2>1, <3>1
  <2>2. CASE ~got
    BY <1>5, <2>2
  <2> QED
    BY <2>1, <2>2
<1> HIDE DEF d
<1>7. NewValues(s) \in [Batch -> Bytes]
  <2>1. LearnerInv(V, r, s) /\ LastOf(r) \in Ends /\ LastOf(r) > 0
    BY <1>1, BatchRounds, Constants DEF CoreInv, LastOf
  <2> QED
    BY <2>1, NewValuesType DEF LearnerInv
<1>8. /\ q.leader = [d.leader EXCEPT !.phase = l.phase, !.got_majority = FALSE]
      /\ q.pkt.round = t /\ q.pkt.phase = l.phase
      /\ q.pkt.flags \subseteq {n} /\ q.pkt.max_heard = s.pkt.max_heard
      /\ q.pkt.ballot = LeaderBallot
      /\ q.pkt.values = IF got THEN NewValues(s) ELSE s.pkt.values
      /\ q.pkt.proposals = IF got THEN NoBatch ELSE s.pkt.proposals
      /\ q.acceptor = [s.acceptor EXCEPT !.min = @]
      /\ q.learner = s.learner /\ q.rx = s.rx
      /\ AtStart(n, q, threshold)
  <2>1. d.leader.phase # MULTIPAXOS_INIT /\ (d.leader.got_majority <=> got)
    BY <1>2, <1>6
  <2> DEFINE begun == d.leader.phase = MULTIPAXOS_INIT
             phase == IF begun THEN MULTIPAXOS_PREPARE ELSE d.leader.phase
             again == ~begun /\ d.leader.got_majority
  <2>4. /\ q.leader = [d.leader EXCEPT !.phase = phase, !.got_majority = FALSE]
        /\ q.pkt.round = d.leader.round /\ q.pkt.phase = phase
        /\ q.pkt.flags \subseteq {n} /\ q.pkt.max_heard = d.pkt.max_heard
        /\ q.pkt.ballot = IF begun THEN d.leader.ballot ELSE d.pkt.ballot
        /\ q.pkt.values = IF again THEN d.leader.values ELSE d.pkt.values
        /\ q.pkt.proposals = IF again THEN NoBatch ELSE d.pkt.proposals
        /\ q.acceptor = [d.acceptor EXCEPT !.min = IF begun THEN d.leader.ballot ELSE @]
        /\ q.learner = d.learner /\ q.rx = d.rx
        /\ \A h : AtStart(n, d, h) => AtStart(n, q, h)
    BY LeadFields
  <2>5. ~begun /\ phase = d.leader.phase /\ (again <=> got)
    BY <2>1
  <2> HIDE DEF begun, phase, again, q, got
  <2>2. /\ q.leader = [d.leader EXCEPT !.phase = d.leader.phase, !.got_majority = FALSE]
        /\ q.pkt.round = d.leader.round /\ q.pkt.phase = d.leader.phase
        /\ q.pkt.flags \subseteq {n} /\ q.pkt.max_heard = d.pkt.max_heard
        /\ q.pkt.ballot = d.pkt.ballot
        /\ q.pkt.values = IF got THEN d.leader.values ELSE d.pkt.values
        /\ q.pkt.proposals = IF got THEN NoBatch ELSE d.pkt.proposals
        /\ q.acceptor = [d.acceptor EXCEPT !.min = @]
        /\ q.learner = d.learner /\ q.rx = d.rx
        /\ AtStart(n, d, threshold) => AtStart(n, q, threshold)
    BY <2>4, <2>5
  <2> HIDE DEF l, t, n
  <2>3. /\ q.pkt.values = IF got THEN NewValues(s) ELSE s.pkt.values
        /\ q.pkt.proposals = IF got THEN NoBatch ELSE s.pkt.proposals
    BY <1>3, <1>5, <1>6, <2>1, <2>2 DEF SameRequest
  <2> QED
    BY <1>2, <1>3, <1>5, <1>6, <2>2, <2>3 DEF SameRequest
<1> HIDE DEF q
<1>9. /\ q.leader.is_leader = l.is_leader /\ q.leader.ballot = l.ballot
      /\ q.leader.phase = l.phase /\ q.leader.round = l.round
      /\ q.leader.got_majority = FALSE /\ q.leader.another = l.another
      /\ q.leader.values = IF got THEN NewValues(s) ELSE l.values
  BY <1>6, <1>8
<1>10. /\ q.acceptor.min = s.acceptor.min /\ q.acceptor.last = s.acceptor.last
       /\ q.acceptor.proposals = s.acceptor.proposals
       /\ q.acceptor.values = s.acceptor.values
  BY <1>8
<1>11. Later(r, t)
  BY NextIsLater
<1>12. /\ PacketInv(V, t, s.pkt) /\ AcceptorInv(V, t, n, s.acceptor)
       /\ RxInv(V, t, s.pkt, s.rx)
       /\ s.learner.values \in [LogSlots -> Bytes]
       /\ s.learner.last \in Nat /\ s.learner.last <= LastOf(t)
  BY <1>1, <1>11, LaterNode
<1>13. n \in Nodes /\ LeaderBallot \in Two /\ LeaderBallot > 0 /\ LeaderBallot # 0
  BY Constants, TwoType DEF Two
<1>14. t \in Nat /\ t - 1 \in Ends /\ t <= t
  BY <1>11 DEF Later, Begins
<1> HIDE DEF t, n, l, got
<1>15. PacketInv(V, t, q.pkt)
  <2>1. /\ q.pkt.values \in [Batch -> Bytes] /\ q.pkt.proposals \in [Batch -> Two]
        /\ Backed(V, q.pkt.round, q.pkt.proposals, q.pkt.values)
    <3>1. CASE got
      <4>1. q.pkt.proposals = NoBatch /\ q.pkt.values = NewValues(s)
        BY <1>8, <3>1
      <4>2. NoBatch \in [Batch -> Two] /\ \A i \in Batch : NoBatch[i] = 0
        BY DEF NoBatch, Two
      <4> QED
        BY <1>7, <4>1, <4>2 DEF Backed
    <3>2. CASE ~got
      <4>1. /\ q.pkt.proposals = s.pkt.proposals /\ q.pkt.values = s.pkt.values
            /\ q.pkt.round = s.pkt.round
        BY <1>2, <1>8, <3>2 DEF NextOf, t, got
      <4> QED
        BY <1>12, <4>1 DEF PacketInv
    <3> QED
      BY <3>1, <3>2
  <2>2. /\ q.pkt.phase \in 0..2 /\ q.pkt.phase # 0 /\ q.pkt.flags \subseteq Nodes
        /\ q.pkt.ballot \in Two /\ q.pkt.ballot # 0
    BY <1>2, <1>8, <1>13
  <2>3. q.pkt.max_heard \in Ends /\ q.pkt.max_heard <= LastOf(t)
    BY <1>8, <1>12 DEF PacketInv
  <2> QED
    BY <1>8, <1>14, <2>1, <2>2, <2>3 DEF PacketInv
<1>16. FlagsInv(V, n, q.pkt)
  BY <1>8 DEF FlagsInv, n
<1>17. AcceptorInv(V, t, n, q.acceptor)
  BY <1>10, <1>12 DEF AcceptorInv
<1>18. RxInv(V, t, q.pkt, q.rx)
  <2>1. q.pkt.phase # MULTIPAXOS_PREPARE => s.pkt.phase # MULTIPAXOS_PREPARE
    BY <1>2, <1>8 DEF MULTIPAXOS_PREPARE, MULTIPAXOS_ACCEPT
  <2>2. got => \A i \in Batch : s.rx.proposals[i] = 0
    BY <1>2, <1>12 DEF RxInv, MULTIPAXOS_PREPARE, MULTIPAXOS_ACCEPT
  <2>3. Backed(V, q.pkt.round, s.rx.proposals, s.rx.values)
    <3>1. CASE got
      BY <2>2, <3>1 DEF Backed
    <3>2. CASE ~got
      BY <1>2, <1>8, <1>12, <3>2 DEF NextOf, t, got, RxInv
    <3> QED
      BY <3>1, <3>2
  <2> QED
    BY <1>8, <1>12, <2>1, <2>3 DEF RxInv
<1>19. LearnerInv(V, t, q)
  BY <1>8, <1>12 DEF LearnerInv, AtStart
<1>20. LeaderInv(V, t, n, q)
  <2>1. q.leader.phase = MULTIPAXOS_ACCEPT =>
          q.pkt.phase = MULTIPAXOS_ACCEPT /\ q.pkt.values = q.leader.values
    BY <1>2, <1>8, <1>9
  <2>2. ASSUME q.leader.phase = MULTIPAXOS_PREPARE
        PROVE  \/ q.acceptor.last = LastOf(t)
               \/ V = {} /\ q.pkt.phase = MULTIPAXOS_PREPARE
    <3>1. ~got /\ t = r
      BY <1>2, <1>9, <2>2 DEF MULTIPAXOS_PREPARE, MULTIPAXOS_ACCEPT, NextOf, t, got
    <3>2. s.acceptor.last = LastOf(r) \/ V = {}
      BY <1>1, <1>9, <2>2 DEF LeaderInv, n, l
    <3> QED
      BY <1>8, <1>9, <1>10, <2>2, <3>1, <3>2
  <2>3. ASSUME q.pkt.phase = MULTIPAXOS_ACCEPT PROVE Agreed(V, t, q.pkt.values)
    <3>1. CASE got
      <4>1. \A x \in V : x.round < t
        BY <1>1, <3>1, NextVotes DEF n, t, got
      <4>2. \A x \in V : x.round \in Nat
        BY DEF VotesInv
      <4>3. \A x \in V, i \in Batch : x.round # t + i
        BY <1>14, <4>1, <4>2 DEF Batch
      <4> QED
        BY <4>3 DEF Agreed
    <3>2. CASE ~got
      <4>1. t = r /\ q.pkt.values = s.pkt.values /\ s.pkt.phase = MULTIPAXOS_ACCEPT
        BY <1>2, <1>8, <2>3, <3>2 DEF NextOf, t, got
      <4> QED
        BY <1>1, <4>1 DEF LeaderInv, n
    <3> QED
      BY <3>1, <3>2
  <2>4. q.leader.values \in [Batch -> Bytes]
    BY <1>2, <1>7, <1>9
  <2> QED
    BY <1>2, <1>8, <1>9, <2>1, <2>2, <2>3, <2>4 DEF LeaderInv, n
<1>21. RadioInv(t, q) /\ q.complete \in BOOLEAN
  <2>1. CHAOS_RESTART_MAX \in Nat /\ N_TX_COMPLETE \in Nat
    BY ChaosAssumption DEF ChaosAssumption
  <2>2. /\ q.complete = FALSE /\ q.got_valid_rx = TRUE /\ q.state = "TX"
        /\ q.restart_threshold = threshold
        /\ q.invalid_rx_count = 0 /\ q.tx_count_complete = 0
    BY <1>8 DEF AtStart, n
  <2>3. 0 \in 0..CHAOS_RESTART_MAX /\ 0 \in 0..(N_TX_COMPLETE + 1)
    BY <2>1
  <2>4. RadioOK(q)
    BY <2>2, <2>3 DEF RadioOK
  <2> QED
    BY <1>8, <2>4 DEF RadioInv, RadioOK
<1>22. NodeInv(V, t, n, q)
  BY <1>15, <1>16, <1>17, <1>18, <1>19, <1>20, <1>21 DEF NodeInv, CoreInv
<1> QED
  BY <1>4, <1>8, <1>10, <1>22 DEF LeaderStarted, n, t

(* The log of an acceptor is the same. *)
SameLog(a, b) == b.last = a.last /\ b.proposals = a.proposals /\ b.values = a.values

(* The application that designates the initiator, and nobody else, begins a
   round. *)
LEMMA RoundBeginCases ==
  ASSUME Leaders = {Initiator}, NEW n \in Nodes, NEW s, NEW threshold
  PROVE  RoundBegin(n, s, n \in Leaders, threshold) =
           IF n = Initiator THEN RoundBegin(Initiator, s, TRUE, threshold)
           ELSE Fresh(n, s, threshold)
<1>1. CASE n = Initiator
  <2>1. (n \in Leaders) = TRUE
    BY <1>1
  <2> QED
    BY <1>1, <2>1
<1>2. CASE n # Initiator
  <2>1. (n \in Leaders) = FALSE
    BY <1>2
  <2>2. RoundBegin(n, s, FALSE, threshold) = Fresh(n, s, threshold)
    BY <1>2 DEF RoundBegin, Fresh
  <2> QED
    BY <1>2, <2>1, <2>2
<1> QED
  BY <1>1, <1>2

(* The next round keeps the invariant, the votes and the logs. *)
LEMMA NextRoundKeeps ==
  ASSUME Leaders = {Initiator}, RoundsFit, MultiInv, NextRound
  PROVE  /\ MultiInv' /\ votes' = votes
         /\ CurrentRound' = NextOf(CurrentRound, node[Initiator])
         /\ \A n \in Nodes : SameLog(node[n].acceptor, node'[n].acceptor)
<1> DEFINE r == CurrentRound
           t == NextOf(r, node[Initiator])
           P == MULTIPAXOS_PKT_SIZE
<1>1. PICK threshold \in [Nodes -> Thresholds] :
        node' = [n \in Nodes |->
                   RoundBegin(n, node[n], n \in Leaders, threshold[n])]
  BY DEF NextRound
<1>2. /\ round_count < MAX_ROUNDS /\ round_count' = round_count + 1
      /\ votes' = votes /\ log' = log
  BY DEF NextRound
<1>3. Begins(r) /\ NodeInv(votes, r, Initiator, node[Initiator])
  BY RoundType
<1>4. LastOf(t) <= P * (round_count + 1) /\ Fits(t)
  <2>1. /\ r \in Nat /\ t \in Nat /\ P \in Nat /\ P > 0 /\ round_count \in Nat
        /\ MAX_ROUNDS \in Nat /\ Uint16 \in Nat
    BY <1>3, Constants DEF Begins, MultiInv, NextOf
  <2>2. LastOf(r) <= P * round_count
    BY DEF MultiInv
  <2>3. P * (round_count + 1) = (P * round_count) + P /\ P * round_count \in Nat
    BY <2>1
  <2>4. t <= r + P
    BY <2>1 DEF NextOf
  <2>5. MAX_ROUND = P * MAX_ROUNDS /\ MAX_ROUND + 1 < Uint16
    BY DEF RoundsFit, MAX_ROUND
  <2> HIDE DEF P, t, r
  <2>6. LastOf(t) <= LastOf(r) + P
    BY <2>1, <2>4 DEF LastOf, P
  <2>7. LastOf(t) <= P * (round_count + 1)
    BY <2>1, <2>2, <2>3, <2>6 DEF LastOf, P
  <2>8. P * (round_count + 1) <= P * MAX_ROUNDS /\ P * MAX_ROUNDS \in Nat
    BY <1>2, <2>1
  <2>9. t + P < Uint16
    BY <2>1, <2>3, <2>5, <2>7, <2>8 DEF LastOf, P
  <2> QED
    BY <2>7, <2>9 DEF Fits, P
<1>5. VotesInv(votes, r) /\ Later(r, t)
  BY <1>3, <1>4, NextIsLater DEF MultiInv
<1>6. /\ NodeInv(votes, t, Initiator, node'[Initiator])
      /\ node'[Initiator].pkt.round = t
      /\ SameLog(node[Initiator].acceptor, node'[Initiator].acceptor)
  <2> DEFINE q == RoundBegin(Initiator, node[Initiator], TRUE, threshold[Initiator])
  <2>1. Initiator \in Nodes /\ threshold[Initiator] \in Thresholds
    BY Constants
  <2>2. node'[Initiator] = q
    BY <1>1, <2>1, RoundBeginCases
  <2>3. /\ NodeInv(votes, t, Initiator, q) /\ q.pkt.round = t
        /\ q.acceptor.last = node[Initiator].acceptor.last
        /\ q.acceptor.proposals = node[Initiator].acceptor.proposals
        /\ q.acceptor.values = node[Initiator].acceptor.values
    <3>1. LeaderStarted(votes, r, node[Initiator], q)
      BY <1>3, <1>5, <1>4, <2>1, LeaderBegins
    <3> QED
      BY <3>1 DEF LeaderStarted
  <2> HIDE DEF q, t
  <2> QED
    BY <2>2, <2>3 DEF SameLog
<1>7. ASSUME NEW n \in Nodes, n # Initiator
      PROVE  /\ NodeInv(votes, t, n, node'[n])
             /\ SameLog(node[n].acceptor, node'[n].acceptor)
  <2>1. node'[n] = Fresh(n, node[n], threshold[n]) /\ threshold[n] \in Thresholds
    BY <1>1, <1>7, RoundBeginCases
  <2>2. NodeInv(votes, r, n, node[n])
    BY DEF MultiInv
  <2>3. NodeInv(votes, t, n, node'[n])
    BY <1>5, <1>7, <2>1, <2>2, FollowerBegins
  <2>4. node'[n].acceptor = node[n].acceptor
    BY <2>1, FreshFields
  <2> QED
    BY <2>3, <2>4 DEF SameLog
<1>8. VotesInv(votes, t)
  BY <1>3, <1>5, <1>4, NextVotes DEF NodeInv, CoreInv
<1>9. CurrentRound' = t
  BY <1>6 DEF CurrentRound
<1>10. t - 1 \in Ends
  BY <1>5 DEF Later, Begins
<1>11. LogInv'
  BY <1>2 DEF MultiInv, LogInv, ChosenLog, ChosenIn
<1>12. round_count' \in 1..MAX_ROUNDS
  BY <1>2, Constants DEF MultiInv
<1>13. DOMAIN node' = Nodes
  BY <1>1
<1>14. \A n \in Nodes : NodeInv(votes', CurrentRound', n, node'[n])
  BY <1>2, <1>6, <1>7, <1>9
<1>15. VotesInv(votes', CurrentRound')
  BY <1>2, <1>8, <1>9
<1>16. /\ CurrentRound' - 1 \in Ends /\ Fits(CurrentRound')
       /\ LastOf(CurrentRound') <= MULTIPAXOS_PKT_SIZE * round_count'
  BY <1>2, <1>9, <1>10, <1>4
<1>17. MultiInv'
  BY <1>11, <1>12, <1>13, <1>14, <1>15, <1>16 DEF MultiInv, Ends, LastOf, Fits
<1> QED
  BY <1>2, <1>6, <1>7, <1>9, <1>17

(* A replay keeps the invariant, the votes and the logs: only the leader that
   has just got a majority goes back, to a batch it has voted in. *)
LEMMA ReplayKeeps ==
  ASSUME MultiInv, ReplayLast
  PROVE  /\ MultiInv' /\ votes' = votes /\ CurrentRound' = CurrentRound
         /\ \A n \in Nodes : SameLog(node[n].acceptor, node'[n].acceptor)
<1> DEFINE r == CurrentRound
           s == node[Initiator]
           q == Replay(s)
<1>1. PICK n \in Nodes : /\ Replay(node[n]) # node[n]
                         /\ node' = [node EXCEPT ![n] = Replay(node[n])]
  BY DEF ReplayLast
<1>2. round_count' = round_count /\ votes' = votes /\ log' = log
  BY DEF ReplayLast
<1>3. multipaxos_leader_got_majority(node[n])
  BY <1>1 DEF Replay
<1>4. n = Initiator
  <2>1. NodeInv(votes, r, n, node[n])
    BY DEF MultiInv
  <2>2. node[n].leader.is_leader = (n = Initiator)
    BY <2>1 DEF NodeInv, CoreInv, LeaderInv
  <2> QED
    BY <1>3, <2>2 DEF multipaxos_leader_got_majority
<1>5. Begins(r) /\ NodeInv(votes, r, Initiator, s)
  BY RoundType
<1>6. s.leader.got_majority
  BY <1>3, <1>4 DEF multipaxos_leader_got_majority
<1>7. q = [s EXCEPT !.leader.phase = MULTIPAXOS_PREPARE,
                    !.leader.round = Round(@ - MULTIPAXOS_PKT_SIZE),
                    !.leader.got_majority = FALSE]
  BY <1>3, <1>4 DEF Replay
<1>8. q.leader = [s.leader EXCEPT !.phase = MULTIPAXOS_PREPARE,
                    !.round = Round(@ - MULTIPAXOS_PKT_SIZE), !.got_majority = FALSE]
  BY <1>7
<1>9. /\ q.pkt = s.pkt /\ q.acceptor = s.acceptor /\ q.learner = s.learner
      /\ q.rx = s.rx /\ q.complete = s.complete /\ SameRadio(s, q)
      /\ q.chosen_this_round = s.chosen_this_round
  BY <1>7 DEF SameRadio
<1> HIDE DEF q, r
<1>10. /\ q.leader.phase = MULTIPAXOS_PREPARE
       /\ q.leader.round = Round(s.leader.round - MULTIPAXOS_PKT_SIZE)
       /\ q.leader.got_majority = FALSE /\ q.leader.is_leader = s.leader.is_leader
       /\ q.leader.ballot = s.leader.ballot /\ q.leader.values = s.leader.values
       /\ q.leader.another = s.leader.another
  BY <1>8
<1>11. LeaderInv(votes, r, Initiator, q)
  <2>1. LeaderInv(votes, r, Initiator, s)
    BY <1>5 DEF NodeInv, CoreInv
  <2>2. q.leader.round = r
    <3>1. s.leader.round = r + MULTIPAXOS_PKT_SIZE
      BY <1>6, <2>1 DEF LeaderInv
    <3>2. /\ r \in Nat /\ MULTIPAXOS_PKT_SIZE \in Nat
          /\ (r + MULTIPAXOS_PKT_SIZE) - MULTIPAXOS_PKT_SIZE = r /\ r < Uint16
      BY <1>5, Constants DEF Begins, Fits
    <3>3. Round(r) = r
      BY <3>2, RoundIsSame
    <3> QED
      BY <1>10, <3>1, <3>2, <3>3
  <2>3. s.acceptor.last = LastOf(r)
    BY <1>6, <2>1 DEF LeaderInv
  <2>4. q.leader.phase \in 1..2 /\ q.leader.phase # MULTIPAXOS_ACCEPT
    BY <1>10 DEF MULTIPAXOS_PREPARE, MULTIPAXOS_ACCEPT
  <2>5. q.leader.is_leader = (Initiator = Initiator) /\ ~q.leader.another
    BY <1>10, <2>1 DEF LeaderInv
  <2> QED
    BY <1>9, <1>10, <2>1, <2>2, <2>3, <2>4, <2>5 DEF LeaderInv
<1>12. LearnerInv(votes, r, q)
  BY <1>5, <1>9 DEF NodeInv, CoreInv, LearnerInv
<1>13. RadioInv(r, q)
  BY <1>5, <1>9 DEF NodeInv, RadioInv, RadioOK, SameRadio
<1>14. NodeInv(votes, r, Initiator, q)
  BY <1>5, <1>9, <1>11, <1>12, <1>13 DEF NodeInv, CoreInv
<1>15. node' = [node EXCEPT ![Initiator] = q] /\ DOMAIN node = Nodes
  BY <1>1, <1>4 DEF MultiInv, q
<1>16. node'[Initiator] = q /\ \A m \in Nodes : m # Initiator => node'[m] = node[m]
  BY <1>15, Constants
<1>17. CurrentRound' = r
  BY <1>9, <1>16 DEF CurrentRound, r
<1>18. \A m \in Nodes : NodeInv(votes', CurrentRound', m, node'[m])
  BY <1>2, <1>14, <1>16, <1>17 DEF MultiInv, r
<1>19. LogInv'
  BY <1>2 DEF MultiInv, LogInv, ChosenLog, ChosenIn
<1>20. VotesInv(votes', CurrentRound')
  BY <1>2, <1>17 DEF MultiInv, r
<1>21. /\ DOMAIN node' = Nodes /\ round_count' \in 1..MAX_ROUNDS
       /\ CurrentRound' - 1 \in Ends /\ Fits(CurrentRound')
       /\ LastOf(CurrentRound') <= MULTIPAXOS_PKT_SIZE * round_count'
  BY <1>2, <1>15, <1>17 DEF MultiInv, r
<1>22. MultiInv'
  BY <1>18, <1>19, <1>20, <1>21 DEF MultiInv, Ends, LastOf, Fits
<1> QED
  BY <1>2, <1>9, <1>16, <1>17, <1>22 DEF SameLog, r

-----------------------------------------------------------------------------
(* A node at boot is sound, but for the leader in it. *)
LEMMA BootSound ==
  ASSUME RoundsFit, NEW n \in Nodes
  PROVE  /\ PacketInv({}, 1, Boot.pkt) /\ AcceptorInv({}, 1, n, Boot.acceptor)
         /\ RxInv({}, 1, Boot.pkt, Boot.rx) /\ LearnerInv({}, 1, Boot)
         /\ Boot.pkt.phase = 0 /\ Begins(1)
         /\ n # Initiator => NodeInv({}, 1, n, Boot)
<1>1. /\ MULTIPAXOS_PKT_SIZE \in Nat /\ MULTIPAXOS_PKT_SIZE > 0
      /\ Uint8 \in Nat /\ Uint8 > 0 /\ 0 \in Batch
  BY Constants DEF Batch
<1>2. LastOf(1) = MULTIPAXOS_PKT_SIZE
  BY <1>1 DEF LastOf
<1>3. /\ 0 \in Two /\ 0 \in Bytes /\ 0 \in Ends /\ 0 <= LastOf(1) /\ 0 # LastOf(1)
  BY <1>1, <1>2, EndsType DEF Two, Bytes
<1>4. /\ NoBatch \in [Batch -> Bytes] /\ NoBatch \in [Batch -> Two]
      /\ \A i \in Batch : NoBatch[i] = 0
  BY <1>3 DEF NoBatch
<1>5. /\ [k \in LogSlots |-> 0] \in [LogSlots -> Bytes]
      /\ [k \in LogSlots |-> 0] \in [LogSlots -> Two]
  BY <1>3
<1>6. \A r, vs : Backed({}, r, NoBatch, vs)
  BY <1>4 DEF Backed
<1>7. Begins(1)
  <2>1. MAX_ROUNDS \in Nat /\ MAX_ROUNDS >= 1
    BY LeadersAssumption DEF LeadersAssumption
  <2>2. MULTIPAXOS_PKT_SIZE * MAX_ROUNDS >= MULTIPAXOS_PKT_SIZE
    BY <1>1, <2>1
  <2>3. 1 + MULTIPAXOS_PKT_SIZE < Uint16
    BY <1>1, <2>1, <2>2, Constants DEF RoundsFit, MAX_ROUND
  <2> QED
    BY <2>3, EndsType DEF Begins, Fits
<1>8. PacketInv({}, 1, Boot.pkt) /\ Boot.pkt.phase = 0
  BY <1>3, <1>4, <1>6 DEF PacketInv, Boot, MULTIPAXOS_INIT
<1>9. AcceptorInv({}, 1, n, Boot.acceptor)
  BY <1>3, <1>5 DEF AcceptorInv, Boot
<1>10. RxInv({}, 1, Boot.pkt, Boot.rx)
  BY <1>3, <1>4, <1>6 DEF RxInv, Boot, NoRx
<1>11. LearnerInv({}, 1, Boot)
  BY <1>3, <1>5 DEF LearnerInv, Boot
<1>12. FlagsInv({}, n, Boot.pkt)
  BY <1>8 DEF FlagsInv, MULTIPAXOS_ACCEPT
<1>13. RadioInv(1, Boot) /\ Boot.complete \in BOOLEAN
  <2>1. /\ CHAOS_RESTART_MIN \in Thresholds /\ 0 \in 0..CHAOS_RESTART_MAX
        /\ 0 \in 0..(N_TX_COMPLETE + 1)
    BY ChaosAssumption DEF ChaosAssumption, Thresholds
  <2> QED
    BY <2>1 DEF RadioInv, RadioOK, Boot
<1>14. ASSUME n # Initiator PROVE NodeInv({}, 1, n, Boot)
  <2>1. LeaderInv({}, 1, n, Boot)
    BY <1>4, <1>14 DEF LeaderInv, Boot
  <2> QED
    BY <1>8, <1>9, <1>10, <1>11, <1>12, <1>13, <2>1 DEF NodeInv, CoreInv
<1> QED
  BY <1>7, <1>8, <1>9, <1>10, <1>11, <1>14

(* The leader in its first round: it asks for the first batch, and its log is
   empty. *)
LeaderBooted(q) ==
  NodeInv({}, 1, Initiator, q) /\ q.pkt.round = 1 /\ q.acceptor.last = 0

(* This is what round_begin leaves after boot. *)
LEMMA LeaderBoots ==
  ASSUME RoundsFit, NEW threshold \in Thresholds
  PROVE  LeaderBooted(RoundBegin(Initiator, Boot, TRUE, threshold))
<1> DEFINE n == Initiator
           f == Fresh(n, Boot, threshold)
           d == InitialLeader(n, f)
           q == Lead(n, d)
<1>1. /\ SameRequest(Boot.pkt, f.pkt)
      /\ f.leader = Boot.leader /\ f.acceptor = Boot.acceptor
      /\ f.learner = Boot.learner /\ f.rx = Boot.rx
      /\ AtStart(n, f, threshold)
  BY FreshFields
<1>2. /\ PacketInv({}, 1, Boot.pkt) /\ AcceptorInv({}, 1, n, Boot.acceptor)
      /\ RxInv({}, 1, Boot.pkt, Boot.rx) /\ LearnerInv({}, 1, Boot)
  BY BootSound, Constants
<1>3. /\ Boot.leader = [is_leader |-> FALSE, ballot |-> 0, values |-> NoBatch,
                        phase |-> MULTIPAXOS_INIT, round |-> 0,
                        got_majority |-> FALSE, another |-> FALSE]
      /\ Boot.learner.last = 0 /\ Boot.acceptor.last = 0
  BY DEF Boot
<1>4. /\ ~f.leader.is_leader /\ f.leader.ballot = 0 /\ f.leader.values = NoBatch
      /\ f.leader.phase = MULTIPAXOS_INIT /\ f.leader.got_majority = FALSE
      /\ f.leader.another = FALSE /\ f.learner.last = 0 /\ f.acceptor.last = 0
  BY <1>1, <1>3
<1> HIDE DEF f
<1>5. /\ d.leader = [f.leader EXCEPT !.is_leader = TRUE, !.ballot = LeaderBallot,
                                     !.round = 1]
      /\ d.pkt = f.pkt /\ d.acceptor = f.acceptor /\ d.learner = f.learner
      /\ d.rx = f.rx /\ AtStart(n, d, threshold)
  <2>1. Uint8 * Max({f.leader.ballot \div Uint8, 1}) + n = LeaderBallot
    <3>1. Uint8 \in Nat /\ Uint8 > 0 /\ n \in Nat
      BY Constants
    <3>2. f.leader.ballot \div Uint8 = 0
      BY <1>4, <3>1
    <3>3. Max({f.leader.ballot \div Uint8, 1}) = 1
      BY <3>2, MaxOfTwo
    <3>4. Uint8 * 1 = Uint8
      BY <3>1
    <3> HIDE DEF n
    <3> QED
      BY <3>1, <3>3, <3>4 DEF LeaderBallot, n
  <2>2. (IF f.acceptor.last > 0
         THEN Max({Round(f.learner.last + 1),
                   Round(f.acceptor.last - MULTIPAXOS_PKT_SIZE + 1)})
         ELSE Round(f.learner.last + 1)) = 1
    BY <1>4, Constants, RoundIsSame
  <2>3. d = [f EXCEPT !.leader.is_leader = TRUE, !.leader.ballot = LeaderBallot,
                      !.leader.round = 1]
    BY <2>1, <2>2 DEF InitialLeader
  <2> QED
    BY <1>1, <2>3 DEF AtStart
<1> HIDE DEF d
<1>6. /\ d.leader.is_leader = TRUE /\ d.leader.ballot = LeaderBallot
      /\ d.leader.round = 1 /\ d.leader.phase = MULTIPAXOS_INIT
      /\ d.leader.values = NoBatch /\ d.leader.another = FALSE
      /\ d.leader.got_majority = FALSE
  BY <1>4, <1>5
<1>7. RoundBegin(n, Boot, TRUE, threshold) = q
  <2>1. Designate(n, f, NewValues(Boot)) = d
    BY <1>4 DEF Designate, d
  <2>2. RoundBegin(n, Boot, TRUE, threshold) =
          LET led == Designate(n, f, NewValues(Boot))
          IN IF led.leader.is_leader THEN Lead(n, led) ELSE led
    BY DEF RoundBegin, Fresh, f
  <2> QED
    BY <1>6, <2>1, <2>2
<1>8. /\ q.leader = [d.leader EXCEPT !.phase = MULTIPAXOS_PREPARE,
                                     !.got_majority = FALSE]
      /\ q.pkt.round = 1 /\ q.pkt.phase = MULTIPAXOS_PREPARE
      /\ q.pkt.flags \subseteq {n} /\ q.pkt.max_heard = Boot.pkt.max_heard
      /\ q.pkt.ballot = LeaderBallot /\ q.pkt.values = Boot.pkt.values
      /\ q.pkt.proposals = Boot.pkt.proposals
      /\ q.acceptor = [Boot.acceptor EXCEPT !.min = LeaderBallot]
      /\ q.learner = Boot.learner /\ q.rx = Boot.rx
      /\ AtStart(n, q, threshold)
  <2> DEFINE begun == d.leader.phase = MULTIPAXOS_INIT
             phase == IF begun THEN MULTIPAXOS_PREPARE ELSE d.leader.phase
             again == ~begun /\ d.leader.got_majority
  <2>1. /\ q.leader = [d.leader EXCEPT !.phase = phase, !.got_majority = FALSE]
        /\ q.pkt.round = d.leader.round /\ q.pkt.phase = phase
        /\ q.pkt.flags \subseteq {n} /\ q.pkt.max_heard = d.pkt.max_heard
        /\ q.pkt.ballot = IF begun THEN d.leader.ballot ELSE d.pkt.ballot
        /\ q.pkt.values = IF again THEN d.leader.values ELSE d.pkt.values
        /\ q.pkt.proposals = IF again THEN NoBatch ELSE d.pkt.proposals
        /\ q.acceptor = [d.acceptor EXCEPT !.min = IF begun THEN d.leader.ballot ELSE @]
        /\ q.learner = d.learner /\ q.rx = d.rx
        /\ \A h : AtStart(n, d, h) => AtStart(n, q, h)
    BY LeadFields
  <2>2. begun /\ phase = MULTIPAXOS_PREPARE /\ ~again
    BY <1>6
  <2> HIDE DEF begun, phase, again, q
  <2> QED
    BY <1>1, <1>5, <1>6, <2>1, <2>2 DEF SameRequest
<1> HIDE DEF q
<1>9. /\ q.leader.is_leader = TRUE /\ q.leader.ballot = LeaderBallot
      /\ q.leader.phase = MULTIPAXOS_PREPARE /\ q.leader.round = 1
      /\ q.leader.got_majority = FALSE /\ q.leader.another = FALSE
      /\ q.leader.values = NoBatch
  BY <1>6, <1>8
<1>10. /\ q.acceptor.min = LeaderBallot /\ q.acceptor.last = 0
       /\ q.acceptor.proposals = Boot.acceptor.proposals
       /\ q.acceptor.values = Boot.acceptor.values
  BY <1>3, <1>8 DEF Boot
<1>11. LeaderBallot \in Two /\ LeaderBallot # 0 /\ n \in Nodes /\ 0 \in Ends
  BY TwoType, Constants, EndsType DEF Two
<1> HIDE DEF n
<1>12. Boot.pkt.proposals = NoBatch /\ Boot.rx.proposals = NoBatch
  BY DEF Boot, NoRx
<1>13. \A r, vs : Backed({}, r, NoBatch, vs)
  BY DEF Backed, NoBatch
<1>14. PacketInv({}, 1, q.pkt)
  BY <1>2, <1>8, <1>11, <1>12, <1>13 DEF PacketInv, MULTIPAXOS_PREPARE
<1>15. FlagsInv({}, n, q.pkt)
  BY <1>8 DEF FlagsInv, MULTIPAXOS_PREPARE, MULTIPAXOS_ACCEPT
<1>16. AcceptorInv({}, 1, n, q.acceptor)
  BY <1>2, <1>3, <1>10, <1>11 DEF AcceptorInv
<1>17. RxInv({}, 1, q.pkt, q.rx)
  BY <1>2, <1>8, <1>12, <1>13 DEF RxInv
<1>18. LearnerInv({}, 1, q)
  BY <1>2, <1>8 DEF LearnerInv, AtStart
<1>19. LeaderInv({}, 1, n, q)
  <2>1. NoBatch \in [Batch -> Bytes]
    BY Constants DEF NoBatch, Bytes
  <2>2. q.leader.phase \in 1..2 /\ MULTIPAXOS_PREPARE # MULTIPAXOS_ACCEPT
    BY <1>9 DEF MULTIPAXOS_PREPARE, MULTIPAXOS_ACCEPT
  <2>3. q.leader.is_leader = (n = Initiator)
    BY <1>9 DEF n
  <2> QED
    BY <1>8, <1>9, <2>1, <2>2, <2>3 DEF LeaderInv
<1>20. RadioInv(1, q) /\ q.complete \in BOOLEAN
  <2>1. CHAOS_RESTART_MAX \in Nat /\ N_TX_COMPLETE \in Nat
    BY ChaosAssumption DEF ChaosAssumption
  <2>2. /\ q.complete = FALSE /\ q.got_valid_rx = TRUE /\ q.state = "TX"
        /\ q.restart_threshold = threshold
        /\ q.invalid_rx_count = 0 /\ q.tx_count_complete = 0
    BY <1>8 DEF AtStart, n
  <2>3. 0 \in 0..CHAOS_RESTART_MAX /\ 0 \in 0..(N_TX_COMPLETE + 1)
    BY <2>1
  <2>4. RadioOK(q)
    BY <2>2, <2>3 DEF RadioOK
  <2> QED
    BY <1>8, <2>4 DEF RadioInv, RadioOK
<1>21. NodeInv({}, 1, n, q)
  BY <1>14, <1>15, <1>16, <1>17, <1>18, <1>19, <1>20 DEF NodeInv, CoreInv
<1> QED
  BY <1>7, <1>8, <1>10, <1>21 DEF LeaderBooted, n

(* The initial states satisfy the invariant; no acceptor has voted. *)
LEMMA InitHolds ==
  ASSUME Leaders = {Initiator}, RoundsFit, Init
  PROVE  /\ MultiInv /\ CurrentRound = 1
         /\ \A n \in Nodes : node[n].acceptor.last = 0
<1>1. PICK threshold \in [Nodes -> Thresholds] :
        node = [n \in Nodes |-> RoundBegin(n, Boot, n \in Leaders, threshold[n])]
  BY DEF Init
<1>2. round_count = 1 /\ votes = {} /\ log = <<>>
  BY DEF Init
<1>3. LeaderBooted(node[Initiator])
  <2>1. Initiator \in Nodes /\ threshold[Initiator] \in Thresholds
    BY Constants
  <2>2. node[Initiator] =
          RoundBegin(Initiator, Boot, TRUE, threshold[Initiator])
    BY <1>1, <2>1, RoundBeginCases
  <2> QED
    BY <2>1, <2>2, LeaderBoots
<1>4. ASSUME NEW n \in Nodes, n # Initiator
      PROVE  NodeInv({}, 1, n, node[n]) /\ node[n].acceptor.last = 0
  <2>1. node[n] = Fresh(n, Boot, threshold[n]) /\ threshold[n] \in Thresholds
    BY <1>1, <1>4, RoundBeginCases
  <2>2. NodeInv({}, 1, n, Boot) /\ Later(1, 1)
    BY <1>4, BootSound DEF Later
  <2>3. NodeInv({}, 1, n, node[n])
    BY <1>4, <2>1, <2>2, FollowerBegins
  <2>4. node[n].acceptor = Boot.acceptor
    BY <2>1, FreshFields
  <2> QED
    BY <2>3, <2>4 DEF Boot
<1>5. CurrentRound = 1
  BY <1>3 DEF CurrentRound, LeaderBooted
<1>6. VotesInv({}, 1)
  BY DEF VotesInv, OneValue
<1>7. LastOf(1) <= MULTIPAXOS_PKT_SIZE * 1 /\ 1 - 1 \in Ends
  BY Constants, EndsType DEF LastOf
<1>8. round_count \in 1..MAX_ROUNDS
  BY <1>2, LeadersAssumption DEF LeadersAssumption
<1>9. \A n \in Nodes : NodeInv(votes, CurrentRound, n, node[n])
  BY <1>2, <1>3, <1>4, <1>5 DEF LeaderBooted
<1>10. DOMAIN node = Nodes
  BY <1>1
<1>11. LogInv
  BY <1>2 DEF LogInv
<1>12. Fits(1)
  BY BootSound, Constants DEF Begins
<1>13. MultiInv
  BY <1>2, <1>5, <1>6, <1>7, <1>8, <1>9, <1>10, <1>11, <1>12 DEF MultiInv
<1> QED
  BY <1>3, <1>4, <1>5, <1>13 DEF LeaderBooted

(* Every step keeps the invariant and the votes. *)
LEMMA NextKeeps ==
  ASSUME Leaders = {Initiator}, RoundsFit, MultiInv, [Next]_vars
  PROVE  MultiInv' /\ votes \subseteq votes'
<1>1. CASE Slot
  BY <1>1, SlotKeeps
<1>2. CASE NextRound
  BY <1>2, NextRoundKeeps
<1>3. CASE ReplayLast
  BY <1>3, ReplayKeeps
<1>4. CASE UNCHANGED vars
  BY <1>4 DEF vars, MultiInv, CurrentRound, LogInv, ChosenLog, ChosenIn
<1> QED
  BY <1>1, <1>2, <1>3, <1>4 DEF Next

(* The inductive invariant holds throughout. *)
LEMMA MultiInvariant ==
  ASSUME Leaders = {Initiator}, RoundsFit
  PROVE  Spec => []MultiInv
<1>1. Init => MultiInv
  BY InitHolds
<1>2. MultiInv /\ [Next]_vars => MultiInv'
  BY NextKeeps
<1> QED
  BY <1>1, <1>2, PTL DEF Spec

-----------------------------------------------------------------------------
(* With one leader the ballots of the model are 0 and the leader's. *)
LEMMA BallotsAreTwo ==
  ASSUME Leaders = {Initiator} PROVE Ballots = Two
BY DEF Ballots, Two, LeaderBallot

(* The bounds of the rounds. *)
LEMMA RoundBounds ==
  ASSUME MultiInv
  PROVE  /\ CurrentRound \in Nat /\ CurrentRound > 0 /\ LastOf(CurrentRound) \in Nat
         /\ CurrentRound <= LastOf(CurrentRound)
         /\ LastOf(CurrentRound) <= MAX_ROUND /\ MAX_ROUND \in Nat
         /\ CurrentRound + MULTIPAXOS_PKT_SIZE = LastOf(CurrentRound) + 1
<1> DEFINE r == CurrentRound
           P == MULTIPAXOS_PKT_SIZE
           m == MAX_ROUNDS
<1>1. /\ r \in Nat /\ r > 0 /\ LastOf(r) \in Nat
      /\ P \in Nat /\ P > 0 /\ m \in Nat /\ round_count \in Nat /\ round_count <= m
      /\ LastOf(r) <= P * round_count
  BY RoundType, BatchRounds, Constants DEF MultiInv
<1>2. r <= LastOf(r) /\ r + P = LastOf(r) + 1
  BY <1>1 DEF LastOf
<1> HIDE DEF r, P, m
<1>3. P * round_count <= P * m /\ P * m \in Nat /\ P * round_count \in Nat
  BY <1>1
<1>4. LastOf(r) <= P * m
  BY <1>1, <1>3
<1> QED
  BY <1>1, <1>2, <1>3, <1>4 DEF MAX_ROUND, r, P, m

(* Type correctness (MultiPaxos!TypeOK): ballots, phases, rounds and values of
   every node keep to their types, and a Synchrotron round advances the log by
   one batch at most (multipaxos.c:461), as long as the 16-bit round number does
   not wrap (RoundsFit). *)
THEOREM MultiTypeCorrect ==
  ASSUME Leaders = {Initiator}, RoundsFit
  PROVE  Spec => []TypeOK
<1>1. MultiInv => TypeOK
  <2> SUFFICES ASSUME MultiInv, NEW n \in Nodes PROVE NodeOK(node[n])
    BY DEF TypeOK, MultiInv
  <2> DEFINE s == node[n]
             r == CurrentRound
  <2>1. CoreInv(votes, r, n, s) /\ RadioOK(s)
    BY DEF MultiInv, NodeInv, RadioInv
  <2>2. /\ r \in Nat /\ LastOf(r) \in Nat /\ r <= LastOf(r)
        /\ LastOf(r) <= MAX_ROUND /\ MAX_ROUND \in Nat
        /\ r + MULTIPAXOS_PKT_SIZE = LastOf(r) + 1
    BY RoundBounds
  <2> HIDE DEF s, r
  <2>3. \A e \in Nat : (e <= r \/ e <= LastOf(r)) => e \in 0..MAX_ROUND
    BY <2>2
  <2>4. /\ s.pkt.ballot \in Ballots /\ s.pkt.flags \subseteq Nodes
        /\ s.pkt.phase \in {MULTIPAXOS_INIT, MULTIPAXOS_PREPARE, MULTIPAXOS_ACCEPT}
        /\ s.pkt.round \in 0..MAX_ROUND /\ s.pkt.max_heard \in 0..MAX_ROUND
        /\ s.pkt.values \in [Batch -> Bytes] /\ s.pkt.proposals \in [Batch -> Ballots]
    <3>1. PacketInv(votes, r, s.pkt)
      BY <2>1 DEF CoreInv
    <3>2. s.pkt.round \in 0..MAX_ROUND /\ s.pkt.max_heard \in 0..MAX_ROUND
      BY <2>3, <3>1, EndsType DEF PacketInv
    <3>3. s.pkt.phase \in {MULTIPAXOS_INIT, MULTIPAXOS_PREPARE, MULTIPAXOS_ACCEPT}
      BY <3>1 DEF PacketInv, MULTIPAXOS_INIT, MULTIPAXOS_PREPARE, MULTIPAXOS_ACCEPT
    <3> QED
      BY <3>1, <3>2, <3>3, BallotsAreTwo DEF PacketInv
  <2>5. s.leader.values \in [Batch -> Bytes] /\ s.leader.round \in 0..(MAX_ROUND + 1)
    <3>1. LeaderInv(votes, r, n, s)
      BY <2>1 DEF CoreInv
    <3>2. s.leader.round \in {0, r, r + MULTIPAXOS_PKT_SIZE}
      BY <3>1 DEF LeaderInv
    <3>3. 0 \in 0..(MAX_ROUND + 1) /\ r \in 0..(MAX_ROUND + 1)
          /\ r + MULTIPAXOS_PKT_SIZE \in 0..(MAX_ROUND + 1)
      BY <2>2
    <3> QED
      BY <3>1, <3>2, <3>3 DEF LeaderInv
  <2>6. /\ s.acceptor.min \in Ballots /\ s.acceptor.last \in 0..MAX_ROUND
        /\ s.acceptor.proposals \in [LogSlots -> Ballots]
        /\ s.acceptor.values \in [LogSlots -> Bytes]
    BY <2>1, <2>3, EndsType, BallotsAreTwo DEF CoreInv, AcceptorInv
  <2>7. s.learner.values \in [LogSlots -> Bytes] /\ s.learner.last \in 0..MAX_ROUND
    BY <2>1, <2>3 DEF CoreInv, LearnerInv
  <2> QED
    BY <2>1, <2>4, <2>5, <2>6, <2>7 DEF NodeOK, s
<1> QED
  BY <1>1, MultiInvariant, PTL

-----------------------------------------------------------------------------
(* The votes for v in round k are as many as the nodes that cast them. *)
LEMMA VotersCount ==
  ASSUME NEW V, NEW r, VotesInv(V, r), NEW k, NEW v
  PROVE  LET S == {y \in V : y.round = k /\ y.ballot = LeaderBallot /\ y.value = v}
         IN Quorum(V, k, v) <=> Majority(Cardinality(S))
<1> DEFINE S == {y \in V : y.round = k /\ y.ballot = LeaderBallot /\ y.value = v}
           F == {n \in Nodes : Vote(n, k, v) \in V}
<1>1. IsFiniteSet(Nodes)
  BY Constants
<1>2. IsFiniteSet(F) /\ F \in SUBSET Nodes
  BY <1>1, FS_Subset
<1>3. ASSUME NEW y \in S PROVE y.node \in F /\ y = Vote(y.node, k, v)
  BY DEF VotesInv
<1>4. ASSUME NEW n \in F PROVE Vote(n, k, v) \in S /\ Vote(n, k, v).node = n
  BY DEF Vote
<1> HIDE DEF S, F
<1>5. IsFiniteSet(S) /\ Cardinality(S) <= Cardinality(F)
  <2> DEFINE g == [y \in S |-> y.node]
  <2>1. g \in [S -> F]
    BY <1>3
  <2>2. \A x, y \in S : g[x] = g[y] => x = y
    BY <1>3
  <2>3. g \in Injection(S, F)
    BY <2>1, <2>2 DEF Injection, IsInjective
  <2> HIDE DEF g
  <2> QED
    BY <1>2, <2>3, FS_Injection
<1>6. Cardinality(S) \in Nat /\ Cardinality(F) \in Nat /\ Cardinality(Nodes) \in Nat
  BY <1>1, <1>2, <1>5, FS_CardinalityType
<1>7. ASSUME Quorum(V, k, v) PROVE Majority(Cardinality(S))
  <2>1. PICK G \in SUBSET Nodes :
          Majority(Cardinality(G)) /\ \A f \in G : Vote(f, k, v) \in V
    BY <1>7 DEF Quorum
  <2>2. G \in SUBSET F
    BY <2>1 DEF F
  <2> DEFINE g == [n \in G |-> Vote(n, k, v)]
  <2>3. g \in [G -> S]
    BY <1>4, <2>2
  <2>4. \A x, y \in G : g[x] = g[y] => x = y
    BY <1>4, <2>2
  <2>5. g \in Injection(G, S)
    BY <2>3, <2>4 DEF Injection, IsInjective
  <2> HIDE DEF g
  <2>6. IsFiniteSet(G) /\ Cardinality(G) <= Cardinality(S)
    BY <1>5, <2>5, FS_Injection
  <2>7. Cardinality(G) \in Nat
    BY <2>6, FS_CardinalityType
  <2> QED
    BY <1>6, <2>1, <2>6, <2>7 DEF Majority
<1>8. ASSUME Majority(Cardinality(S)) PROVE Quorum(V, k, v)
  <2>1. Majority(Cardinality(F))
    BY <1>5, <1>6, <1>8 DEF Majority
  <2> QED
    BY <1>2, <2>1 DEF Quorum, F
<1> QED
  BY <1>7, <1>8 DEF S

(* A majority is somebody. *)
LEMMA QuorumVotes ==
  ASSUME NEW V, NEW k, NEW v, Quorum(V, k, v)
  PROVE  \E n \in Nodes : Vote(n, k, v) \in V
<1>1. PICK F \in SUBSET Nodes :
        Majority(Cardinality(F)) /\ \A f \in F : Vote(f, k, v) \in V
  BY DEF Quorum
<1>2. F # {}
  BY <1>1, NobodyIsNoMajority, FS_EmptySet
<1> QED
  BY <1>1, <1>2

(* What the model records as chosen in a round is what a majority voted for. *)
LEMMA ChosenIsQuorum ==
  ASSUME NEW V, NEW r, VotesInv(V, r), NEW k
  PROVE  \A v : v \in ChosenIn(k, V) <=> Quorum(V, k, v)
<1> DEFINE S(b, v) == {y \in V : y.round = k /\ y.ballot = b /\ y.value = v}
<1>1. ASSUME NEW v, v \in ChosenIn(k, V) PROVE Quorum(V, k, v)
  <2>1. PICK x \in V : /\ x.round = k /\ x.value = v
                       /\ Majority(Cardinality(S(x.ballot, x.value)))
    BY <1>1 DEF ChosenIn
  <2>2. x.ballot = LeaderBallot
    <3>1. x = Vote(x.node, x.round, x.value)
      BY DEF VotesInv
    <3> DEFINE z == Vote(x.node, x.round, x.value)
    <3>2. z.ballot = LeaderBallot
      BY DEF Vote
    <3> HIDE DEF z
    <3> QED
      BY <3>1, <3>2 DEF z
  <2>3. Majority(Cardinality(S(LeaderBallot, v)))
    BY <2>1, <2>2
  <2> QED
    BY <2>3, VotersCount
<1>2. ASSUME NEW v, Quorum(V, k, v) PROVE v \in ChosenIn(k, V)
  <2>1. PICK n \in Nodes : Vote(n, k, v) \in V
    BY <1>2, QuorumVotes
  <2>2. /\ Vote(n, k, v).round = k /\ Vote(n, k, v).ballot = LeaderBallot
        /\ Vote(n, k, v).value = v
    BY DEF Vote
  <2>3. Majority(Cardinality(S(LeaderBallot, v)))
    BY <1>2, VotersCount
  <2> DEFINE x == Vote(n, k, v)
  <2> HIDE DEF x
  <2>4. x \in V /\ x.round = k /\ x.value = v /\ x.ballot = LeaderBallot
    BY <2>1, <2>2 DEF x
  <2>5. Majority(Cardinality(S(x.ballot, x.value)))
    BY <2>3, <2>4
  <2> QED
    BY <2>4, <2>5 DEF ChosenIn
<1> QED
  BY <1>1, <1>2

(* The log ends with the batch r if a majority has voted for its first round,
   and before that batch if not. *)
LogEnd(V, r) == IF \E v : Quorum(V, r, v) THEN LastOf(r) ELSE r - 1

(* A round has one chosen value, and it is a byte. *)
LEMMA QuorumsAgree ==
  ASSUME NEW V, NEW r, VotesInv(V, r), NEW k, NEW v, Quorum(V, k, v)
  PROVE  v \in Bytes /\ \A w : Quorum(V, k, w) => w = v
<1>1. PICK n \in Nodes : Vote(n, k, v) \in V
  BY QuorumVotes
<1>2. \A m, w : Vote(m, k, w).round = k /\ Vote(m, k, w).value = w
  BY DEF Vote
<1>3. v \in Bytes
  BY <1>1, <1>2 DEF VotesInv
<1>4. ASSUME NEW w, Quorum(V, k, w) PROVE w = v
  <2>1. PICK m \in Nodes : Vote(m, k, w) \in V
    BY <1>4, QuorumVotes
  <2>2. OneValue(V)
    BY DEF VotesInv
  <2> QED
    BY <1>1, <1>2, <2>1, <2>2 DEF OneValue
<1> QED
  BY <1>3, <1>4

(* Batches are chosen as a whole: who votes in one round of a batch votes in
   all of them. *)
LEMMA WholeBatches ==
  ASSUME NEW V, NEW r, VotesInv(V, r), NEW i \in Batch, NEW j \in Batch,
         NEW v, Quorum(V, r + i, v)
  PROVE  \E w : Quorum(V, r + j, w)
<1>1. PICK F \in SUBSET Nodes :
        Majority(Cardinality(F)) /\ \A f \in F : Vote(f, r + i, v) \in V
  BY DEF Quorum
<1>2. \A m, k, w : /\ Vote(m, k, w).round = k /\ Vote(m, k, w).value = w
                   /\ Vote(m, k, w).node = m
  BY DEF Vote
<1>3. ASSUME NEW f \in F PROVE \E w \in Bytes : Vote(f, r + j, w) \in V
  BY <1>1, <1>2 DEF VotesInv
<1>4. F # {}
  BY <1>1, NobodyIsNoMajority, FS_EmptySet
<1>5. PICK f \in F : TRUE
  BY <1>4
<1>6. PICK w \in Bytes : Vote(f, r + j, w) \in V
  BY <1>3
<1>7. OneValue(V)
  BY DEF VotesInv
<1>8. ASSUME NEW g \in F PROVE Vote(g, r + j, w) \in V
  <2>1. PICK u \in Bytes : Vote(g, r + j, u) \in V
    BY <1>3
  <2>2. u = w
    BY <1>2, <1>6, <1>7, <2>1 DEF OneValue
  <2> QED
    BY <2>1, <2>2
<1> QED
  BY <1>1, <1>8 DEF Quorum

(* The rounds with a chosen value are the ones up to the end of the log. *)
LEMMA ChosenRounds ==
  ASSUME NEW V, NEW r, VotesInv(V, r), Begins(r)
  PROVE  /\ LogEnd(V, r) \in Nat /\ LogEnd(V, r) <= LastOf(r)
         /\ \A k \in Nat \ {0} : (\E v : Quorum(V, k, v)) <=> k <= LogEnd(V, r)
<1> DEFINE m == LogEnd(V, r)
<1>1. /\ r \in Nat /\ r > 0 /\ LastOf(r) \in Nat /\ r - 1 <= LastOf(r)
      /\ MULTIPAXOS_PKT_SIZE \in Nat /\ MULTIPAXOS_PKT_SIZE > 0
  BY BatchRounds, Constants DEF LastOf
<1>2. m \in Nat /\ m <= LastOf(r)
  BY <1>1 DEF LogEnd
<1>3. ASSUME NEW k \in Nat \ {0}
      PROVE  (\E v : Quorum(V, k, v)) <=> k <= m
  <2>1. CASE k < r
    <3>1. \E v : Quorum(V, k, v)
      BY <1>1, <2>1 DEF VotesInv
    <3>2. k <= m
      BY <1>1, <2>1 DEF LogEnd, LastOf
    <3> QED
      BY <3>1, <3>2
  <2>2. CASE k > LastOf(r)
    <3>1. ~(k <= m)
      BY <1>1, <1>2, <2>2
    <3>2. ASSUME NEW v, Quorum(V, k, v) PROVE FALSE
      <4>1. PICK n \in Nodes : Vote(n, k, v) \in V
        BY <3>2, QuorumVotes
      <4>2. Vote(n, k, v).round = k
        BY DEF Vote
      <4>3. k \in 1..LastOf(r)
        BY <4>1, <4>2 DEF VotesInv
      <4> QED
        BY <1>1, <2>2, <4>3
    <3> QED
      BY <3>1, <3>2
  <2>3. CASE k >= r /\ k <= LastOf(r)
    <3> DEFINE i == k - r
    <3>1. i \in Batch /\ 0 \in Batch /\ r + i = k /\ r + 0 = r
      BY <1>1, <2>3 DEF LastOf, Batch
    <3>2. (\E v : Quorum(V, k, v)) <=> \E v : Quorum(V, r, v)
      <4>1. ASSUME NEW v, Quorum(V, r + i, v) PROVE \E w : Quorum(V, r + 0, w)
        BY <3>1, <4>1, WholeBatches
      <4>2. ASSUME NEW v, Quorum(V, r + 0, v) PROVE \E w : Quorum(V, r + i, w)
        BY <3>1, <4>2, WholeBatches
      <4> HIDE DEF i
      <4> QED
        BY <3>1, <4>1, <4>2
    <3>3. (\E v : Quorum(V, r, v)) <=> k <= m
      BY <1>1, <2>3 DEF LogEnd
    <3> QED
      BY <3>2, <3>3
  <2> QED
    BY <1>1, <2>1, <2>2, <2>3
<1> QED
  BY <1>2, <1>3

(* The log of the model, entry by entry. *)
LogIs(V, m) == log = [k \in 1..m |-> ChosenIn(k, V)]

LEMMA LogLemma ==
  ASSUME MultiInv
  PROVE  LogIs(votes, LogEnd(votes, CurrentRound))
<1> DEFINE r == CurrentRound
           m == LogEnd(votes, r)
           rounds == {k \in 1..MAX_ROUND : ChosenIn(k, votes) # {}}
<1>1. VotesInv(votes, r) /\ Begins(r)
  BY RoundType DEF MultiInv
<1>2. /\ m \in Nat /\ m <= LastOf(r)
      /\ \A k \in Nat \ {0} : (\E v : Quorum(votes, k, v)) <=> k <= m
  BY <1>1, ChosenRounds
<1>3. LastOf(r) \in Nat /\ LastOf(r) <= MAX_ROUND /\ MAX_ROUND \in Nat
  BY RoundBounds
<1> HIDE DEF m, r
<1>4. ASSUME NEW k \in Nat \ {0} PROVE ChosenIn(k, votes) # {} <=> k <= m
  <2>1. \A v : v \in ChosenIn(k, votes) <=> Quorum(votes, k, v)
    BY <1>1, ChosenIsQuorum
  <2>2. ChosenIn(k, votes) # {} <=> \E v : Quorum(votes, k, v)
    BY <2>1
  <2> QED
    BY <1>2, <2>2
<1>5. CASE votes # {}
  <2>1. rounds = 1..m
    BY <1>2, <1>3, <1>4
  <2>2. Max({0} \cup rounds) = m
    BY <1>2, <2>1, MaxOfInterval
  <2>3. ChosenLog(votes) = [k \in 1..m |-> ChosenIn(k, votes)]
    BY <2>2 DEF ChosenLog
  <2> QED
    BY <1>5, <2>3 DEF MultiInv, LogInv, LogIs, m, r
<1>6. CASE votes = {}
  <2>1. ~(1 <= m)
    <3>1. ChosenIn(1, votes) = {}
      BY <1>6 DEF ChosenIn
    <3> QED
      BY <1>4, <3>1
  <2>2. m = 0
    BY <1>2, <2>1
  <2>3. log = <<>>
    BY <1>6 DEF MultiInv, LogInv
  <2>4. [k \in 1..m |-> ChosenIn(k, votes)] = <<>>
    BY <2>2
  <2> QED
    BY <2>3, <2>4 DEF LogIs, m, r
<1> QED
  BY <1>5, <1>6

(* What a majority voted for is in the log. *)
LEMMA QuorumIsChosen ==
  ASSUME MultiInv, NEW k \in Nat \ {0}, NEW v, Quorum(votes, k, v)
  PROVE  IsChosen(k, v)
<1> DEFINE m == LogEnd(votes, CurrentRound)
<1>1. VotesInv(votes, CurrentRound) /\ Begins(CurrentRound)
  BY RoundType DEF MultiInv
<1>2. m \in Nat /\ k <= m /\ v \in ChosenIn(k, votes)
  BY <1>1, ChosenRounds, ChosenIsQuorum
<1>3. log = [j \in 1..m |-> ChosenIn(j, votes)]
  BY LogLemma DEF LogIs
<1> HIDE DEF m
<1> QED
  BY <1>2, <1>3 DEF IsChosen

-----------------------------------------------------------------------------
(* Leader soundness (MultiPaxos!MajorityIsReal, multipaxos.c:461): the leader
   goes on to the next rounds only when a majority accepted its values in the
   ones before, for any number of nodes and whatever was lost, as long as the
   16-bit round number does not wrap (RoundsFit). *)
THEOREM ReplicationLeaderSound ==
  ASSUME Leaders = {Initiator}, RoundsFit
  PROVE  Spec => []MajorityIsReal
<1>1. MultiInv => MajorityIsReal
  <2> SUFFICES ASSUME MultiInv, NEW n \in Nodes, node[n].leader.got_majority,
                      NEW i \in Batch
               PROVE  IsChosen(node[n].leader.round - MULTIPAXOS_PKT_SIZE + i,
                               node[n].leader.values[i])
    BY DEF MajorityIsReal
  <2> DEFINE r == CurrentRound
             l == node[n].leader
  <2>1. LeaderInv(votes, r, n, node[n])
    BY DEF MultiInv, NodeInv, CoreInv
  <2>2. n = Initiator
    BY <2>1 DEF LeaderInv
  <2>3. l.round = r + MULTIPAXOS_PKT_SIZE /\ Quorum(votes, r + i, l.values[i])
    BY <2>1, <2>2 DEF LeaderInv
  <2>4. r \in Nat /\ r > 0 /\ MULTIPAXOS_PKT_SIZE \in Nat /\ i \in Nat
    BY RoundBounds, Constants DEF Batch
  <2> HIDE DEF r
  <2>5. l.round - MULTIPAXOS_PKT_SIZE + i = r + i /\ r + i \in Nat \ {0}
    BY <2>3, <2>4
  <2>6. IsChosen(r + i, l.values[i])
    BY <2>3, <2>5, QuorumIsChosen
  <2> QED
    BY <2>5, <2>6
<1> QED
  BY <1>1, MultiInvariant, PTL

(* Learner soundness (MultiPaxos!LearnedIsChosen, multipaxos.c:366): what a node
   reports to its application as chosen was accepted by a majority, each value
   in its own round of the log, as long as the 16-bit round number does not wrap
   (RoundsFit). *)
THEOREM ReplicationLearnerSound ==
  ASSUME Leaders = {Initiator}, RoundsFit
  PROVE  Spec => []LearnedIsChosen
<1>1. MultiInv => LearnedIsChosen
  <2> SUFFICES ASSUME MultiInv, NEW n \in Nodes, node[n].chosen_this_round,
                      NEW i \in Batch
               PROVE  IsChosen(node[n].learner.last - MULTIPAXOS_PKT_SIZE + 1 + i,
                               Report(node[n])[i])
    BY DEF LearnedIsChosen
  <2> DEFINE r == CurrentRound
             s == node[n]
             k == s.learner.last - MULTIPAXOS_PKT_SIZE + 1 + i
  <2>1. LearnerInv(votes, r, s)
    BY DEF MultiInv, NodeInv, CoreInv
  <2>2. /\ s.learner.last = LastOf(r)
        /\ Quorum(votes, r + i, s.learner.values[LogSlot(r + i)])
    BY <2>1 DEF LearnerInv
  <2>3. r \in Nat /\ r > 0 /\ MULTIPAXOS_PKT_SIZE \in Nat /\ i \in Nat
    BY RoundBounds, Constants DEF Batch
  <2>4. Report(s)[i] = s.learner.values[LogSlot(k)]
    BY DEF Report
  <2> HIDE DEF r
  <2>5. k = r + i /\ r + i \in Nat \ {0}
    BY <2>2, <2>3 DEF LastOf
  <2>6. IsChosen(r + i, s.learner.values[LogSlot(r + i)])
    BY <2>2, <2>5, QuorumIsChosen
  <2> HIDE DEF k
  <2>7. IsChosen(k, Report(s)[i])
    BY <2>4, <2>5, <2>6
  <2> QED
    BY <2>7 DEF k
<1> QED
  BY <1>1, MultiInvariant, PTL

-----------------------------------------------------------------------------
(* An entry of the log is the set of its one value. *)
LEMMA EntryIsOneByte ==
  ASSUME NEW V, NEW r, VotesInv(V, r), Begins(r), NEW k \in 1..LogEnd(V, r)
  PROVE  ChosenIn(k, V) \in OneByte
<1>1. LogEnd(V, r) \in Nat /\ k \in Nat \ {0} /\ k <= LogEnd(V, r)
  BY ChosenRounds
<1>2. PICK v : Quorum(V, k, v)
  BY <1>1, ChosenRounds
<1>3. v \in Bytes /\ \A w : Quorum(V, k, w) => w = v
  BY <1>2, QuorumsAgree
<1>4. \A w : w \in ChosenIn(k, V) <=> w = v
  BY <1>2, <1>3, ChosenIsQuorum
<1>5. ChosenIn(k, V) = {v}
  BY <1>4
<1> QED
  BY <1>3, <1>5 DEF OneByte

(* A slot extends the log by the current batch or leaves it alone, and no entry
   changes. *)
LEMMA LogGrows ==
  ASSUME NEW V, NEW W, V \subseteq W, NEW r, Begins(r), VotesInv(V, r), VotesInv(W, r)
  PROVE  /\ LogEnd(V, r) \in Nat /\ LogEnd(W, r) \in Nat
         /\ \/ LogEnd(W, r) = LogEnd(V, r)
            \/ LogEnd(W, r) = LogEnd(V, r) + MULTIPAXOS_PKT_SIZE
         /\ \A k \in 1..LogEnd(V, r) : ChosenIn(k, W) = ChosenIn(k, V)
<1>1. LogEnd(V, r) \in Nat /\ LogEnd(W, r) \in Nat
  BY ChosenRounds
<1>2. \/ LogEnd(W, r) = LogEnd(V, r)
      \/ LogEnd(W, r) = LogEnd(V, r) + MULTIPAXOS_PKT_SIZE
  <2>1. (\E v : Quorum(V, r, v)) => \E v : Quorum(W, r, v)
    BY SupportGrows
  <2>2. LastOf(r) = (r - 1) + MULTIPAXOS_PKT_SIZE
    BY Constants DEF LastOf, Begins
  <2> QED
    BY <2>1, <2>2 DEF LogEnd
<1>3. ASSUME NEW k \in 1..LogEnd(V, r) PROVE ChosenIn(k, W) = ChosenIn(k, V)
  <2>1. k \in Nat \ {0} /\ k <= LogEnd(V, r)
    BY <1>1
  <2>2. PICK v : Quorum(V, k, v)
    BY <2>1, ChosenRounds
  <2>3. Quorum(W, k, v)
    BY <2>2, SupportGrows
  <2>4. \A w : (Quorum(V, k, w) <=> w = v) /\ (Quorum(W, k, w) <=> w = v)
    BY <2>2, <2>3, QuorumsAgree
  <2>5. \A w : w \in ChosenIn(k, V) <=> w \in ChosenIn(k, W)
    BY <2>4, ChosenIsQuorum
  <2> QED
    BY <2>5
<1> QED
  BY <1>1, <1>2, <1>3

(* The refinement, step by step. *)
LEMMA LogSteps ==
  ASSUME Leaders = {Initiator}, RoundsFit, MultiInv, [Next]_vars
  PROVE  BA!NextBatch \/ UNCHANGED log
<1>1. CASE Slot
  <2> DEFINE r == CurrentRound
             m == LogEnd(votes, r)
             t == LogEnd(votes', r)
             P == MULTIPAXOS_PKT_SIZE
  <2>1. MultiInv' /\ votes \subseteq votes' /\ CurrentRound' = r
    BY <1>1, SlotKeeps
  <2>2. VotesInv(votes, r) /\ Begins(r) /\ VotesInv(votes', r)
    BY <2>1, RoundType DEF MultiInv
  <2>3. log = [k \in 1..m |-> ChosenIn(k, votes)]
    BY LogLemma DEF LogIs
  <2>4. log' = [k \in 1..t |-> ChosenIn(k, votes')]
    <3>1. LogIs(votes, LogEnd(votes, CurrentRound))'
      BY <2>1, LogLemma, PTL
    <3> QED
      BY <2>1, <3>1 DEF LogIs, LogEnd, ChosenIn, Quorum, Vote, LastOf
  <2>5. /\ m \in Nat /\ t \in Nat /\ (t = m \/ t = m + P)
        /\ \A k \in 1..m : ChosenIn(k, votes') = ChosenIn(k, votes)
    BY <2>1, <2>2, LogGrows
  <2>6. \A k \in 1..t : ChosenIn(k, votes') \in OneByte
    BY <2>2, EntryIsOneByte
  <2>7. P \in Nat
    BY Constants
  <2> HIDE DEF r, m, t, P
  <2>8. CASE t = m
    BY <2>3, <2>4, <2>5, <2>8
  <2>9. CASE t = m + P
    <3>1. DOMAIN log = 1..m /\ DOMAIN log' = 1..(m + P)
      BY <2>3, <2>4, <2>9
    <3>3. ASSUME NEW k \in DOMAIN log'
          PROVE  IF k \in DOMAIN log THEN log'[k] = log[k] ELSE log'[k] \in OneByte
      <4>1. log'[k] = ChosenIn(k, votes')
        BY <2>4, <2>9, <3>1, <3>3
      <4>2. CASE k \in DOMAIN log
        BY <2>3, <2>5, <3>1, <4>1, <4>2
      <4>3. CASE k \notin DOMAIN log
        BY <2>6, <2>9, <3>1, <3>3, <4>1, <4>3
      <4> QED
        BY <4>2, <4>3
    <3>4. m \in {0} \cup DOMAIN log
      BY <2>5, <3>1
    <3>5. BA!NextBatch
      BY <3>1, <3>3, <3>4 DEF BA!NextBatch, BA!Decided, P
    <3> QED
      BY <3>5
  <2> QED
    BY <2>5, <2>8, <2>9
<1>2. CASE NextRound
  BY <1>2 DEF NextRound
<1>3. CASE ReplayLast
  BY <1>3 DEF ReplayLast
<1>4. CASE UNCHANGED vars
  BY <1>4 DEF vars
<1> QED
  BY <1>1, <1>2, <1>3, <1>4 DEF Next

(* Refinement (MultiPaxos!ImplementsLog, multipaxos.c:440-470): the network is a
   replicated log.  It grows batch by batch, without a gap, and an entry has
   one value that never changes, for any number of nodes, any losses, and
   nodes that miss whole batches, as long as the 16-bit round number does not
   wrap (RoundsFit).  After 65536 rounds the numbers are used again, and nothing
   tells a new entry of the log from an old one with the same number. *)
THEOREM LogRefinement ==
  ASSUME Leaders = {Initiator}, RoundsFit
  PROVE  Spec => ImplementsLog
<1>1. Init => BA!NothingYet
  BY DEF Init, BA!NothingYet, BA!Decided
<1>2. MultiInv /\ [Next]_vars => [BA!NextBatch]_log
  BY LogSteps
<1> QED
  BY <1>1, <1>2, MultiInvariant, PTL DEF Spec, ImplementsLog, BA!Spec

-----------------------------------------------------------------------------
(* The log of acceptor a of node n, over its last rounds, has votes in V. *)
OwnVotes(V, n, a) ==
  \A k \in 1..a.last :
    k > a.last - MULTIPAXOS_LOG_SIZE /\ a.proposals[LogSlot(k)] # 0 =>
      [node |-> n, round |-> k, ballot |-> a.proposals[LogSlot(k)],
       value |-> a.values[LogSlot(k)]] \in V

(* Votes for the batch r overwrite the entries of the batch, clear those of the
   rounds that the node missed, and leave the others, which are of rounds the
   node took part in, as long as the loop counter holds the round
   (multipaxos.c:288-306). *)
LEMMA RingHoldsVotes ==
  ASSUME NEW V, NEW W, V \subseteq W, NEW r, Begins(r), r < Uint8, NEW n,
         NEW s, NEW p, p.round = r, p.ballot = LeaderBallot, NEW b,
         s.acceptor.last \in Nat, s.acceptor.last <= LastOf(r),
         OwnVotes(V, n, s.acceptor), AcceptorInv(W, r, n, b),
         b.last = LastOf(r), b.proposals = LogBallots(s, p),
         b.values = LogValues(s, p)
  PROVE  OwnVotes(W, n, b)
<1> DEFINE a == s.acceptor
           L == MULTIPAXOS_LOG_SIZE
           T == LastOf(r)
<1>1. /\ r \in Nat /\ r > 0 /\ T \in Nat /\ L \in Nat /\ L > 0
      /\ MULTIPAXOS_PKT_SIZE \in Nat /\ MULTIPAXOS_PKT_SIZE > 0
      /\ T = r + MULTIPAXOS_PKT_SIZE - 1 /\ a.last \in Nat /\ a.last <= T
      /\ Uint8 \in Nat /\ Uint16 \in Nat /\ T < Uint16
  BY BatchRounds, Constants DEF LastOf, Fits
<1>2. SUFFICES ASSUME NEW k \in 1..T, k > T - L, b.proposals[LogSlot(k)] # 0
               PROVE  [node |-> n, round |-> k, ballot |-> b.proposals[LogSlot(k)],
                       value |-> b.values[LogSlot(k)]] \in W
  BY DEF OwnVotes
<1>3. k \in Nat /\ k > 0 /\ k <= T /\ LogSlot(k) \in LogSlots
  BY <1>1, LogSlotType
<1> HIDE DEF L, T
<1>4. CASE k >= r
  <2> DEFINE i == k - r
  <2>1. i \in Batch /\ r + i = k
    BY <1>1, <1>3, <1>4 DEF Batch
  <2>2. /\ b.proposals[LogSlot(r + i)] = LeaderBallot
        /\ Vote(n, r + i, b.values[LogSlot(r + i)]) \in W
    BY <2>1 DEF AcceptorInv
  <2> HIDE DEF i
  <2> QED
    BY <2>1, <2>2 DEF Vote
<1>5. CASE k < r
  <2>1. LogSlot(k) \notin Written(p)
    <3> SUFFICES ASSUME NEW i \in Batch, LogSlot(k) = LogSlot(r + i) PROVE FALSE
      BY DEF Written
    <3>1. /\ i \in Nat /\ r + i \in Nat /\ r + i <= T
          /\ k - (r + i) < L /\ (r + i) - k < L
      BY <1>1, <1>2, <1>3, <1>5 DEF Batch
    <3>2. k = r + i
      BY <1>1, <1>3, <3>1, LogSlotInjective DEF L
    <3> QED
      BY <1>1, <1>3, <1>5, <3>1, <3>2
  <2>2. b.proposals[LogSlot(k)] = IF LogSlot(k) \in Nullified(s, p) THEN 0
                                  ELSE a.proposals[LogSlot(k)]
    BY <1>3, <2>1 DEF LogBallots
  <2>3. b.values[LogSlot(k)] = IF LogSlot(k) \in Nullified(s, p) THEN 0
                               ELSE a.values[LogSlot(k)]
    BY <1>3, <2>1 DEF LogValues
  <2>4. LogSlot(k) \notin Nullified(s, p)
    BY <1>2, <2>2
  <2>5. k <= a.last
    <3> SUFFICES ASSUME k > a.last PROVE FALSE
      BY <1>1, <1>3
    <3>1. p.round % Uint8 = r
      BY <1>1
    <3>2. k \in (a.last + 1)..(p.round % Uint8)
      BY <1>1, <1>3, <1>5, <3>1
    <3>3. LogSlot(k) \in Nullified(s, p)
      BY <3>2 DEF Nullified
    <3> QED
      BY <2>4, <3>3
  <2>6. k \in 1..a.last /\ k > a.last - L
    BY <1>1, <1>2, <1>3, <2>5
  <2>7. /\ b.proposals[LogSlot(k)] = a.proposals[LogSlot(k)]
        /\ b.values[LogSlot(k)] = a.values[LogSlot(k)]
    BY <2>2, <2>3, <2>4
  <2>8. [node |-> n, round |-> k, ballot |-> a.proposals[LogSlot(k)],
         value |-> a.values[LogSlot(k)]] \in V
    BY <1>2, <2>6, <2>7 DEF OwnVotes, L
  <2> QED
    BY <2>7, <2>8
<1> QED
  BY <1>1, <1>3, <1>4, <1>5

(* A log that stays as it is stays sound. *)
LEMMA SameLogHolds ==
  ASSUME NEW V, NEW W, V \subseteq W, NEW n, NEW a, NEW b, OwnVotes(V, n, a),
         SameLog(a, b)
  PROVE  OwnVotes(W, n, b)
BY DEF OwnVotes, SameLog

(* A slot keeps the logs sound. *)
LEMMA SlotKeepsLogs ==
  ASSUME MAX_ROUND < Uint8, MultiInv, Slot,
         \A n \in Nodes : OwnVotes(votes, n, node[n].acceptor)
  PROVE  \A n \in Nodes : OwnVotes(votes', n, node'[n].acceptor)
<1> DEFINE r == CurrentRound
           After(s, h, d) == node' = [n \in Nodes |-> Step(n, s, h, d)]
<1>1. PICK sent \in SUBSET Transmitters(node) :
        \E h \in Receptions(node, sent), d \in ThresholdDraws(node) : After(sent, h, d)
  BY DEF Slot
<1>2. PICK heard \in Receptions(node, sent), threshold \in ThresholdDraws(node) :
        After(sent, heard, threshold)
  BY <1>1
<1>3. MultiInv' /\ votes \subseteq votes' /\ CurrentRound' = r
  BY SlotKeeps
<1>4. Begins(r) /\ r < Uint8
  BY RoundType, RoundBounds, Constants
<1> SUFFICES ASSUME NEW n \in Nodes PROVE OwnVotes(votes', n, node'[n].acceptor)
  OBVIOUS
<1> DEFINE q == Step(n, sent, heard, threshold)
           p == RequestOf(n, sent, heard)
           s == node[n]
<1>5. node'[n] = q
  BY <1>2
<1>6. /\ HandlesIn(n, sent, heard) =>
           LogMoves(r, s, p, q) /\ p.round = r /\ p.ballot = LeaderBallot
      /\ ~HandlesIn(n, sent, heard) => q.acceptor = s.acceptor
  BY SlotNode
<1>7. AcceptorInv(votes', r, n, node'[n].acceptor)
  BY <1>3 DEF MultiInv, NodeInv, CoreInv
<1>8. OwnVotes(votes, n, s.acceptor)
  OBVIOUS
<1>9. s.acceptor.last \in Nat /\ s.acceptor.last <= LastOf(r)
  <2>1. AcceptorInv(votes, r, n, s.acceptor)
    BY DEF MultiInv, NodeInv, CoreInv
  <2> QED
    BY <2>1, EndsType DEF AcceptorInv
<1> HIDE DEF q, r, s, p
<1>10. CASE HandlesIn(n, sent, heard) /\ p.phase = MULTIPAXOS_ACCEPT
  <2>1. /\ q.acceptor.last = LastOf(r) /\ q.acceptor.proposals = LogBallots(s, p)
        /\ q.acceptor.values = LogValues(s, p)
    BY <1>6, <1>10 DEF LogMoves
  <2>2. AcceptorInv(votes', r, n, q.acceptor)
    BY <1>5, <1>7
  <2>3. OwnVotes(votes', n, q.acceptor)
    BY <1>3, <1>4, <1>6, <1>8, <1>9, <1>10, <2>1, <2>2, RingHoldsVotes
  <2> QED
    BY <1>5, <2>3
<1>11. CASE ~(HandlesIn(n, sent, heard) /\ p.phase = MULTIPAXOS_ACCEPT)
  <2>1. SameLog(s.acceptor, q.acceptor)
    BY <1>6, <1>11 DEF LogMoves, SameLog
  <2> QED
    BY <1>3, <1>5, <1>8, <2>1, SameLogHolds
<1> QED
  BY <1>10, <1>11

(* The ring (MultiPaxos!LogIsOwnVotes, multipaxos.c:288): what an acceptor would
   report for one of its last MULTIPAXOS_LOG_SIZE rounds is its own vote in that
   round, however many rounds it missed, while round numbers fit into the byte
   that counts the rounds to clear (multipaxos.c:292).  Beyond that it is false:
   run multipaxos_byte. *)
THEOREM LogHoldsOwnVotes ==
  ASSUME Leaders = {Initiator}, MAX_ROUND < Uint8
  PROVE  Spec => []LogIsOwnVotes
<1>0. RoundsFit
  <2>1. MAX_ROUND \in Nat
    BY Constants DEF MAX_ROUND
  <2> QED
    BY <2>1, Constants DEF RoundsFit
<1> DEFINE Logs == \A n \in Nodes : OwnVotes(votes, n, node[n].acceptor)
<1>1. Init => Logs
  <2> SUFFICES ASSUME Init, NEW n \in Nodes
               PROVE  OwnVotes(votes, n, node[n].acceptor)
    OBVIOUS
  <2>1. node[n].acceptor.last = 0
    BY <1>0, InitHolds
  <2> QED
    BY <2>1 DEF OwnVotes
<1>2. MultiInv /\ Logs /\ [Next]_vars => Logs'
  <2> SUFFICES ASSUME MultiInv, Logs, [Next]_vars PROVE Logs'
    OBVIOUS
  <2>1. CASE Slot
    <3>1. \A n \in Nodes : OwnVotes(votes', n, node'[n].acceptor)
      BY <2>1, SlotKeepsLogs
    <3> QED
      BY <3>1 DEF OwnVotes
  <2>2. ASSUME votes' = votes,
               \A n \in Nodes : SameLog(node[n].acceptor, node'[n].acceptor)
        PROVE  Logs'
    <3>1. \A n \in Nodes : OwnVotes(votes', n, node'[n].acceptor)
      BY <2>2, SameLogHolds
    <3> QED
      BY <3>1 DEF OwnVotes
  <2>3. CASE NextRound
    BY <1>0, <2>2, <2>3, NextRoundKeeps
  <2>4. CASE ReplayLast
    BY <2>2, <2>4, ReplayKeeps
  <2>5. CASE UNCHANGED vars
    BY <2>2, <2>5 DEF vars, SameLog
  <2> QED
    BY <2>1, <2>3, <2>4, <2>5 DEF Next
<1>3. Logs => LogIsOwnVotes
  BY DEF OwnVotes, LogIsOwnVotes
<1> HIDE DEF Logs
<1> QED
  BY <1>0, <1>1, <1>2, <1>3, MultiInvariant, PTL DEF Spec
=============================================================================
