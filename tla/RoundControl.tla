---------------------------- MODULE RoundControl ----------------------------
(***************************************************************************)
(* From round to round: the main process of chaos-control.c, which wakes   *)
(* up for the next round or misses it, chaos-scheduler.c, which chooses    *)
(* the application of a round, and the sniffers of join.c, by which a node *)
(* without an index makes the initiator schedule a join round.             *)
(*                                                                         *)
(* A step is one round of the network.  What happens in its slots is       *)
(* reduced to who hears at least one packet of its application; the slots  *)
(* are the subject of the other modules.  Time is counted in rtimer ticks  *)
(* since the round_rtimer of a node.                                       *)
(***************************************************************************)
EXTENDS Integers, FiniteSets

CONSTANTS
  Nodes,
  Initiator,
  Uint16,                     \* 2^16: rtimer_clock_t and round_number
  CHAOS_INTERVAL,             \* ticks from round to round
  WAKEUP,                     \* radio on, guard and latency: ticks before it
  BOOT_MARGIN,                \* guard and latency
  RTIMER_MIN_DELAY,
  ROUND_TIME,                 \* a round takes at least this long
  POST_PROCESSING,            \* and chaos_post_processing this long
  MAX_DELAY,                  \* bound on the time since round_rtimer
  CHAOS_FAILED_ROUNDS_RESYNC_THRESHOLD,
  JOIN_ROUNDS_AFTER_BOOTUP

(* A round and the wake-up for the next one fit into the interval, and the
   timers have wrapped at most once when a round is scheduled. After a miss,
   post-processing lasts until the round that was missed has begun. The
   deadline lies before the round (RTIMER_MIN_DELAY is 5 in
   chaos-platform-specific.h): in the first round, whose offset is negative,
   check_timer_miss would otherwise report a miss. *)
ASSUME ControlAssumption ==
  /\ Initiator \in Nodes /\ IsFiniteSet(Nodes)
  /\ {WAKEUP, BOOT_MARGIN, RTIMER_MIN_DELAY, ROUND_TIME, POST_PROCESSING,
      JOIN_ROUNDS_AFTER_BOOTUP} \subseteq Nat
  /\ CHAOS_INTERVAL \in Nat /\ MAX_DELAY \in Nat /\ Uint16 \in Nat
  /\ ROUND_TIME + WAKEUP + RTIMER_MIN_DELAY < CHAOS_INTERVAL
  /\ CHAOS_INTERVAL <= MAX_DELAY /\ MAX_DELAY < Uint16
  /\ RTIMER_MIN_DELAY < BOOT_MARGIN /\ WAKEUP + BOOT_MARGIN < Uint16
  /\ 0 < WAKEUP + RTIMER_MIN_DELAY
  /\ WAKEUP + RTIMER_MIN_DELAY <= POST_PROCESSING
  /\ POST_PROCESSING <= CHAOS_INTERVAL
  /\ CHAOS_FAILED_ROUNDS_RESYNC_THRESHOLD \in Nat \ {0}

VARIABLES
  ctl,        \* ctl[n]: the statics of chaos-control.c and the scheduler at n
  pending,    \* the initiator's pending flag of join.c
  table       \* the nodes in the initiator's table of join.c

vars == <<ctl, pending, table>>

(* The identifiers of the applications: CHAOS_APPS(&join, &app). *)
JOIN == 0
APP == 1

-----------------------------------------------------------------------------
(* The deadline test. *)

(* Mutant of check_timer_miss: the timers never wrap. *)
check_timer_missFlat(ref_time, offset, now) ==
  (ref_time + offset - RTIMER_MIN_DELAY) % Uint16 <= now

check_timer_miss(ref_time, offset, now) ==
  LET target == (ref_time + offset - RTIMER_MIN_DELAY) % Uint16
      now_has_overflowed == now < ref_time
      target_has_overflowed == target < ref_time
  IN IF now_has_overflowed = target_has_overflowed
     THEN target <= now
     ELSE now_has_overflowed

(* chaos_schedule_round for node n when delay ticks have passed since its
   round_rtimer. *)
Misses(n, delay) ==
  check_timer_miss(ctl[n].round_rtimer,
                   (ctl[n].next_round_begin - WAKEUP) % Uint16,
                   (ctl[n].round_rtimer + delay) % Uint16)

(* When the process may get to schedule the next round: at once after boot,
   otherwise at any time after the last round or the last miss. *)
Delays(n) ==
  IF ctl[n].next_round_begin = 0 THEN {ctl[n].since}
  ELSE ctl[n].since .. MAX_DELAY

Running == {n \in Nodes : ctl[n].associated}

-----------------------------------------------------------------------------
(* Mutant of FailedRounds: the outcome of the last round that was run. *)
FailedRoundsStale(c, success) == IF c.synced THEN 0 ELSE c.failed_rounds + 1

FailedRounds(c, success) ==
  IF c.synced /\ success THEN 0 ELSE c.failed_rounds + 1

(* The node is alone: it has no index and listens until it hears a packet,
   which overwrites everything else. *)
Unassociated ==
  [associated |-> FALSE, round_number |-> 0, round_rtimer |-> 0,
   next_round_begin |-> 0, next_app |-> JOIN, synced |-> FALSE,
   failed_rounds |-> 0, has_index |-> FALSE, since |-> 0]

(* Mutant of Resync: one more round is allowed. *)
ResyncLate(c) ==
  IF c.failed_rounds > CHAOS_FAILED_ROUNDS_RESYNC_THRESHOLD
  THEN Unassociated ELSE c

(* The end of the process's loop. *)
Resync(c) ==
  IF c.failed_rounds < CHAOS_FAILED_ROUNDS_RESYNC_THRESHOLD
  THEN c ELSE Unassociated

(* The next round is one interval later, whether it is run or skipped. *)
NextRound(c, success, since) ==
  [c EXCEPT !.round_number = (@ + 1) % Uint16,
            !.round_rtimer = (@ + c.next_round_begin) % Uint16,
            !.failed_rounds = FailedRounds(c, success),
            !.since = since]

(* The start of the round has been missed: the process goes round its loop
   without waiting. *)
Skip(c, delay) ==
  Resync(NextRound(c, FALSE, delay + POST_PROCESSING - c.next_round_begin))

(* A round without a packet of the node's application: nothing is learned
   about the next one. *)
Unheard(c) == Resync(NextRound([c EXCEPT !.synced = FALSE], TRUE, ROUND_TIME))

(* What is taken over from the header of a packet of initiator state i. *)
Synced(c, i) ==
  [c EXCEPT !.synced = TRUE, !.round_rtimer = i.round_rtimer,
            !.next_round_begin = i.next_round_begin, !.next_app = i.next_app]

(* A round in which the node hears a packet, and gets an index or not. *)
Heard(c, i, indexed) ==
  LET s == [NextRound([c EXCEPT !.synced = TRUE], TRUE, ROUND_TIME)
              EXCEPT !.has_index = @ \/ indexed]
  IN Synced(s, i)

(* chaos_associate_proc: the round number too comes from the header. *)
Associate(i) ==
  Synced([Unassociated EXCEPT !.associated = TRUE,
                              !.round_number = i.round_number], i)

(* The initiator has started round r: the first application that is pending
   gets the round after it. *)
JoinPending(r) == pending \/ (r + 1) % Uint16 < JOIN_ROUNDS_AFTER_BOOTUP

Lead(c) ==
  LET s == NextRound(c, TRUE, ROUND_TIME)
  IN [s EXCEPT !.next_app = IF JoinPending(s.round_number) THEN JOIN ELSE APP,
               !.next_round_begin = CHAOS_INTERVAL]

(* Mutant of RoundEndSniffer: the join bit is not looked at. *)
RoundEndSnifferBlind(left, join, count) == left \/ count < 2

(* The pending flag of join.c after a round: left is what the start of the
   round left of it, join the bit of the header. *)
RoundEndSniffer(left, join, count) == left \/ join \/ count < 2

-----------------------------------------------------------------------------
(* A round that the initiator starts. hears are the nodes that hear a packet,
   asks says whether a join bit reaches the initiator; in a join round the
   initiator enters the nodes admitted, and those of indexed learn it. *)
Lively(late, hears, asks, admitted, indexed) ==
  LET i == Lead(ctl[Initiator])
      left == JoinPending(i.round_number) /\ ctl[Initiator].next_app # JOIN
  IN /\ ctl' = [n \in Nodes |->
                  IF n = Initiator THEN i
                  ELSE IF ~ctl[n].associated
                  THEN IF n \in hears THEN Associate(i) ELSE ctl[n]
                  ELSE IF Misses(n, late[n]) THEN Skip(ctl[n], late[n])
                  ELSE IF n \in hears
                  THEN Heard(ctl[n], i, n \in indexed)
                  ELSE Unheard(ctl[n])]
     /\ table' = table \cup admitted
     /\ pending' = RoundEndSniffer(left, left \/ asks, Cardinality(table'))

(* A round that the initiator misses: nobody transmits. *)
Silent(late) ==
  /\ ctl' = [n \in Nodes |->
               IF ~ctl[n].associated THEN ctl[n]
               ELSE IF Misses(n, late[n]) THEN Skip(ctl[n], late[n])
               ELSE Unheard(ctl[n])]
  /\ UNCHANGED <<pending, table>>

(* Who can hear the initiator's packets: nodes that associate, and those that
   are up and expect its application; packets of another application are
   dropped. Only the latter transmit. *)
Audience(late) ==
  {n \in Running \ {Initiator} :
     ~Misses(n, late[n]) /\ ctl[n].next_app = ctl[Initiator].next_app}

Joiners(hears, late) ==
  {n \in hears \cap Audience(late) : ~ctl[n].has_index}

JoinRound == ctl[Initiator].next_app = JOIN

(* An initiator that misses as many rounds in a row as the threshold starts a
   network of its own; the model ends before that. *)
MayMiss ==
  ctl[Initiator].failed_rounds + 1 < CHAOS_FAILED_ROUNDS_RESYNC_THRESHOLD

(* All delays that meet the deadline have the same effect: one stands for
   them. *)
Outcomes(n) ==
  LET meets == {d \in Delays(n) : ~Misses(n, d)}
  IN (Delays(n) \ meets)
       \cup (IF meets = {} THEN {} ELSE {CHOOSE d \in meets : TRUE})

Lates ==
  LET outcomes == [n \in Running |-> Outcomes(n)]
  IN {late \in [Running -> UNION {outcomes[n] : n \in Running}] :
        \A n \in Running : late[n] \in outcomes[n]}

(* The initiator has booted a little before its timer wraps. *)
Init ==
  /\ ctl = [n \in Nodes |->
              IF n = Initiator
              THEN [Unassociated EXCEPT !.associated = TRUE, !.synced = TRUE,
                                        !.has_index = TRUE,
                                        !.since = -(WAKEUP + BOOT_MARGIN)]
              ELSE Unassociated]
  /\ pending = (0 < JOIN_ROUNDS_AFTER_BOOTUP)
  /\ table = {Initiator}

MissedRound ==
  \E late \in Lates :
    /\ Misses(Initiator, late[Initiator])
    /\ MayMiss
    /\ Silent(late)

LedRound ==
  \E late \in Lates :
    /\ ~Misses(Initiator, late[Initiator])
    /\ \E hears \in SUBSET (Audience(late) \cup (Nodes \ Running)) :
         LET joiners == Joiners(hears, late)
             joining == IF JoinRound THEN joiners ELSE {}
         IN \E asks \in {FALSE, joiners # {}}, admitted \in SUBSET joining :
              \E indexed \in SUBSET (joining \cap (table \cup admitted)) :
                Lively(late, hears, asks, admitted, indexed)

Next == MissedRound \/ LedRound

(* Timers expire for ever, so rounds go on: Next taken again and again. *)
RoundsGoOn == []<><<TRUE>>_vars

Spec == Init /\ [][Next]_vars /\ RoundsGoOn

(* A round in which nothing is lost and no process is delayed any more. *)
CalmRound ==
  LET late == [n \in Running |-> ctl[n].since]
      hears == Audience(late) \cup (Nodes \ Running)
      joiners == Joiners(hears, late)
      joining == IF JoinRound THEN joiners ELSE {}
  IN IF Misses(Initiator, late[Initiator]) THEN Silent(late)
     ELSE Lively(late, hears, joiners # {}, joining, joining)
-----------------------------------------------------------------------------
(* Fields keep to their types; failed_rounds stays below the threshold of
   chaos-control.c:531. *)
TypeOK ==
  /\ DOMAIN ctl = Nodes
  /\ \A n \in Nodes :
       /\ ctl[n].associated \in BOOLEAN
       /\ ctl[n].round_number \in 0..(Uint16 - 1)
       /\ ctl[n].round_rtimer \in 0..(Uint16 - 1)
       /\ ctl[n].next_round_begin \in {0, CHAOS_INTERVAL}
       /\ ctl[n].next_app \in {JOIN, APP}
       /\ ctl[n].synced \in BOOLEAN
       /\ ctl[n].failed_rounds \in 0..(CHAOS_FAILED_ROUNDS_RESYNC_THRESHOLD - 1)
       /\ ctl[n].has_index \in BOOLEAN
       /\ ctl[n].since \in (-Uint16)..MAX_DELAY
  /\ pending \in BOOLEAN
  /\ table \subseteq Nodes

(* "basic protection against missed deadlines and timer overflows"
   (chaos-control.c:351): whenever a node may get to schedule its next round,
   wherever the 16 bit timers have wrapped, and in the first round, whose
   offset is negative, a miss is reported exactly if the deadline is past. *)
MissIsTrue ==
  \A n \in Running : \A d \in Delays(n) :
    Misses(n, d) <=> d >= ctl[n].next_round_begin - WAKEUP - RTIMER_MIN_DELAY

(* A round that is missed is shifted, "what does the scheduler do if we skip
   one round?" (chaos-control.c:506): whatever rounds are missed by whom, the
   nodes of the network count the same rounds from the same start, and a node
   that expects another application than the initiator runs knows that it
   has failed since it was last in step. *)
InStep ==
  \A n \in Running :
    /\ ctl[n].round_number = ctl[Initiator].round_number
    /\ ctl[n].round_rtimer = ctl[Initiator].round_rtimer
    /\ ctl[n].next_app # ctl[Initiator].next_app => ctl[n].failed_rounds > 0

(* Everybody runs the application, with an index. *)
Established ==
  /\ Running = Nodes
  /\ \A n \in Nodes : ctl[n].has_index /\ ctl[n].synced /\ ctl[n].next_app = APP

(* Recovery (chaos-control.c:531, join.c:691-702): once losses and delays end,
   every node finds its way back, by listening again if it expects the wrong
   application, makes the initiator run a join round if it has no index, and
   the application gets its rounds. *)
Recovers == <>[][CalmRound]_vars => []<>Established
=============================================================================
