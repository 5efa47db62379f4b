------------------------- MODULE RoundControlProofs -------------------------
(***************************************************************************)
(* Proofs about RoundControl: for any number of nodes, any interval and    *)
(* any width of the timers that leaves room for a round, the deadline test *)
(* is exact and the running nodes count the same rounds from the same      *)
(* start.                                                                  *)
(***************************************************************************)
EXTENDS RoundControl, TLAPS

(* The statics of a node. *)
CtlState ==
  [associated : BOOLEAN, round_number : 0..(Uint16 - 1),
   round_rtimer : 0..(Uint16 - 1), next_round_begin : {0, CHAOS_INTERVAL},
   next_app : {JOIN, APP}, synced : BOOLEAN,
   failed_rounds : 0..(CHAOS_FAILED_ROUNDS_RESYNC_THRESHOLD - 1),
   has_index : BOOLEAN, since : (-Uint16)..MAX_DELAY]

(* The timers of a running node: it has just booted and its next round is at
   its round_rtimer, or that round is past and the next one is an interval
   later. *)
Booted(c) ==
  /\ c.next_round_begin = 0 /\ c.round_rtimer = 0
  /\ c.since = -(WAKEUP + BOOT_MARGIN)

InRound(c) == c.next_round_begin = CHAOS_INTERVAL /\ c.since >= 0

Timed ==
  \A n \in Running :
    \/ InRound(ctl[n]) /\ InRound(ctl[Initiator])
    \/ n = Initiator /\ Booted(ctl[n])

(* The initiator never listens for a network: it runs, and nothing it hears
   takes its round from it. *)
InitiatorLeads == ctl[Initiator].associated /\ ctl[Initiator].synced

(* The inductive invariant. InStep alone is not inductive: that two nodes
   advance their timers alike needs Timed, which needs that a miss is true. *)
Inv ==
  /\ ctl \in [Nodes -> CtlState]
  /\ pending \in BOOLEAN
  /\ table \subseteq Nodes
  /\ InitiatorLeads
  /\ Timed
  /\ InStep

-----------------------------------------------------------------------------
(* Arithmetic modulo the width of the timers, with at most one wrap. *)

LEMMA ModLow ==
  ASSUME NEW u \in Nat, NEW x \in 0..(u - 1)
  PROVE  x % u = x
OBVIOUS

LEMMA ModHigh ==
  ASSUME NEW u \in Nat, NEW x \in u..(2 * u - 1)
  PROVE  x % u = x - u
OBVIOUS

LEMMA ModNegative ==
  ASSUME NEW u \in Nat, NEW x \in (-u)..(-1)
  PROVE  x % u = x + u
OBVIOUS

(* What the assumption says, one conjunct at a time. *)
LEMMA Parameters ==
  /\ Initiator \in Nodes
  /\ WAKEUP \in Nat /\ BOOT_MARGIN \in Nat /\ RTIMER_MIN_DELAY \in Nat
  /\ ROUND_TIME \in Nat /\ POST_PROCESSING \in Nat
  /\ JOIN_ROUNDS_AFTER_BOOTUP \in Nat
  /\ CHAOS_INTERVAL \in Nat /\ MAX_DELAY \in Nat /\ Uint16 \in Nat
  /\ ROUND_TIME + WAKEUP + RTIMER_MIN_DELAY < CHAOS_INTERVAL
  /\ CHAOS_INTERVAL <= MAX_DELAY /\ MAX_DELAY < Uint16
  /\ RTIMER_MIN_DELAY < BOOT_MARGIN /\ WAKEUP + BOOT_MARGIN < Uint16
  /\ 0 < WAKEUP + RTIMER_MIN_DELAY
  /\ WAKEUP + RTIMER_MIN_DELAY <= POST_PROCESSING
  /\ POST_PROCESSING <= CHAOS_INTERVAL
  /\ CHAOS_FAILED_ROUNDS_RESYNC_THRESHOLD \in Nat
  /\ CHAOS_FAILED_ROUNDS_RESYNC_THRESHOLD > 0
BY ControlAssumption

(* The test with an offset into the future: whether the timer wraps before
   now, before the target, before both or not at all, it compares the two
   as times since the reference. *)
LEMMA TestAhead ==
  ASSUME NEW ref \in 0..(Uint16 - 1), NEW offset \in 0..(Uint16 - 1),
         NEW d \in 0..(Uint16 - 1), RTIMER_MIN_DELAY <= offset
  PROVE  check_timer_miss(ref, offset, (ref + d) % Uint16)
           <=> d >= offset - RTIMER_MIN_DELAY
<1> DEFINE due == offset - RTIMER_MIN_DELAY
<1> DEFINE target == (ref + offset - RTIMER_MIN_DELAY) % Uint16
<1> DEFINE now == (ref + d) % Uint16
<1>1. due \in 0..(Uint16 - 1) /\ ref + offset - RTIMER_MIN_DELAY = ref + due
  BY Parameters
<1>2. target = IF ref + due < Uint16 THEN ref + due ELSE ref + due - Uint16
  <2> HIDE DEF due
  <2>1. CASE ref + due < Uint16
    BY <1>1, <2>1, ModLow, Parameters
  <2>2. CASE ~(ref + due < Uint16)
    BY <1>1, <2>2, ModHigh, Parameters
  <2> QED BY <2>1, <2>2
<1>3. now = IF ref + d < Uint16 THEN ref + d ELSE ref + d - Uint16
  <2>1. CASE ref + d < Uint16
    BY <2>1, ModLow, Parameters
  <2>2. CASE ~(ref + d < Uint16)
    BY <2>2, ModHigh, Parameters
  <2> QED BY <2>1, <2>2
<1>4. check_timer_miss(ref, offset, now)
        <=> IF (now < ref) = (target < ref) THEN target <= now ELSE now < ref
  BY DEF check_timer_miss
<1> HIDE DEF due, target, now
<1>5. check_timer_miss(ref, offset, now) <=> d >= due
  BY <1>1, <1>2, <1>3, <1>4, Parameters
<1> QED BY <1>5 DEF due, now

(* The first round: the offset is negative and wraps, the reference is 0. *)
LEMMA TestAtBoot ==
  ~check_timer_miss(0, (0 - WAKEUP) % Uint16,
                    (0 - (WAKEUP + BOOT_MARGIN)) % Uint16)
<1> DEFINE offset == (0 - WAKEUP) % Uint16
<1> DEFINE now == (0 - (WAKEUP + BOOT_MARGIN)) % Uint16
<1> DEFINE target == (0 + offset - RTIMER_MIN_DELAY) % Uint16
<1>1. offset = IF WAKEUP = 0 THEN 0 ELSE Uint16 - WAKEUP
  <2>1. CASE WAKEUP = 0 BY <2>1, ModLow, Parameters
  <2>2. CASE WAKEUP # 0 BY <2>2, ModNegative, Parameters
  <2> QED BY <2>1, <2>2
<1>2. now = Uint16 - (WAKEUP + BOOT_MARGIN)
  BY ModNegative, Parameters
<1>3. target = Uint16 - WAKEUP - RTIMER_MIN_DELAY
  <2> HIDE DEF offset
  <2>1. CASE WAKEUP = 0 BY <2>1, <1>1, ModNegative, Parameters
  <2>2. CASE WAKEUP # 0 BY <2>2, <1>1, ModLow, Parameters
  <2> QED BY <2>1, <2>2
<1>4. check_timer_miss(0, offset, now)
        <=> IF (now < 0) = (target < 0) THEN target <= now ELSE now < 0
  BY DEF check_timer_miss
<1> HIDE DEF offset, now, target
<1>5. ~check_timer_miss(0, offset, now)
  BY <1>2, <1>3, <1>4, Parameters
<1> QED BY <1>5 DEF offset, now

(* A node whose timers are as Timed says learns the truth about a miss, and
   what passes between the deadline and now is within bounds. *)
LEMMA MissAhead ==
  ASSUME NEW n \in Nodes, ctl[n] \in CtlState, InRound(ctl[n]),
         NEW d \in Delays(n)
  PROVE  /\ d \in 0..MAX_DELAY
         /\ Misses(n, d) <=> d >= ctl[n].next_round_begin - WAKEUP - RTIMER_MIN_DELAY
<1>1. d \in 0..MAX_DELAY /\ CHAOS_INTERVAL > 0
  BY Parameters DEF Delays, InRound, CtlState
<1> DEFINE offset == CHAOS_INTERVAL - WAKEUP
<1>2. offset \in 0..(Uint16 - 1) /\ RTIMER_MIN_DELAY <= offset
  BY Parameters
<1>3. offset % Uint16 = offset
  BY <1>2, ModLow, Parameters
<1>4. Misses(n, d) <=> check_timer_miss(ctl[n].round_rtimer, offset,
                                        (ctl[n].round_rtimer + d) % Uint16)
  BY <1>3 DEF Misses, InRound
<1>5. ctl[n].round_rtimer \in 0..(Uint16 - 1) /\ d \in 0..(Uint16 - 1)
  BY <1>1, Parameters DEF CtlState
<1> HIDE DEF offset
<1>6. Misses(n, d) <=> d >= offset - RTIMER_MIN_DELAY
  BY <1>2, <1>4, <1>5, TestAhead
<1> QED BY <1>1, <1>6, Parameters DEF offset, InRound

LEMMA MissAtBoot ==
  ASSUME NEW n \in Nodes, Booted(ctl[n]), NEW d \in Delays(n)
  PROVE  /\ ~Misses(n, d)
         /\ ~(d >= ctl[n].next_round_begin - WAKEUP - RTIMER_MIN_DELAY)
<1>1. d = -(WAKEUP + BOOT_MARGIN)
  BY DEF Delays, Booted
<1>2. 0 + d = 0 - (WAKEUP + BOOT_MARGIN)
  BY <1>1, Parameters
<1>3. Misses(n, d) <=> check_timer_miss(0, (0 - WAKEUP) % Uint16, (0 + d) % Uint16)
  BY DEF Misses, Booted
<1>4. ~Misses(n, d)
  BY <1>2, <1>3, TestAtBoot
<1> QED BY <1>1, <1>4, Parameters DEF Booted

LEMMA InvMissIsTrue == Inv => MissIsTrue
<1> SUFFICES ASSUME Inv, NEW n \in Running, NEW d \in Delays(n)
             PROVE  Misses(n, d)
                      <=> d >= ctl[n].next_round_begin - WAKEUP - RTIMER_MIN_DELAY
  BY DEF MissIsTrue
<1>1. n \in Nodes /\ ctl[n] \in CtlState
  BY DEF Inv, Running
<1>2. InRound(ctl[n]) \/ Booted(ctl[n])
  BY DEF Inv, Timed
<1> QED BY <1>1, <1>2, MissAhead, MissAtBoot

-----------------------------------------------------------------------------
(* What the steps of a round make of a node. *)

(* The node counts the round and moves its timer on by an interval. *)
Moved(c, t) ==
  /\ t.round_number = (c.round_number + 1) % Uint16
  /\ t.round_rtimer = (c.round_rtimer + CHAOS_INTERVAL) % Uint16

LEMMA CtlFields ==
  ASSUME NEW c \in CtlState
  PROVE  /\ c.associated \in BOOLEAN /\ c.round_number \in 0..(Uint16 - 1)
         /\ c.round_rtimer \in 0..(Uint16 - 1)
         /\ c.next_round_begin \in {0, CHAOS_INTERVAL}
         /\ c.next_app \in {JOIN, APP} /\ c.synced \in BOOLEAN
         /\ c.failed_rounds \in 0..(CHAOS_FAILED_ROUNDS_RESYNC_THRESHOLD - 1)
         /\ c.has_index \in BOOLEAN /\ c.since \in (-Uint16)..MAX_DELAY
BY DEF CtlState

LEMMA UnassociatedType == Unassociated \in CtlState /\ ~Unassociated.associated
BY Parameters DEF Unassociated, CtlState

LEMMA WrapType ==
  ASSUME NEW x \in Nat
  PROVE  x % Uint16 \in 0..(Uint16 - 1)
BY Parameters

(* Counting the round keeps the counter and the timer in their width. *)
LEMMA Counted ==
  ASSUME NEW c \in CtlState
  PROVE  /\ (c.round_number + 1) % Uint16 \in 0..(Uint16 - 1)
         /\ (c.round_rtimer + c.next_round_begin) % Uint16 \in 0..(Uint16 - 1)
<1>1. /\ c.round_number + 1 \in Nat
      /\ c.round_rtimer + c.next_round_begin \in Nat
  BY CtlFields, Parameters
<1> QED BY <1>1, WrapType

LEMMA NextRoundFields ==
  ASSUME NEW c \in CtlState, NEW success, NEW since
  PROVE  NextRound(c, success, since)
           = [associated |-> c.associated,
              round_number |-> (c.round_number + 1) % Uint16,
              round_rtimer |-> (c.round_rtimer + c.next_round_begin) % Uint16,
              next_round_begin |-> c.next_round_begin,
              next_app |-> c.next_app, synced |-> c.synced,
              failed_rounds |-> FailedRounds(c, success),
              has_index |-> c.has_index, since |-> since]
<1> DEFINE number == (c.round_number + 1) % Uint16
<1> DEFINE rtimer == (c.round_rtimer + c.next_round_begin) % Uint16
<1>1. NextRound(c, success, since)
        = [c EXCEPT !.round_number = number, !.round_rtimer = rtimer,
                    !.failed_rounds = FailedRounds(c, success), !.since = since]
  BY DEF NextRound
<1> HIDE DEF number, rtimer
<1>2. NextRound(c, success, since)
        = [associated |-> c.associated, round_number |-> number,
           round_rtimer |-> rtimer, next_round_begin |-> c.next_round_begin,
           next_app |-> c.next_app, synced |-> c.synced,
           failed_rounds |-> FailedRounds(c, success),
           has_index |-> c.has_index, since |-> since]
  BY <1>1 DEF CtlState
<1> QED BY <1>2 DEF number, rtimer

(* A round that is not a success, missed or without a packet. *)
FailedRound(c, synced, since) ==
  [associated |-> c.associated,
   round_number |-> (c.round_number + 1) % Uint16,
   round_rtimer |-> (c.round_rtimer + c.next_round_begin) % Uint16,
   next_round_begin |-> c.next_round_begin,
   next_app |-> c.next_app, synced |-> synced,
   failed_rounds |-> c.failed_rounds + 1,
   has_index |-> c.has_index, since |-> since]

(* What it makes of a node with state c: the node counts it and goes on, or
   gives up. *)
Fails(c, synced, t) ==
  /\ t \in CtlState
  /\ t.associated => /\ c.associated /\ InRound(t) /\ Moved(c, t)
                    /\ t.failed_rounds > 0
                    /\ t.next_app = c.next_app /\ t.synced = synced
  /\ c.failed_rounds + 1 < CHAOS_FAILED_ROUNDS_RESYNC_THRESHOLD
       => (c.associated => t.associated)

LEMMA FailedStep ==
  ASSUME NEW c \in CtlState, InRound(c), NEW synced \in BOOLEAN,
         NEW since \in 0..MAX_DELAY
  PROVE  Fails(c, synced, Resync(FailedRound(c, synced, since)))
<1> DEFINE t == Resync(FailedRound(c, synced, since))
<1> DEFINE number == (c.round_number + 1) % Uint16
<1> DEFINE rtimer == (c.round_rtimer + c.next_round_begin) % Uint16
<1> DEFINE s == [associated |-> c.associated, round_number |-> number,
                 round_rtimer |-> rtimer,
                 next_round_begin |-> c.next_round_begin,
                 next_app |-> c.next_app, synced |-> synced,
                 failed_rounds |-> c.failed_rounds + 1,
                 has_index |-> c.has_index, since |-> since]
<1>1. number \in 0..(Uint16 - 1) /\ rtimer \in 0..(Uint16 - 1)
  BY Counted
<1>2. Moved(c, s)
  BY DEF Moved, InRound
<1>3. t = IF c.failed_rounds + 1 < CHAOS_FAILED_ROUNDS_RESYNC_THRESHOLD
          THEN s ELSE Unassociated
  BY DEF Resync, FailedRound
<1> HIDE DEF number, rtimer
<1>4. InRound(s) /\ s.failed_rounds > 0
  BY CtlFields, Parameters DEF InRound
<1>5. ASSUME c.failed_rounds + 1 < CHAOS_FAILED_ROUNDS_RESYNC_THRESHOLD
      PROVE  s \in CtlState
  <2>1. /\ c.failed_rounds + 1 \in 0..(CHAOS_FAILED_ROUNDS_RESYNC_THRESHOLD - 1)
        /\ since \in (-Uint16)..MAX_DELAY
    BY <1>5, CtlFields, Parameters
  <2>2. /\ c.associated \in BOOLEAN /\ c.next_round_begin \in {0, CHAOS_INTERVAL}
        /\ c.next_app \in {JOIN, APP} /\ c.has_index \in BOOLEAN
    BY CtlFields
  <2> QED BY <1>1, <2>1, <2>2, Zenon DEF CtlState
<1>6. s.associated = c.associated /\ s.next_app = c.next_app /\ s.synced = synced
  OBVIOUS
<1> HIDE DEF s, t
<1>7. Fails(c, synced, t)
  BY <1>2, <1>3, <1>4, <1>5, <1>6, UnassociatedType DEF Fails
<1> QED BY <1>7 DEF t

LEMMA SkipStep ==
  ASSUME NEW c \in CtlState, InRound(c), NEW delay \in 0..MAX_DELAY,
         delay >= c.next_round_begin - WAKEUP - RTIMER_MIN_DELAY
  PROVE  Fails(c, c.synced, Skip(c, delay))
<1> DEFINE since == delay + POST_PROCESSING - c.next_round_begin
<1>1. since \in 0..MAX_DELAY
  BY Parameters DEF InRound
<1>2. Skip(c, delay) = Resync(NextRound(c, FALSE, since))
  BY DEF Skip
<1> HIDE DEF since
<1>3. NextRound(c, FALSE, since) = FailedRound(c, c.synced, since)
  <2>1. FailedRounds(c, FALSE) = c.failed_rounds + 1
    BY DEF FailedRounds
  <2> QED BY <2>1, NextRoundFields DEF FailedRound
<1>4. c.synced \in BOOLEAN
  BY CtlFields
<1>5. Fails(c, c.synced, Resync(FailedRound(c, c.synced, since)))
  BY <1>1, <1>4, FailedStep, Zenon
<1> QED BY <1>2, <1>3, <1>5, Zenon

LEMMA UnheardStep ==
  ASSUME NEW c \in CtlState, InRound(c)
  PROVE  Fails(c, FALSE, Unheard(c))
<1>1. ROUND_TIME \in 0..MAX_DELAY
  BY Parameters
<1>2. NextRound([c EXCEPT !.synced = FALSE], TRUE, ROUND_TIME)
        = FailedRound(c, FALSE, ROUND_TIME)
  <2> DEFINE d == [c EXCEPT !.synced = FALSE]
  <2>1. FailedRounds(d, TRUE) = c.failed_rounds + 1
    BY DEF FailedRounds, CtlState
  <2>2. d \in CtlState /\ d.synced = FALSE
    BY DEF CtlState
  <2>3. /\ d.associated = c.associated /\ d.round_number = c.round_number
        /\ d.round_rtimer = c.round_rtimer /\ d.next_app = c.next_app
        /\ d.next_round_begin = c.next_round_begin /\ d.has_index = c.has_index
    BY DEF CtlState
  <2> HIDE DEF d
  <2>4. NextRound(d, TRUE, ROUND_TIME)
          = [associated |-> d.associated,
             round_number |-> (d.round_number + 1) % Uint16,
             round_rtimer |-> (d.round_rtimer + d.next_round_begin) % Uint16,
             next_round_begin |-> d.next_round_begin,
             next_app |-> d.next_app, synced |-> d.synced,
             failed_rounds |-> FailedRounds(d, TRUE),
             has_index |-> d.has_index, since |-> ROUND_TIME]
    BY <2>2, NextRoundFields
  <2>5. NextRound(d, TRUE, ROUND_TIME) = FailedRound(c, FALSE, ROUND_TIME)
    BY <2>1, <2>2, <2>3, <2>4 DEF FailedRound
  <2> QED BY <2>5 DEF d
<1>3. Fails(c, FALSE, Resync(FailedRound(c, FALSE, ROUND_TIME)))
  <2>1. FALSE \in BOOLEAN OBVIOUS
  <2> QED BY <1>1, <2>1, FailedStep, Zenon
<1> QED BY <1>2, <1>3, Zenon DEF Unheard

(* The initiator's round: its timer moves by what it had scheduled. *)
LEMMA LeadStep ==
  ASSUME NEW c \in CtlState, c.associated, c.synced, NEW i, i = Lead(c)
  PROVE  /\ i \in CtlState /\ InRound(i)
         /\ i.associated /\ i.synced
         /\ i.round_number = (c.round_number + 1) % Uint16
         /\ i.round_rtimer = (c.round_rtimer + c.next_round_begin) % Uint16
<1> DEFINE number == (c.round_number + 1) % Uint16
<1> DEFINE rtimer == (c.round_rtimer + c.next_round_begin) % Uint16
<1> DEFINE app == IF JoinPending(number) THEN JOIN ELSE APP
<1>1. number \in 0..(Uint16 - 1) /\ rtimer \in 0..(Uint16 - 1)
  BY Counted
<1>2. app \in {JOIN, APP}
  OBVIOUS
<1> DEFINE s == [associated |-> c.associated, round_number |-> number,
                 round_rtimer |-> rtimer, next_round_begin |-> CHAOS_INTERVAL,
                 next_app |-> app, synced |-> c.synced, failed_rounds |-> 0,
                 has_index |-> c.has_index, since |-> ROUND_TIME]
<1>3. i = s
  BY DEF Lead, NextRound, FailedRounds, CtlState
<1> HIDE DEF number, rtimer, app
<1>4. /\ 0 \in 0..(CHAOS_FAILED_ROUNDS_RESYNC_THRESHOLD - 1)
      /\ ROUND_TIME \in (-Uint16)..MAX_DELAY /\ ROUND_TIME >= 0
      /\ CHAOS_INTERVAL \in {0, CHAOS_INTERVAL}
  BY Parameters
<1>5. i \in CtlState
  <2>1. c.associated \in BOOLEAN /\ c.synced \in BOOLEAN /\ c.has_index \in BOOLEAN
    BY CtlFields
  <2>2. s \in CtlState
    BY <1>1, <1>2, <1>4, <2>1, Zenon DEF CtlState
  <2> QED BY <1>3, <2>2
<1>6. /\ i.round_number = number /\ i.round_rtimer = rtimer
      /\ i.associated /\ i.synced /\ InRound(i)
  BY <1>3, <1>4 DEF InRound
<1> QED BY <1>5, <1>6 DEF number, rtimer

(* A node that hears the initiator, whose state is i, takes over all but the
   number of the round, which it counts. *)
Hears(c, i, t) ==
  /\ t \in CtlState /\ InRound(t)
  /\ t.round_number = (c.round_number + 1) % Uint16
  /\ t.round_rtimer = i.round_rtimer /\ t.next_app = i.next_app

LEMMA HeardStep ==
  ASSUME NEW c \in CtlState, NEW i \in CtlState, InRound(i),
         NEW indexed \in BOOLEAN
  PROVE  Hears(c, i, Heard(c, i, indexed))
<1> SUFFICES ASSUME NEW t, t = Heard(c, i, indexed) PROVE Hears(c, i, t)
  OBVIOUS
<1> DEFINE number == (c.round_number + 1) % Uint16
<1> DEFINE index == c.has_index \/ indexed
<1>1. number \in 0..(Uint16 - 1) /\ index \in BOOLEAN
  BY Counted
<1> DEFINE s == [associated |-> c.associated, round_number |-> number,
                 round_rtimer |-> i.round_rtimer,
                 next_round_begin |-> i.next_round_begin,
                 next_app |-> i.next_app, synced |-> TRUE, failed_rounds |-> 0,
                 has_index |-> index, since |-> ROUND_TIME]
<1>2. t = s
  BY DEF Heard, Synced, NextRound, FailedRounds, CtlState
<1> HIDE DEF number, index
<1>3. /\ 0 \in 0..(CHAOS_FAILED_ROUNDS_RESYNC_THRESHOLD - 1)
      /\ ROUND_TIME \in (-Uint16)..MAX_DELAY /\ ROUND_TIME >= 0
  BY Parameters
<1>4. t \in CtlState
  <2>1. /\ c.associated \in BOOLEAN /\ i.round_rtimer \in 0..(Uint16 - 1)
        /\ i.next_round_begin \in {0, CHAOS_INTERVAL}
        /\ i.next_app \in {JOIN, APP} /\ TRUE \in BOOLEAN
    BY CtlFields
  <2>2. s \in CtlState
    BY <1>1, <1>3, <2>1, Zenon DEF CtlState
  <2> QED BY <1>2, <2>2
<1>5. /\ t.round_number = number
      /\ t.round_rtimer = i.round_rtimer /\ t.next_app = i.next_app
      /\ InRound(t)
  BY <1>2, <1>3 DEF InRound
<1> QED BY <1>4, <1>5 DEF number, Hears

LEMMA AssociateStep ==
  ASSUME NEW i \in CtlState, InRound(i), NEW t, t = Associate(i)
  PROVE  /\ t \in CtlState /\ InRound(t)
         /\ t.round_number = i.round_number
         /\ t.round_rtimer = i.round_rtimer /\ t.next_app = i.next_app
<1> DEFINE s == [associated |-> TRUE, round_number |-> i.round_number,
                 round_rtimer |-> i.round_rtimer,
                 next_round_begin |-> i.next_round_begin,
                 next_app |-> i.next_app, synced |-> TRUE, failed_rounds |-> 0,
                 has_index |-> FALSE, since |-> 0]
<1>1. t = s
  BY DEF Associate, Synced, Unassociated
<1>2. /\ 0 \in 0..(CHAOS_FAILED_ROUNDS_RESYNC_THRESHOLD - 1)
      /\ 0 \in (-Uint16)..MAX_DELAY
  BY Parameters
<1>3. t \in CtlState
  <2>1. /\ i.round_number \in 0..(Uint16 - 1) /\ i.round_rtimer \in 0..(Uint16 - 1)
        /\ i.next_round_begin \in {0, CHAOS_INTERVAL}
        /\ i.next_app \in {JOIN, APP} /\ TRUE \in BOOLEAN /\ FALSE \in BOOLEAN
    BY CtlFields
  <2>2. s \in CtlState
    BY <1>2, <2>1, Zenon DEF CtlState
  <2> QED BY <1>1, <2>2
<1> QED BY <1>1, <1>3 DEF InRound

-----------------------------------------------------------------------------
(* The delays that a round is explored with are delays of the processes. *)
LEMMA LateIsDelay ==
  ASSUME NEW late \in Lates, NEW n \in Running
  PROVE  late[n] \in Delays(n)
<1> DEFINE meets == {d \in Delays(n) : ~Misses(n, d)}
<1>1. late[n] \in Outcomes(n)
  BY DEF Lates
<1>2. meets # {} => (CHOOSE d \in meets : TRUE) \in meets
  OBVIOUS
<1>3. Outcomes(n) = (Delays(n) \ meets)
                      \cup (IF meets = {} THEN {} ELSE {CHOOSE d \in meets : TRUE})
  BY DEF Outcomes
<1> QED BY <1>1, <1>2, <1>3

(* What the invariant asks of a node with state t when the initiator has
   state i. *)
Follows(t, i) ==
  /\ t \in CtlState
  /\ t.associated => /\ InRound(t)
                    /\ t.round_number = i.round_number
                    /\ t.round_rtimer = i.round_rtimer
                    /\ (t.next_app # i.next_app => t.failed_rounds > 0)

(* A node that fails in a round moves as the initiator does. *)
LEMMA FailFollows ==
  ASSUME Inv, NEW n \in Running, NEW t, NEW synced, Fails(ctl[n], synced, t),
         NEW i, Moved(ctl[Initiator], i)
  PROVE  Follows(t, i)
BY DEF Inv, InStep, Fails, Moved, Follows

LEMMA RunningTypes ==
  ASSUME Inv, NEW n \in Running
  PROVE  /\ n \in Nodes /\ ctl[n] \in CtlState
         /\ n # Initiator => InRound(ctl[n]) /\ InRound(ctl[Initiator])
         /\ Initiator \in Running
BY Parameters DEF Inv, Running, Timed, InitiatorLeads

(* A node that skips a round has missed it. *)
LEMMA SkipFails ==
  ASSUME Inv, NEW late \in Lates, NEW n \in Running, Misses(n, late[n])
  PROVE  Fails(ctl[n], ctl[n].synced, Skip(ctl[n], late[n])) /\ InRound(ctl[n])
<1> DEFINE d == late[n]
<1>1. d \in Delays(n)
  BY LateIsDelay
<1>2. n \in Nodes /\ ctl[n] \in CtlState
  BY RunningTypes
<1>3. InRound(ctl[n])
  <2>1. InRound(ctl[n]) \/ Booted(ctl[n])
    BY DEF Inv, Timed
  <2> QED BY <1>1, <1>2, <2>1, MissAtBoot
<1> HIDE DEF d
<1>4. /\ d \in 0..MAX_DELAY
      /\ Misses(n, d) <=> d >= ctl[n].next_round_begin - WAKEUP - RTIMER_MIN_DELAY
  BY <1>1, <1>2, <1>3, MissAhead
<1>5. d >= ctl[n].next_round_begin - WAKEUP - RTIMER_MIN_DELAY
  BY <1>4 DEF d
<1>6. Fails(ctl[n], ctl[n].synced, Skip(ctl[n], d))
  BY <1>2, <1>3, <1>4, <1>5, SkipStep, Zenon
<1> QED BY <1>3, <1>6 DEF d

(* It is enough to look at the nodes one by one. *)
LEMMA EachFollows ==
  ASSUME NEW i \in CtlState, InRound(i), i.associated, i.synced,
         NEW f, ctl' = [n \in Nodes |-> f[n]], f[Initiator] = i,
         \A n \in Nodes \ {Initiator} : Follows(f[n], i),
         pending' \in BOOLEAN, table' \subseteq Nodes
  PROVE  Inv'
<1>1. ctl'[Initiator] = i
  BY Parameters
<1>2. \A n \in Nodes \ {Initiator} : Follows(ctl'[n], i)
  OBVIOUS
<1>3. ctl' \in [Nodes -> CtlState]
  BY <1>1, <1>2 DEF Follows
<1>4. InitiatorLeads'
  BY <1>1 DEF InitiatorLeads
<1>5. Timed'
  BY <1>1, <1>2 DEF Timed, Running, Follows, InRound
<1>6. InStep'
  <2>1. ASSUME NEW n \in Nodes, ctl'[n].associated
        PROVE  /\ ctl'[n].round_number = i.round_number
               /\ ctl'[n].round_rtimer = i.round_rtimer
               /\ ctl'[n].next_app # i.next_app => ctl'[n].failed_rounds > 0
    BY <1>1, <1>2, <2>1 DEF Follows
  <2> QED BY <1>1, <2>1 DEF InStep, Running
<1> QED BY <1>3, <1>4, <1>5, <1>6 DEF Inv

-----------------------------------------------------------------------------
LEMMA InitInv == Init => Inv
<1> SUFFICES ASSUME Init PROVE Inv
  OBVIOUS
<1> DEFINE since == -(WAKEUP + BOOT_MARGIN)
<1> DEFINE s == [Unassociated EXCEPT !.associated = TRUE, !.synced = TRUE,
                                     !.has_index = TRUE, !.since = since]
<1>1. ctl = [n \in Nodes |-> IF n = Initiator THEN s ELSE Unassociated]
  BY DEF Init
<1>2. since \in (-Uint16)..MAX_DELAY
  BY Parameters
<1>3. Booted(s)
  BY DEF Booted, Unassociated
<1> HIDE DEF since
<1>4. s \in CtlState
  BY <1>2, UnassociatedType DEF CtlState
<1>5. s.associated /\ s.synced
  BY DEF Unassociated
<1> HIDE DEF s
<1>6. ctl[Initiator] = s /\ Running = {Initiator}
  BY <1>1, <1>5, UnassociatedType, Parameters DEF Running
<1>7. ctl \in [Nodes -> CtlState]
  BY <1>1, <1>4, UnassociatedType
<1>8. pending \in BOOLEAN /\ table \subseteq Nodes
  BY Parameters DEF Init
<1>9. InitiatorLeads /\ Timed
  BY <1>3, <1>5, <1>6 DEF InitiatorLeads, Timed
<1>10. InStep
  BY <1>6 DEF InStep
<1> QED BY <1>7, <1>8, <1>9, <1>10 DEF Inv

(* A round that the initiator misses. *)
LEMMA MissedRoundInv == Inv /\ MissedRound => Inv'
<1> SUFFICES ASSUME Inv, NEW late \in Lates, Misses(Initiator, late[Initiator]),
                    MayMiss, Silent(late)
             PROVE  Inv'
  BY DEF MissedRound
<1> DEFINE f == [n \in Nodes |->
                   IF ~ctl[n].associated THEN ctl[n]
                   ELSE IF Misses(n, late[n]) THEN Skip(ctl[n], late[n])
                   ELSE Unheard(ctl[n])]
<1> DEFINE i == Skip(ctl[Initiator], late[Initiator])
<1>1. Initiator \in Running /\ Initiator \in Nodes
  BY Parameters DEF Inv, InitiatorLeads, Running
<1>2. Fails(ctl[Initiator], ctl[Initiator].synced, i)
  BY <1>1, SkipFails
<1>3. f[Initiator] = i
  BY <1>1 DEF Running
<1>4. ctl' = [n \in Nodes |-> f[n]] /\ pending' \in BOOLEAN /\ table' \subseteq Nodes
  BY DEF Silent, Inv
<1>5. ASSUME NEW n \in Nodes
      PROVE  f[n] = IF ~ctl[n].associated THEN ctl[n]
                    ELSE IF Misses(n, late[n]) THEN Skip(ctl[n], late[n])
                    ELSE Unheard(ctl[n])
  OBVIOUS
<1> HIDE DEF i, f
<1>6. /\ i \in CtlState /\ i.associated /\ InRound(i) /\ i.synced
      /\ Moved(ctl[Initiator], i)
  BY <1>2 DEF Fails, MayMiss, Inv, InitiatorLeads
<1>7. ASSUME NEW n \in Nodes \ {Initiator}
      PROVE  Follows(f[n], i)
  <2>1. CASE ~ctl[n].associated
    BY <1>5, <2>1 DEF Follows, Inv
  <2>2. CASE ctl[n].associated
    <3>1. n \in Running
      BY <2>2 DEF Running
    <3>2. n # Initiator /\ ctl[n] \in CtlState /\ InRound(ctl[n])
      BY <3>1, RunningTypes
    <3>3. CASE Misses(n, late[n])
      <4>1. f[n] = Skip(ctl[n], late[n])
        BY <1>5, <2>2, <3>3
      <4> QED BY <1>6, <3>1, <3>3, <4>1, SkipFails, FailFollows
    <3>4. CASE ~Misses(n, late[n])
      <4>1. f[n] = Unheard(ctl[n])
        BY <1>5, <2>2, <3>4
      <4>2. Fails(ctl[n], FALSE, Unheard(ctl[n]))
        BY <3>2, UnheardStep
      <4> QED BY <1>6, <3>1, <4>1, <4>2, FailFollows
    <3> QED BY <3>3, <3>4
  <2> QED BY <2>1, <2>2
<1> QED BY <1>3, <1>4, <1>6, <1>7, EachFollows

(* A round that the initiator starts. *)
LEMMA LivelyInv ==
  ASSUME Inv, NEW late \in Lates, NEW hears, NEW asks, NEW indexed,
         NEW admitted \in SUBSET Nodes,
         Lively(late, hears, asks, admitted, indexed)
  PROVE  Inv'
<1> DEFINE i == Lead(ctl[Initiator])
<1> DEFINE f == [n \in Nodes |->
                   IF n = Initiator THEN i
                   ELSE IF ~ctl[n].associated
                   THEN IF n \in hears THEN Associate(i) ELSE ctl[n]
                   ELSE IF Misses(n, late[n]) THEN Skip(ctl[n], late[n])
                   ELSE IF n \in hears
                   THEN Heard(ctl[n], i, n \in indexed)
                   ELSE Unheard(ctl[n])]
<1>1. Initiator \in Nodes /\ ctl[Initiator] \in CtlState
      /\ ctl[Initiator].associated /\ ctl[Initiator].synced
  BY Parameters DEF Inv, InitiatorLeads
<1>2. /\ i \in CtlState /\ InRound(i) /\ i.associated /\ i.synced
      /\ i.round_number = (ctl[Initiator].round_number + 1) % Uint16
      /\ i.round_rtimer
           = (ctl[Initiator].round_rtimer + ctl[Initiator].next_round_begin) % Uint16
  BY <1>1, LeadStep
<1>3. ctl' = [n \in Nodes |-> f[n]] /\ f[Initiator] = i
  BY <1>1 DEF Lively
<1>4. pending' \in BOOLEAN /\ table' \subseteq Nodes
  BY DEF Lively, RoundEndSniffer, Inv
<1>5. ASSUME NEW n \in Nodes \ {Initiator}
      PROVE  f[n] = IF ~ctl[n].associated
                    THEN IF n \in hears THEN Associate(i) ELSE ctl[n]
                    ELSE IF Misses(n, late[n]) THEN Skip(ctl[n], late[n])
                    ELSE IF n \in hears
                    THEN Heard(ctl[n], i, n \in indexed)
                    ELSE Unheard(ctl[n])
  OBVIOUS
<1> HIDE DEF i, f
<1>6. ASSUME NEW n \in Nodes \ {Initiator}
      PROVE  Follows(f[n], i)
  <2>1. CASE ~ctl[n].associated /\ n \in hears
    <3>1. f[n] = Associate(i)
      BY <1>5, <2>1
    <3>2. /\ f[n] \in CtlState /\ InRound(f[n])
          /\ f[n].round_number = i.round_number
          /\ f[n].round_rtimer = i.round_rtimer /\ f[n].next_app = i.next_app
      BY <1>2, <3>1, AssociateStep
    <3> QED BY <3>2 DEF Follows
  <2>2. CASE ~ctl[n].associated /\ n \notin hears
    BY <1>5, <2>2 DEF Follows, Inv
  <2>3. CASE ctl[n].associated
    <3>1. n \in Running
      BY <2>3 DEF Running
    <3>2. /\ ctl[n] \in CtlState /\ InRound(ctl[n])
          /\ InRound(ctl[Initiator])
      BY <3>1, RunningTypes
    <3>3. Moved(ctl[Initiator], i)
      BY <1>2, <3>2 DEF Moved, InRound
    <3>4. CASE Misses(n, late[n])
      <4>1. f[n] = Skip(ctl[n], late[n])
        BY <1>5, <2>3, <3>4
      <4> QED BY <3>1, <3>3, <3>4, <4>1, SkipFails, FailFollows
    <3>5. CASE ~Misses(n, late[n]) /\ n \in hears
      <4> DEFINE indexes == n \in indexed
      <4>1. f[n] = Heard(ctl[n], i, indexes) /\ indexes \in BOOLEAN
        BY <1>5, <2>3, <3>5
      <4> HIDE DEF indexes
      <4>2. Hears(ctl[n], i, f[n])
        BY <1>2, <3>2, <4>1, HeardStep, Zenon
      <4>3. ctl[n].round_number = ctl[Initiator].round_number
        BY <3>1 DEF Inv, InStep
      <4> QED BY <1>2, <4>2, <4>3 DEF Follows, Hears
    <3>6. CASE ~Misses(n, late[n]) /\ n \notin hears
      <4>1. f[n] = Unheard(ctl[n])
        BY <1>5, <2>3, <3>6
      <4>2. Fails(ctl[n], FALSE, Unheard(ctl[n]))
        BY <3>2, UnheardStep
      <4> QED BY <3>1, <3>3, <4>1, <4>2, FailFollows
    <3> QED BY <3>4, <3>5, <3>6
  <2> QED BY <2>1, <2>2, <2>3
<1> QED BY <1>2, <1>3, <1>4, <1>6, EachFollows

LEMMA LedRoundInv == Inv /\ LedRound => Inv'
<1> SUFFICES ASSUME Inv, LedRound PROVE Inv'
  OBVIOUS
<1>1. PICK late \in Lates :
        \E hears \in SUBSET (Audience(late) \cup (Nodes \ Running)) :
          LET joiners == Joiners(hears, late)
              joining == IF JoinRound THEN joiners ELSE {}
          IN \E asks \in {FALSE, joiners # {}}, admitted \in SUBSET joining :
               \E indexed \in SUBSET (joining \cap (table \cup admitted)) :
                 Lively(late, hears, asks, admitted, indexed)
  BY DEF LedRound
<1>2. PICK hears \in SUBSET (Audience(late) \cup (Nodes \ Running)) :
        \E asks \in {FALSE, Joiners(hears, late) # {}},
           admitted \in SUBSET (IF JoinRound THEN Joiners(hears, late) ELSE {}) :
          \E indexed : Lively(late, hears, asks, admitted, indexed)
  BY <1>1
<1>3. PICK asks \in {FALSE, Joiners(hears, late) # {}},
           admitted \in SUBSET (IF JoinRound THEN Joiners(hears, late) ELSE {}) :
        \E indexed : Lively(late, hears, asks, admitted, indexed)
  BY <1>2
<1>4. admitted \in SUBSET Nodes
  BY <1>2, <1>3 DEF Joiners, Audience, Running
<1> QED BY <1>3, <1>4, LivelyInv

LEMMA NextInv == Inv /\ [Next]_vars => Inv'
<1> SUFFICES ASSUME Inv, [Next]_vars PROVE Inv'
  OBVIOUS
<1>1. CASE MissedRound
  BY <1>1, MissedRoundInv
<1>2. CASE LedRound
  BY <1>2, LedRoundInv
<1>3. CASE UNCHANGED vars
  BY <1>3 DEF vars, Inv, InitiatorLeads, Timed, InStep, Running, InRound, Booted
<1> QED BY <1>1, <1>2, <1>3 DEF Next

-----------------------------------------------------------------------------
(* The inductive invariant holds of every behaviour, for any nodes, any width
   of the timers and any lengths that ControlAssumption admits. *)
THEOREM Invariance == Spec => []Inv
BY InitInv, NextInv, PTL DEF Spec

(* Fields keep to their types; no node leaves the loop of chaos-control.c with
   as many failed rounds as the threshold (chaos-control.c:531). *)
THEOREM TypeCorrect == Spec => []TypeOK
<1>1. Inv => TypeOK
  <2> SUFFICES ASSUME Inv PROVE TypeOK
    OBVIOUS
  <2>1. DOMAIN ctl = Nodes /\ pending \in BOOLEAN /\ table \subseteq Nodes
    BY DEF Inv
  <2>2. \A n \in Nodes : ctl[n] \in CtlState
    BY DEF Inv
  <2> QED BY <2>1, <2>2, CtlFields DEF TypeOK
<1> QED BY <1>1, Invariance, PTL

(* check_timer_miss (chaos-control.c:312-330) reports a miss exactly if the
   deadline is past, wherever the timers wrap, in the first round too. *)
THEOREM MissExactness == Spec => []MissIsTrue
BY Invariance, InvMissIsTrue, PTL

(* Whatever rounds are missed or not heard by whom, the running nodes count
   the same rounds from the same start, and one that expects the wrong
   application knows that it has failed (chaos-control.c:470-540). *)
THEOREM Lockstep == Spec => []InStep
<1>1. Inv => InStep
  BY DEF Inv
<1> QED BY <1>1, Invariance, PTL
=============================================================================
