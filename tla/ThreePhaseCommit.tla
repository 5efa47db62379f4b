-------------------------- MODULE ThreePhaseCommit --------------------------
(***************************************************************************)
(* Three-phase commit over Synchrotron: one round of lib/3pc/3pc.c and the *)
(* decision that apps/chaos/3pc/3pc-app.c takes at its end.                *)
(*                                                                         *)
(* Of the slot number the code only uses whether fewer than 30 slots       *)
(* remain.  That is the variable late: it may become true in any slot, so  *)
(* every THREE_PC_ROUND_MAX_SLOTS is covered, and a round may end in every *)
(* state where it is true.  did_tx is left out: nothing reads it.          *)
(***************************************************************************)
EXTENDS ChaosSlot

CONSTANTS
  Values,     \* the values that nodes may want to agree on
  Proposal    \* the one of the initiator

VARIABLES
  node,     \* node[n]: the statics of 3pc.c and its packet buffer, at node n
  failed,   \* history: the nodes that failure injection has stopped
  late      \* fewer than 30 slots of the round remain

vars == <<node, failed, late>>

(* The phases of 3pc.h that a packet can have, in the code's order. *)
PHASE_PROPOSE == 1
PHASE_PRE_COMMIT == 2
PHASE_COMMIT == 3
PHASE_ABORT == 4
PHASE_ABORT_TIMEOUT == 5
PHASE_FAIL == 9

-----------------------------------------------------------------------------
(* A phase that a node opens: only its own flag and vote are set. *)
Enter(n, s, phase) ==
  [s EXCEPT !.phase = phase, !.flags = {n}, !.votes = {n}]

(* Mutant of TimesOut: the initiator also gives up what it has committed. *)
TimesOutInCommit(n, s, soon) ==
  n = Initiator /\ s.phase \in {PHASE_PRE_COMMIT, PHASE_COMMIT} /\ soon

(* The initiator gives up a pre-commit that takes too long. *)
TimesOut(n, s, soon) == n = Initiator /\ s.phase = PHASE_PRE_COMMIT /\ soon

(* Mutant of CastVote: a node that disagrees does not take its vote back. *)
CastVoteAlways(n, s, p) ==
  IF s.got_valid_rx THEN s
  ELSE [s EXCEPT !.agree = s.value = p.value, !.votes = @ \cup {n},
                 !.value = p.value]

(* The first valid packet is voted on: in favour if it carries the node's own
   value, otherwise against, and the received value replaces the own one. *)
CastVote(n, s, p) ==
  IF s.got_valid_rx THEN s
  ELSE IF s.value = p.value
  THEN [s EXCEPT !.agree = TRUE, !.votes = @ \cup {n}]
  ELSE [s EXCEPT !.agree = FALSE, !.votes = @ \ {n}, !.value = p.value]

(* Mutant of Advance: pre-commit is left out. *)
AdvanceToCommit(n, s) ==
  IF n # Initiator THEN s
  ELSE Enter(n, s, IF s.votes = Nodes THEN PHASE_COMMIT ELSE PHASE_ABORT)

(* Mutant of Advance: the votes are not looked at. *)
AdvanceBlindly(n, s) ==
  IF n # Initiator THEN s ELSE Enter(n, s, s.phase + 1)

(* All flags are set in PROPOSE or PRE_COMMIT: the initiator opens the next
   phase, or aborts when a vote is missing. *)
Advance(n, s) ==
  IF n # Initiator THEN s
  ELSE Enter(n, s, IF s.votes = Nodes THEN s.phase + 1 ELSE PHASE_ABORT)

(* All flags are set in a phase that decides. *)
Conclude(n, s, p) ==
  IF s.phase = PHASE_COMMIT /\ s.votes # Nodes THEN Enter(n, s, PHASE_FAIL)
  ELSE [s EXCEPT !.complete = TRUE, !.rx_progress = @ \/ p.flags = Nodes]

(* A packet of the node's own phase is merged into the buffer. *)
Merge(n, s, p) ==
  LET merged == [s EXCEPT !.flags = @ \cup p.flags, !.votes = @ \cup p.votes]
  IN IF merged.flags # Nodes THEN [s |-> merged, tx |-> p.flags # s.flags]
     ELSE [s |-> IF s.phase \in {PHASE_PROPOSE, PHASE_PRE_COMMIT}
                 THEN Advance(n, merged) ELSE Conclude(n, merged, p),
           tx |-> TRUE]

(* A packet of a later phase replaces the buffer. The value is compared after
   it has been copied, so the node's vote is always in favour. *)
CatchUp(n, s, p) ==
  [s EXCEPT !.value = p.value, !.phase = p.phase,
            !.flags = p.flags \cup {n}, !.votes = p.votes \cup {n}]

Receive(n, s, p) ==
  LET voted == CastVote(n, s, p)
  IN IF p.phase = s.phase THEN Merge(n, voted, p)
     ELSE [s |-> IF p.phase > s.phase THEN CatchUp(n, voted, p) ELSE voted,
           tx |-> TRUE]

(* The final flood is over: others are known to have a complete packet. *)
Quits(s) == s.rx_progress /\ s.tx_count_complete >= N_TX_COMPLETE

(* The state of the next slot, for a node that transmitted or received p. *)
Transmit(s) == [s EXCEPT !.state = IF Quits(s) THEN "OFF" ELSE "RX"]

Hear(n, s, p, gives_up) ==
  LET w == IF gives_up THEN [s |-> s, tx |-> TRUE] ELSE Receive(n, s, p)
  IN [w.s EXCEPT !.got_valid_rx = TRUE,
                 !.state = IF w.tx THEN "TX" ELSE "RX",
                 !.tx_count_complete =
                   IF w.tx THEN CountTx(w.s, N_TX_COMPLETE) ELSE @]

(* three_pc_round_begin, with the call of process() for CHAOS_INIT. *)
RoundBegin(n, value, threshold) ==
  LET first == n = Initiator
  IN [value |-> value, phase |-> PHASE_PROPOSE, flags |-> {n},
      votes |-> IF first THEN {n} ELSE {}, agree |-> first,
      complete |-> FALSE, rx_progress |-> FALSE, tx_count_complete |-> 0,
      invalid_rx_count |-> 0, got_valid_rx |-> first,
      restart_threshold |-> threshold,
      state |-> IF first THEN "TX" ELSE "RX"]

-----------------------------------------------------------------------------
(* Injected failures at the end of process(). *)
Finish(n, s, fails) == IF n \in fails THEN Stopped(s) ELSE s

Init ==
  \E value \in [Nodes -> Values], threshold \in [Nodes -> Thresholds],
     fails \in FailureDraws(Nodes, {}) :
    /\ value[Initiator] = Proposal
    /\ node = [n \in Nodes |->
                 Finish(n, RoundBegin(n, value[n], threshold[n]), fails)]
    /\ failed = fails
    /\ late = FALSE

(* One slot of node n. A packet that arrives when the initiator gives up is
   not looked at. *)
Step(n, heard, threshold, fails, soon) ==
  LET gives_up == TimesOut(n, node[n], soon)
      s == IF gives_up THEN Enter(n, node[n], PHASE_ABORT_TIMEOUT)
           ELSE node[n]
  IN IF s.state = "OFF" THEN node[n]
     ELSE Finish(n,
            IF s.state = "TX" THEN Transmit(s)
            ELSE IF heard[n] # Silence THEN Hear(n, s, node[heard[n]], gives_up)
            ELSE Listen(s, N_TX_COMPLETE, threshold[n]), fails)

Slot ==
  \E soon \in {late, TRUE}, heard \in Receptions(node, Transmitters(node)),
     threshold \in ThresholdDraws(node),
     fails \in FailureDraws(Active(node), failed) :
    /\ node' = [n \in Nodes |-> Step(n, heard, threshold, fails, soon)]
    /\ failed' = failed \cup fails
    /\ late' = soon

Next == Active(node) # {} /\ Slot

Spec == Init /\ [][Next]_vars
-----------------------------------------------------------------------------
(* What an application has ever decided: final_phase is a static. *)
Outcomes == {"UNKNOWN", "ABORT_TIMEOUT_APP", "COMMIT_TIMEOUT", "COMMIT", "ABORT",
             "ABORT_TIMEOUT", "FAIL"}

(* What the application may decide if the round ends in this slot. The
   initiator takes an early end of its own round for a failure; a failed phase
   leaves the decision of the round before. *)
Decisions(n) ==
  LET s == node[n] IN
  CASE s.phase = PHASE_PROPOSE -> {"ABORT_TIMEOUT_APP"}
    [] s.phase = PHASE_PRE_COMMIT ->
         IF n # Initiator THEN {"COMMIT_TIMEOUT"}
         ELSE IF s.state = "OFF" THEN {"COMMIT_TIMEOUT", "ABORT_TIMEOUT_APP"}
         ELSE {"ABORT_TIMEOUT_APP"}
    [] s.phase = PHASE_COMMIT -> {IF s.agree THEN "COMMIT" ELSE "FAIL"}
    [] s.phase = PHASE_ABORT -> {"ABORT"}
    [] s.phase = PHASE_ABORT_TIMEOUT -> {"ABORT_TIMEOUT"}
    [] s.phase = PHASE_FAIL -> Outcomes

NodeOK(s) ==
  /\ s.value \in Values
  /\ s.phase \in {PHASE_PROPOSE, PHASE_PRE_COMMIT, PHASE_COMMIT, PHASE_ABORT,
                  PHASE_ABORT_TIMEOUT, PHASE_FAIL}
  /\ s.flags \subseteq Nodes
  /\ s.votes \subseteq Nodes
  /\ s.agree \in BOOLEAN
  /\ s.rx_progress \in BOOLEAN
  /\ RadioOK(s)

(* Fields keep to their types and counters to the bounds of 3pc.c:292-313. *)
TypeOK ==
  /\ DOMAIN node = Nodes
  /\ \A n \in Nodes : NodeOK(node[n])
  /\ failed \subseteq Nodes
  /\ late \in BOOLEAN

(* Whatever the votes, losses, failures and the slot where the initiator
   times out (3pc.c:158, 3pc-app.c:84-125), what the votes decided is not
   contradicted by the timeouts of those who have not heard of it: beside a
   COMMIT the others commit or would commit on their timeout, beside an ABORT
   they abort or would abort on theirs.  Where the initiator gives up a
   pre-commit there is no such decision, and timeouts may differ. *)
VotedDecisionStands ==
  late => \A m, n \in Nodes :
    /\ "COMMIT" \in Decisions(n) =>
         Decisions(m) \subseteq {"COMMIT", "COMMIT_TIMEOUT"}
    /\ "ABORT" \in Decisions(n) =>
         Decisions(m) \subseteq {"ABORT", "ABORT_TIMEOUT_APP"}

(* "XXX this should not happen" (3pc.c:240): nobody reports that it committed
   to what it refused, or reaches COMMIT while a vote is missing, although
   the comparison at 3pc.c:265 makes every late node vote in favour. *)
NoFail == \A n \in Nodes : "FAIL" \notin Decisions(n)

(* A vote against the proposal binds everybody: no node is left on the path
   that commits, be it by its own timeout (3pc-app.c:101-116). *)
RefusalIsFinal ==
  \A m, n \in Nodes :
    node[n].got_valid_rx /\ ~node[n].agree =>
      node[m].phase \notin {PHASE_PRE_COMMIT, PHASE_COMMIT}

(* Where a node stands in the abstract commit protocol by the phase it is in:
   PRE_COMMIT is what prepares a node.  What its application decides on its own
   in PROPOSE or PRE_COMMIT when the round is over is not part of it. *)
Stand(n) ==
  CASE node[n].phase = PHASE_PROPOSE -> "undecided"
    [] node[n].phase = PHASE_PRE_COMMIT -> "prepared"
    [] node[n].phase = PHASE_COMMIT -> "committed"
    [] OTHER -> "aborted"
=============================================================================
