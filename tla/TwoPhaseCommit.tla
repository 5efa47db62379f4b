--------------------------- MODULE TwoPhaseCommit ---------------------------
(***************************************************************************)
(* Two-phase commit over Synchrotron: one round of lib/2pc/2pc.c and the   *)
(* decision that apps/chaos/2pc/2pc-app.c takes at its end.                *)
(*                                                                         *)
(* process() treats the last slot of a round like every other one except   *)
(* that it reports value and phase.  The slot number is therefore left     *)
(* out: Decision(n) is what node n decides if the round ends now, and what *)
(* holds in every state holds for every TWO_PC_ROUND_MAX_SLOTS.            *)
(***************************************************************************)
EXTENDS ChaosSlot

CONSTANTS
  Values,     \* the values that nodes may want to agree on
  Proposal    \* the one of the initiator

ASSUME CommitAssumption == Proposal \in Values

VARIABLES
  node,     \* node[n]: the statics of 2pc.c and its packet buffer, at node n
  failed    \* history: the nodes that failure injection has stopped

vars == <<node, failed>>

(* The phases of 3pc.h that a 2PC packet can have, in the code's order. *)
PHASE_PROPOSE == 1
PHASE_COMMIT == 3
PHASE_ABORT == 4

-----------------------------------------------------------------------------
(* The first valid packet is voted on: in favour if it carries the node's own
   value, otherwise against, and the received value replaces the own one. *)
CastVote(n, s, p) ==
  IF s.got_valid_rx THEN s
  ELSE IF s.value = p.value
  THEN [s EXCEPT !.agree = TRUE, !.votes = @ \cup {n}]
  ELSE [s EXCEPT !.agree = FALSE, !.votes = @ \ {n}, !.value = p.value]

(* The initiator has everybody's flag in the propose phase. *)
Decide(n, s) ==
  [s EXCEPT !.flags = {n},
            !.phase = IF s.votes = Nodes THEN PHASE_COMMIT ELSE PHASE_ABORT]

(* Mutant of Merge: the flags of proposals complete a round. *)
MergeAnyPhase(n, s, p) ==
  LET merged == [s EXCEPT !.flags = @ \cup p.flags, !.votes = @ \cup p.votes]
      all == merged.flags = Nodes
  IN IF n = Initiator /\ s.phase = PHASE_PROPOSE /\ all
     THEN [s |-> Decide(n, merged), tx |-> TRUE]
     ELSE [s |-> [merged EXCEPT !.complete = all,
                                !.rx_progress = @ \/ p.flags = Nodes],
           tx |-> all \/ p.flags # s.flags]

(* A packet of the node's own phase is merged into the buffer. *)
Merge(n, s, p) ==
  LET merged == [s EXCEPT !.flags = @ \cup p.flags, !.votes = @ \cup p.votes]
      all == merged.flags = Nodes
  IN IF n = Initiator /\ s.phase = PHASE_PROPOSE /\ all
     THEN [s |-> Decide(n, merged), tx |-> TRUE]
     ELSE IF all /\ s.phase \in {PHASE_COMMIT, PHASE_ABORT}
     THEN [s |-> [merged EXCEPT !.complete = TRUE,
                                !.rx_progress = @ \/ p.flags = Nodes],
           tx |-> TRUE]
     ELSE [s |-> merged, tx |-> p.flags # s.flags]

(* A packet of a later phase replaces the buffer. *)
CatchUp(n, s, p) ==
  [s EXCEPT !.value = p.value, !.phase = p.phase, !.votes = p.votes,
            !.flags = p.flags \cup {n}]

Receive(n, s, p) ==
  LET voted == [CastVote(n, s, p) EXCEPT !.got_valid_rx = TRUE]
  IN IF p.phase = s.phase THEN Merge(n, voted, p)
     ELSE [s |-> IF p.phase > s.phase THEN CatchUp(n, voted, p) ELSE voted,
           tx |-> TRUE]

(* The final flood is over: others are known to have a complete packet. *)
Quits(s) == s.rx_progress /\ s.tx_count_complete >= N_TX_COMPLETE

(* The state of the next slot, for a node that transmitted, received p, or
   listened in vain. A transmission that missed its time is not repeated. *)
Transmit(s) == [s EXCEPT !.state = IF Quits(s) THEN "OFF" ELSE "RX"]

Hear(n, s, p) ==
  LET w == Receive(n, s, p)
  IN [w.s EXCEPT !.state = IF w.tx THEN "TX" ELSE "RX",
                 !.tx_count_complete =
                   IF w.tx THEN CountTx(w.s, N_TX_COMPLETE) ELSE @]

(* Mutant of RecordTx: the note is made for receptions. *)
RecordTxNever(s) == s

(* did_tx notes that the node is about to transmit. *)
RecordTx(s) == IF s.state = "TX" THEN [s EXCEPT !.did_tx = TRUE] ELSE s

(* two_pc_round_begin, with the call of process() for CHAOS_INIT. *)
RoundBegin(n, value, threshold) ==
  LET first == n = Initiator
  IN [value |-> value, phase |-> PHASE_PROPOSE, flags |-> {n},
      votes |-> IF first THEN {n} ELSE {}, agree |-> first,
      did_tx |-> FALSE, complete |-> FALSE, rx_progress |-> FALSE,
      tx_count_complete |-> 0, invalid_rx_count |-> 0,
      got_valid_rx |-> first, restart_threshold |-> threshold,
      state |-> IF first THEN "TX" ELSE "RX"]

-----------------------------------------------------------------------------
(* The end of process(): injected failures, and the note of a transmission. *)
Finish(n, s, fails) == RecordTx(IF n \in fails THEN Stopped(s) ELSE s)

(* Only equality with the initiator's value matters, so it may be fixed. *)
Init ==
  \E value \in [Nodes -> Values], threshold \in [Nodes -> Thresholds],
     fails \in FailureDraws(Nodes, {}) :
    /\ value[Initiator] = Proposal
    /\ node = [n \in Nodes |->
                 Finish(n, RoundBegin(n, value[n], threshold[n]), fails)]
    /\ failed = fails

(* One slot of node n. A node whose radio is off has left the round. *)
Step(n, heard, threshold, fails) ==
  LET s == node[n] IN
  IF s.state = "OFF" THEN s
  ELSE Finish(n, IF s.state = "TX" THEN Transmit(s)
                 ELSE IF heard[n] # Silence THEN Hear(n, s, node[heard[n]])
                 ELSE Listen(s, N_TX_COMPLETE, threshold[n]), fails)

SlotWith(heard, threshold, fails) ==
  /\ node' = [n \in Nodes |-> Step(n, heard, threshold, fails)]
  /\ failed' = failed \cup fails

Slot ==
  \E heard \in Receptions(node, Transmitters(node)),
     threshold \in ThresholdDraws(node),
     fails \in FailureDraws(Active(node), failed) :
    SlotWith(heard, threshold, fails)

Next == Active(node) # {} /\ Slot

Spec == Init /\ [][Next]_vars

(* While no node has stopped: a slot in which node n receives the packet of
   node m, and one in which two nodes whose timers expire together draw
   different thresholds. *)
Hears(m, n) ==
  /\ failed = {}
  /\ node[m].state = "TX" /\ node[n].state = "RX"
  /\ \E heard \in Receptions(node, Transmitters(node)),
        threshold \in ThresholdDraws(node) :
       heard[n] = m /\ SlotWith(heard, threshold, {})

Diverge(m, n) ==
  /\ failed = {}
  /\ RestartDue(node[m]) /\ RestartDue(node[n])
  /\ \E heard \in Receptions(node, Transmitters(node)),
        threshold \in ThresholdDraws(node) :
       /\ heard[m] = Silence /\ heard[n] = Silence
       /\ threshold[m] # threshold[n]
       /\ SlotWith(heard, threshold, {})

(* Slots go on; what a node sends to a listening node again and again arrives
   at some time; two nodes do not draw the same backoff for ever. Any other
   packet may be lost. *)
Fairness ==
  /\ WF_vars(Next)
  /\ \A m, n \in Nodes : m # n => SF_vars(Hears(m, n))
  /\ \A m, n \in Nodes : m < n => SF_vars(Diverge(m, n))

FairSpec == Spec /\ Fairness
-----------------------------------------------------------------------------
(* The decision of the application if the round ends in this slot. *)
Decision(n) ==
  LET s == node[n] IN
  CASE s.phase = PHASE_PROPOSE ->
         IF n # Initiator /\ s.agree /\ s.did_tx THEN "UNCERTAIN"
         ELSE "ABORT_TIMEOUT"
    [] s.phase = PHASE_COMMIT -> IF s.agree THEN "COMMIT" ELSE "FAIL"
    [] s.phase = PHASE_ABORT -> "ABORT"

NodeOK(s) ==
  /\ s.value \in Values
  /\ s.phase \in {PHASE_PROPOSE, PHASE_COMMIT, PHASE_ABORT}
  /\ s.flags \subseteq Nodes
  /\ s.votes \subseteq Nodes
  /\ s.agree \in BOOLEAN
  /\ s.did_tx \in BOOLEAN
  /\ s.rx_progress \in BOOLEAN
  /\ RadioOK(s)

(* Fields keep to their types; the counters of 2pc.c:224-243 stay within the
   bounds they are compared with. *)
TypeOK ==
  /\ DOMAIN node = Nodes
  /\ \A n \in Nodes : NodeOK(node[n])
  /\ failed \subseteq Nodes

(* Atomicity (2pc-app.c:86-107, "helps recovery"): wherever the round is cut
   and whatever nodes have stopped, nobody commits while another aborts, on a
   vote or on a timeout, and nobody finds that it committed to what it did
   not agree to. *)
Atomic ==
  \A m, n \in Nodes :
    /\ Decision(n) # "FAIL"
    /\ Decision(n) = "COMMIT" => Decision(m) \in {"COMMIT", "UNCERTAIN"}

(* The decision is everybody's (2pc.c:240): without injected failures a node
   turns its radio off only when all nodes have learned the decision. *)
OffAfterAll ==
  failed = {} =>
    \A m, n \in Nodes : node[n].state = "OFF" => node[m].phase # PHASE_PROPOSE

(* Termination (2pc.c:231, the retransmission timer): in a round that is long
   enough, everybody learns the decision unless a node stops. *)
AllDecide ==
  <>(failed # {} \/ \A n \in Nodes : node[n].phase # PHASE_PROPOSE)

(* Where a node stands in the abstract commit protocol. *)
Stand(n) ==
  CASE node[n].phase = PHASE_COMMIT -> "committed"
    [] node[n].phase = PHASE_ABORT -> "aborted"
    [] node[n].phase = PHASE_PROPOSE ->
         IF node[n].agree /\ node[n].did_tx THEN "prepared" ELSE "undecided"
=============================================================================
