------------------------------ MODULE ChaosSlot ------------------------------
(***************************************************************************)
(* What the Synchrotron primitives other than Wireless Paxos share: the    *)
(* slot of chaos_round (core/net/mac/chaos/chaos.c) as seen by all nodes,  *)
(* the random draws, and the retransmission timer that each primitive      *)
(* repeats in its process() callback.                                      *)
(*                                                                         *)
(* node is a function from Nodes to records that have at least the fields  *)
(* state, got_valid_rx, invalid_rx_count, restart_threshold, complete and  *)
(* tx_count_complete.                                                      *)
(***************************************************************************)
EXTENDS Integers, FiniteSets

CONSTANTS
  Nodes,                   \* the values of chaos_node_index in the network
  Initiator,               \* the node where IS_INITIATOR() holds
  N_TX_COMPLETE,
  CHAOS_RESTART_MIN,
  CHAOS_RESTART_MAX,
  MAX_FAILURES             \* bound on the nodes that failure injection stops

ASSUME ChaosAssumption ==
  /\ Nodes \subseteq Nat
  /\ IsFiniteSet(Nodes)
  /\ Initiator \in Nodes
  /\ N_TX_COMPLETE \in Nat \ {0}
  /\ CHAOS_RESTART_MIN \in Nat
  /\ CHAOS_RESTART_MAX \in Nat
  /\ CHAOS_RESTART_MIN < CHAOS_RESTART_MAX
  /\ MAX_FAILURES \in Nat

Thresholds == CHAOS_RESTART_MIN .. (CHAOS_RESTART_MAX - 1)

-----------------------------------------------------------------------------
(* The slot of the network: who transmits, who listens, and which of the
   packets that were sent a listener receives, if any. *)
Transmitters(node) == {n \in Nodes : node[n].state = "TX"}
Listeners(node) == {n \in Nodes : node[n].state = "RX"}
Silence == -1

Receptions(node, sent) == [Listeners(node) -> sent \cup {Silence}]

(* The retransmission timer: too many slots without a valid reception. A new
   threshold is drawn only where it expires. *)
RestartDue(s) ==
  s.state = "RX" /\ s.got_valid_rx /\ s.invalid_rx_count >= s.restart_threshold

ThresholdDraws(node) == [{n \in Nodes : RestartDue(node[n])} -> Thresholds]

Active(node) == {n \in Nodes : node[n].state # "OFF"}

(* The nodes that failure injection (FAILURES_RATE) may stop in a slot when it
   has already stopped others; with MAX_FAILURES = 0 it is not built in. *)
FailureDraws(active, failed) ==
  {fails \in SUBSET active : Cardinality(failed \cup fails) <= MAX_FAILURES}

Stopped(s) == [s EXCEPT !.state = "OFF"]

-----------------------------------------------------------------------------
(* One more transmission of the final flood. The counter is only compared
   with limit and stops there in the model. *)
CountTx(s, limit) ==
  IF s.complete /\ s.tx_count_complete < limit
  THEN s.tx_count_complete + 1 ELSE s.tx_count_complete

(* Mutant of Listen: nothing is sent again. *)
ListenOnly(s, limit, threshold) == s

(* A slot that brought no valid reception to a listening node. *)
Listen(s, limit, threshold) ==
  IF RestartDue(s)
  THEN [s EXCEPT !.state = "TX",
                 !.invalid_rx_count = 0,
                 !.tx_count_complete = CountTx(s, limit),
                 !.restart_threshold = threshold]
  ELSE [s EXCEPT !.invalid_rx_count = IF s.got_valid_rx THEN @ + 1 ELSE @]

RadioOK(s) ==
  /\ s.state \in {"TX", "RX", "OFF"}
  /\ s.got_valid_rx \in BOOLEAN
  /\ s.complete \in BOOLEAN
  /\ s.restart_threshold \in Thresholds
  /\ s.invalid_rx_count \in 0..CHAOS_RESTART_MAX
  /\ s.tx_count_complete \in 0..(N_TX_COMPLETE + 1)
=============================================================================
