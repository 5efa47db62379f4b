--------------------------- MODULE MaxAggregation ---------------------------
(***************************************************************************)
(* The maximum of one value per node over Synchrotron: one round of        *)
(* lib/max/max.c, as apps/chaos/max/max-app.c runs it.                     *)
(*                                                                         *)
(* The slot number only ends the round, and the result is the node's       *)
(* buffer at that time: what holds in every state holds for every          *)
(* MAX_ROUND_MAX_SLOTS.                                                    *)
(***************************************************************************)
EXTENDS ChaosSlot

CONSTANT Values     \* the values that nodes contribute

VARIABLES
  node,     \* node[n]: the statics of max.c and its packet buffer, at node n
  input     \* history: the value that each node contributed

vars == <<node, input>>

Greater(a, b) == IF a >= b THEN a ELSE b

-----------------------------------------------------------------------------
(* Mutant of Receive: a complete buffer is not merged any more. *)
ReceiveFirst(s, p) ==
  LET flags == s.flags \cup p.flags
  IN [s EXCEPT !.got_valid_rx = TRUE, !.flags = flags,
               !.max = IF flags = Nodes THEN s.max ELSE Greater(s.max, p.max),
               !.complete = @ \/ flags = Nodes]

(* The maximum and the flags of a packet are merged into the buffer. *)
Receive(s, p) ==
  LET flags == s.flags \cup p.flags
  IN [s EXCEPT !.got_valid_rx = TRUE, !.flags = flags,
               !.max = Greater(s.max, p.max),
               !.complete = @ \/ flags = Nodes]

(* The state of the next slot. Flags that differ start the count of the final
   flood anew; a transmission that missed its time is repeated. *)
Hear(s, p) ==
  LET w == Receive(s, p)
      rx_delta == p.flags # s.flags
      tx == rx_delta \/ w.complete
  IN [w EXCEPT !.invalid_rx_count = 0,
               !.state = IF tx THEN "TX" ELSE "RX",
               !.tx_count_complete =
                 IF rx_delta THEN 0
                 ELSE IF tx THEN CountTx(w, N_TX_COMPLETE + 1) ELSE @]

Transmit(s, missed) ==
  [s EXCEPT !.state = IF missed THEN "TX"
                      ELSE IF s.tx_count_complete > N_TX_COMPLETE THEN "OFF"
                      ELSE "RX"]

(* max_round_begin, with the call of process() for CHAOS_INIT. *)
RoundBegin(n, value, threshold) ==
  LET first == n = Initiator
  IN [max |-> value, flags |-> {n}, complete |-> FALSE,
      tx_count_complete |-> 0, invalid_rx_count |-> 0, got_valid_rx |-> first,
      restart_threshold |-> threshold,
      state |-> IF first THEN "TX" ELSE "RX"]

-----------------------------------------------------------------------------
Init ==
  \E threshold \in [Nodes -> Thresholds] :
    /\ input \in [Nodes -> Values]
    /\ node = [n \in Nodes |-> RoundBegin(n, input[n], threshold[n])]

(* One slot of node n. *)
Step(n, sent, heard, threshold) ==
  LET s == node[n] IN
  CASE s.state = "OFF" -> s
    [] s.state = "TX" -> Transmit(s, n \notin sent)
    [] s.state = "RX" /\ heard[n] # Silence -> Hear(s, node[heard[n]])
    [] s.state = "RX" /\ heard[n] = Silence ->
         Listen(s, N_TX_COMPLETE + 1, threshold[n])

Slot ==
  \E sent \in SUBSET Transmitters(node) :
  \E heard \in Receptions(node, sent), threshold \in ThresholdDraws(node) :
    /\ node' = [n \in Nodes |-> Step(n, sent, heard, threshold)]
    /\ UNCHANGED input

Next == Active(node) # {} /\ Slot

Spec == Init /\ [][Next]_vars
-----------------------------------------------------------------------------
(* Fields keep to their types and counters to the bounds of max.c:150-181. *)
TypeOK ==
  /\ DOMAIN node = Nodes
  /\ input \in [Nodes -> Values]
  /\ \A n \in Nodes :
       node[n].max \in Values /\ node[n].flags \subseteq Nodes
                              /\ RadioOK(node[n])

(* A node that reports completion has the maximum of what all nodes
   contributed, and an incomplete buffer has exactly that of the nodes whose
   flags it holds, whatever was lost, repeated or overheard (max.c:122-146). *)
MaxIsExact ==
  \A n \in Nodes :
    /\ node[n].complete => node[n].flags = Nodes
    /\ \E m \in node[n].flags : input[m] = node[n].max
    /\ \A m \in node[n].flags : input[m] <= node[n].max
=============================================================================
