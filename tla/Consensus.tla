------------------------------ MODULE Consensus ------------------------------
(***************************************************************************)
(* What Wireless Paxos promises an application (paxos.h:164, "Value agreed *)
(* upon by the Wireless Paxos Consensus Algorithm"): the network chooses   *)
(* one of the proposed values, and the choice is final.                    *)
(***************************************************************************)
CONSTANT Value          \* the values the application may propose

VARIABLE chosen         \* the set of values that have been chosen

Init == chosen = {}

Choose == chosen = {} /\ \E v \in Value : chosen' = {v}

Spec == Init /\ [][Choose]_chosen
=============================================================================
