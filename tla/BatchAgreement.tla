--------------------------- MODULE BatchAgreement ---------------------------
(***************************************************************************)
(* What Wireless Multi-Paxos promises an application (multipaxos.h:89,     *)
(* "Allows a correct realization of state machine replication"): batch     *)
(* after batch of consecutive rounds is agreed upon, no round is skipped,  *)
(* and what has been agreed on in a round stays.                           *)
(***************************************************************************)
EXTENDS Naturals

CONSTANTS
  Outcome,   \* what may be agreed on in a round
  Size       \* the rounds of a batch

VARIABLE agreed    \* agreed[r]: the outcome of round r

Decided == DOMAIN agreed

NothingYet == Decided = {}

NextBatch ==
  \E last \in {0} \cup Decided :
    /\ Decided = 1..last
    /\ DOMAIN agreed' = 1..(last + Size)
    /\ \A r \in DOMAIN agreed' :
         IF r \in Decided THEN agreed'[r] = agreed[r] ELSE agreed'[r] \in Outcome

Spec == NothingYet /\ [][NextBatch]_agreed
=============================================================================
