---------------------------- MODULE AtomicCommit ----------------------------
(***************************************************************************)
(* What a commit protocol promises, whatever its messages: participants    *)
(* vote, and all that decide decide alike.  Several participants may move  *)
(* in one step.                                                            *)
(***************************************************************************)
CONSTANT Participant

VARIABLE stand      \* stand[p]: where participant p stands

Stands == {"undecided", "prepared", "committed", "aborted"}

(* Committing is safe when everybody has prepared; aborting as long as nobody
   has committed. *)
CanCommit == \A p \in Participant : stand[p] \in {"prepared", "committed"}
CanAbort == \A p \in Participant : stand[p] # "committed"

(* Some participants, such as the one that proposes, start prepared. *)
Init == stand \in [Participant -> {"undecided", "prepared"}]

MayMove(p, to) ==
  \/ to = stand[p]
  \/ stand[p] = "undecided" /\ to = "prepared"
  \/ stand[p] = "prepared" /\ to = "committed" /\ CanCommit
  \/ stand[p] \in {"undecided", "prepared"} /\ to = "aborted" /\ CanAbort

Next ==
  /\ stand' \in [Participant -> Stands]
  /\ \A p \in Participant : MayMove(p, stand'[p])

Spec == Init /\ [][Next]_stand
=============================================================================
