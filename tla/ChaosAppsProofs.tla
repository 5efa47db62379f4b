--------------------------- MODULE ChaosAppsProofs ---------------------------
(***************************************************************************)
(* The proofs about the applications of module ChaosApps: the theorems of  *)
(* the two commit protocols and of the join service carried over to the    *)
(* scheduled application, and the proofs about max and vote.               *)
(***************************************************************************)
EXTENDS ChaosApps, FiniteSetTheorems, TLAPS

Two == INSTANCE TwoPhaseCommitProofs
Three == INSTANCE ThreePhaseCommitProofs
Membership == INSTANCE JoinProofs

(* Both instances of the commit protocols define the same actions. *)
LEMMA TwoInit == TwoPC!Init <=> Two!Init
BY ZenonT(60)
   DEF Two!Init, TwoPC!Init, Two!RoundBegin, TwoPC!RoundBegin, Two!Finish,
           TwoPC!Finish, Two!RecordTx, TwoPC!RecordTx, Two!Stopped,
           TwoPC!Stopped, Two!PHASE_PROPOSE, TwoPC!PHASE_PROPOSE,
           Two!FailureDraws, TwoPC!FailureDraws, Two!Thresholds,
           TwoPC!Thresholds, Two!Cardinality, TwoPC!Cardinality,
           Two!IsFiniteSet, TwoPC!IsFiniteSet

LEMMA TwoNext == TwoPC!Next <=> Two!Next
BY ZenonT(60)
   DEF Two!Next, TwoPC!Next, Two!Slot, TwoPC!Slot, Two!SlotWith,
           TwoPC!SlotWith, Two!Step, TwoPC!Step, Two!Finish, TwoPC!Finish,
           Two!Transmit, TwoPC!Transmit, Two!Hear, TwoPC!Hear, Two!Receive,
           TwoPC!Receive, Two!CastVote, TwoPC!CastVote, Two!Merge,
           TwoPC!Merge, Two!Decide, TwoPC!Decide, Two!CatchUp, TwoPC!CatchUp,
           Two!Quits, TwoPC!Quits, Two!RecordTx, TwoPC!RecordTx,
           Two!PHASE_PROPOSE, TwoPC!PHASE_PROPOSE, Two!PHASE_COMMIT,
           TwoPC!PHASE_COMMIT, Two!PHASE_ABORT, TwoPC!PHASE_ABORT, Two!Listen,
           TwoPC!Listen, Two!CountTx, TwoPC!CountTx, Two!RestartDue,
           TwoPC!RestartDue, Two!Stopped, TwoPC!Stopped, Two!Active,
           TwoPC!Active, Two!Receptions, TwoPC!Receptions, Two!Listeners,
           TwoPC!Listeners, Two!Transmitters, TwoPC!Transmitters,
           Two!ThresholdDraws, TwoPC!ThresholdDraws, Two!Thresholds,
           TwoPC!Thresholds, Two!FailureDraws, TwoPC!FailureDraws,
           Two!Silence, TwoPC!Silence, Two!Cardinality, TwoPC!Cardinality,
           Two!IsFiniteSet, TwoPC!IsFiniteSet

LEMMA ThreeInit == ThreePC!Init <=> Three!Init
BY ZenonT(60)
   DEF Three!Init, ThreePC!Init, Three!RoundBegin, ThreePC!RoundBegin,
           Three!Finish, ThreePC!Finish, Three!Stopped, ThreePC!Stopped,
           Three!PHASE_PROPOSE, ThreePC!PHASE_PROPOSE, Three!FailureDraws,
           ThreePC!FailureDraws, Three!Thresholds, ThreePC!Thresholds,
           Three!Cardinality, ThreePC!Cardinality, Three!IsFiniteSet,
           ThreePC!IsFiniteSet

LEMMA ThreeNext == ThreePC!Next <=> Three!Next
BY ZenonT(60)
   DEF Three!Next, ThreePC!Next, Three!Slot, ThreePC!Slot, Three!Step,
           ThreePC!Step, Three!Finish, ThreePC!Finish, Three!Transmit,
           ThreePC!Transmit, Three!Hear, ThreePC!Hear, Three!Receive,
           ThreePC!Receive, Three!CastVote, ThreePC!CastVote, Three!Merge,
           ThreePC!Merge, Three!Advance, ThreePC!Advance, Three!Conclude,
           ThreePC!Conclude, Three!Enter, ThreePC!Enter, Three!TimesOut,
           ThreePC!TimesOut, Three!CatchUp, ThreePC!CatchUp, Three!Quits,
           ThreePC!Quits, Three!PHASE_PROPOSE, ThreePC!PHASE_PROPOSE,
           Three!PHASE_PRE_COMMIT, ThreePC!PHASE_PRE_COMMIT,
           Three!PHASE_COMMIT, ThreePC!PHASE_COMMIT, Three!PHASE_ABORT,
           ThreePC!PHASE_ABORT, Three!PHASE_ABORT_TIMEOUT,
           ThreePC!PHASE_ABORT_TIMEOUT, Three!PHASE_FAIL, ThreePC!PHASE_FAIL,
           Three!Listen, ThreePC!Listen, Three!CountTx, ThreePC!CountTx,
           Three!RestartDue, ThreePC!RestartDue, Three!Stopped,
           ThreePC!Stopped, Three!Active, ThreePC!Active, Three!Receptions,
           ThreePC!Receptions, Three!Listeners, ThreePC!Listeners,
           Three!Transmitters, ThreePC!Transmitters, Three!ThresholdDraws,
           ThreePC!ThresholdDraws, Three!Thresholds, ThreePC!Thresholds,
           Three!FailureDraws, ThreePC!FailureDraws, Three!Silence,
           ThreePC!Silence, Three!Cardinality, ThreePC!Cardinality,
           Three!IsFiniteSet, ThreePC!IsFiniteSet

(* Both instances of the join service begin in the same state. *)
LEMMA JoinInit == Joining!Init <=> Membership!Init
BY ZenonT(60)
   DEF Joining!Init, Membership!Init, Joining!RoundBegin, Membership!RoundBegin,
           Joining!join_init, Membership!join_init

(* A node's slot: what differs between the instances is only the prefix of the
   names, also under the binders, where equals have to be proved equal. *)
LEMMA JoinStep ==
  ASSUME NEW n, NEW heard, NEW threshold, NEW second, NEW quiet
  PROVE  Joining!Step(n, heard, threshold, second, quiet) =
           Membership!Step(n, heard, threshold, second, quiet)
<1>1. \A s : Joining!commit(s) = Membership!commit(s)
  BY ZenonT(60)
     DEF Joining!commit, Membership!commit, Joining!binary_search,
         Membership!binary_search, Joining!Missing, Membership!Missing,
         Joining!Rank, Membership!Rank, Joining!Ascending,
         Membership!Ascending, Joining!Cardinality, Membership!Cardinality,
         Joining!IsFiniteSet, Membership!IsFiniteSet
<1>2. \A s, p : Joining!merge_flags(s, p) = Membership!merge_flags(s, p)
  BY Zenon DEF Joining!merge_flags, Membership!merge_flags
<1>3. \A s, p : Joining!merge_lists(s, p) = Membership!merge_lists(s, p)
  BY ZenonT(60)
     DEF Joining!merge_lists, Membership!merge_lists, Joining!Rank,
         Membership!Rank, Joining!Cardinality, Membership!Cardinality,
         Joining!IsFiniteSet, Membership!IsFiniteSet
<1>4. \A i, s, p, delta, half : Joining!Collect(i, s, p, delta, half) =
                                 Membership!Collect(i, s, p, delta, half)
  BY <1>2, <1>3
     DEF Joining!Collect, Membership!Collect, Joining!FlagsDiffer,
         Membership!FlagsDiffer
<1>5. \A i, s, p : Joining!Adopt(i, s, p) = Membership!Adopt(i, s, p)
  BY Zenon DEF Joining!Adopt, Membership!Adopt
<1>6. \A s, p, delta :
        Joining!Confirm(s, p, delta) = Membership!Confirm(s, p, delta)
  BY ZenonT(60)
     DEF Joining!Confirm, Membership!Confirm, Joining!merge_flags,
         Membership!merge_flags, Joining!FlagsDiffer, Membership!FlagsDiffer
<1>7. \A S : Joining!Max(S) = Membership!Max(S)
  BY Zenon DEF Joining!Max, Membership!Max
<1>8. \A i, s, p, half :
        Joining!Receive(i, s, p, half) = Membership!Receive(i, s, p, half)
  <2> SUFFICES ASSUME NEW i, NEW s, NEW p, NEW half
               PROVE  Joining!Receive(i, s, p, half) =
                        Membership!Receive(i, s, p, half)
    OBVIOUS
  <2>1. CASE ~s.commit /\ ~p.commit
    BY <1>4, <1>7, <2>1 DEF Joining!Receive, Membership!Receive
  <2>2. CASE ~s.commit /\ p.commit
    BY <1>5, <1>7, <2>2 DEF Joining!Receive, Membership!Receive
  <2>3. CASE s.commit /\ p.commit
    BY <1>6, <1>7, <2>3 DEF Joining!Receive, Membership!Receive
  <2>4. CASE s.commit /\ ~p.commit
    BY <1>7, <2>4 DEF Joining!Receive, Membership!Receive
  <2> QED
    BY <2>1, <2>2, <2>3, <2>4
<1>9. /\ \A s, delta : Joining!AfterRx(s, delta) = Membership!AfterRx(s, delta)
      /\ \A s, th : Joining!AfterSilence(s, th) = Membership!AfterSilence(s, th)
  BY ZenonT(60)
     DEF Joining!AfterRx, Membership!AfterRx, Joining!AfterSilence,
         Membership!AfterSilence, Joining!CountTx, Membership!CountTx
<1>10. \A s : Joining!AfterTx(s) = Membership!AfterTx(s)
  BY ZenonT(60)
     DEF Joining!AfterTx, Membership!AfterTx, Joining!Sorted,
         Membership!Sorted, Joining!Ascending, Membership!Ascending,
         Joining!Rank, Membership!Rank, Joining!Range, Membership!Range,
         Joining!Cardinality, Membership!Cardinality, Joining!IsFiniteSet,
         Membership!IsFiniteSet
<1>11. \A i, s, delta, half, calm :
         Joining!CommitDue(i, s, delta, half, calm)
           <=> Membership!CommitDue(i, s, delta, half, calm)
  BY ZenonT(60)
     DEF Joining!CommitDue, Membership!CommitDue, Joining!Cardinality,
         Membership!Cardinality, Joining!IsFiniteSet, Membership!IsFiniteSet
<1> QED
  BY <1>1, <1>8, <1>9, <1>10, <1>11
     DEF Joining!Step, Membership!Step, Joining!Silence, Membership!Silence

(* So both instances take the same steps. *)
LEMMA JoinNext == Joining!Next <=> Membership!Next
<1>1. \A heard, threshold, second, quiet :
        [n \in Nodes |-> Joining!Step(n, heard, threshold, second, quiet)] =
          [n \in Nodes |-> Membership!Step(n, heard, threshold, second, quiet)]
  BY JoinStep
<1>2. Joining!Slot <=> Membership!Slot
  <2>1. /\ Joining!Receptions(node, Joining!Transmitters(node)) =
             Membership!Receptions(node, Membership!Transmitters(node))
        /\ Joining!Listeners(node) = Membership!Listeners(node)
        /\ Joining!Thresholds = Membership!Thresholds
    BY ZenonT(60)
       DEF Joining!Receptions, Membership!Receptions, Joining!Listeners,
           Membership!Listeners, Joining!Transmitters,
           Membership!Transmitters, Joining!Thresholds,
           Membership!Thresholds, Joining!Silence, Membership!Silence
  <2> DEFINE J(heard, threshold, second, quiet) ==
               [n \in Nodes |-> Joining!Step(n, heard, threshold, second, quiet)]
             M(heard, threshold, second, quiet) ==
               [n \in Nodes |-> Membership!Step(n, heard, threshold, second, quiet)]
             R == Membership!Receptions(node, Membership!Transmitters(node))
             T == [Membership!Listeners(node) -> Membership!Thresholds]
             JR == Joining!Receptions(node, Joining!Transmitters(node))
             JT == [Joining!Listeners(node) -> Joining!Thresholds]
  <2>2. Membership!Slot <=>
          \E second \in {late, TRUE}, quiet \in BOOLEAN,
             heard \in R, threshold \in T :
            node' = M(heard, threshold, second, quiet) /\ late' = second
    BY Zenon DEF Membership!Slot
  <2>3. Joining!Slot <=>
          \E second \in {late, TRUE}, quiet \in BOOLEAN,
             heard \in JR, threshold \in JT :
            node' = J(heard, threshold, second, quiet) /\ late' = second
    BY Zenon DEF Joining!Slot
  <2>4. \A heard, threshold, second, quiet :
          J(heard, threshold, second, quiet) = M(heard, threshold, second, quiet)
    BY <1>1
  <2>5. JR = R /\ JT = T
    BY <2>1
  <2> HIDE DEF J, M, R, T, JR, JT
  <2> QED
    BY <2>2, <2>3, <2>4, <2>5
<1>3. Joining!NextRound <=> Membership!NextRound
  BY ZenonT(60)
     DEF Joining!NextRound, Membership!NextRound, Joining!RoundBegin,
         Membership!RoundBegin, Joining!join_init, Membership!join_init,
         Joining!Others, Membership!Others, Joining!Active, Membership!Active,
         Joining!Sorted, Membership!Sorted, Joining!Ascending,
         Membership!Ascending, Joining!Rank, Membership!Rank, Joining!Range,
         Membership!Range, Joining!Cardinality, Membership!Cardinality,
         Joining!IsFiniteSet, Membership!IsFiniteSet
<1> QED
  BY <1>2, <1>3 DEF Joining!Next, Membership!Next

(* The assumptions of the modules are those of ChaosApps. *)
LEMMA Assumptions ==
  /\ Nodes \subseteq Nat /\ Initiator \in Nodes
  /\ Two!IsFiniteSet(Nodes) /\ Three!IsFiniteSet(Nodes)
  /\ Membership!IsFiniteSet(Nodes) /\ Membership!JoinAssumption
  /\ N_TX_COMPLETE \in Nat \ {0}
  /\ CHAOS_RESTART_MIN \in Nat /\ CHAOS_RESTART_MAX \in Nat
  /\ CHAOS_RESTART_MIN < CHAOS_RESTART_MAX
  /\ MAX_FAILURES \in Nat
  /\ Proposal \in Values
BY ChaosAssumption, AppsAssumption
   DEF ChaosAssumption, AppsAssumption, Two!IsFiniteSet, Three!IsFiniteSet,
       Membership!IsFiniteSet, Membership!JoinAssumption, IsFiniteSet

-----------------------------------------------------------------------------
(* The application of the image does not change. *)
LEMMA AppStays ==
  ASSUME Next
  PROVE  app' = app
BY DEF Next

(* While the application is a commit protocol, its invariant holds. *)
CommitInv ==
  /\ app = "2pc" => Two!Inv
  /\ app = "3pc" => Three!Inv

LEMMA TwoInvStays ==
  ASSUME Two!Inv, UNCHANGED <<node, failed>>
  PROVE  Two!Inv'
BY DEF Two!Inv, Two!Typed, Two!RadioInv, Two!AgreeInv, Two!VotesAreCast,
       Two!OneDecision, Two!FlagsKnow

LEMMA ThreeInvStays ==
  ASSUME Three!Inv, UNCHANGED <<node, failed, late>>
  PROVE  Three!Inv'
BY DEF Three!Inv, Three!Typed, Three!HeardInv, Three!VotesInv, Three!FlagsInv,
       Three!PhaseInv, Three!Behind

LEMMA CommitInvariance == Spec => []CommitInv
<1>1. Init => CommitInv
  BY TwoInit, ThreeInit, Assumptions, Two!InitInv, Three!InitInv DEF Init, CommitInv
<1>2. ASSUME CommitInv, Next PROVE CommitInv'
  <2>1. CASE app = "2pc"
    <3>1. TwoPC!Next
      BY <1>2, <2>1 DEF Next
    <3>2. Two!Inv'
      BY <1>2, <2>1, <3>1, TwoNext, Assumptions, Two!NextInv DEF CommitInv
    <3> QED
      BY <1>2, <2>1, <3>2, AppStays DEF CommitInv
  <2>2. CASE app = "3pc"
    <3>1. ThreePC!Next
      BY <1>2, <2>2 DEF Next
    <3>2. Three!Inv'
      BY <1>2, <2>2, <3>1, ThreeNext, Assumptions, Three!NextInv DEF CommitInv
    <3> QED
      BY <1>2, <2>2, <3>2, AppStays DEF CommitInv
  <2>3. CASE app \notin {"2pc", "3pc"}
    BY <1>2, <2>3, AppStays DEF CommitInv
  <2> QED
    BY <2>1, <2>2, <2>3
<1>3. ASSUME CommitInv, UNCHANGED vars PROVE CommitInv'
  BY <1>3, TwoInvStays, ThreeInvStays DEF CommitInv, vars
<1> QED
  BY <1>1, <1>2, <1>3, PTL DEF Spec

LEMMA CommitInvSafe ==
  ASSUME CommitInv
  PROVE  /\ Atomic2PC /\ OffAfterAll2PC
         /\ VotedDecisionStands3PC /\ NoFail3PC /\ RefusalIsFinal3PC
<1>1. ASSUME Two!Inv PROVE TwoPC!Atomic /\ TwoPC!OffAfterAll
  <2>1. Two!Atomic /\ Two!OffAfterAll
    BY <1>1, Assumptions, Two!InvAtomic, Two!InvOffAfterAll
  <2> QED
    BY <2>1, Zenon
       DEF Two!Atomic, TwoPC!Atomic, Two!OffAfterAll, TwoPC!OffAfterAll,
           Two!Decision, TwoPC!Decision, Two!PHASE_PROPOSE, TwoPC!PHASE_PROPOSE,
           Two!PHASE_COMMIT, TwoPC!PHASE_COMMIT, Two!PHASE_ABORT,
           TwoPC!PHASE_ABORT
<1>2. ASSUME Three!Inv
      PROVE  ThreePC!VotedDecisionStands /\ ThreePC!NoFail /\ ThreePC!RefusalIsFinal
  <2>1. Three!VotedDecisionStands /\ Three!NoFail /\ Three!RefusalIsFinal
    BY <1>2, Assumptions, Three!InvVotedDecisionStands, Three!InvNoFail,
       Three!InvRefusalIsFinal
  <2>2. \A n : Three!Decisions(n) = ThreePC!Decisions(n)
    BY ZenonT(60)
       DEF Three!Decisions, ThreePC!Decisions, Three!Outcomes, ThreePC!Outcomes,
           Three!PHASE_PROPOSE, ThreePC!PHASE_PROPOSE,
           Three!PHASE_PRE_COMMIT, ThreePC!PHASE_PRE_COMMIT,
           Three!PHASE_COMMIT, ThreePC!PHASE_COMMIT,
           Three!PHASE_ABORT, ThreePC!PHASE_ABORT,
           Three!PHASE_ABORT_TIMEOUT, ThreePC!PHASE_ABORT_TIMEOUT,
           Three!PHASE_FAIL, ThreePC!PHASE_FAIL
  <2>3. ThreePC!VotedDecisionStands /\ ThreePC!NoFail
    BY <2>1, <2>2
       DEF Three!VotedDecisionStands, ThreePC!VotedDecisionStands,
           Three!NoFail, ThreePC!NoFail
  <2>4. ThreePC!RefusalIsFinal
    BY <2>1
       DEF Three!RefusalIsFinal, ThreePC!RefusalIsFinal,
           Three!PHASE_PRE_COMMIT, ThreePC!PHASE_PRE_COMMIT,
           Three!PHASE_COMMIT, ThreePC!PHASE_COMMIT
  <2> QED
    BY <2>3, <2>4
<1> QED
  BY <1>1, <1>2
     DEF CommitInv, Atomic2PC, OffAfterAll2PC, VotedDecisionStands3PC, NoFail3PC,
         RefusalIsFinal3PC

(* Atomicity of 2PC over Synchrotron (2pc-app.c:86-107) for every network,
   every pattern of losses and every set of stopped nodes. *)
THEOREM Atomicity2PC == Spec => []Atomic2PC
BY CommitInvariance, CommitInvSafe, PTL

(* Without failures a radio goes off only when everybody knows the decision
   (2pc.c:240). *)
THEOREM OffIsLast2PC == Spec => []OffAfterAll2PC
BY CommitInvariance, CommitInvSafe, PTL

(* What the votes decided in 3PC is contradicted by no node's timeout (3pc.c:158,
   3pc-app.c:84-125), whenever the initiator times out. *)
THEOREM Unanimity3PC == Spec => []VotedDecisionStands3PC
BY CommitInvariance, CommitInvSafe, PTL

(* The branch "XXX this should not happen" (3pc.c:240) is never taken. *)
THEOREM FailIsUnreachable3PC == Spec => []NoFail3PC
BY CommitInvariance, CommitInvSafe, PTL

(* One refusal keeps everybody off the path to a commit (3pc-app.c:101). *)
THEOREM RefusalBinds3PC == Spec => []RefusalIsFinal3PC
BY CommitInvariance, CommitInvSafe, PTL

-----------------------------------------------------------------------------
(* The refinement of atomic commitment. *)

(* Stands is where the nodes stand in the protocol that is scheduled. *)
LEMMA StandsAre ==
  /\ app = "2pc" => Stands = Two!Standing
  /\ app = "3pc" => Stands = Three!Standing
  /\ app \notin {"2pc", "3pc"} => Stands = [n \in Nodes |-> "undecided"]
<1>1. \A n : TwoPC!Stand(n) = Two!Stand(n)
  BY ZenonT(60)
     DEF Two!Stand, TwoPC!Stand, Two!PHASE_PROPOSE, TwoPC!PHASE_PROPOSE,
         Two!PHASE_COMMIT, TwoPC!PHASE_COMMIT, Two!PHASE_ABORT,
         TwoPC!PHASE_ABORT
<1>2. \A n : ThreePC!Stand(n) = Three!Stand(n)
  BY ZenonT(60)
     DEF Three!Stand, ThreePC!Stand, Three!PHASE_PROPOSE, ThreePC!PHASE_PROPOSE,
         Three!PHASE_PRE_COMMIT, ThreePC!PHASE_PRE_COMMIT,
         Three!PHASE_COMMIT, ThreePC!PHASE_COMMIT
<1> QED
  BY <1>1, <1>2 DEF Stands, Two!Standing, Three!Standing

LEMMA InitCommitment ==
  ASSUME Init
  PROVE  Commitment!Init
<1>1. CASE app = "2pc"
  <2>1. Two!Commitment!Init
    BY <1>1, TwoInit, Assumptions, Two!InitStands DEF Init
  <2> QED
    BY <1>1, <2>1, StandsAre DEF Two!Commitment!Init, Commitment!Init
<1>2. CASE app = "3pc"
  <2>1. Three!Commitment!Init
    BY <1>2, ThreeInit, Assumptions, Three!InitStands DEF Init
  <2> QED
    BY <1>2, <2>1, StandsAre DEF Three!Commitment!Init, Commitment!Init
<1>3. CASE app \notin {"2pc", "3pc"}
  BY <1>3, StandsAre DEF Commitment!Init
<1> QED
  BY <1>1, <1>2, <1>3

LEMMA NextCommitment ==
  ASSUME CommitInv, Next
  PROVE  Commitment!Next \/ UNCHANGED Stands
<1>0. /\ app' = app
      /\ app = "2pc" => Stands' = Two!Standing'
      /\ app = "3pc" => Stands' = Three!Standing'
      /\ app \notin {"2pc", "3pc"} => Stands' = [n \in Nodes |-> "undecided"]
  <2>1. (/\ app = "2pc" => Stands = Two!Standing
         /\ app = "3pc" => Stands = Three!Standing
         /\ app \notin {"2pc", "3pc"} => Stands = [n \in Nodes |-> "undecided"])'
    BY StandsAre, PTL
  <2> QED
    BY <2>1, AppStays
<1>1. CASE app = "2pc"
  <2>1. Two!Commitment!Next
    BY <1>1, TwoNext, Assumptions, Two!NextStands DEF Next, CommitInv
  <2>2. Stands = Two!Standing /\ Stands' = Two!Standing'
    BY <1>0, <1>1, StandsAre
  <2> QED
    BY <2>1, <2>2
       DEF Two!Commitment!Next, Commitment!Next, Two!Commitment!MayMove,
           Commitment!MayMove, Two!Commitment!CanCommit, Commitment!CanCommit,
           Two!Commitment!CanAbort, Commitment!CanAbort, Two!Commitment!Stands,
           Commitment!Stands
<1>2. CASE app = "3pc"
  <2>1. Three!Commitment!Next
    BY <1>2, ThreeNext, Assumptions, Three!NextStands DEF Next, CommitInv
  <2>2. Stands = Three!Standing /\ Stands' = Three!Standing'
    BY <1>0, <1>2, StandsAre
  <2> QED
    BY <2>1, <2>2
       DEF Three!Commitment!Next, Commitment!Next, Three!Commitment!MayMove,
           Commitment!MayMove, Three!Commitment!CanCommit, Commitment!CanCommit,
           Three!Commitment!CanAbort, Commitment!CanAbort,
           Three!Commitment!Stands, Commitment!Stands
<1>3. CASE app \notin {"2pc", "3pc"}
  BY <1>0, <1>3, StandsAre
<1> QED
  BY <1>1, <1>2, <1>3

(* 2PC and 3PC over Synchrotron implement atomic commitment (2pc.c:183-219,
   3pc.c:158-275): every slot, with whatever it loses and whomever it stops,
   moves the nodes as AtomicCommit allows.  Of 3PC this covers the phases with
   the initiator's timeout, not what applications decide on their own when
   they are undecided at the end of the round (3pc-app.c:84-116). *)
THEOREM CommitRefinement == Spec => CommitsAtomically
<1>1. UNCHANGED vars => UNCHANGED Stands
  BY DEF vars, Stands, TwoPC!Stand, ThreePC!Stand
<1> QED
  BY CommitInvariance, InitCommitment, NextCommitment, <1>1, PTL
     DEF Spec, CommitsAtomically, Commitment!Spec

-----------------------------------------------------------------------------
(* Max. *)

MaxState ==
  [max : Values, flags : SUBSET Nodes, complete : BOOLEAN,
   tx_count_complete : 0..(N_TX_COMPLETE + 1),
   invalid_rx_count : 0..CHAOS_RESTART_MAX, got_valid_rx : BOOLEAN,
   restart_threshold : Thresholds, state : {"TX", "RX", "OFF"}]

(* The buffer has exactly the maximum of the nodes whose flags it holds. *)
Exact(s) ==
  /\ s.complete => s.flags = Nodes
  /\ \E m \in s.flags : input[m] = s.max
  /\ \A m \in s.flags : input[m] <= s.max

MaxInv ==
  /\ node \in [Nodes -> MaxState]
  /\ input \in [Nodes -> Values]
  /\ \A n \in Nodes : Exact(node[n])

(* What the radio does to the buffer of a node that receives nothing. *)
LEMMA MaxListenEffect ==
  ASSUME NEW s \in MaxState, NEW threshold, s.state = "RX",
         Max!RestartDue(s) => threshold \in Thresholds
  PROVE  LET t == Max!Listen(s, N_TX_COMPLETE + 1, threshold) IN
         /\ t \in MaxState
         /\ t.max = s.max /\ t.flags = s.flags /\ t.complete = s.complete
<1>1. CASE Max!RestartDue(s)
  <2>1. /\ Max!CountTx(s, N_TX_COMPLETE + 1) \in 0..(N_TX_COMPLETE + 1)
        /\ 0 \in 0..CHAOS_RESTART_MAX
    BY ChaosAssumption DEF ChaosAssumption, Max!CountTx, MaxState
  <2> QED
    BY <1>1, <2>1 DEF Max!Listen, MaxState
<1>2. CASE ~Max!RestartDue(s)
  <2>1. CASE s.got_valid_rx
    <3>1. s.invalid_rx_count + 1 \in 0..CHAOS_RESTART_MAX
      BY <1>2, <2>1, ChaosAssumption
         DEF ChaosAssumption, Max!RestartDue, MaxState, Thresholds
    <3> QED
      BY <1>2, <3>1 DEF Max!Listen, MaxState
  <2>2. CASE ~s.got_valid_rx
    BY <1>2, <2>2 DEF Max!Listen, MaxState
  <2> QED
    BY <2>1, <2>2
<1> QED
  BY <1>1, <1>2

LEMMA MaxTransmitEffect ==
  ASSUME NEW s \in MaxState, NEW missed
  PROVE  LET t == Max!Transmit(s, missed) IN
         /\ t \in MaxState
         /\ t.max = s.max /\ t.flags = s.flags /\ t.complete = s.complete
BY DEF Max!Transmit, MaxState

(* What a reception makes of the buffer: the greater maximum, all flags. *)
LEMMA MaxHearEffect ==
  ASSUME NEW s \in MaxState, NEW p \in MaxState
  PROVE  LET t == Max!Hear(s, p) IN
         /\ t \in MaxState
         /\ t.max = Max!Greater(s.max, p.max)
         /\ t.flags = s.flags \cup p.flags
         /\ t.complete <=> s.complete \/ t.flags = Nodes
<1> DEFINE w == Max!Receive(s, p)
           t == Max!Hear(s, p)
<1>1. Max!Greater(s.max, p.max) \in Values
  BY DEF Max!Greater, MaxState
<1>2. /\ w \in MaxState
      /\ w.max = Max!Greater(s.max, p.max) /\ w.flags = s.flags \cup p.flags
      /\ w.complete <=> s.complete \/ w.flags = Nodes
  BY <1>1 DEF Max!Receive, MaxState
<1> HIDE DEF w
<1>3. /\ Max!CountTx(w, N_TX_COMPLETE + 1) \in 0..(N_TX_COMPLETE + 1)
      /\ 0 \in 0..CHAOS_RESTART_MAX /\ 0 \in 0..(N_TX_COMPLETE + 1)
  BY <1>2, ChaosAssumption DEF ChaosAssumption, Max!CountTx, MaxState
<1>4. \E x \in {"TX", "RX"}, c \in 0..(N_TX_COMPLETE + 1) :
        t = [w EXCEPT !.invalid_rx_count = 0, !.state = x,
                      !.tx_count_complete = c]
  <2>1. w.tx_count_complete \in 0..(N_TX_COMPLETE + 1)
    BY <1>2 DEF MaxState
  <2> QED
    BY <1>3, <2>1 DEF Max!Hear, w
<1> HIDE DEF t
<1>5. /\ t \in MaxState
      /\ t.max = w.max /\ t.flags = w.flags /\ t.complete = w.complete
  BY <1>2, <1>3, <1>4 DEF MaxState
<1> QED
  BY <1>2, <1>5 DEF t

(* Merging two exact buffers gives an exact one. *)
LEMMA ExactMerge ==
  ASSUME MaxInv, NEW s \in MaxState, NEW p \in MaxState, NEW t \in MaxState,
         Exact(s), Exact(p),
         t.max = Max!Greater(s.max, p.max), t.flags = s.flags \cup p.flags,
         t.complete => s.complete \/ t.flags = Nodes
  PROVE  Exact(t)
<1>1. /\ s.max \in Nat /\ p.max \in Nat
      /\ s.flags \subseteq Nodes /\ p.flags \subseteq Nodes
      /\ \A m \in Nodes : input[m] \in Nat
  BY AppsAssumption DEF AppsAssumption, MaxState, MaxInv
<1>2. s.max <= t.max /\ p.max <= t.max /\ t.max \in {s.max, p.max}
  BY <1>1 DEF Max!Greater
<1>3. t.complete => t.flags = Nodes
  BY <1>1 DEF Exact
<1>4. \E m \in t.flags : input[m] = t.max
  BY <1>2 DEF Exact
<1>5. \A m \in t.flags : input[m] <= t.max
  <2> SUFFICES ASSUME NEW m \in t.flags PROVE input[m] <= t.max
    OBVIOUS
  <2>1. m \in Nodes /\ input[m] \in Nat /\ t.max \in Nat
    BY <1>1, <1>2
  <2>2. input[m] <= s.max \/ input[m] <= p.max
    BY DEF Exact
  <2> QED
    BY <1>1, <1>2, <2>1, <2>2
<1> QED
  BY <1>3, <1>4, <1>5 DEF Exact

LEMMA MaxInitInv ==
  ASSUME Max!Init
  PROVE  MaxInv
<1>1. PICK threshold \in [Nodes -> Max!Thresholds] :
        /\ input \in [Nodes -> Values]
        /\ node = [n \in Nodes |-> Max!RoundBegin(n, input[n], threshold[n])]
  BY DEF Max!Init
<1>2. ASSUME NEW n \in Nodes PROVE node[n] \in MaxState /\ Exact(node[n])
  <2>1. /\ 0 \in 0..CHAOS_RESTART_MAX /\ 0 \in 0..(N_TX_COMPLETE + 1)
        /\ threshold[n] \in Thresholds
        /\ input[n] \in Values /\ input[n] \in Nat
    <3>1. 0 \in 0..CHAOS_RESTART_MAX /\ 0 \in 0..(N_TX_COMPLETE + 1)
      BY ChaosAssumption DEF ChaosAssumption
    <3>2. threshold[n] \in Thresholds
      BY DEF Thresholds, Max!Thresholds
    <3>3. input[n] \in Values /\ input[n] \in Nat
      BY <1>1, AppsAssumption DEF AppsAssumption
    <3> QED
      BY <3>1, <3>2, <3>3
  <2>2. node[n] = Max!RoundBegin(n, input[n], threshold[n])
    BY <1>1
  <2>3. /\ node[n] \in MaxState
        /\ node[n].max = input[n] /\ node[n].flags = {n} /\ ~node[n].complete
    BY <2>1, <2>2 DEF Max!RoundBegin, MaxState
  <2> QED
    BY <2>1, <2>3 DEF Exact
<1> QED
  BY <1>1, <1>2 DEF MaxInv

LEMMA MaxNextInv ==
  ASSUME MaxInv, Max!Next
  PROVE  MaxInv'
<1>0. PICK sent \in SUBSET Max!Transmitters(node) :
        \E heard \in Max!Receptions(node, sent),
           threshold \in Max!ThresholdDraws(node) :
          /\ node' = [n \in Nodes |-> Max!Step(n, sent, heard, threshold)]
          /\ UNCHANGED input
  BY DEF Max!Next, Max!Slot
<1>1. PICK heard \in Max!Receptions(node, sent),
           threshold \in Max!ThresholdDraws(node) :
        /\ node' = [n \in Nodes |-> Max!Step(n, sent, heard, threshold)]
        /\ UNCHANGED input
  BY <1>0
<1>2. ASSUME NEW n \in Nodes
      PROVE  node'[n] \in MaxState /\ Exact(node'[n])
  <2> DEFINE s == node[n]
             t == Max!Step(n, sent, heard, threshold)
  <2>1. s \in MaxState /\ Exact(s) /\ node'[n] = t
    BY <1>1 DEF MaxInv
  <2>2. \A u \in MaxState :
          u.max = s.max /\ u.flags = s.flags /\ u.complete = s.complete =>
            Exact(u)
    BY <2>1 DEF Exact
  <2>3. CASE s.state = "OFF"
    BY <2>1, <2>3 DEF Max!Step
  <2>4. CASE s.state = "TX"
    <3>1. t = Max!Transmit(s, n \notin sent)
      BY <2>4 DEF Max!Step
    <3> QED
      BY <2>1, <2>2, <3>1, MaxTransmitEffect
  <2>5. CASE s.state = "RX" /\ heard[n] = Max!Silence
    <3>1. t = Max!Listen(s, N_TX_COMPLETE + 1, threshold[n])
      BY <2>5 DEF Max!Step
    <3>2. Max!RestartDue(s) => threshold[n] \in Thresholds
      BY DEF Max!ThresholdDraws, Max!Thresholds, Thresholds
    <3> QED
      BY <2>1, <2>2, <2>5, <3>1, <3>2, MaxListenEffect
  <2>6. CASE s.state = "RX" /\ heard[n] # Max!Silence
    <3>1. t = Max!Hear(s, node[heard[n]])
      BY <2>6 DEF Max!Step
    <3>2. heard[n] \in Nodes
      BY <2>6 DEF Max!Receptions, Max!Listeners, Max!Transmitters
    <3>3. node[heard[n]] \in MaxState /\ Exact(node[heard[n]])
      BY <3>2 DEF MaxInv
    <3> QED
      BY <2>1, <3>1, <3>3, MaxHearEffect, ExactMerge
  <2> QED
    BY <2>1, <2>3, <2>4, <2>5, <2>6 DEF MaxState
<1>3. node' \in [Nodes -> MaxState] /\ input' \in [Nodes -> Values]
  BY <1>1, <1>2 DEF MaxInv
<1>4. \A n \in Nodes : Exact(node[n])'
  BY <1>1, <1>2 DEF Exact
<1> QED
  BY <1>3, <1>4 DEF MaxInv

LEMMA MaxInvariance == Spec => [](app = "max" => MaxInv)
<1> DEFINE I == app = "max" => MaxInv
<1>1. Init => I
  BY MaxInitInv DEF Init
<1>2. ASSUME I, Next PROVE I'
  <2>1. CASE app = "max"
    BY <1>2, <2>1, AppStays, MaxNextInv DEF Next
  <2>2. CASE app # "max"
    BY <1>2, <2>2, AppStays
  <2> QED
    BY <2>1, <2>2
<1>3. ASSUME I, UNCHANGED vars PROVE I'
  BY <1>3 DEF vars, MaxInv, Exact
<1>4. Spec => []I
  <2> HIDE DEF I
  <2> QED
    BY <1>1, <1>2, <1>3, PTL DEF Spec
<1> QED
  BY <1>4

(* A node that reports completion has the maximum of all inputs, and the
   buffers in between have that of the flags they hold (max.c:122-146). *)
THEOREM MaxExactness == Spec => []MaxIsExactAtNodes
<1>1. (app = "max" => MaxInv) => MaxIsExactAtNodes
  BY DEF MaxIsExactAtNodes, Max!MaxIsExact, MaxInv, Exact
<1> QED
  BY <1>1, MaxInvariance, PTL

-----------------------------------------------------------------------------
(* Vote. *)

VoteState ==
  [proposal : Proposals \cup {0}, vote : BOOLEAN, agree : BOOLEAN,
   flags : SUBSET Nodes, tx : BOOLEAN, complete : BOOLEAN,
   completion_slot : {0, 1}, rx_progress : BOOLEAN,
   tx_count_complete : 0..(N_TX_COMPLETE + 1),
   invalid_rx_count : 0..CHAOS_RESTART_MAX, got_valid_rx : BOOLEAN,
   restart_threshold : Thresholds, state : {"TX", "RX", "OFF"}]

(* Nodes that transmit have the proposal; those that have it have judged it,
   and their vote is that judgement; a flag of another node says that it has
   the proposal; in the first slot only the initiator is on the air, so that
   a completion in it is one of a network of two. *)
VoteInv ==
  /\ node \in [Nodes -> VoteState] /\ slot \in {0, 1} /\ failed \subseteq Nodes
  /\ node[Initiator].got_valid_rx
  /\ \A n \in Nodes :
       /\ node[n].state = "TX" => node[n].got_valid_rx
       /\ node[n].got_valid_rx =>
            /\ node[n].proposal = node[Initiator].proposal
            /\ node[n].agree = Voting!do_vote(node[Initiator].proposal)
            /\ node[n].vote = Voting!do_vote(node[Initiator].proposal)
       /\ \A m \in node[n].flags : m # n => node[m].got_valid_rx
       /\ node[n].complete => node[n].flags = Nodes /\ node[n].got_valid_rx
       /\ slot = 0 => /\ node[n].flags = {n}
                      /\ node[n].state = "TX" => n = Initiator
       /\ node[n].complete /\ node[n].completion_slot = 0 =>
            Nodes = {n, Initiator}

(* What two states have in common when only the radio has moved on. *)
SameVote(s, t) ==
  /\ t.proposal = s.proposal /\ t.vote = s.vote /\ t.agree = s.agree
  /\ t.flags = s.flags /\ t.got_valid_rx = s.got_valid_rx
  /\ t.complete = s.complete /\ t.completion_slot = s.completion_slot

(* What an incomplete node makes of packet p. *)
VoteMerges(s, p, t) ==
  /\ t.got_valid_rx
  /\ t.proposal = IF s.got_valid_rx THEN s.proposal ELSE p.proposal
  /\ t.agree = IF s.got_valid_rx THEN s.agree ELSE Voting!do_vote(p.proposal)
  /\ t.vote = (p.vote /\ t.agree)
  /\ t.flags = s.flags \cup p.flags
  /\ t.complete = (t.flags = Nodes)
  /\ t.completion_slot = IF t.flags = Nodes THEN slot ELSE 0

VoteMove(s, t) ==
  /\ t \in VoteState
  /\ t.state = "TX" => t.got_valid_rx
  /\ \/ SameVote(s, t)
     \/ \E k \in Nodes : node[k].state = "TX" /\ VoteMerges(s, node[k], t)

(* What the radio does to a node that receives nothing. *)
LEMMA VoteListenEffect ==
  ASSUME NEW s \in VoteState, NEW threshold, s.state = "RX",
         Voting!RestartDue(s) => threshold \in Thresholds
  PROVE  LET t == Voting!Listen(s, N_TX_COMPLETE, threshold) IN
         t \in VoteState /\ SameVote(s, t) /\ (t.state = "TX" => s.got_valid_rx)
<1>1. CASE Voting!RestartDue(s)
  <2>1. /\ Voting!CountTx(s, N_TX_COMPLETE) \in 0..(N_TX_COMPLETE + 1)
        /\ 0 \in 0..CHAOS_RESTART_MAX
    BY ChaosAssumption DEF ChaosAssumption, Voting!CountTx, VoteState
  <2>2. s.got_valid_rx
    BY <1>1 DEF Voting!RestartDue
  <2> QED
    BY <1>1, <2>1, <2>2 DEF Voting!Listen, VoteState, SameVote
<1>2. CASE ~Voting!RestartDue(s) /\ s.got_valid_rx
  <2>1. s.invalid_rx_count + 1 \in 0..CHAOS_RESTART_MAX
    BY <1>2, ChaosAssumption
       DEF ChaosAssumption, Voting!RestartDue, VoteState, Thresholds
  <2> QED
    BY <1>2, <2>1 DEF Voting!Listen, VoteState, SameVote
<1>3. CASE ~Voting!RestartDue(s) /\ ~s.got_valid_rx
  BY <1>3 DEF Voting!Listen, VoteState, SameVote
<1> QED
  BY <1>1, <1>2, <1>3

LEMMA VoteTransmitEffect ==
  ASSUME NEW s \in VoteState, NEW missed
  PROVE  LET t == Voting!Transmit(s, missed) IN
         t \in VoteState /\ SameVote(s, t)
BY DEF Voting!Transmit, VoteState, SameVote

(* The merge of vote.c:125-163. *)
LEMMA VoteMergeEffect ==
  ASSUME NEW s \in VoteState, NEW p \in VoteState, slot \in {0, 1}
  PROVE  LET w == Voting!Merge(s, p) IN
         w \in VoteState /\ VoteMerges(s, p, w)
<1> DEFINE l == Voting!Learn(s, p)
           w == Voting!Merge(s, p)
<1>1. Voting!do_vote(p.proposal) \in BOOLEAN
  BY DEF Voting!do_vote
<1>2. /\ l \in VoteState /\ l.got_valid_rx /\ l.flags = s.flags
      /\ l.proposal = (IF s.got_valid_rx THEN s.proposal ELSE p.proposal)
      /\ l.agree = (IF s.got_valid_rx THEN s.agree
                    ELSE Voting!do_vote(p.proposal))
  BY <1>1 DEF Voting!Learn, VoteState
<1> DEFINE vote == p.vote /\ l.agree
           flags == s.flags \cup p.flags
           all == flags = Nodes
           tx == all \/ p.flags # s.flags
           completion == IF all THEN slot ELSE 0
<1>3. w = [l EXCEPT !.vote = vote, !.flags = flags, !.tx = tx,
                    !.complete = all, !.completion_slot = completion]
  BY DEF Voting!Merge
<1>4. /\ vote \in BOOLEAN /\ flags \in SUBSET Nodes
      /\ tx \in BOOLEAN /\ all \in BOOLEAN /\ completion \in {0, 1}
  BY DEF VoteState
<1> HIDE DEF l, w, vote, flags, all, tx, completion
<1>5. /\ w \in VoteState
      /\ w.got_valid_rx = l.got_valid_rx /\ w.proposal = l.proposal
      /\ w.agree = l.agree /\ w.vote = vote /\ w.flags = flags
      /\ w.complete = all /\ w.completion_slot = completion
  <2>1. l \in VoteState
    BY <1>2
  <2> DEFINE w1 == [l EXCEPT !.vote = vote, !.flags = flags]
  <2>2. /\ w1 \in VoteState
        /\ w1.got_valid_rx = l.got_valid_rx /\ w1.proposal = l.proposal
        /\ w1.agree = l.agree /\ w1.vote = vote /\ w1.flags = flags
    BY <1>4, <2>1 DEF VoteState
  <2>3. w = [w1 EXCEPT !.tx = tx, !.complete = all,
                       !.completion_slot = completion]
    BY <1>3
  <2> HIDE DEF w1
  <2> QED
    BY <1>4, <2>2, <2>3 DEF VoteState
<1>6. VoteMerges(s, p, w)
  BY <1>2, <1>5 DEF VoteMerges, vote, flags, all, completion
<1> QED
  BY <1>5, <1>6 DEF w

(* process() of vote.c for a packet that was received. *)
LEMMA VoteHearEffect ==
  ASSUME NEW s \in VoteState, NEW p \in VoteState, slot \in {0, 1},
         s.complete => s.got_valid_rx
  PROVE  LET t == Voting!Hear(s, p) IN
         /\ t \in VoteState /\ t.got_valid_rx
         /\ SameVote(s, t) \/ VoteMerges(s, p, t)
<1> DEFINE w == Voting!Receive(s, p)
           t == Voting!Hear(s, p)
<1>1. /\ w \in VoteState /\ w.got_valid_rx
      /\ SameVote(s, w) \/ VoteMerges(s, p, w)
  <2>1. CASE s.complete
    BY <2>1 DEF Voting!Receive, VoteState, SameVote
  <2>2. CASE ~s.complete
    <3>1. w = Voting!Merge(s, p)
      BY <2>2 DEF Voting!Receive
    <3> HIDE DEF w
    <3>2. w \in VoteState /\ VoteMerges(s, p, w)
      BY <3>1, VoteMergeEffect
    <3>3. w.got_valid_rx
      BY <3>2 DEF VoteMerges
    <3>4. QED
      BY <3>2, <3>3 DEF w
  <2> QED
    BY <2>1, <2>2
<1>2. /\ Voting!CountTx(w, N_TX_COMPLETE) \in 0..(N_TX_COMPLETE + 1)
      /\ w.tx_count_complete \in 0..(N_TX_COMPLETE + 1)
      /\ 0 \in 0..CHAOS_RESTART_MAX
  BY <1>1, ChaosAssumption DEF ChaosAssumption, Voting!CountTx, VoteState
<1>3. PICK x \in {"TX", "RX"}, c \in 0..(N_TX_COMPLETE + 1) :
        t = [w EXCEPT !.invalid_rx_count = 0, !.state = x,
                      !.tx_count_complete = c]
  BY <1>2 DEF Voting!Hear
<1> HIDE DEF w, t
<1>4. t \in VoteState /\ SameVote(w, t)
  BY <1>1, <1>2, <1>3 DEF VoteState, SameVote
<1>5. SameVote(s, w) => SameVote(s, t)
  BY <1>4 DEF SameVote
<1>6. VoteMerges(s, p, w) => VoteMerges(s, p, t)
  BY <1>4 DEF SameVote, VoteMerges
<1> QED
  BY <1>1, <1>4, <1>5, <1>6 DEF SameVote, t

(* A node that is stopped keeps what it knows. *)
LEMMA VoteFinishEffect ==
  ASSUME NEW n \in Nodes, NEW s, NEW r \in VoteState, NEW fails, VoteMove(s, r)
  PROVE  VoteMove(s, Voting!Finish(n, r, fails))
<1> DEFINE t == Voting!Finish(n, r, fails)
<1>1. /\ t \in VoteState /\ SameVote(r, t)
      /\ t.state = "TX" => r.state = "TX"
  BY DEF Voting!Finish, Voting!Stopped, VoteState, SameVote
<1> HIDE DEF t
<1>2. SameVote(s, r) => SameVote(s, t)
  BY <1>1 DEF SameVote
<1>3. \A k \in Nodes : VoteMerges(s, node[k], r) => VoteMerges(s, node[k], t)
  BY <1>1 DEF SameVote, VoteMerges
<1>4. VoteMove(s, t)
  BY <1>1, <1>2, <1>3 DEF VoteMove, SameVote
<1> QED
  BY <1>4 DEF t

(* One slot of one node. *)
LEMMA VoteStepEffect ==
  ASSUME VoteInv, NEW n \in Nodes,
         NEW sent \in SUBSET Voting!Transmitters(node),
         NEW heard \in Voting!Receptions(node, sent),
         NEW threshold \in Voting!ThresholdDraws(node), NEW fails
  PROVE  VoteMove(node[n], Voting!Step(n, sent, heard, threshold, fails))
<1> DEFINE s == node[n]
           t == Voting!Step(n, sent, heard, threshold, fails)
<1>1. /\ s \in VoteState /\ slot \in {0, 1}
      /\ s.complete => s.got_valid_rx
      /\ s.state = "TX" => s.got_valid_rx
  BY DEF VoteInv
<1>2. \A u \in VoteState : SameVote(s, u) /\ s.got_valid_rx => VoteMove(s, u)
  BY DEF VoteMove, SameVote
<1>3. CASE s.state = "OFF"
  <2>1. t = s
    BY <1>3 DEF Voting!Step
  <2> QED
    BY <1>1, <1>3, <2>1 DEF VoteMove, SameVote
<1>4. CASE s.state = "TX"
  <2> DEFINE r == Voting!Transmit(s, n \notin sent)
  <2>1. t = Voting!Finish(n, r, fails)
    BY <1>4 DEF Voting!Step
  <2>2. r \in VoteState /\ SameVote(s, r)
    BY <1>1, VoteTransmitEffect
  <2> HIDE DEF r
  <2> QED
    BY <1>1, <1>2, <1>4, <2>1, <2>2, VoteFinishEffect
<1>5. CASE s.state = "RX" /\ heard[n] = Voting!Silence
  <2> DEFINE r == Voting!Listen(s, N_TX_COMPLETE, threshold[n])
  <2>1. t = Voting!Finish(n, r, fails)
    BY <1>5 DEF Voting!Step
  <2>2. Voting!RestartDue(s) => threshold[n] \in Thresholds
    BY DEF Voting!ThresholdDraws, Voting!Thresholds, Thresholds
  <2>3. r \in VoteState /\ SameVote(s, r) /\ (r.state = "TX" => s.got_valid_rx)
    BY <1>1, <1>5, <2>2, VoteListenEffect
  <2> HIDE DEF r
  <2>4. VoteMove(s, r)
    BY <2>3 DEF VoteMove, SameVote
  <2> QED
    BY <2>1, <2>3, <2>4, VoteFinishEffect
<1>6. CASE s.state = "RX" /\ heard[n] # Voting!Silence
  <2> DEFINE k == heard[n]
             r == Voting!Hear(s, node[k])
  <2>1. t = Voting!Finish(n, r, fails)
    BY <1>6 DEF Voting!Step
  <2>2. k \in Nodes /\ node[k].state = "TX"
    BY <1>6 DEF Voting!Receptions, Voting!Listeners, Voting!Transmitters
  <2>3. node[k] \in VoteState
    BY <2>2 DEF VoteInv
  <2>4. /\ r \in VoteState /\ r.got_valid_rx
        /\ SameVote(s, r) \/ VoteMerges(s, node[k], r)
    BY <1>1, <2>3, VoteHearEffect
  <2> HIDE DEF r, k
  <2>5. VoteMove(s, r)
    BY <2>2, <2>4 DEF VoteMove
  <2> QED
    BY <2>1, <2>4, <2>5, VoteFinishEffect
<1> QED
  BY <1>1, <1>3, <1>4, <1>5, <1>6 DEF VoteState


LEMMA VoteInitInv ==
  ASSUME Voting!Init
  PROVE  VoteInv
<1>1. PICK proposal \in Proposals, threshold \in [Nodes -> Voting!Thresholds],
           fails \in Voting!FailureDraws(Nodes, {}) :
        /\ node = [n \in Nodes |->
             Voting!Finish(n, Voting!RoundBegin(n, proposal, threshold[n]), fails)]
        /\ failed = fails
        /\ slot = 0
  BY DEF Voting!Init
<1>2. ASSUME NEW n \in Nodes
      PROVE  /\ node[n] \in VoteState
             /\ (node[n].got_valid_rx <=> n = Initiator)
             /\ node[n].flags = {n} /\ ~node[n].complete
             /\ (node[n].state = "TX" => n = Initiator)
             /\ n = Initiator => /\ node[n].proposal = proposal
                                 /\ node[n].agree = Voting!do_vote(proposal)
                                 /\ node[n].vote = Voting!do_vote(proposal)
  <2> DEFINE r == Voting!RoundBegin(n, proposal, threshold[n])
             vote == n = Initiator /\ Voting!do_vote(proposal)
             first == n = Initiator
             th == threshold[n]
  <2>1. /\ 0 \in 0..CHAOS_RESTART_MAX /\ 0 \in 0..(N_TX_COMPLETE + 1)
        /\ vote \in BOOLEAN /\ first \in BOOLEAN
    BY ChaosAssumption DEF ChaosAssumption
  <2>2. th \in Thresholds
    BY DEF Thresholds, Voting!Thresholds
  <2>3. r = [proposal |-> IF first THEN proposal ELSE 0, vote |-> vote,
             agree |-> vote, flags |-> {n}, tx |-> FALSE, complete |-> FALSE,
             completion_slot |-> 0, rx_progress |-> FALSE,
             tx_count_complete |-> 0, invalid_rx_count |-> 0,
             got_valid_rx |-> first, restart_threshold |-> th,
             state |-> IF first THEN "TX" ELSE "RX"]
    BY DEF Voting!RoundBegin
  <2> HIDE DEF r, vote, first, th
  <2>4. /\ r \in VoteState /\ r.got_valid_rx = first
        /\ r.flags = {n} /\ ~r.complete
        /\ r.proposal = (IF first THEN proposal ELSE 0)
        /\ r.agree = vote /\ r.vote = vote
        /\ r.state = (IF first THEN "TX" ELSE "RX")
    BY <2>1, <2>2, <2>3 DEF VoteState
  <2>5. node[n] = Voting!Finish(n, r, fails)
    BY <1>1 DEF r
  <2>6. /\ node[n] \in VoteState /\ SameVote(r, node[n])
        /\ node[n].state = "TX" => r.state = "TX"
    BY <2>4, <2>5 DEF Voting!Finish, Voting!Stopped, VoteState, SameVote
  <2>7. n = Initiator => vote = Voting!do_vote(proposal)
    BY DEF vote, Voting!do_vote
  <2> QED
    BY <2>4, <2>6, <2>7 DEF SameVote, first
<1>3. Initiator \in Nodes
  BY ChaosAssumption DEF ChaosAssumption
<1>4. failed \subseteq Nodes
  BY <1>1 DEF Voting!FailureDraws
<1>5. node \in [Nodes -> VoteState]
  BY <1>1, <1>2
<1> QED
  BY <1>1, <1>2, <1>3, <1>4, <1>5 DEF VoteInv

LEMMA VoteNextInv ==
  ASSUME VoteInv, Voting!Next
  PROVE  VoteInv'
<1>1. PICK sent \in SUBSET Voting!Transmitters(node) :
        \E heard \in Voting!Receptions(node, sent),
           threshold \in Voting!ThresholdDraws(node),
           fails \in Voting!FailureDraws(Voting!Active(node), failed) :
          /\ node' = [n \in Nodes |->
                        Voting!Step(n, sent, heard, threshold, fails)]
          /\ failed' = failed \cup fails
          /\ slot' = 1
  BY DEF Voting!Next, Voting!Slot
<1>2. PICK heard \in Voting!Receptions(node, sent),
           threshold \in Voting!ThresholdDraws(node),
           fails \in Voting!FailureDraws(Voting!Active(node), failed) :
        /\ node' = [n \in Nodes |->
                      Voting!Step(n, sent, heard, threshold, fails)]
        /\ failed' = failed \cup fails
        /\ slot' = 1
  BY <1>1
<1>3. \A n \in Nodes : VoteMove(node[n], node'[n])
  <2> SUFFICES ASSUME NEW n \in Nodes PROVE VoteMove(node[n], node'[n])
    OBVIOUS
  <2>1. node'[n] = Voting!Step(n, sent, heard, threshold, fails)
    BY <1>2
  <2> QED
    BY <2>1, VoteStepEffect
<1>4. /\ node' \in [Nodes -> VoteState] /\ slot' = 1 /\ failed' \subseteq Nodes
      /\ Initiator \in Nodes
  BY <1>2, <1>3, ChaosAssumption
     DEF VoteInv, VoteMove, Voting!FailureDraws, Voting!Active, ChaosAssumption
<1>5. ASSUME NEW n \in Nodes, node[n].got_valid_rx
      PROVE  /\ node'[n].got_valid_rx
             /\ node'[n].proposal = node[n].proposal
             /\ node'[n].agree = node[n].agree
  BY <1>3, <1>5 DEF VoteMove, SameVote, VoteMerges
<1> DEFINE proposal == node[Initiator].proposal
<1>6. node'[Initiator].got_valid_rx /\ node'[Initiator].proposal = proposal
  BY <1>4, <1>5 DEF VoteInv
<1>7. Voting!do_vote(proposal) \in BOOLEAN
  BY DEF Voting!do_vote
<1>8. ASSUME NEW n \in Nodes
      PROVE  /\ node'[n].state = "TX" => node'[n].got_valid_rx
             /\ node'[n].got_valid_rx =>
                  /\ node'[n].proposal = proposal
                  /\ node'[n].agree = Voting!do_vote(proposal)
                  /\ node'[n].vote = Voting!do_vote(proposal)
             /\ \A m \in node'[n].flags : m # n => node'[m].got_valid_rx
             /\ node'[n].complete =>
                  node'[n].flags = Nodes /\ node'[n].got_valid_rx
             /\ node'[n].complete /\ node'[n].completion_slot = 0 =>
                  Nodes = {n, Initiator}
  <2> DEFINE s == node[n]
             t == node'[n]
  <2>1. /\ t \in VoteState /\ t.flags \subseteq Nodes
        /\ t.state = "TX" => t.got_valid_rx
    BY <1>3 DEF VoteMove, VoteState
  <2>2. CASE SameVote(s, t)
    <3>1. \A m \in t.flags : m # n => node'[m].got_valid_rx
      BY <1>5, <2>1, <2>2 DEF SameVote, VoteInv
    <3>2. /\ t.got_valid_rx => /\ t.proposal = proposal
                               /\ t.agree = Voting!do_vote(proposal)
                               /\ t.vote = Voting!do_vote(proposal)
          /\ t.complete => t.flags = Nodes /\ t.got_valid_rx
          /\ t.complete /\ t.completion_slot = 0 => Nodes = {n, Initiator}
      BY <2>2 DEF SameVote, VoteInv
    <3> QED
      BY <2>1, <3>1, <3>2
  <2>3. ASSUME NEW k \in Nodes, node[k].state = "TX", VoteMerges(s, node[k], t)
        PROVE  /\ t.proposal = proposal
               /\ t.agree = Voting!do_vote(proposal)
               /\ t.vote = Voting!do_vote(proposal)
               /\ \A m \in t.flags : m # n => node'[m].got_valid_rx
               /\ t.complete => t.flags = Nodes /\ t.got_valid_rx
               /\ t.complete /\ t.completion_slot = 0 => Nodes = {n, Initiator}
    <3> DEFINE p == node[k]
    <3>1. /\ p.got_valid_rx /\ p.proposal = proposal
          /\ p.vote = Voting!do_vote(proposal)
          /\ s.got_valid_rx => /\ s.proposal = proposal
                               /\ s.agree = Voting!do_vote(proposal)
      BY <2>3 DEF VoteInv
    <3>2. /\ t.got_valid_rx
          /\ t.proposal = (IF s.got_valid_rx THEN s.proposal ELSE p.proposal)
          /\ t.agree = (IF s.got_valid_rx THEN s.agree
                        ELSE Voting!do_vote(p.proposal))
          /\ t.vote = (p.vote /\ t.agree)
          /\ t.flags = s.flags \cup p.flags
          /\ t.complete = (t.flags = Nodes)
          /\ t.completion_slot = IF t.flags = Nodes THEN slot ELSE 0
      BY <2>3 DEF VoteMerges
    <3>3. t.proposal = proposal /\ t.agree = Voting!do_vote(proposal)
      BY <3>1, <3>2
    <3>4. t.vote = Voting!do_vote(proposal)
      BY <1>7, <3>1, <3>2, <3>3
    <3>5. ASSUME NEW m \in t.flags, m # n PROVE node'[m].got_valid_rx
      <4>1. m \in Nodes /\ (m \in s.flags \/ m = k \/ (m \in p.flags /\ m # k))
        BY <2>1, <3>2
      <4>2. node[m].got_valid_rx
        BY <3>1, <3>5, <4>1 DEF VoteInv
      <4> QED
        BY <1>5, <4>1, <4>2
    <3>6. t.complete => t.flags = Nodes /\ t.got_valid_rx
      BY <3>2
    <3>7. ASSUME t.complete, t.completion_slot = 0
          PROVE  Nodes = {n, Initiator}
      <4>1. t.flags = Nodes /\ slot = 0
        BY <3>2, <3>7
      <4>2. s.flags = {n} /\ p.flags = {k} /\ k = Initiator
        BY <2>3, <4>1 DEF VoteInv
      <4> QED
        BY <3>2, <4>1, <4>2
    <3> QED
      BY <3>3, <3>4, <3>5, <3>6, <3>7
  <2> QED
    BY <1>3, <2>1, <2>2, <2>3 DEF VoteMove
<1> HIDE DEF proposal
<1> QED
  BY <1>4, <1>6, <1>8 DEF VoteInv, Voting!do_vote

LEMMA VoteInvariance == Spec => [](app = "vote" => VoteInv)
<1> DEFINE I == app = "vote" => VoteInv
<1>1. Init => I
  BY VoteInitInv DEF Init
<1>2. ASSUME I, Next PROVE I'
  <2>1. CASE app = "vote"
    BY <1>2, <2>1, AppStays, VoteNextInv DEF Next
  <2>2. CASE app # "vote"
    BY <1>2, <2>2, AppStays
  <2> QED
    BY <2>1, <2>2
<1>3. ASSUME I, UNCHANGED vars PROVE I'
  BY <1>3 DEF vars, VoteInv, Voting!do_vote
<1>4. Spec => []I
  <2> HIDE DEF I
  <2> QED
    BY <1>1, <1>2, <1>3, PTL DEF Spec
<1> QED
  BY <1>4

(* All nodes that complete have the vote on the initiator's proposal, and by
   then every node, stopped or not, has judged it (vote.c:132). *)
THEOREM VoteIsUnanimous == Spec => []VoteIsOfAllNodes
<1>1. (app = "vote" => VoteInv) => VoteIsOfAllNodes
  <2> SUFFICES ASSUME VoteInv, NEW n \in Nodes, node[n].complete, NEW m \in Nodes
               PROVE  LET proposal == node[Initiator].proposal IN
                      /\ node[n].vote = Voting!do_vote(proposal)
                      /\ node[m].proposal = proposal
                      /\ node[m].agree = Voting!do_vote(proposal)
    BY DEF VoteIsOfAllNodes, Voting!VoteIsOfAll
  <2>1. node[n].flags = Nodes /\ node[n].got_valid_rx /\ node[m].got_valid_rx
    BY DEF VoteInv
  <2> QED
    BY <2>1 DEF VoteInv
<1> QED
  BY <1>1, VoteInvariance, PTL

(* Two nodes are too few for three. *)
LEMMA PairIsSmall ==
  ASSUME NEW a, NEW b
  PROVE  Cardinality({a, b}) <= 2
<1>1. IsFiniteSet({a}) /\ Cardinality({a}) = 1
  BY FS_Singleton
<1>2. {a, b} = {a} \cup {b}
  OBVIOUS
<1> QED
  BY <1>1, <1>2, FS_AddElement

(* In a network of more than two nodes, one that has heard from everybody does
   not abort for not knowing about the rest (vote-app.c:87). Two nodes may
   complete in slot 0, which the application takes for not completing. *)
THEOREM TimeoutMeansMissing ==
  ASSUME Cardinality(Nodes) > 2
  PROVE  Spec => []TimeoutIsIncomplete
<1>1. \A a, b : Nodes # {a, b}
  <2> SUFFICES ASSUME NEW a, NEW b, Nodes = {a, b} PROVE FALSE
    OBVIOUS
  <2>1. Cardinality(Nodes) <= 2 /\ Cardinality(Nodes) \in Nat
    BY PairIsSmall, FS_CardinalityType, ChaosAssumption DEF ChaosAssumption
  <2> QED
    BY <2>1
<1>2. (app = "vote" => VoteInv) => TimeoutIsIncomplete
  <2> SUFFICES ASSUME VoteInv, NEW n \in Nodes,
                      Voting!Decision(n) = "ABORT_TIMEOUT", node[n].complete
               PROVE  FALSE
    BY DEF TimeoutIsIncomplete, Voting!TimeoutMeansIncomplete
  <2>1. node[n].completion_slot = 0
    BY DEF Voting!Decision
  <2>2. Nodes = {n, Initiator}
    BY <2>1 DEF VoteInv
  <2> QED
    BY <1>1, <2>2
<1> QED
  BY <1>2, VoteInvariance, PTL

-----------------------------------------------------------------------------
(* The join service. *)
LEMMA JoinInvariance == Spec => [](app = "join" => Membership!JoinInv)
<1> DEFINE I == app = "join" => Membership!JoinInv
<1>1. Init => I
  BY JoinInit, Assumptions, Membership!InitInv DEF Init
<1>2. ASSUME I, Next PROVE I'
  <2>1. CASE app = "join"
    <3>1. Joining!Next
      BY <1>2, <2>1 DEF Next
    <3>2. Membership!JoinInv'
      BY <1>2, <2>1, <3>1, JoinNext, Assumptions, Membership!NextInv
    <3> QED
      BY <3>2
  <2>2. CASE app # "join"
    BY <1>2, <2>2, AppStays
  <2> QED
    BY <2>1, <2>2
<1>3. ASSUME I, UNCHANGED vars PROVE I'
  BY <1>3, AppStays, Assumptions, Membership!StutterInv DEF vars, Membership!vars
<1>4. Spec => []I
  <2> HIDE DEF I
  <2> QED
    BY <1>1, <1>2, <1>3, PTL DEF Spec
<1> QED
  BY <1>4

(* The number of nodes is the same in all instances. *)
LEMMA JoinRoom ==
  ASSUME Cardinality(Nodes) <= MAX_NODE_COUNT
  PROVE  Membership!Room
BY ZenonT(60)
   DEF Membership!Room, Membership!Cardinality, Membership!IsFiniteSet,
       Cardinality, IsFiniteSet

(* No two nodes of a network that fits into the table ever have the same index
   (join.c:117), whatever is lost and whoever starts again in whatever round.
   Without the space a node that is not added is told the index 0, which is
   the initiator's (join.c:287). *)
THEOREM IndicesDiffer ==
  ASSUME Cardinality(Nodes) <= MAX_NODE_COUNT
  PROVE  Spec => []IndexIsUnique
<1>1. ASSUME Membership!JoinInv PROVE Joining!IndexIsUnique
  <2>1. Membership!IndexIsUnique
    BY <1>1, JoinRoom, Assumptions, Membership!InvUnique
  <2> QED
    BY <2>1 DEF Membership!IndexIsUnique, Joining!IndexIsUnique
<1>2. (app = "join" => Membership!JoinInv) => IndexIsUnique
  BY <1>1 DEF IndexIsUnique
<1> QED
  BY <1>2, JoinInvariance, PTL

(* The binary search of join.c:272 on a table that commits leave unsorted and
   that is sorted at the end of a round (join.c:573) never misses an entry: a
   node keeps one entry for ever, and the index it uses is the one there. *)
THEOREM TableStaysTrue ==
  ASSUME Cardinality(Nodes) <= MAX_NODE_COUNT
  PROVE  Spec => []TableIsTrue
<1>1. ASSUME Membership!JoinInv PROVE Joining!TableIsTrue
  <2>1. Membership!TableIsTrue
    BY <1>1, JoinRoom, Assumptions, Membership!InvTable
  <2> QED
    BY <2>1 DEF Membership!TableIsTrue, Joining!TableIsTrue
<1>2. (app = "join" => Membership!JoinInv) => TableIsTrue
  BY <1>1 DEF TableIsTrue
<1> QED
  BY <1>2, JoinInvariance, PTL

(* A node that completes a join round (join.c:468) knows that every node in
   the table has its index and has seen the commit of this round. *)
THEOREM CompletionIsTrue ==
  ASSUME Cardinality(Nodes) <= MAX_NODE_COUNT
  PROVE  Spec => []CompleteIsReal
<1>1. ASSUME Membership!JoinInv PROVE Joining!CompleteIsReal
  <2>1. Membership!CompleteIsReal
    BY <1>1, JoinRoom, Assumptions, Membership!InvComplete
  <2> QED
    BY <2>1 DEF Membership!CompleteIsReal, Joining!CompleteIsReal
<1>2. (app = "join" => Membership!JoinInv) => CompleteIsReal
  BY <1>1 DEF CompleteIsReal
<1> QED
  BY <1>2, JoinInvariance, PTL

(* A node that asks for an index is in its list or sees the overflow bit
   (join.c:222, 248) until the round is over, however small list and table. *)
THEOREM OverflowTells == Spec => []NobodyForgotten
<1>1. ASSUME Membership!JoinInv PROVE Joining!NobodyForgotten
  <2>1. Membership!NobodyForgotten
    BY <1>1, Assumptions, Membership!InvForgotten
  <2> QED
    BY <2>1 DEF Membership!NobodyForgotten, Joining!NobodyForgotten,
                Membership!Others, Joining!Others
<1>2. (app = "join" => Membership!JoinInv) => NobodyForgotten
  BY <1>1 DEF NobodyForgotten
<1> QED
  BY <1>2, JoinInvariance, PTL

-----------------------------------------------------------------------------
(* Every primitive keeps the fields of its packets and its counters, with the
   thresholds at which process() acts on them, and the lists and the table of
   the join service to their ranges (2pc.c, 3pc.c, vote.c, max.c, join.c). *)
THEOREM AppsTypeCorrect == Spec => []TypeOK
<1> DEFINE I == /\ CommitInv
                /\ app = "vote" => VoteInv
                /\ app = "max" => MaxInv
                /\ app = "join" => Membership!JoinInv
<1>1. Two!Inv => TwoPC!TypeOK
  <2>1. Two!Inv => Two!TypeOK
    BY Assumptions, Two!InvTypeOK
  <2>2. Two!TypeOK => TwoPC!TypeOK
    BY ZenonT(60)
       DEF Two!TypeOK, TwoPC!TypeOK, Two!NodeOK, TwoPC!NodeOK, Two!RadioOK,
           TwoPC!RadioOK, Two!Thresholds, TwoPC!Thresholds,
           Two!PHASE_PROPOSE, TwoPC!PHASE_PROPOSE, Two!PHASE_COMMIT,
           TwoPC!PHASE_COMMIT, Two!PHASE_ABORT, TwoPC!PHASE_ABORT
  <2> QED
    BY <2>1, <2>2
<1>2. Three!Inv => ThreePC!TypeOK
  <2>1. Three!Inv => Three!TypeOK
    BY Assumptions, Three!InvTypeOK
  <2>2. Three!TypeOK => ThreePC!TypeOK
    BY ZenonT(60)
       DEF Three!TypeOK, ThreePC!TypeOK, Three!NodeOK, ThreePC!NodeOK,
           Three!RadioOK, ThreePC!RadioOK, Three!Thresholds,
           ThreePC!Thresholds, Three!PHASE_PROPOSE, ThreePC!PHASE_PROPOSE,
           Three!PHASE_PRE_COMMIT, ThreePC!PHASE_PRE_COMMIT,
           Three!PHASE_COMMIT, ThreePC!PHASE_COMMIT, Three!PHASE_ABORT,
           ThreePC!PHASE_ABORT, Three!PHASE_ABORT_TIMEOUT,
           ThreePC!PHASE_ABORT_TIMEOUT, Three!PHASE_FAIL, ThreePC!PHASE_FAIL
  <2> QED
    BY <2>1, <2>2
<1>3. VoteInv => Voting!TypeOK
  BY DEF VoteInv, VoteState, Voting!TypeOK, Voting!NodeOK, Voting!RadioOK,
         Voting!Thresholds, Thresholds
<1>4. MaxInv => Max!TypeOK
  BY DEF MaxInv, MaxState, Max!TypeOK, Max!RadioOK, Max!Thresholds, Thresholds
<1>5. Membership!JoinInv => Joining!TypeOK
  <2>1. Membership!JoinInv => Membership!TypeOK
    BY Assumptions, Membership!InvTypeOK
  <2>2. Membership!TypeOK => Joining!TypeOK
    BY ZenonT(60)
       DEF Membership!TypeOK, Joining!TypeOK, Membership!NodeOK,
           Joining!NodeOK, Membership!Others, Joining!Others,
           Membership!Cardinality, Joining!Cardinality,
           Membership!IsFiniteSet, Joining!IsFiniteSet
  <2> QED
    BY <2>1, <2>2
<1>6. I /\ app \in {"2pc", "3pc", "vote", "max", "join"} => TypeOK
  BY <1>1, <1>2, <1>3, <1>4, <1>5 DEF CommitInv, TypeOK
<1>7. Spec => []I
  BY CommitInvariance, VoteInvariance, MaxInvariance, JoinInvariance, PTL
<1>8. Spec => [](app \in {"2pc", "3pc", "vote", "max", "join"})
  <2>1. Init => app \in {"2pc", "3pc", "vote", "max", "join"}
    BY DEF Init
  <2>2. app \in {"2pc", "3pc", "vote", "max", "join"} /\ [Next]_vars
          => (app \in {"2pc", "3pc", "vote", "max", "join"})'
    BY AppStays DEF vars
  <2> QED
    BY <2>1, <2>2, PTL DEF Spec
<1> HIDE DEF I
<1> QED
  BY <1>6, <1>7, <1>8, PTL

=============================================================================
