------------------------------ MODULE ChaosApps ------------------------------
(***************************************************************************)
(* The round of an application that the image is built with (CHAOS_APPS in *)
(* its source): chaos-scheduler.c hands the round to its round_begin on    *)
(* every node, and all nodes run the same primitive on the slots of one    *)
(* round.  The join service is an application like the others, and the     *)
(* only one here whose state outlives a round.                             *)
(***************************************************************************)
EXTENDS ChaosSlot

CONSTANTS
  Values,      \* the values of commit and of max
  Proposal,    \* the initiator's value of a commit
  Proposals,   \* the values the initiator may put to the vote
  NODE_LIST_LEN, MAX_NODE_COUNT    \* as in module Join

ASSUME AppsAssumption ==
  /\ Values \subseteq Nat /\ Proposal \in Values /\ Proposals \subseteq Nat
  /\ 0 \notin Nodes     \* the ids of the join service
  /\ NODE_LIST_LEN \in Nat \ {0}
  /\ MAX_NODE_COUNT \in Nat \ {0}

VARIABLES
  app,      \* the application that is scheduled
  node,     \* the state of its primitive at each node
  failed, late, slot, input    \* as in the modules of the primitives

vars == <<app, node, failed, late, slot, input>>

TwoPC == INSTANCE TwoPhaseCommit
ThreePC == INSTANCE ThreePhaseCommit
Voting == INSTANCE Vote
Max == INSTANCE MaxAggregation
Joining == INSTANCE Join

Init ==
  \/ /\ app = "2pc" /\ TwoPC!Init
     /\ late = FALSE /\ slot = 0 /\ input = <<>>
  \/ /\ app = "3pc" /\ ThreePC!Init
     /\ slot = 0 /\ input = <<>>
  \/ /\ app = "vote" /\ Voting!Init
     /\ late = FALSE /\ input = <<>>
  \/ /\ app = "max" /\ Max!Init
     /\ failed = {} /\ late = FALSE /\ slot = 0
  \/ /\ app = "join" /\ Joining!Init
     /\ failed = {} /\ slot = 0 /\ input = <<>>

Next ==
  \/ app = "2pc" /\ TwoPC!Next /\ UNCHANGED <<app, late, slot, input>>
  \/ app = "3pc" /\ ThreePC!Next /\ UNCHANGED <<app, slot, input>>
  \/ app = "vote" /\ Voting!Next /\ UNCHANGED <<app, late, input>>
  \/ app = "max" /\ Max!Next /\ UNCHANGED <<app, failed, late, slot>>
  \/ app = "join" /\ Joining!Next /\ UNCHANGED <<app, failed, slot, input>>

Spec == Init /\ [][Next]_vars
-----------------------------------------------------------------------------
(* Each primitive keeps its fields to their types and its counters to the
   bounds at which process() acts on them. *)
TypeOK ==
  CASE app = "2pc" -> TwoPC!TypeOK
    [] app = "3pc" -> ThreePC!TypeOK
    [] app = "vote" -> Voting!TypeOK
    [] app = "max" -> Max!TypeOK
    [] app = "join" -> Joining!TypeOK

(* 2PC (2pc-app.c:86-107): wherever the round is cut and whatever node has
   stopped, nobody commits while another aborts, and nobody commits to what
   it did not agree to. *)
Atomic2PC == app = "2pc" => TwoPC!Atomic

(* 2PC (2pc.c:240): without injected failures a node turns its radio off only
   when all nodes have learned the decision. *)
OffAfterAll2PC == app = "2pc" => TwoPC!OffAfterAll

(* 3PC (3pc.c:158, 3pc-app.c:84-125): what the votes decided is contradicted by
   no node's timeout, wherever the initiator times out: beside a COMMIT every
   other node commits or would commit, beside an ABORT it aborts or would
   abort. *)
VotedDecisionStands3PC == app = "3pc" => ThreePC!VotedDecisionStands

(* 3PC, "XXX this should not happen" (3pc.c:240): nobody reports that it
   committed to what it refused, or commits while a vote is missing. *)
NoFail3PC == app = "3pc" => ThreePC!NoFail

(* 3PC (3pc-app.c:101-116): after one vote against the proposal no node is
   left on the path that commits, be it by its own timeout. *)
RefusalIsFinal3PC == app = "3pc" => ThreePC!RefusalIsFinal

(* Vote (vote.c:132): all nodes that complete have the vote on the
   initiator's proposal, and by then every node has judged it. *)
VoteIsOfAllNodes == app = "vote" => Voting!VoteIsOfAll

(* Vote (vote-app.c:87): a node that has heard from everybody does not abort
   for not knowing about the rest. *)
TimeoutIsIncomplete == app = "vote" => Voting!TimeoutMeansIncomplete

(* Max (max.c:122-146): a node that reports completion has the maximum of
   what all nodes contributed. *)
MaxIsExactAtNodes == app = "max" => Max!MaxIsExact

(* Join, "assigned indices" (join.c:117): no two nodes ever have the same
   index, over rounds in which commits are lost and nodes restart. *)
IndexIsUnique == app = "join" => Joining!IndexIsUnique

(* Join (join.c:272, 573): the search runs on a table that grew unsorted in
   earlier rounds, yet a node keeps one entry for ever and uses its index. *)
TableIsTrue == app = "join" => Joining!TableIsTrue

(* Join (join.c:468): a node that completes knows that every node in the
   table has its index and has seen this round's commit. *)
CompleteIsReal == app = "join" => Joining!CompleteIsReal

(* Join (join.c:222, 248): a node that was cut from the bounded list sees the
   overflow bit until the round is over. *)
NobodyForgotten == app = "join" => Joining!NobodyForgotten

(* Where the nodes stand as participants of a commit protocol. *)
Stands ==
  [n \in Nodes |-> CASE app = "2pc" -> TwoPC!Stand(n)
                     [] app = "3pc" -> ThreePC!Stand(n)
                     [] OTHER -> "undecided"]

Commitment == INSTANCE AtomicCommit WITH Participant <- Nodes, stand <- Stands

(* 2PC and 3PC over Synchrotron both implement atomic commitment, with losses
   and with nodes that stop (2pc.c:183-219, 3pc.c:158-275): in 2PC a node that
   agreed and transmitted is bound, in 3PC one that has seen PRE_COMMIT.  For
   3PC this is about the phases, the initiator's timeout included, and not about
   what applications decide on their own at the end of an undecided round. *)
CommitsAtomically == Commitment!Spec
=============================================================================
