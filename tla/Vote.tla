-------------------------------- MODULE Vote --------------------------------
(***************************************************************************)
(* Voting over Synchrotron: one round of lib/vote/vote.c and the decision  *)
(* that apps/chaos/vote/vote-app.c takes at its end.                       *)
(*                                                                         *)
(* Of the slot number the code uses the one in which a node completes, as  *)
(* the sign that it did: only whether it is slot 0 matters (slot is 0 in   *)
(* the first slot and 1 in all later ones).  Decision(n) is what node n    *)
(* decides if the round ends now, so every VOTE_ROUND_MAX_SLOTS is covered.*)
(* did_tx is left out: nothing reads it.                                   *)
(***************************************************************************)
EXTENDS ChaosSlot

CONSTANT Proposals    \* the values that the initiator may propose

VARIABLES
  node,     \* node[n]: the statics of vote.c and its packet buffer, at node n
  failed,   \* history: the nodes that failure injection has stopped
  slot      \* 0 in the first slot of the round, then 1

vars == <<node, failed, slot>>

-----------------------------------------------------------------------------
do_vote(proposal) == proposal > 0

(* The first valid packet brings the proposal, which the node judges. *)
Learn(s, p) ==
  IF s.got_valid_rx THEN s
  ELSE [s EXCEPT !.got_valid_rx = TRUE, !.proposal = p.proposal,
                 !.agree = do_vote(p.proposal)]

(* Mutant of Merge: one missing flag is overlooked. *)
MergeShort(s, p) ==
  LET learned == Learn(s, p)
      flags == s.flags \cup p.flags
      all == Cardinality(flags) + 1 >= Cardinality(Nodes)
  IN [learned EXCEPT !.vote = p.vote /\ learned.agree,
                     !.flags = flags, !.tx = all \/ p.flags # s.flags,
                     !.complete = all,
                     !.completion_slot = IF all THEN slot ELSE 0]

(* Mutant of Merge: the slot of the completion is not recorded. *)
MergeForgetsSlot(s, p) ==
  LET learned == Learn(s, p)
      flags == s.flags \cup p.flags
      all == flags = Nodes
  IN [learned EXCEPT !.vote = p.vote /\ learned.agree,
                     !.flags = flags, !.tx = all \/ p.flags # s.flags,
                     !.complete = all]

(* A node that is not complete takes over the vote, unless it disagrees, and
   merges the flags; with all of them it starts the final flood. *)
Merge(s, p) ==
  LET learned == Learn(s, p)
      flags == s.flags \cup p.flags
      all == flags = Nodes
  IN [learned EXCEPT !.vote = p.vote /\ learned.agree,
                     !.flags = flags, !.tx = all \/ p.flags # s.flags,
                     !.complete = all,
                     !.completion_slot = IF all THEN slot ELSE 0]

(* A complete node only notes that others are complete; tx stays as it is. *)
Receive(s, p) ==
  IF s.complete THEN [s EXCEPT !.rx_progress = @ \/ p.flags = Nodes]
  ELSE Merge(s, p)

(* The state of the next slot. A transmission that missed its time is
   repeated. *)
Transmit(s, missed) ==
  [s EXCEPT !.state =
     IF missed THEN "TX"
     ELSE IF s.rx_progress /\ s.tx_count_complete >= N_TX_COMPLETE THEN "OFF"
     ELSE "RX"]

Hear(s, p) ==
  LET w == Receive(s, p)
  IN [w EXCEPT !.invalid_rx_count = 0,
               !.state = IF w.tx THEN "TX" ELSE "RX",
               !.tx_count_complete =
                 IF w.tx THEN CountTx(w, N_TX_COMPLETE) ELSE @]

(* vote_round_begin, with the call of process() for CHAOS_INIT. *)
RoundBegin(n, proposal, threshold) ==
  LET first == n = Initiator
      vote == first /\ do_vote(proposal)
  IN [proposal |-> IF first THEN proposal ELSE 0, vote |-> vote,
      agree |-> vote, flags |-> {n}, tx |-> FALSE, complete |-> FALSE,
      completion_slot |-> 0, rx_progress |-> FALSE, tx_count_complete |-> 0,
      invalid_rx_count |-> 0, got_valid_rx |-> first,
      restart_threshold |-> threshold,
      state |-> IF first THEN "TX" ELSE "RX"]

-----------------------------------------------------------------------------
(* Injected failures at the end of process(). *)
Finish(n, s, fails) == IF n \in fails THEN Stopped(s) ELSE s

Init ==
  \E proposal \in Proposals, threshold \in [Nodes -> Thresholds],
     fails \in FailureDraws(Nodes, {}) :
    /\ node = [n \in Nodes |->
                 Finish(n, RoundBegin(n, proposal, threshold[n]), fails)]
    /\ failed = fails
    /\ slot = 0

(* One slot of node n. *)
Step(n, sent, heard, threshold, fails) ==
  LET s == node[n] IN
  IF s.state = "OFF" THEN s
  ELSE Finish(n,
         IF s.state = "TX" THEN Transmit(s, n \notin sent)
         ELSE IF heard[n] # Silence THEN Hear(s, node[heard[n]])
         ELSE Listen(s, N_TX_COMPLETE, threshold[n]), fails)

Slot ==
  \E sent \in SUBSET Transmitters(node) :
  \E heard \in Receptions(node, sent), threshold \in ThresholdDraws(node),
     fails \in FailureDraws(Active(node), failed) :
    /\ node' = [n \in Nodes |-> Step(n, sent, heard, threshold, fails)]
    /\ failed' = failed \cup fails
    /\ slot' = 1

Next == Active(node) # {} /\ Slot

Spec == Init /\ [][Next]_vars
-----------------------------------------------------------------------------
(* The decision of the application, to which vote_round_begin returns
   completion_slot for complete. *)
Decision(n) ==
  IF ~node[n].vote THEN "ABORT"
  ELSE IF node[n].completion_slot = 0 THEN "ABORT_TIMEOUT" ELSE "COMMIT"

NodeOK(s) ==
  /\ s.proposal \in Proposals \cup {0}
  /\ s.flags \subseteq Nodes
  /\ s.completion_slot \in {0, 1}
  /\ \A b \in {s.vote, s.agree, s.tx, s.rx_progress} : b \in BOOLEAN
  /\ RadioOK(s)

(* Fields keep to their types and counters to the bounds of vote.c:181-206. *)
TypeOK ==
  /\ DOMAIN node = Nodes
  /\ \A n \in Nodes : NodeOK(node[n])
  /\ failed \subseteq Nodes
  /\ slot \in {0, 1}

(* The vote is overwritten by every packet (vote.c:132), yet all nodes that
   complete have the same vote, the one on the initiator's proposal, and by
   then every node, stopped or not, has judged that proposal. *)
VoteIsOfAll ==
  LET proposal == node[Initiator].proposal IN
  \A n \in Nodes : node[n].complete =>
    /\ node[n].vote = do_vote(proposal)
    /\ \A m \in Nodes : node[m].proposal = proposal
                          /\ node[m].agree = do_vote(proposal)

(* vote-app.c:87, "we abort because we do not know about the rest": a node
   that has heard from everybody does not abort on a timeout. *)
TimeoutMeansIncomplete ==
  \A n \in Nodes : Decision(n) = "ABORT_TIMEOUT" => ~node[n].complete
=============================================================================
