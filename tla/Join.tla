-------------------------------- MODULE Join --------------------------------
(***************************************************************************)
(* The join service, service/joinleave/join.c: nodes without an index ask  *)
(* for one, the initiator assigns indices and commits them to all, round   *)
(* after round.  Nodes may restart between rounds and ask again.           *)
(*                                                                         *)
(* Of the slot number the code uses whether the second half of the round   *)
(* has begun: the variable late, which may become true in any slot; the    *)
(* round may end in every state where it is true.  The bounded, sorted     *)
(* array slot[] of node ids is the set of its elements, and index[] a      *)
(* function on it.  Leader election is not built in.                       *)
(***************************************************************************)
EXTENDS ChaosSlot, Sequences, FiniteSetsExt, Functions

CONSTANTS
  NODE_LIST_LEN,     \* how many nodes can join in a single round
  MAX_NODE_COUNT     \* the size of the initiator's table

VARIABLES
  node,   \* node[n]: the statics of join.c and node.c, and the packet buffer
  late    \* slot >= JOIN_MAX_COMMIT_SLOT

vars == <<node, late>>

Others == Nodes \ {Initiator}

-----------------------------------------------------------------------------
(* The ids of S in ascending order, and how many of them come before one. *)
Rank(S, id) == Cardinality({other \in S : other < id})

Ascending(S) ==
  [k \in 1..Cardinality(S) |-> CHOOSE id \in S : Rank(S, id) = k - 1]

(* The initiator's table joined_nodes_map: entries [id, idx], sorted by id
   before a round, with the nodes that join appended at its end. *)
Unsorted(map) == map      \* mutant of Sorted: the table is left as it grew

Sorted(map) ==
  LET ids == Ascending({entry.id : entry \in Range(map)})
  IN [k \in DOMAIN map |-> CHOOSE entry \in Range(map) : entry.id = ids[k]]

Missing == -1

(* The index of id among the first size entries. *)
binary_search(map, size, id) ==
  LET search[r \in (0..size) \X (-1..(size - 1))] ==
        LET first == r[1]
            last == r[2]
            middle == (first + last) \div 2
            entry == map[middle + 1]
        IN IF first > last THEN Missing
           ELSE IF entry.id = id THEN entry.idx
           ELSE IF entry.id < id THEN search[<<middle + 1, last>>]
           ELSE search[<<first, middle - 1>>]
  IN search[<<0, size - 1>>]

(* The initiator closes the list: nodes that its table has get their index,
   the others are added in the order of their ids while there is space. One
   without space leaves overflow, and keeps the 0 that index[] began with. *)
commit(s) ==
  LET count == s.node_count
      found == [id \in s.slot |-> binary_search(s.map, count, id)]
      fresh == {id \in s.slot : found[id] = Missing}
      new == {id \in fresh : count + Rank(fresh, id) < MAX_NODE_COUNT}
      added == Cardinality(new)
      entries == [k \in 1..added |-> [id |-> Ascending(new)[k],
                                      idx |-> count + k - 1]]
      index(id) == IF id \notin fresh THEN found[id]
                   ELSE IF id \in new THEN count + Rank(new, id) ELSE 0
  IN [s EXCEPT !.map = @ \o entries, !.node_count = count + added,
               !.pkt_count = count + added,
               !.index = [id \in s.slot |-> index(id)],
               !.overflow = @ \/ new # fresh,
               !.commit = TRUE, !.flags = {s.own},
               !.complete = @ /\ s.slot = {},
               !.state = "TX", !.invalid_rx_count = 0]

-----------------------------------------------------------------------------
(* Mutant of merge_lists: what does not fit is forgotten. *)
merge_listsSilently(s, p) ==
  LET all == s.slot \cup p.slot
  IN [s EXCEPT !.slot = {id \in all : Rank(all, id) < NODE_LIST_LEN}]

(* Mutant of merge_lists: one id more than there is space for. *)
merge_listsLong(s, p) ==
  LET all == s.slot \cup p.slot
      fits == {id \in all : Rank(all, id) <= NODE_LIST_LEN}
  IN [s EXCEPT !.slot = fits, !.overflow = @ \/ fits # all]

(* The union of two lists, cut to the smallest ids that fit. *)
merge_lists(s, p) ==
  LET all == s.slot \cup p.slot
      fits == {id \in all : Rank(all, id) < NODE_LIST_LEN}
  IN [s EXCEPT !.slot = fits, !.overflow = @ \/ fits # all]

(* Flags travel in packets that know how many nodes there are. *)
merge_flags(s, p) ==
  IF p.pkt_count > 0 THEN [s EXCEPT !.flags = @ \cup p.flags] ELSE s

FlagsDiffer(s, p) == p.pkt_count > 0 /\ p.flags # s.flags

(* Nobody has committed: flags and lists are merged, but in the second half
   of the round only by the initiator. *)
Collect(n, s, p, delta, second) ==
  IF n = Initiator \/ ~second
  THEN [s |-> merge_lists(merge_flags(s, p), p),
        delta |-> delta \/ FlagsDiffer(s, p) \/ s.slot # p.slot]
  ELSE [s |-> s, delta |-> FALSE]

(* Mutant of Adopt: a node that has an index looks for a new one. *)
AdoptAgain(n, s, p) ==
  LET own == IF n \in p.slot THEN p.index[n] ELSE 0
  IN [s EXCEPT !.node_count = p.pkt_count, !.pkt_count = p.pkt_count,
               !.slot = p.slot, !.index = p.index, !.commit = TRUE,
               !.own = own, !.has_index = TRUE,
               !.flags = p.flags \cup {own}, !.overflow = p.overflow]

(* A node that is behind takes over the packet of a commit, finds its index
   and confirms with its flag. *)
Adopt(n, s, p) ==
  LET listed == ~s.has_index /\ n \in p.slot
      own == IF listed THEN p.index[n] ELSE s.own
      has == s.has_index \/ listed
  IN [s EXCEPT !.node_count = p.pkt_count, !.pkt_count = p.pkt_count,
               !.slot = p.slot, !.index = p.index, !.commit = TRUE,
               !.own = own, !.has_index = has,
               !.flags = IF has THEN p.flags \cup {own} ELSE p.flags,
               !.overflow = p.overflow \/ ~has]

(* Mutant of Confirm: as many flags as there were nodes before. *)
ConfirmShort(s, p, delta) ==
  LET w == merge_flags(s, p)
  IN [s |-> [w EXCEPT !.complete =
                        @ \/ Cardinality(w.flags) + 1 >= p.pkt_count],
      delta |-> delta \/ FlagsDiffer(s, p)]

(* Both have committed; with the flags of all nodes the round is complete. *)
Confirm(s, p, delta) ==
  LET w == merge_flags(s, p)
  IN [s |-> [w EXCEPT !.complete =
                        @ \/ 0..(p.pkt_count - 1) \subseteq w.flags],
      delta |-> delta \/ FlagsDiffer(s, p)]

Receive(n, s, p, second) ==
  LET w == [s EXCEPT !.overflow = @ \/ p.overflow,
                     !.pkt_count = Max({@, p.pkt_count})]
      delta == s.overflow # p.overflow
  IN CASE ~s.commit /\ ~p.commit -> Collect(n, w, p, delta, second)
       [] ~s.commit /\ p.commit -> [s |-> Adopt(n, w, p), delta |-> TRUE]
       [] s.commit /\ p.commit -> Confirm(w, p, delta)
       [] s.commit /\ ~p.commit -> [s |-> w, delta |-> TRUE]

-----------------------------------------------------------------------------
(* When the initiator commits: the list is full, or the first half of the
   round is over and somebody joins, or nothing has changed for as many slots
   as that half has (quiet). *)
CommitDue(n, s, delta, second, quiet) ==
  /\ n = Initiator
  /\ ~s.commit
  /\ \/ Cardinality(s.slot) = NODE_LIST_LEN
     \/ second /\ s.slot # {}
     \/ second /\ quiet /\ ~delta

(* The state of the next slot otherwise: after a reception, a slot without
   one, and a transmission. The threshold is drawn in every silent slot. *)
AfterRx(s, delta) ==
  LET tx == delta \/ s.complete \/ ~s.tx_timeout_enabled
      counted == IF delta THEN 0 ELSE s.tx_count_complete
  IN [s EXCEPT !.invalid_rx_count = 0, !.tx_timeout_enabled = TRUE,
               !.state = IF tx THEN "TX" ELSE "RX",
               !.tx_count_complete =
                 IF s.complete /\ tx /\ counted < N_TX_COMPLETE
                 THEN counted + 1 ELSE counted]

AfterSilence(s, threshold) ==
  IF ~s.tx_timeout_enabled THEN s
  ELSE IF s.invalid_rx_count >= threshold
  THEN [s EXCEPT !.state = "TX", !.invalid_rx_count = 0,
                 !.tx_count_complete = CountTx(s, N_TX_COMPLETE)]
  ELSE [s EXCEPT !.invalid_rx_count = @ + 1]

AfterTx(s) ==
  IF s.complete /\ s.tx_count_complete >= N_TX_COMPLETE
  THEN [s EXCEPT !.state = "OFF", !.map = Sorted(@)]
  ELSE [s EXCEPT !.state = "RX"]

(* process(), for a node that hears the packet of heard[n], or nothing. *)
Step(n, heard, threshold, second, quiet) ==
  LET s == node[n]
      rx == s.state = "RX" /\ heard[n] # Silence
      r == IF rx THEN Receive(n, s, node[heard[n]], second)
           ELSE [s |-> s, delta |-> FALSE]
  IN IF s.state = "OFF" THEN s
     ELSE IF CommitDue(n, r.s, r.delta, second, quiet) THEN commit(r.s)
     ELSE IF s.state = "TX" THEN AfterTx(s)
     ELSE IF rx THEN AfterRx(r.s, r.delta)
     ELSE AfterSilence(s, threshold[n])

Slot ==
  \E second \in {late, TRUE}, quiet \in BOOLEAN,
     heard \in Receptions(node, Transmitters(node)),
     threshold \in [Listeners(node) -> Thresholds] :
    /\ node' = [n \in Nodes |-> Step(n, heard, threshold, second, quiet)]
    /\ late' = second

(* join_init: a node that starts, or starts again, has no index. *)
join_init(n) ==
  LET first == n = Initiator
  IN [has_index |-> first, own |-> 0, invalid_rx_count |-> 0,
      node_count |-> IF first THEN 1 ELSE 0,
      map |-> IF first THEN <<[id |-> n, idx |-> 0]>> ELSE <<>>]

(* round_begin, with the call of process() for CHAOS_INIT. The counter that
   it does not reset matters at the initiator only: a node that has not heard
   anything does not look at it. *)
RoundBegin(n, s) ==
  LET first == n = Initiator
      known == first \/ s.has_index
  IN [has_index |-> s.has_index, own |-> s.own, node_count |-> s.node_count,
      map |-> s.map, pkt_count |-> IF first THEN s.node_count ELSE 0,
      slot |-> IF known THEN {} ELSE {n}, index |-> <<>>,
      flags |-> IF known THEN {s.own} ELSE {}, overflow |-> FALSE,
      commit |-> FALSE, complete |-> FALSE, tx_count_complete |-> 0,
      invalid_rx_count |-> IF first THEN s.invalid_rx_count ELSE 0,
      tx_timeout_enabled |-> first,
      state |-> IF first THEN "TX" ELSE "RX"]

Init ==
  /\ node = [n \in Nodes |-> RoundBegin(n, join_init(n))]
  /\ late = FALSE

(* The round ends and another join round begins; the nodes in restarts have
   been reset in between. *)
NextRound ==
  /\ late \/ Active(node) = {}
  /\ \E restarts \in SUBSET Others :
       node' = [n \in Nodes |->
                  LET s == [node[n] EXCEPT !.map = Sorted(@)]
                  IN RoundBegin(n, IF n \in restarts THEN join_init(n) ELSE s)]
  /\ late' = FALSE

Next == Slot \/ NextRound

Spec == Init /\ [][Next]_vars
-----------------------------------------------------------------------------
NodeOK(s) ==
  /\ s.state \in {"TX", "RX", "OFF"}
  /\ s.own \in 0..(MAX_NODE_COUNT - 1)
  /\ s.node_count \in 0..MAX_NODE_COUNT
  /\ s.pkt_count \in 0..MAX_NODE_COUNT
  /\ s.slot \subseteq Others /\ Cardinality(s.slot) <= NODE_LIST_LEN
  /\ s.flags \subseteq 0..(MAX_NODE_COUNT - 1)
  /\ Len(s.map) <= MAX_NODE_COUNT
  /\ s.tx_count_complete \in 0..N_TX_COMPLETE
  /\ s.invalid_rx_count \in 0..CHAOS_RESTART_MAX

(* Fields keep to their types, lists and tables to their lengths. *)
TypeOK ==
  /\ DOMAIN node = Nodes /\ late \in BOOLEAN
  /\ \A n \in Nodes : NodeOK(node[n])

(* "assigned indices" (join.c:117): no two nodes ever have the same index,
   over rounds in which commits are lost and nodes restart. *)
IndexIsUnique ==
  \A m, n \in Nodes :
    m # n /\ node[m].has_index /\ node[n].has_index =>
      node[m].own # node[n].own

(* The search runs on a table that grew unsorted in earlier rounds
   (join.c:272, 573): a node keeps one entry for ever, and the index that the
   node uses is the one in it. *)
TableIsTrue ==
  LET map == node[Initiator].map IN
  /\ \A i, j \in DOMAIN map :
       i # j => map[i].id # map[j].id /\ map[i].idx # map[j].idx
  /\ \A n \in Nodes : node[n].has_index =>
       \E i \in DOMAIN map : map[i] = [id |-> n, idx |-> node[n].own]

(* A node that completes (join.c:468) knows that every node in the table has
   its index and has seen this round's commit. *)
CompleteIsReal ==
  \A n \in Nodes : node[n].complete =>
    \A i \in DOMAIN node[Initiator].map :
      LET m == node[Initiator].map[i].id
      IN node[m].has_index /\ node[m].commit
           /\ node[m].node_count = Len(node[Initiator].map)

(* The list is bounded (join.c:222, 248): a node that was cut from it, or
   whose list was, sees the overflow bit until the round is over. *)
NobodyForgotten ==
  \A n \in Others :
    node[n].has_index \/ n \in node[n].slot \/ node[n].overflow
=============================================================================
