----------------------------- MODULE MultiPaxos -----------------------------
(***************************************************************************)
(* Wireless Multi-Paxos over Synchrotron rounds: the application           *)
(* apps/chaos/multipaxos/multipaxos-app.c calls multipaxos_round_begin in  *)
(* every round, and process() (module MultiPaxosNode) runs once per slot.  *)
(* A round has MULTIPAXOS_ROUND_MAX_SLOTS slots, of which any number may   *)
(* go by in silence: the next round may begin in every state.  Failure     *)
(* injection is not built in; a node it stops in a round is one that       *)
(* receives nothing and misses every transmission until the next round.    *)
(***************************************************************************)
EXTENDS MultiPaxosNode

CONSTANTS
  Leaders,      \* the nodes the application designates as leader
  MAX_ROUNDS    \* bound on the Synchrotron rounds

ASSUME LeadersAssumption == Leaders \subseteq Nodes /\ MAX_ROUNDS \in Nat \ {0}

VARIABLES
  node,         \* node[n]: the statics of multipaxos.c
  round_count,  \* the Synchrotron rounds that have begun
  votes,        \* history: every [node, round, ballot, value] ever accepted
  log           \* history: for each round the set of the chosen values

vars == <<node, round_count, votes, log>>

MAX_ROUND == MULTIPAXOS_PKT_SIZE * MAX_ROUNDS

-----------------------------------------------------------------------------
Init ==
  /\ \E threshold \in [Nodes -> Thresholds] :
       node = [n \in Nodes |->
                 RoundBegin(n, Boot, n \in Leaders, threshold[n])]
  /\ round_count = 1
  /\ votes = {}
  /\ log = <<>>

(* One slot of node n. *)
Step(n, sent, heard, threshold) ==
  LET s == node[n] IN
  CASE s.state = "OFF" -> s
    [] s.state = "TX" -> Transmit(n, s, n \notin sent)
    [] s.state = "RX" /\ heard[n] # Silence -> Hear(n, s, node[heard[n]].pkt)
    [] s.state = "RX" /\ heard[n] = Silence ->
         Listen(s, N_TX_COMPLETE + 1, threshold[n])

(* The votes that node n has in its log after the slot, for the rounds of the
   accept request that it has handled. *)
NewVotes(n, sent, heard, after) ==
  LET p == IF n \in sent THEN node[n].pkt ELSE node[heard[n]].pkt
      handled == \/ n \in sent /\ node[n].leader.is_leader
                 \/ node[n].state = "RX" /\ heard[n] # Silence
      vote(r) == [node |-> n, round |-> r, ballot |-> p.ballot,
                  value |-> after.acceptor.values[LogSlot(r)]]
  IN IF ~handled \/ p.phase # MULTIPAXOS_ACCEPT THEN {}
     ELSE {vote(r) : r \in {p.round + i : i \in
             {j \in Batch : after.acceptor.proposals[LogSlot(p.round + j)]
                              = p.ballot}}}

(* The values of round r that a majority accepted in one ballot, and the log
   up to the last round that has one. *)
ChosenIn(r, cast) ==
  {w.value : w \in {x \in cast :
     x.round = r /\ Majority(Cardinality({y \in cast : y.round = r
                        /\ y.ballot = x.ballot /\ y.value = x.value}))}}

ChosenLog(cast) ==
  LET rounds == {r \in 1..MAX_ROUND : ChosenIn(r, cast) # {}}
  IN [r \in 1..Max({0} \cup rounds) |-> ChosenIn(r, cast)]

Slot ==
  /\ Active(node) # {}
  /\ \E sent \in SUBSET Transmitters(node) :
     \E heard \in Receptions(node, sent), threshold \in ThresholdDraws(node) :
       LET after == [n \in Nodes |-> Step(n, sent, heard, threshold)]
       IN /\ node' = after
          /\ votes' = votes \cup
               UNION {NewVotes(n, sent, heard, after[n]) : n \in Nodes}
  /\ log' = IF votes' = votes THEN log ELSE ChosenLog(votes')
  /\ UNCHANGED round_count

(* The round is over and the next one begins. *)
NextRound ==
  /\ round_count < MAX_ROUNDS
  /\ \E threshold \in [Nodes -> Thresholds] :
       node' = [n \in Nodes |->
                  RoundBegin(n, node[n], n \in Leaders, threshold[n])]
  /\ round_count' = round_count + 1
  /\ UNCHANGED <<votes, log>>

(* The application of a leader asks for the last values once more. *)
ReplayLast ==
  /\ \E n \in Nodes : Replay(node[n]) # node[n]
                      /\ node' = [node EXCEPT ![n] = Replay(@)]
  /\ UNCHANGED <<round_count, votes, log>>

Next == Slot \/ NextRound \/ ReplayLast

Spec == Init /\ [][Next]_vars
-----------------------------------------------------------------------------
Bytes == 0..(Uint8 - 1)
Ballots == {0} \cup {Uint8 + n : n \in Leaders}

NodeOK(s) ==
  /\ s.pkt.ballot \in Ballots /\ s.pkt.flags \subseteq Nodes
  /\ s.pkt.phase \in {MULTIPAXOS_INIT, MULTIPAXOS_PREPARE, MULTIPAXOS_ACCEPT}
  /\ s.pkt.round \in 0..MAX_ROUND /\ s.pkt.max_heard \in 0..MAX_ROUND
  /\ s.pkt.values \in [Batch -> Bytes] /\ s.pkt.proposals \in [Batch -> Ballots]
  /\ s.leader.values \in [Batch -> Bytes]
  /\ s.leader.round \in 0..(MAX_ROUND + 1)
  /\ s.acceptor.min \in Ballots /\ s.acceptor.last \in 0..MAX_ROUND
  /\ s.acceptor.proposals \in [LogSlots -> Ballots]
  /\ s.acceptor.values \in [LogSlots -> Bytes]
  /\ s.learner.values \in [LogSlots -> Bytes]
  /\ s.learner.last \in 0..MAX_ROUND
  /\ RadioOK(s)

(* Fields keep to their types; a Synchrotron round advances the log by one
   batch at most. *)
TypeOK ==
  /\ DOMAIN node = Nodes
  /\ \A n \in Nodes : NodeOK(node[n])

IsChosen(r, v) == r \in DOMAIN log /\ v \in log[r]

(* Learner soundness (multipaxos.c:366): values that a node reports as chosen
   were accepted by a majority, each in its own round of the log. *)
LearnedIsChosen ==
  \A n \in Nodes : node[n].chosen_this_round =>
    \A i \in Batch :
      IsChosen(node[n].learner.last - MULTIPAXOS_PKT_SIZE + 1 + i,
               Report(node[n])[i])

(* Leader soundness (multipaxos.c:461): the leader goes on to the next rounds
   only when a majority accepted its values in the ones before. *)
MajorityIsReal ==
  \A n \in Nodes : node[n].leader.got_majority =>
    \A i \in Batch :
      IsChosen(node[n].leader.round - MULTIPAXOS_PKT_SIZE + i,
               node[n].leader.values[i])

(* The log is a ring (multipaxos.c:288): what an acceptor would report for
   one of the last rounds is its own vote in that round, not the rest of an
   older round in the same place. *)
LogIsOwnVotes ==
  \A n \in Nodes :
    LET a == node[n].acceptor IN
    \A r \in 1..a.last :
      r > a.last - MULTIPAXOS_LOG_SIZE /\ a.proposals[LogSlot(r)] # 0 =>
        [node |-> n, round |-> r, ballot |-> a.proposals[LogSlot(r)],
         value |-> a.values[LogSlot(r)]] \in votes

OneByte == {{v} : v \in Bytes}

BA == INSTANCE BatchAgreement
        WITH Outcome <- OneByte, Size <- MULTIPAXOS_PKT_SIZE, agreed <- log

(* The network implements a replicated log, over rounds with losses, nodes
   that fall silent and nodes that miss whole batches (multipaxos.c:440-470): it
   grows batch by batch without a gap, and an entry has one value that never
   changes. *)
ImplementsLog == BA!Spec
=============================================================================
