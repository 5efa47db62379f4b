--------------------------- MODULE WirelessPaxosApp ---------------------------
(***************************************************************************)
(* The application of apps/chaos/paxos/paxos-app.c: round after round of   *)
(* Wireless Paxos.  Between two rounds a node keeps its Paxos state unless *)
(* it saw the previous round complete; the initiator proposes a counter.   *)
(***************************************************************************)
EXTENDS WirelessPaxos

CONSTANT MAX_ROUNDS      \* bound on the number of rounds explored

ASSUME RoundsAssumption == MAX_ROUNDS \in Nat \ {0}

VARIABLES
  round_count,   \* the number of the current round
  restarted      \* history: some node has reset its Paxos state

appvars == <<slot, node, opened, votes, round_count, restarted>>

AppTypeOK ==
  /\ TypeOK
  /\ round_count \in 1..MAX_ROUNDS
  /\ restarted \in BOOLEAN

(* The value every node is told to propose in a round: the low 8 bits of the
   round number, 0 in every 256th round. Only the initiator proposes. *)
RoundValue(round) == round % 256

AppInit ==
  /\ slot = 0
  /\ opened = {}
  /\ votes = {}
  /\ round_count = 1
  /\ restarted = FALSE
  /\ \E draw \in [Nodes -> Draws] :
       node = [n \in Nodes |-> RoundBegin(n, ResetState, RoundValue(1), draw[n])]

RoundOver ==
  slot = PAXOS_ROUND_MAX_SLOTS \/ \A n \in Nodes : node[n].state = "OFF"

(* What paxos_round_begin does after chaos_round returned: the final flags go
   to the report buffer. *)
RoundEnd(s) == [s EXCEPT !.local = WithFlags(@, s.pkt.flags)]

(* Mutant of Carried: the state is reset after every round. *)
CarriesNothing(s) == ResetState

(* round_begin of the application: reset only after a complete round. *)
Resets(s) == s.completion_slot > 0
Carried(s) == IF Resets(s) THEN ResetState ELSE RoundEnd(s)

NextRound ==
  /\ RoundOver
  /\ round_count < MAX_ROUNDS
  /\ \E draw \in [Nodes -> Draws] :
       node' = [n \in Nodes |-> RoundBegin(n, Carried(node[n]),
                                           RoundValue(round_count + 1), draw[n])]
  /\ round_count' = round_count + 1
  /\ restarted' = (restarted \/ \E n \in Nodes : Resets(node[n]))
  /\ slot' = 0
  /\ UNCHANGED <<opened, votes>>

AppSlot == Slot /\ UNCHANGED <<round_count, restarted>>

AppNext == AppSlot \/ NextRound

AppSpec == AppInit /\ [][AppNext]_appvars
-----------------------------------------------------------------------------
(* Agreement within one consensus instance (paxos-app.c:150): as long as no
   node has started a new consensus, at most one value is chosen, however
   many rounds the instance takes. *)
InstanceAgreement == restarted \/ Agreement

(* Promises and votes outlive a round: a node that does not reset never lowers
   its promise nor the ballot of its vote, in a slot or between two rounds,
   although a proposer that starts assigns min_proposal without comparing
   (paxos.c:500, 567). *)
PromisesSurvive ==
  [][\A n \in Nodes :
       \/ /\ node'[n].min_proposal >= node[n].min_proposal
          /\ node'[n].accepted_proposal >= node[n].accepted_proposal
       \/ RoundOver /\ Resets(node[n])]_appvars

(* An acceptor votes in a ballot it has promised, and only for an accept
   request that the proposer has made in this or an earlier round. *)
VotesAreRequested ==
  \A n \in Nodes :
    LET s == node[n] IN
    s.accepted_proposal # 0 =>
      /\ s.accepted_proposal <= s.min_proposal
      /\ <<s.accepted_proposal, s.accepted_value>> \in opened
=============================================================================
