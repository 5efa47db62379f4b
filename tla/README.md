# Wireless Paxos in TLA+

TLA+ models of the agreement primitives of this repository and of the round
control they run under, the TLC runs that check them on small networks, and
TLAPS proofs for networks of any size. The modules translate the C code under
`core/net/mac/chaos/` and `apps/chaos/`; file names below stand for the files
in these directories.

## 1. Inventory

The repository is a Contiki fork. Its own logic is *Synchrotron*, a slotted
flooding kernel, and the primitives that run on it. Time is cut into rounds of
a fixed number of slots. In a slot every node transmits its packet, listens,
or has left the round; of several concurrent transmissions a listener receives
one or none. After each slot the kernel calls `process()` of the running
primitive, which merges the received packet into the transmit buffer and
returns the radio state of the next slot. A packet carries one *flag* per node.

| Component | State | Operations | What makes it correct |
|---|---|---|---|
| Wireless Paxos (`lib/paxos`) | proposer, acceptor and learner struct, aggregates, packet buffer, report buffer, retransmission counters | `process`, `paxos_round_begin`, `paxos_reset_state` | one value is chosen; what is reported as learned, as majority or as complete is true; promises are kept |
| Paxos application (`apps/chaos/paxos`) | last completion slot, round counter | `round_begin` | one instance, over as many rounds as it takes, chooses one value |
| Multi-Paxos (`lib/multipaxos`, its application) | leader's ballot and round, ring of votes, ring of learned values, packet buffer | `process`, `multipaxos_round_begin`, `multipaxos_replay_last_consensus`, `round_begin` | a replicated log: no gap, one value per entry, for ever |
| Two-phase commit (`lib/2pc`, its application) | phase, flags, votes, `agree`, `did_tx` | `process`, `two_pc_round_begin`, `round_begin` | all decide alike; commit only if all agreed; everybody decides |
| Three-phase commit (`lib/3pc`, its application) | phase, flags, votes, `agree` | `process`, `three_pc_round_begin`, `round_begin` | as 2PC, with the timeout decisions at the end of a round |
| Vote, Max (`lib/vote`, `lib/max`) | aggregate, flags | `process`, `..._round_begin` | a complete node holds the aggregate of all inputs |
| Join (`service/joinleave`, `node/`) | join list, table of indices, commit phase | `process`, `merge_lists`, `add_node`, `commit`, `round_begin`, sniffers | unique indices, no joining node is lost |
| Round control (`chaos-control.c`), scheduler (`chaos-scheduler.c`) | timers, round number, failed rounds, next application | `chaos_process`, `chaos_round_proc`, `chaos_associate_proc`, `scheduler_*` | deadlines are judged rightly across timer wrap; nodes stay in step; a node that fell out comes back |
| Synchrotron kernel (`chaos.c`) | slot number, buffers, synchronisation, ranks | `chaos_round`, `chaos_associate` | every node runs the callback once per slot, in step |
| Channel hopping, random generator, log | black list, seed, log buffer | | affect the primitives as lost packets and random draws only |
| Diss, Glossy, Collect | payload, flags | `process` | dissemination; no decision |

Components call each other in one direction: round control starts a round of
the application the scheduler chose, the application's `round_begin` calls
`..._round_begin` of the primitive, which calls `chaos_round`, which calls
back `process()` slot by slot. Between nodes there are only packets. The hard
behaviours are those of many nodes acting in the same slot on different
packets: lost packets, old packets retransmitted after a timeout, several
proposers starting at different times, nodes that stop, rounds that some nodes
miss, and state that survives from one round into the next. `PROJECT.json`
lists them at the lines where they bite.

## 2. Modules

| Module | Content |
|---|---|
| `PaxosNode` | One node of Wireless Paxos. Its state is a record with the members of `paxos_state_t`, the packet buffer `pkt` (`tx_paxos`), the report buffer `local` (`paxos_local.paxos`) and the statics. `process()` is the operator `Process`, built from one operator per part: `HearInit`, `Acceptor`, `Proposer`, `Synchrotron`, `InjectFailure`, `Report`. `RoundBegin` is `paxos_round_begin`. |
| `WirelessPaxos` | A round: all nodes in step. The action `Slot` is one slot of `chaos_round` at every node. The history variables `opened` and `votes` record accept requests and acceptances. Properties and the inductive invariant. |
| `WirelessPaxosApp` | Rounds in sequence: `NextRound` is the application's `round_begin` with its conditional reset. |
| `Consensus` | Abstract: one proposed value is chosen, once. |
| `ChaosSlot` | What the other primitives share: transmitters, listeners and what they receive, random draws, injected failures, the retransmission timer. |
| `MultiPaxosNode` | One node of Multi-Paxos, the operators of `process()` (`HearInit`, `Acceptor`, `Leader`, the state logic), `RoundBegin` and `Replay`. |
| `MultiPaxos` | Multi-Paxos over slots and Synchrotron rounds (`Slot`, `NextRound`, `ReplayLast`), with the votes and the log of chosen values as history. |
| `BatchAgreement` | Abstract: batch after batch of consecutive rounds is agreed upon, none is skipped, and an outcome stays. |
| `TwoPhaseCommit`, `ThreePhaseCommit` | A round of each protocol and the application's decision; `TwoPhaseCommit` has the fair specification. |
| `AtomicCommit` | Abstract: participants prepare; they commit when all have prepared, abort when none has committed. |
| `Vote`, `MaxAggregation` | A round of each aggregation. |
| `Join` | Join rounds, in sequence, with nodes that restart between them. |
| `ChaosApps` | The application an image is built with: one round of 2PC, 3PC, vote or max, or rounds of join, on the same slots. Composes these five modules by `INSTANCE` and maps both commit protocols to `AtomicCommit`. |
| `RoundControl` | From round to round: deadlines, missed and unheard rounds, re-association, choice of the application, the way of a node without an index back into the network. |
| `PaxosNodeProofs`, `WirelessPaxosSafety` | What each operator of `PaxosNode` does to a node; type correctness; the inductive invariants of a round and their consequences, the refinement of `Consensus` included; the invariants of `WirelessPaxosApp` over rounds. |
| `MultiPaxosProofs` | The inductive invariant of the replicated log, its properties, the ring of votes, the refinement of `BatchAgreement`. |
| `TwoPhaseCommitProofs`, `ThreePhaseCommitProofs` | The inductive invariant of each commit protocol, its properties, the refinement of `AtomicCommit`. |
| `JoinProofs` | Ranks and sorting, the binary search on every table, the inductive invariant of the join service. |
| `ChaosAppsProofs` | The results of these three modules for the image that is built with the application, and the proofs about vote and max. |
| `RoundControlProofs` | The deadline test and the step of the nodes, for every width of the timers. |

How the models correspond to the code:

* *Slot.* Every listener hears any one of the transmissions of the slot or
  none. This covers every topology, capture and loss. Where the primitive looks
  at `chaos_txrx_success` after a transmission (Paxos, Multi-Paxos, vote, max),
  a transmission may also fail. All active nodes then process the slot. Nodes
  share the slot number; the code lets a node that has not synchronised count
  on its own until its first reception.
* *Slot numbers.* Paxos counts the slots. 2PC and max use the slot number
  for nothing but the end of the round, so it is left out and every state may be
  the last one. 3PC uses whether fewer than 30 slots are left and Join whether
  the second half has begun: a variable `late` that may become true in any
  slot. Vote uses the slot in which it completes as a Boolean.
* *Flags* are sets of nodes. `bit_count` becomes `Cardinality` and the byte
  sum compared with `FLAG_SUM` becomes equality with `Nodes`.
* *Ballots* are `256 * round + id`; `round` and `loser_timeout` wrap at 256.
  The application's value is the low byte of its round counter. The rounds of
  Multi-Paxos are 16 bits wide (`Round`, `multipaxos.h:121`).
* *Aliasing.* After its own transmission a proposer processes `tx_paxos`
  itself: `payload` and `tx_paxos` are the same memory. The parameter `own` of
  `Learns` carries the one place where a write through one is read through the
  other (paxos.c:297 and 361). In Multi-Paxos a leader does the same, and
  `Leader` then reads the packet its acceptor has just updated.
* *Random draws* are chosen when the code draws: back-off thresholds, thinning,
  failures.
* *Join.* The bounded, sorted array of ids is a set cut to its smallest
  elements: those with fewer than `NODE_LIST_LEN` smaller ones (`Rank`). The
  table is a sequence, since whether it is sorted when `binary_search` runs is
  what can go wrong; `merge_sort` becomes its result (`Sorted`), the search
  keeps its intervals.
* *Round control.* A step is one round of the network; the slots of a round
  are reduced to who hears at least one packet. `since` is the time since the
  node's `round_rtimer` at which its process next gets to schedule a round.
  `Misses` is the 16 bit test of the code, applied to any delay up to
  `MAX_DELAY`. What a node takes from a header (the start of the round, the next
  application and its time) is `Synced`.
* Left out: statistics, printing and what nothing reads back (`off_slot`,
  `got_majority_at_slot`, `did_tx` of 3PC and vote); `ENABLE_MULTIPLE_INITIATORS`
  (0 in the shipped configuration); leader election (off in every shipped
  configuration of the primitives).

## 3. Runs

Every run has three nodes, the smallest network where a majority is neither
one node nor all, except `losers_wrap`, which has two. `N_TX_COMPLETE` is 1.
Rounds end, so deadlock is not an error.

| Run | Instance | Result |
|---|---|---|
| `paxos_single` | proposer {0}, two values, 8 slots | `TypeOK`, `PromiseQuorum`, `CompletionIsReal` hold, and the round implements `Consensus` (`ImplementsConsensus`) |
| `paxos_duel` | proposers {1, 2}, initiator 0 only starts the round with its heartbeat, every node may stop after every slot, 7 slots | `SafetyInv`, `OneValuePerBallot`, `CompletionIsReal`, `LearnedIsChosen`, `MajorityIsReal`, `LosersWait`, `PromisesAreKept` hold |
| `app_rounds` | proposer {0}, two rounds of 6 slots | `AppTypeOK`, `VotesAreRequested`, `PromisesSurvive` hold |
| `multipaxos` | leader {0}, batches of 2, ring of 3, three Synchrotron rounds of any length | `TypeOK`, `LearnedIsChosen`, `MajorityIsReal`, `LogIsOwnVotes` hold, and the network implements `BatchAgreement` (`ImplementsLog`) |
| `chaos_apps` | one application at a time; two values; one node that stops; join lists of one id; rounds of any length | the types; `Atomic2PC`, `OffAfterAll2PC`; `VotedDecisionStands3PC`, `NoFail3PC`, `RefusalIsFinal3PC`; `VoteIsOfAllNodes`, `TimeoutIsIncomplete`; `MaxIsExactAtNodes`; `IndexIsUnique`, `TableIsTrue`, `CompleteIsReal`, `NobodyForgotten` hold, and both commit protocols implement `AtomicCommit` (`CommitsAtomically`) |
| `two_phase_live` | 2PC with `FairSpec`, two back-off values, no failures | `AllDecide` holds |
| `round_control` | 16 bit timers scaled to 8 ticks, an interval of 5, threshold 2 | `TypeOK`, `MissIsTrue`, `InStep` and the liveness property `Recovers` hold |
| `duel_agreement` | proposers {0, 1}, 8 slots | `Agreement` is violated |
| `app_agreement` | as `app_rounds` | `InstanceAgreement` is violated |
| `app_learner` | as `app_rounds` | `LearnedIsChosen` is violated |
| `losers_wrap` | two nodes, both proposers, 258 slots | `LosersWait` is violated |
| `multipaxos_byte` | as `multipaxos`, a byte scaled to 4 values | `LogIsOwnVotes` is violated |

Distinct states: `paxos_single` 15,854, `paxos_duel` 345,648, `app_rounds`
193,709, `multipaxos` 460,814, `chaos_apps` 753,093, `two_phase_live` 42,632,
`round_control` 28,664.

*Why the bounds are enough to be interesting.*

* Paxos. A value can be chosen after 3 slots, learned after 4 and complete
  after 5 (6 when two proposers compete, who can both have opened an accept
  phase after 2 slots); 7 slots leave room for lost packets, retransmissions,
  a stop in either phase and the final flood. `NextRound` fires from complete
  and from incomplete rounds. Two things three nodes do not show: the thinning
  draw of paxos.c:353 varies only from four nodes on, and a second attempt of a
  proposer needs a round longer than its back-off. The proofs cover the first
  for safety; `losers_wrap` shows the second.
* Multi-Paxos. Rounds may be cut anywhere. Three of them let a node miss a
  whole batch and return, and the leader repeat one; a ring of 3 under batches
  of 2 is overwritten by the second batch, so that stale entries sit where
  missed ones belong.
* Commit, vote, max. The models have no slot bound: all reachable states of a
  round of any length are visited. Two values make agreement and refusal both
  happen.
* Join. A list of one id for two joining nodes overflows in the first round;
  the rounds go on for ever, with any node restarting between them. The ids are
  chosen so that the initiator's is between the others: its table is unsorted
  after a commit.
* Round control. 8 and 5 are coprime, so the wrap of the timers meets every
  position of the deadline. The threshold 2 lets a node fail once and recover,
  and fail twice and re-associate. `JOIN_ROUNDS_AFTER_BOOTUP` is 0, so that
  recovery cannot rest on boot-up rounds which come back when the scaled round
  number wraps: join rounds come from the join bit alone.

*What the violated runs show.*

1. `duel_agreement`. Node 0 sends PREPARE 1.0. Node 1, a proposer still in
   `PAXOS_INIT`, receives it, copies packet and flags {0} into its buffer, adds
   its own flag, and starts its ballot 1.1 by overwriting ballot and phase only
   (paxos.c:496-501). At its next transmission it counts two flags, a majority
   of three, and opens its accept phase although only it has promised 1.1.
   Node 2 completes 1.0 with node 0, nodes 0 and 1 accept 1.1: two values are
   chosen. README.md:16 promises "guarantees on the consensus".
2. `app_agreement`. A round ends with value 1 accepted by a majority in ballot
   1.0 but not by all, so no node resets (paxos-app.c:150). The next round
   starts at ballot round 1 again with the next counter value
   (paxos.c:743-746), reports it as if it were the value accepted in 1.0, and a
   different majority accepts the new value in the same ballot. paxos.h:127
   says the application's value "is overwritten if an accepted value exists in
   the system".
3. `app_learner`. The same situation; a node that still holds the accept packet
   of the last round answers PREPARE 1.0 with it, since it is the later phase
   of the same ballot. Its flags are merged with those of the new value, and
   the proposer learns a value that only it accepted. The comment on
   `paxos_local` says its flags are unset "except the local flag" (paxos.c:107).
4. `losers_wrap`. `loser_timeout` is 8 bits wide. In a round of 258 slots the
   back-off is 1, in the 354 slots of `apps/chaos/paxos/project-conf.h:66` it
   is 97, and the proposer competes again in the round, contrary to the comment
   "WILL NOT COMPETE THIS ROUND" (paxos.c:519). A round of 258 slots shows it
   within a few slots; at 354 the same steps lie 97 receptions apart.
5. `multipaxos_byte`. An acceptor that votes in a round first clears the log
   entries of the rounds it missed, in a loop over a `uint8_t` that starts from
   the 16 bit round number (multipaxos.c:292). From round 256 on the start
   value is truncated, the loop clears nothing or the wrong entries, and the
   ring shows a vote of an older round as one of a missed round, although the
   comment above says "we must nullify every previous accepted values". The run
   scales the byte to 4 values, so that this happens in the third Synchrotron
   round; `multipaxos`, the same instance with 256, does not get there.

*Fairness.*

* Paxos, Multi-Paxos, 3PC, vote, max and join: none. A round may end without
  a decision by design, and only safety is claimed.
* `FairSpec` of 2PC, while no node has stopped: slots go on (`WF` of `Next`; the
  kernel's loop does not wait for anybody). What a node sends to a
  listening node again and again arrives at some time (`SF` of `Hears`: the
  network is within one hop, and capture or interference does not single out the
  same link for ever). Two nodes whose retransmission timers expire together
  draw different thresholds at some time (`SF` of `Diverge`: they are
  independent random draws). Any other packet may be lost. Without the last
  conjunct two nodes can transmit and listen in lockstep for ever.
* `Spec` of round control: timers expire for ever, so rounds go on
  (`RoundsGoOn`). `Recovers` then says what must happen if at some time losses
  and delays end (`CalmRound`); it assumes nothing of what came before. A
  node is only brought back by hearing the initiator in the rounds it listens,
  which no property of the code alone can promise.

*Remarks on configurations the runs do not have.* All of them were seen with
TLC on variants of the instances.

* Join (join.c:287): with `MAX_NODE_COUNT` smaller than the network a node
  without space in the table gets index 0, the initiator's own. The testbed
  configurations are large enough.
* 3PC (3pc-app.c:84-116): where the initiator gives up a pre-commit, or a round
  ends before it is through, the applications decide by the phase of their own
  node. Participants in PRE_COMMIT then decide `COMMIT_TIMEOUT` beside an
  initiator with `ABORT_TIMEOUT`, or beside a node with `ABORT_TIMEOUT_APP` that
  never heard of the pre-commit, although no node has failed.
  `VotedDecisionStands3PC` speaks of what the votes decided, `CommitsAtomically`
  of the phases; neither excludes this, and the code does not.
* Vote (vote.c:159): in a network of two nodes the first slot can complete,
  and completion slot 0 is what the application takes for a timeout.
* Multi-Paxos: two leaders that are both designated for ever and neither of
  which is the initiator break `ImplementsLog`, because a leader that resigned
  and is designated again keeps ballot and phase. The shipped application
  designates one.
* Round control (chaos-control.c:316): `MissIsTrue` needs that post-processing
  after a miss lasts longer than the wake-up margin of about 6 ms (the last
  conjuncts of `ControlAssumption`; printing over a serial line takes longer).
  Without it, after a deadline missed by less than the margin the next
  reference lies ahead of the clock, which the test takes for a wrap, and the
  process skips rounds without waiting until it re-associates.

## 4. Proofs

Every theorem holds for any number of nodes, any loss, any reception that the
models have and any node that stops. The assumptions are those the modules
state of their constants.

### Wireless Paxos, one round

`NodesAssumption` and `ConfigAssumption` (module `PaxosNode`): at least two
nodes with 8 bit indices, nonzero 8 bit values, a 16 bit number of slots, a
non-empty range of back-offs.

* `TypeCorrect`: `Spec => []TypeOK`. The type invariant is inductive. The one
  argument that is not a width is that the counters compared in the
  Synchrotron switch stay within one of their limits.
* `Safety`: `Spec => []SafetyInv`, with the hypothesis `NoComeback`: rounds of
  at most 256 slots, the range of the back-off, or a single proposer. `losers_wrap`
  shows what several proposers do beyond it; the shipped round of 354 slots has
  a single one.
* From it, under the same hypothesis, `LearnersAreSound`, `ProposersAreSound`, `CompletionIsSound`,
  `BallotsAreUnique`, `PromisesHold`, `LosersStayOut`.
* `Validity`, for any proposers and any length of the round: a chosen value is
  one that an application proposed.
* For a single proposer, as in `apps/chaos/paxos`, and rounds of any length:
  `SingleProposerAgreement`,
  `PromisesComeFirst` (`PromiseQuorum`) and `ConsensusRefinement`
  (`ImplementsConsensus`). Agreement and `PromiseQuorum` are not theorems for
  several proposers because the code does not provide them: a proposer that
  starts on hearing a lower ballot keeps the flags that answered the other
  request (paxos.c:497-503, `duel_agreement`).

`LearnedIsChosen` and its siblings are not inductive: they speak of what a
packet's flags mean. `SafetyInv` adds

* `AcceptorInv`: a flag in an accept packet stands for a vote for exactly that
  ballot and value, except a proposer's own flag, which it sets in the packet
  one slot before its acceptor accepts; a packet is never older than the
  promise of the node that holds it; what is reported of promises is at most
  the ballot they answer (`ReportsInv`), so that a proposer never loses in the
  slot in which it opens its accept phase (paxos.c:470: only there would losing
  put a request for the second ballot into the buffer, against `LosersWait`);
* `ProposerInv`: a proposer makes one attempt. Once it lost, it is in its
  second ballot, silent, and its back-off is at least the number of slots left.
  A single proposer never loses, since every number in the network is 0 or its
  ballot (`SoleInv`), so that its back-off does not matter; `OneAttempts` draws
  the two cases of `NoComeback` together;
* `NotStarted`, `OpenedInv`, `OneValueOpened`, `VotesAreOpened`: a ballot
  appears only after its proposer started, has one accept request and one
  value, and votes answer such requests.

Two further invariants rest on it. `ValidInv`: an accept request, a
report of an accepted ballot, the aggregate of such reports and a vote carry a
proposed value; the 0 of an empty report is never taken for one.
`PromiseInv`, for a single proposer: every flag in a packet is a promise for
the packet's ballot, so the majority of flags that opens the accept phase is a
majority of promises, and promises are not taken back.

The proofs go in three layers. `PaxosNodeProofs` states for each operator
which fields it changes and how (`...Effect`, `...Lemma`). `WirelessPaxosSafety`
first combines them into what one slot can do to one node: the acceptor either
ignores, replies within its phase or adopts a new one, and the proposer then
is unmoved, waits, loses, goes on, opens its accept phase or begins. From these
outcomes each conjunct of the invariants is derived for the next state in a
lemma of its own, with the vote of each flag traced to the sender.

### Wireless Paxos over rounds

* `AppTypeCorrect`: `AppSpec => []AppTypeOK`, for any proposers. A round
  begins with fields that the last one left; the lemmas about a slot are those
  of one round.
* `VotesAnswerRequests` (`VotesAreRequested`) and `PromisesOutliveRounds`
  (`PromisesSurvive`, which speaks of promises and of the ballots of votes and
  exempts a node that resets after a complete round), with the hypothesis
  `Proposers \subseteq {Initiator}`: the shipped application makes the
  initiator the only proposer (paxos-app.c:140-146).

None of them bounds the length or the number of rounds. The value that the
initiator proposes in its 256th round is 0, the value of an empty report; the
theorems include that round.

`SoleInv` says what one proposer means over rounds: there is one ballot for
ever, since a proposer without a competitor never loses and never raises its
round, and every round starts it again with round 1 (paxos.c:743). Every number
that a node keeps, sends or reports is 0 or that ballot, so none of the
assignments to `min_proposal` that compare nothing (paxos.c:500, 567) can
lower it. A stale accept packet of the last round carries the ballot with a
value that was requested in that round, which `opened` still has; it is here
that agreement is lost (`app_agreement`), while what each node holds stays true.

### Multi-Paxos

`MultiPaxosAssumption`, `ChaosAssumption`, `LeadersAssumption`; any number of
nodes, batch and log sizes with a batch that fits into the ring. Every theorem
has two hypotheses. `Leaders = {Initiator}`: the application designates the
initiator and no other node (multipaxos-app.c:124-126). With two leaders the
properties are false (see the remarks above). `RoundsFit`: the 16 bit round
number has not wrapped (multipaxos.h:121, multipaxos.c:465). After 65536 rounds
of the log the code uses the numbers again, and nothing is claimed of that.

* `MultiTypeCorrect` (`TypeOK`), which includes that the log grows by at most
  one batch per Synchrotron round.
* `ReplicationLeaderSound` (`MajorityIsReal`), `ReplicationLearnerSound`
  (`LearnedIsChosen`).
* `LogRefinement` (`ImplementsLog`): the log of chosen values implements
  `BatchAgreement`.
* `LogHoldsOwnVotes` (`LogIsOwnVotes`), with the further hypothesis
  `MAX_ROUND < Uint8`. Beyond it the property is false: `multipaxos_byte`.

`MultiInv` speaks of all nodes relative to `r`, the first round of the batch the
leader works on:

* `PacketInv`, `RxInv`: no packet is ahead of `r`, and an accepted value that a
  packet or an aggregate reports was voted for by some node in its own round.
* `FlagsInv`: the flags of an accept request are votes for exactly its round
  and values, but for the leader's own flag, which precedes its vote by a slot.
* `AcceptorInv`: a log that ends with batch `r` has the node's own votes for it.
* `LeaderInv`: a leader that prepares has voted for the batch itself, or nobody
  has voted for anything yet; one that sends accept requests asks for values
  that agree with every vote of the batch. That is why two values are never
  voted for in a round, also when a Synchrotron round ends and the leader
  repeats the batch.
* `LearnerInv`, `RadioInv`: what is reported as chosen has a quorum; a node that
  sends has a request for the batch `r`, since a leftover of an earlier batch is
  never sent.
* `VotesInv`: one ballot, one value per round, votes for whole batches, and a
  quorum in every round before `r`.

Votes for whole batches are what the refinement rests on. The log ends with
`LogEnd`: the batch `r` if a majority voted in its first round, the batch before
if not. Hence a step adds nothing or one whole batch, and never another. The
ring needs a second argument, `RingHoldsVotes`: a vote for batch `r` overwrites
the entries of the batch, clears those of the rounds since the acceptor's last
one and leaves the others, which belong to rounds it took part in. Distinct
rounds within a ring's length have distinct entries, and the loop covers the
missed ones because the byte it counts with holds the round number.

### Commit, vote and max

`ChaosAssumption`, `CommitAssumption` and `AppsAssumption`: a finite set of
nodes with the initiator in it, nonempty ranges, the proposal a value.

* 2PC: `Atomicity`, `OffIsLast`, `TypeCorrect`, `Refinement`. `Atomic` speaks
  of the decisions the application takes; its invariant says where they come
  from. A vote that a node knows was cast by a node that agrees, and every
  such vote of another node has been on the air, so its voter has `did_tx` set
  and is bound (`VotesAreCast`); there is one decision, the initiator's, and a
  commit means that everybody agrees and is bound (`OneDecision`); a flag in a
  decided packet is that of a node that knows (`FlagsKnow`), hence a radio goes
  off only when all know.
* 3PC: `Unanimity`, `FailIsUnreachable`, `RefusalBinds`, `TypeCorrect`,
  `Refinement`. `Unanimity` is about a COMMIT or an ABORT that the votes
  decided, and `Refinement` about the phases with the initiator's timeout: see
  the remark on 3pc-app.c:84-116 above. `PhaseInv` lists the phases in which nodes can be for each phase
  of the initiator; `VotesInv` says that from PRE_COMMIT on flags and votes
  coincide and everybody has agreed, so the comparison at 3pc.c:265, which
  gives late nodes a vote they never cast, grants what is theirs, and the
  `FAIL` of 3pc.c:240 is unreachable.
* `ChaosAppsProofs` carries these over to the image that is built with the
  protocol (`Atomicity2PC`, `OffIsLast2PC`, `Unanimity3PC`,
  `FailIsUnreachable3PC`, `RefusalBinds3PC`, `CommitRefinement`) and adds `VoteIsUnanimous` (a node that transmits has
  judged the initiator's proposal, and all judge it alike), `MaxExactness`
  (the maximum in a buffer is that of the inputs whose flags it holds), and
  `TimeoutMeansMissing`. The last has the hypothesis of more than two nodes,
  which the code needs: see the remark on vote.c:159 above.

### Join

`ChaosAssumption` and `AppsAssumption`: ids are positive, list and table have
space for one entry at least.

* `SearchExact`, for every table in order: the binary search of join.c:750
  returns the index of the entry, and a miss only if there is none.
* `IndicesDiffer` (`IndexIsUnique`), `TableStaysTrue` (`TableIsTrue`) and
  `CompletionIsTrue` (`CompleteIsReal`), for a network that the table has room
  for: `Cardinality(Nodes) <= MAX_NODE_COUNT`. The code needs the hypothesis:
  see the remark on join.c:287 above.
* `OverflowTells` (`NobodyForgotten`), without it: list and table may be as
  small as one entry.
* `AppsTypeCorrect`: `TypeOK` of `ChaosApps`, for all five applications.

The search is a recursive function. That the equations of its LET have a
solution at all is shown with an explicit one, what a scan of the interval
finds; that every solution agrees with it is an argument on the shortest
interval where they would differ, because one halving gives a shorter one
(`HalvesSuffice`). `SortedTable` shows that choosing entries by the rank of
their ids returns every entry once, in order.

`JoinInv` ties the nodes to the initiator's table:

* `TableInv`: entries have distinct ids and distinct indices below the length,
  the initiator has index 0, and the table is in order until the commit. That
  is what makes the search exact in the one slot in which it runs. After the
  commit the table may be out of order until the round ends.
* `CommitInv`, `PlacesInv`: a node that has committed has the initiator's list,
  places and count, and the places are those of the table.
* `OwnInv`: a node that uses an index uses that of its entry. It survives the
  restart of the node, which forgets the index and is found again.
* `FlagsInv`, `CompleteInv`: a flag seen after the commit is that of a node that
  has an index and has committed; a complete node has a flag for every index.

### Round control

`TypeCorrect`, `MissExactness` and `Lockstep`, from `ControlAssumption`. The
invariant adds to `InStep` that a running node either has just booted or has
its next round an interval after its last (`Timed`), and that the initiator is
always associated. That two nodes advance their timers alike needs `Timed`,
which needs that a reported miss is true; that in turn is arithmetic modulo the
width of the timers with at most one wrap. The proof needed one conjunct that
no run had missed: `0 < WAKEUP + RTIMER_MIN_DELAY`. With both 0 the test would
report a miss of the first round, whose offset is negative. In the code the
second is 5 (chaos-platform-specific.h:48).

### Only model-checked

* `AllDecide` and `Recovers`: liveness under fairness is outside what the
  prover handles.
* The five violated properties, which no proof can be about. What a theorem
  adds to them is the hypothesis under which the neighbouring claim does hold:
  one proposer, for several proposers rounds of at most 256 slots, for the ring
  of Multi-Paxos round numbers that fit into a byte.

All other properties of the runs are stated by theorems.

## 5. Plan

All of the plan is done: each component that is not listed below is modelled,
model-checked, and its safety properties and refinements are proved.

Models that could be added: failures over several rounds of Paxos with the
stale `paxos_flags` pointer (paxos.c:611), several proposers over several
rounds, and four nodes, for the thinning draw, which is beyond a run of this
size. Of Multi-Paxos, a change of the leader: the code has the transitions, the
models have them, and the proofs exclude them by hypothesis, because the shipped
application does not use them.

### Not modelled

* The Contiki operating system, platforms and drivers: third-party code, most
  of the repository's lines.
* Timing within a slot, synchronisation by rank, security of `chaos.c`:
  hardware timing; its failure is a lost packet, which the models have.
* Channel hopping, the random generator and logging: lost packets and
  nondeterministic draws; output.
* Leader election: not built by any shipped configuration of the primitives.
* An initiator that re-associates (chaos-control.c:531): its new rounds begin
  at another time, and whether the others hear them depends on slot timing.
  `RoundControl` ends before it.
* Dissemination, Glossy and collection: no decision rests on them.
