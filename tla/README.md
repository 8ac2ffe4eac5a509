# ConsensusArena in TLA+

This directory holds TLA+ specifications of the replication protocols of
ConsensusArena, the TLC configurations that check them on small instances, and
theorems about them with proofs that TLAPS checks. Every definition is a
translation of the Go source; `PROJECT.json` maps each one to its lines.

1. [The system](#the-system): components, state, interactions, what is hard
2. [The modules](#the-modules): how they correspond to the code
3. [The runs](#the-runs): what each checks, its bounds, fairness
4. [The proofs](#the-proofs)
5. [Where the code departs from what it says](#where-the-code-departs-from-what-it-says)
6. [What is left out](#what-is-left-out)
7. [The plan](#the-plan)

## The system

A run of the program is a master, N replicas of one protocol and some clients
(`main.go`, `run.go`). Replicas are meant to tolerate `f = (N-1)/2` failures
(`run.go:29-30`).

### How the parts interact

* Replicas talk over TCP (`replica/replica.go`). Between live replicas nothing
  is lost or duplicated. But `replicaListener` hands **each received message to
  a goroutine of its own** (lines 470-473), which sends it to the channel of its
  type, and the protocol's run loop selects among these channels: messages are
  handled in any order, even those of one sender. This is the behaviour every
  model starts from.
* Clients of Paxos send to the leader; those of Fast Paxos and N2Paxos send each
  command to every replica (`main.go:120-125`). A replica that owes a client an
  answer writes it directly on the client's connection.
* The master pings the replicas and calls `BeTheLeader` on another one when the
  leader stops answering. Only Paxos, SwiftPaxos and EPaxos implement it.
* Inside a replica, Paxos and EPaxos run an executor goroutine beside the run
  loop; N2Paxos, CURP and SwiftPaxos run one goroutine per slot or command
  (`handleDesc`), which share concurrent maps and wake each other up.
* Nothing is persisted (`Durable` is never set): a stopped replica is gone.
* A nil dereference or an index out of range kills the process.

### Inventory

| Component | State | Operations | Hard parts | Correct when |
| --- | --- | --- | --- | --- |
| **Paxos** `paxos/` | instances with ballot, vballot, commands, status; a bookkeeping per led instance; default ballots; `crtInstance`; the executor's position | propose, Prepare, Accept, Commit, CommitShort, their replies; recover; execute; BeTheLeader | two leaders, retries, recovery racing the ordinary path, CommitShort overtaking Accept, displaced proposals | one batch per instance, executed alike, held by a write quorum, answered only if executed |
| **Fast Paxos** `fastpaxos/` | instances with ballot, cballot, value, committed; a MsgSet per instance and ballot; the next instance to propose in and to execute | handleProposal, handleM2B, handleM2Bs, commit, advanceBallot | every replica resolves collisions on its own; votes of two ballots in any order; holes in the log | one command per instance, one instance per command, executed alike |
| **N2Paxos** `n2paxos/` | slot counter; per slot: command, phase, 2Bs; `delivered`, `values`, `proposes` | handlePropose, handle2A, handle2B, deliver | goroutines of neighbouring slots; 2Bs before the 2A; who wakes up whom | one log, executed once and in order, answered when safe |
| **CURP** `curp/` | as N2Paxos, with `synced`, `unsynced`, `executed`, `committed` and a dependency per slot; client side: record acks and sync replies | handlePropose, handleAccept, handleAcceptAck, handleCommit, sync, unsync, deliver; client handleReply, handleRecordAck, handleSyncReply | speculative execution against unsynced conflicts; the counter of `unsynced` clamped at zero | a completed command survives; conflicting commands in one order |
| **SwiftPaxos** `swift/` | ballot, cballot, status; per command: dependencies, hashes, phase, fast and slow acks; per key a hash log; pending hash updates | handlePropose, handleFastAck, fastAckFromLeader, handleLightSlowAck, deliver, recordLeaderHash, updateLogs | leader's hash before the proposal; fast and slow quorums of one command; optimistic execution | conflicting commands delivered in one order everywhere |
| **SwiftPaxos recovery** `swift/recovery.go` | `newLeaderAckNs`, history | handleNewLeader, handleNewLeaderAckNs, handleSync, stopDescs | merge of the histories of the highest cballot | what was delivered is kept |
| **EPaxos** `epaxos/` | a two-dimensional instance space, seq and deps, ballots, conflicts per key, bookkeeping | the five phases and their replies, recovery with TryPreAccept, deferral | recovery of pre-accepted instances; deferral cycles | one (command, deps) per instance; interfering commands depend on one another |
| **EPaxos execution** `epaxos/exec.go` | Tarjan's stack and indices in the instances | executeCommand, findSCC, strongconnect | graph changing under the search; early returns | interfering commands executed in one order |
| **quorums** `replica/quorum.go` | sets of replicas; `QuorumSystem` of ballots | Size, Contains, SameHigher, BallotOf, AQ | ballots that encode quorums | SameHigher is higher, same leader and quorum |
| **message sets** `replica/mset.go` | messages of one key by replica, one leader message | Add, Free | handler run at every Add past the quorum | handler sees each replica once |
| **deferred conditions** `hook/` | a condition and a postponed call | Call, Recall | a condition that becomes true between two looks | a postponed call runs |
| **transport** `replica/replica.go`, `sender.go` | connections, channels | SendMsg, listeners, sender goroutine | reordering | no loss between live replicas |
| **delayed proposals** `replica/defs/latency.go` | a binary tree of proposals | Write, insert, inorderReady | timers against the order of CommandIds | each client's commands in its order, none stuck |
| **state machine** `state/state.go` | a map under a mutex | Execute, Conflict | | deterministic |
| **master** `master/` | nodes, `alive`, `leader` flags | Register, GetLeader, GetReplicaList, ping loop | a former leader that comes back | one leader named |
| **client** `client/` | pending commands, latencies | send, wait | | |
| **configuration**, **start-up**, **logging**, **slurm** | | | | |

## The modules

| Module | Models |
| --- | --- |
| `Consensus` | what one replicated log promises: a slot is decided with one command, a command in one slot, and every replica that learns a slot learns that command |
| `Paxos` | `paxos/paxos.go`, with the master's `BeTheLeader` |
| `DelayProposeChan` | the delayed proposals of a connection, `replica/defs/latency.go` |
| `DelayedPaxos` | a delayed connection in front of a Paxos leader: `DelayProposeChan` composed with `Paxos` |
| `FastPaxos` | `fastpaxos/fastpaxos.go` over `replica/mset.go` and `replica/quorum.go` |
| `N2Paxos` | `n2paxos/n2paxos.go`, with `replica/mset.go`, `hook/cond.go` |
| `Curp` | the replicas of `curp/`, with `curp/batcher.go`, `replica/mset.go`, `hook/cond.go` |
| `CurpClient` | `curp/client.go` composed with `Curp` |
| `QuorumSystem` | the ballots of SwiftPaxos that encode quorums, `replica/quorum.go` |
| `Swift` | `swift/swift.go`, `dpath.go`, `key.go`, `mset.go`, `replychan.go`, between two changes of the ballot |
| `SwiftRecovery` | `swift/recovery.go` over `Swift`: the change of the leader |
| `EPaxosCommit` | `epaxos/epaxos.go`: the phases, the attributes and the recovery; of the executor, that it executes what is committed |
| `EPaxos` | `epaxos/exec.go` and `executeCommands` beside `EPaxosCommit` |
| `MCPaxos`, `MCDelayedPaxos`, `MCFastPaxos`, `MCN2Paxos`, `MCCurp`, `MCSwift`, `MCEPaxos` | instances for TLC: commands, who sends them, symmetry, exploration constraints |
| `FastPaxosProofs`, `N2PaxosProofs`, `CurpProofs`, `CurpClientProofs` | theorems and proofs |
| `PaxosProofs`, `PaxosLeaderProofs` | the same for `Paxos`: with any leaders and recoveries; under one leader |
| `SwiftProofs` | the same for `Swift` with `SwiftRecovery` |
| `EPaxosProofs` | the same for `EPaxosCommit` |

`Paxos`, `FastPaxos`, `N2Paxos` and `Curp` each declare an instance of `Consensus` with a
refinement mapping (`Abstract`) and the property `ImplementsConsensus`. SwiftPaxos and
EPaxos do not keep one log: what they promise is stated by their own properties. `EPaxos` with
its executor implements `EPaxosCommit` (`ImplementsCommit`).

Definitions marked *Mutant* are variants of the definition below them with a
plausible bug. `PROJECT.json` pairs each property with one that breaks it, which
shows that the run would catch that bug.

### Paxos

One action per branch of each handler: a handler that returns early in three places
is a disjunction of four actions (`HandlePrepareReply`, `HandleAcceptReply`).
`instanceSpace`, `lb`, `crtInstance`, `maxRecvBallot`, `defaultBallot`,
`smallestDefaultBallot` keep the names of the code; `proposeChan` is the channel of client
commands and `toRecover` the channel from the executor to the run loop. The
network is a bag, because a handler may send the same message twice and a reply
does not say who sent it.

A command slice keeps the distinction between nil and empty, because the executor tests
for nil, and `OnWire` is what Unmarshal does to it. A batch is the set of its commands;
the number of answers `Execute` gives is kept, not their positions, so `answered` ranges
over every subset of that size.

`makeBallot`, given an instance by `handlePropose` and a ballot by
`handleAcceptReply` (line 639), is modelled as it is called: `RetryAccept` and
`PanicAccept` use the ballot as an instance.

### Fast Paxos

`m2bSets[r]` is all the MsgSets of a replica together, one per instance and ballot
(`VotesOf`). Add calls the handler again at each vote past the quorum, so `IsFull`
says `>=`. The handler ends with a nested call for the replica's own vote: `OwnVotes`
holds that vote and the replica does nothing else before it has handled it. `QMembers`
and `QSize` give both the fixed quorum of a file and `ThreeQuarters`. `commit` and its
execution loop are one step (`Execute`), which dies at the first instance whose
proposal has not arrived.

### N2Paxos

A goroutine of a slot marks it as delivered and then executes it: two steps
(`TriesToDeliver`, `Execute`), since the goroutines of other slots look at the mark.
`deliverChan` counts the "deliver" messages sent to a slot. `afterPayload` keeps no
state of its own: a postponed `deliver` repeats all its tests when it is called
again.

### Delayed proposals

`Write` inserts a proposal in the search tree and leaves a goroutine that sleeps;
`Handle` is the goroutine that wakes up, marks its node as ready and runs
`inorderReady`. What leaves the tree is in `pChan`, which `DelayedPaxos` turns into the
`proposeChan` of the leader in the same step (`Arrives`).

### CURP

The replicas of CURP as `run.go` starts them: every replica commits on its own
(`optimized`) and clients are not contacted before the commit (`contactClients` off).
`Calls` is what a message does once it has reached the goroutine of its slot: a vote
below the majority does nothing; any other message calls `afterPayload`, and if the
command and its proposal are known the accept, the commit and the delivery that were
postponed are done, in this order. So no state is kept for what is postponed.
`Deliver` and `WakesUp` are `deliver` past its early returns: execution, the replies,
`sync`, and the "deliver" messages to the next slot and to the successor.

The run loop of a witness stores a proposal and then answers it, in two steps
(`StorePropose`, `AnswerPropose`), because the goroutine of the slot may execute the
command in between and decrement a count that does not include it yet.

The leader's proposal goes to the run loop itself when it creates the descriptor of
the slot (`LeaderPropose`), and to a goroutine when a "deliver" message created it
earlier (`LeaderSendsPropose`, `HandlePropose`): that goroutine was given no
dependency.

`CurpClient` adds the client: `acks` are its MsgSets, one per command, `val` the one value
it keeps for all of its outstanding commands, and `answers` the pairs of a command and the
command whose value was taken as its answer. `IsFull` is the condition of the MsgSet
(the leader's reply, and enough acks of the others for `ThreeQuarters` in all).

### SwiftPaxos

`Swift` models the commands of one key, which all conflict unless both are reads; keys do
not interact. The hash of a log is the sequence of commands it stands for. The FastAcks
and the slow acks are one set of messages, each to one replica, because a replica that
delivers a command returns the descriptor and an ack for it may come before or after.

* `Propose` is the run loop: it opens the descriptor, notes the dependencies, appends to
  the hash log. `HandlePropose` is the goroutine of the descriptor (at the leader both
  are one step: `desc.seq`).
* `ReceiveAck` is an ack taken by the run loop and handled by the goroutine:
  `FastAckFromLeader` and `CommonCaseFastAck` with the two MsgSets (`Add`, `Takes`,
  `IsFull`), then `Settle`, which is what every handler ends with: the descriptor, the
  acks and client messages sent, and `deliver` if all its tests pass.
* `afterPropagate` keeps the leader's dependencies while the proposal is missing.
* `Deliver` is the run loop taking a message of the `deliverChan`; `Execute` is the
  second half of `deliver`, as in N2Paxos; `Reply` the `replyChan`.

`SwiftRecovery` adds the change of ballot. The state of `Swift` is kept; an answer
(`AckN`) is computed from the descriptors when the replica stops them (`StopsWith`: the
`replyChan` may or may not have removed a delivered one by then, hence the set `D`).
`Synchronises` is `handleSync` from its first assignment to the wake-up of the
descriptors; the random order in which Go walks the maps is the choice in `Merges` and in
`woken`. A replica that hits `Fatal` has `stopped[r] = "fatal"`, one that waits for ever in
`repchan.stop` `"hangs"`.

### EPaxos

In `EPaxosCommit` one action per handler, `instanceSpace`, `lbs`, `crtInstance`, `conflicts` and
`maxSeqPerKey` as in the code, and one action for the executor, `ExecutesSome`, which may mark any
committed instances as executed. `EPaxos` adds `execedUpTo`, the `log` and the executor as it
is, and `ImplementsCommit` says that its steps are such steps: Tarjan's search never gets to an
instance that is not committed, from whichever instance it starts. `created` is the order of the `proposeTime`s, the one
thing the code asks of them. A fresh instance has the values of `newInstanceDefault`, so no
separate "does not exist" is needed. `Nil` is a slice of commands that is nil; it is not the
empty slice `<<>>`. The code makes an empty slice in one place, which is the wire: a
PrepareReply loses its VBallot there, and a nil Command comes back empty (`OnWire`). The
recoverer's own reply does not go over the wire and keeps both. So `Adopts` compares the
fresh ballot of the recoverer with zeros, and a recovery may go on with an empty batch,
which is not the NOOP that `handleCommit` knows. `StartRecovery` is the executor's expired grace period with the handler of
`instancesToRecover`; with `Patient` it happens only when no message for the instance is
under way, which is what a grace period of 10 seconds (`epaxos.go:24`) is for.
`StrongConnect` is Tarjan's algorithm as `exec.go` has it, with its early return at an
instance that is not committed; `Execute` is one call of `executeCommand`. `Stop`
loses any part of what the replica had sent, so a broadcast may reach some replicas only.

## The runs

"Pass" runs find no error; "violation" runs find the disagreement that
[Where the code departs](#where-the-code-departs-from-what-it-says) explains.

| Run | | Shows |
| --- | --- | --- |
| `paxos_stable` | pass | 3 replicas, leader 0 which may stop, two commands, two instances: what is executed is held by a write quorum, one batch per ballot, answers only to executed commands, no double execution, refinement of `Consensus` |
| `paxos_pipeline` | pass | a delayed connection in front of a leader, 3 replicas of which one has stopped, three commands: they leave the tree in order, and the leader executes each, two instances being open at once |
| `paxos_leaders` | pass | 2 replicas, both leaders, three clients' commands, recoveries and retries: ballots are owned, and no command is lost or doubled in the places that keep it |
| `paxos_leaderchange` | violation | `Agreement` fails when the leader changes |
| `fast_live` | pass | two replicas, both in the quorum, two instances: liveness, each command in one instance, executed alike, refinement |
| `fast_threequarters` | pass | 5 replicas with quorums of any 4: a commit has the votes of a fast quorum |
| `n2_live` | pass | 2 replicas, the leader may stop: liveness unless it does, what a follower delivers is held by a majority, no double execution, refinement |
| `curp_live` | pass | a client, 2 replicas, two conflicting commands under way: every command is answered, an answered command is executed in a committed slot or executed by the leader and accepted by a fast quorum, of two conflicting commands with fast answers one is committed, a witness that accepts both has synced one, refinement |
| `swift_three` | pass | 3 replicas, two conflicting writes, two replicas that may take over: a follower comes back to the leader's hash, what a client completes is held by the replica whose ack completed it, after a slow ack with the leader's dependencies |
| `swift_reads` | pass | 2 replicas, a write and a fast read at its proxy, a change of the leader at any time: accepted commands have the same dependencies everywhere, a recovery ends, and without one everything is executed |
| `epaxos_live` | pass | 3 replicas of which any one may stop, a write and a read of two of them, two recoveries: agreement on the attributes, one of two conflicting instances depends on the other, executed alike, only committed instances are executed (refinement of `EPaxosCommit`), the clients of live replicas are answered, but for the two cases `ClientsAreAnswered` names |
| `epaxos_order` | violation | `ExecutedAlike` fails for two commands of one site and one of another |

### Bounds, and why they are enough

* `MaxInstance`, `INST_NUM`, `LastSlot`: two slots, because every property relates at
  most two. `paxos_leaders` has one instance: there the two leaders meet.
  `paxos_pipeline` has three, for three commands of which two are open.
* `MaxBallot` (Paxos): 0 under a single leader without recovery, where no ballot but
  its first exists. 3 in `paxos_leaders`: each of the two replicas has its second
  ballot. Exploration stops at a handler that would need a higher one.
* `MaxBallot` (Fast Paxos): 2 in `fast_live`, one more than the proved invariant
  `QuorumInv` says is ever reached. 1 under ThreeQuarters.
* `MaxOpen`: the uncommitted instances of a leader that proposes; 1 in `paxos_stable`
  (no pipelining, so that 3 replicas fit), 2 in `paxos_pipeline` and `paxos_leaders`.
* `MaxTimeouts`: the expirations of the grace period per replica; 1 in
  `paxos_leaders`, where recoveries race everything else.
* `Absent` (`paxos_pipeline`): a replica that has stopped before the start. The two that are
  left are just a quorum, so nothing may go missing.
* `MaxCommandId` 2: three proposals give a tree with a node that is ready below one that is
  not, in each order the goroutines can wake up.
* N = 2 in `paxos_leaders`: one refusal is then enough to be overruled, the only
  way to the retries; with 3 replicas the state space is out of reach.
* `OnlyTwoHear` (Fast Paxos, 5 replicas): votes reach two replicas; the others only
  propose. The hearing replicas still meet every order of the votes.
* N = 2 in `n2_live` and `curp_live`: liveness needs the whole state space, without
  symmetry or constraint. Two replicas and two slots already give every order of the
  messages that wake up a slot; that a majority is smaller than N plays no part in it.
  What does depend on it (agreement, what a commit is held by, the witnesses) is proved for
  every number of replicas.
* `Ballots` (SwiftPaxos): the first ballot and those of one takeover by each candidate:
  0, 4, 5 in `swift_three` (leaders 0, 1, 2), so that two candidates can meet; 0 and 3 in
  `swift_reads`.
* `KnownAtRecovery`: how many commands replicas know when a leader is replaced, and no
  command is new after that. 1 in `swift_three`, where the two writes conflict as long as
  ballot 0 lasts and one of them is recovered; 2 in `swift_reads`, where both are.
  Two replicas there, because the recovery is checked for liveness.
* One key in SwiftPaxos and EPaxos: commands on different keys share no state that the
  properties see. Conflicts of reads are kept (`Reads`).
* `MaxBatch` 1, `MaxInstance` 0 in `epaxos_live` (a row for each of two sites), 1 in
  `epaxos_order` (a second command of one site). `MaxRecoveries` 2: a recovery and one
  that overrules it.
* `Patient` in `epaxos_live`: see [below](#where-the-code-departs-from-what-it-says) for
  what TLC finds without it.
* Symmetry: commands are interchangeable, except in `paxos_leaders` where the two
  commands of one client are, and where some are reads. Never used with liveness.
* `CHECK_DEADLOCK FALSE`: the workload is finite, so every behaviour ends.

### Fairness

Each liveness run states weak fairness of the steps of each replica. It stands for a
run loop that keeps selecting, goroutines that are scheduled, TCP links between
live replicas that deliver, and clients that reach every replica they send to.

* `DelayedPaxos!DelayedSpec`: fairness of the connection with its timers, of the run loop
  and of the executor. Not of the grace period, of `BeTheLeader` or of `Stop`.
* `FastPaxos!FairSpec`: fairness of the run loop. `EveryCommandExecutes` assumes that
  no replica has died by the nil dereference of commit, which the model allows.
* `N2Paxos!FairSpec`: fairness of `FairStep`, which leaves out the messages of a
  stopped replica: what it had sent may never arrive. `EveryCommandExecutes` has the
  premise that a majority with the leader never stops.
* `CurpClient!ClientFairSpec`: the same for the replicas of `Correct` (the others may stop,
  which is to take no further step) and for the client.
* `SwiftRecovery!FairRecSpec`: fairness of what a replica does by itself or on a message.
  Not of `Recover`: the master need not replace a leader.
* `EPaxos!FairSpec`: fairness of the run loop, of the executor and of each recovery that
  stays possible, since the executor looks at the grace period every time it passes. Not
  of `Stop`.

In the last two the weak fairness of an action is written out as "its guard is false again
and again, or it is taken again and again", the guard being a definition of its own
(`CanRecStep`, `CanRun`, `CanExecute`, `MayRecover`): the meaning is that of `WF_`,
without the cost of computing ENABLED for actions of that size.

Weak fairness of the disjunction of a replica's steps is enough because each step consumes
a message, a proposal or a slot, and the workload is finite.

## The proofs

TLAPS proves the following for **every** number of replicas, commands, instances or
slots.

`N2PaxosProofs` (no hypothesis beyond the assumptions on the constants):

* `TypeCorrect`: `Spec => []TypeOK`.
* `LeaderInvariant`: `Spec => []LeaderInv`. That two replicas agree is not
  inductive: it holds because whatever a replica knows of a slot was in a 2A of the
  leader (`VotesInv`), and because the leader pairs slots and commands
  (`SlotsInv`: one slot, one command and conversely, slots below the counter, commands
  already proposed, so that a new pair clashes with none). `DeliveredInv` gives a
  delivered slot a command and, at a follower, a majority of 2Bs; `LogInv` says that
  a slot is delivered, then executing, then in the log, once.
* `DeliveredIsHeldHolds`: a vote comes from a replica that knows the slot, whose
  command is the leader's; so the votes counted are among the holders.
* `ExecutedOnceHolds`: by `LogInv` and the pairing.
* `Refinement`: `Spec => ImplementsConsensus`, although the leader delivers before
  any majority holds its command: agreement rests on the one leader, not on quorums.

`FastPaxosProofs`:

* `TypeCorrect` and `CommitHasFastQuorumHolds`, for any quorum. A replica counts a vote once
  and only votes that were sent by members (`CastInv`), so the number that makes a MsgSet
  full is a number of different members.
* Under the hypothesis `FixedQuorum` (`QSize = Cardinality(QMembers)`: a quorum file
  gives one quorum and it is full when all its members have voted):
  `QuorumInvariant`, `AgreementHolds`, `NoDuplicateCommitHolds`,
  `NoStaleCollisionHolds`, `RecoveryKeepsCommitHolds`, `MembersExecuteAlikeHolds`,
  `Refinement`.

  The invariant `QuorumInv`: a member of the quorum votes once per instance at ballot
  0 and proposes a command once (`VotesInv`); a replica leaves ballot 0 of an instance
  only after gathering the votes of the whole quorum (`GatheredInv`); hence every
  replica that sees a collision sees the same votes and picks the same one, that of the
  member with the highest identifier, and all votes at ballot 1 agree. So ballot 1 never
  collides and no ballot 2 exists, which is what `NoStaleCollision` needs; a committed
  command is one that all members proposed for the instance or one that the top
  member did (`CommitsInv`), which is at most one command. `FixedQuorum` cannot be
  dropped: with `ThreeQuarters` of 5 replicas (`fast_threequarters`) the action
  `StaleCollision` does occur. `MembersExecuteAlike` adds `MembersInv`: a member has
  proposed in every instance it has committed, so that no later proposal takes the
  instance, and a recovery after the commit votes for the committed command; a member
  therefore runs what it has committed. Others do not (see below). `RecoveryKeepsCommit` is
  about a replica outside the quorum, since a member gathers ballot 0 first; no run has such a
  replica (with `Replicas` = {0, 1, 2} and `QMembers` = {0, 1} TLC finds it true).

`CurpProofs` (the assumptions on the constants: at least two replicas, finitely many
replicas and commands), for any proxies and number of slots:

* `TypeCorrect`: `Spec => []TypeOK`.
* `CurpInvariant`: `Spec => []CurpInv`. The slots are as in N2Paxos: `SlotsInv` (the
  leader pairs slots and commands), `VotesInv` (a replica knows what the leader sent,
  votes for what it knows, and commits what a majority voted for) and `LogInv` (the
  executed slots are those from 0 on). The witnesses need more, because `synced` and
  `unsynced` are written by two goroutines in any order. `SyncedInv` says that what a
  witness synced it has committed. `CountInv` says that the count of a key is at
  least the number of the commands on it that the witness has answered and not
  synced, less one while the command being answered has already been discounted:
  `Early`. The clamp at zero is the case that makes it an inequality, and the one the
  proof turns on: it loses a decrement (the count is then too high, the safe side).
* `ExecutedAlikeHolds`: by `LogInv` and the pairing. `CommittedIsHeldHolds`: the voters
  of a slot hold its command.
* `WitnessIsExclusiveHolds`: it is inductive with `CountInv`, since the count is
  positive while an answered conflicting command is not synced.
* `FastConflictIsCommittedHolds`: two fast quorums share a witness (`FastQuorumsMeet`),
  which accepted both commands, so it has synced one and so committed it.
* `Refinement`: `Spec => ImplementsConsensus`.

Every action that changes a slot reaches it through `Calls`. `HasEffect` says what it may
have done there and `StepCases` that each step is of this form or touches no slot,
so that the invariants are proved once for the form and not once per action.

`CurpClientProofs` (the same assumptions, any proxies):

* The lemma `ReplicasFollowCurp`: the client changes nothing of the replicas, so what
  `CurpProofs` establishes can be used beside the client.
* `ClientTypeCorrect`, and `AnsweredIsSafeHolds`: a completed command is `Durable` (a replica
  has executed it in a slot it has committed) or `FastDone` (the leader has executed it
  and a fast quorum has accepted it). Of the client's side the proof needs that its acks
  are messages that were sent (`AcksInv`); of the replicas', that a reply is for a command
  the leader has executed and a sync reply for one executed in a committed slot
  (`RepliesInv`). One would expect the leader to have executed every completed command.
  It is not so: the proxy may execute it and send the sync reply while the
  leader's "deliver" of the slot is still under way.

`PaxosProofs` (any number of replicas, clients, leaders, recoveries, retries and stops;
`MaxBallot`, `MaxInstance` and `MaxOpen` are any bounds):

* `BookInvariant`: `Spec => [](TypeOK /\ BookInv)`, and from it `TypeCorrect`. Neither half is
  inductive alone: a handler reads the bookkeeping of the instance it is called for
  without a test (`paxos.go:541, 621`), and what it writes is well typed only if the
  bookkeeping is there. `BookInv` says that whoever is asked or answered keeps the books of
  the instance, has created it and knows it is not above `crtInstance`.
* `BallotsOwnedHolds`, by `OwnerInv`: a replica only tries ballots of its own. The
  retry that takes the ballot for an instance computes a ballot of its own all the same.
* `NeitherLostNorDoubledHolds`, under the hypothesis `SentToOne`: a client sends each
  command to one replica. (If it sent it to two, either might refuse it while the other
  keeps it.) `PlacesInv` says that a command is in one place, the channel or one
  instance's bookkeeping, exactly as long as it has been sent and not refused: through
  the displacements of `handleCommit`, the refusals and the batches put back.

`PaxosLeaderProofs`: the replicated log, under the hypothesis `OneLeader(l)`: l is the only
replica that leads or is ever asked to (`InitialLeaders \subseteq {l}`, `Candidates = {}`),
no grace period expires (`MaxTimeouts = 0`), and `F <= 1`. Any number of commands and
instances, any clients; any replica, l included, may stop. All of this is needed: with a
second leader or a recovery `Agreement` is false, and with `F = 2` even `ExecutedOnce` is
([below](#where-the-code-departs-from-what-it-says)).

* `StableInvariant`: `Spec => [](TypeOK /\ StableInv(l))`, from `BookInvariant`. Its parts:
  * `OneBallotInv`: the one ballot is that of l, and only l keeps books;
  * `ProposalInv`, `AcceptorInv`, `MessageInv`: what anybody holds or sends for an
    instance is the batch of l's bookkeeping, or nothing at a replica that a CommitShort
    reached before the Accept;
  * `AskedOnceInv`, `CountInv`, `LateInv`: what makes the missing test of the status in
    `handlePrepareReply` harmless. A replica is asked once for its promise, so after l
    has proposed at most F promises are missing. With `F <= 1` a promise that comes
    after the commit and makes the instance ACCEPTED again is the last one, of the one
    replica that has not promised; everything that another replica could tell l of the
    commit is sent after that promise is in, and l's batch is never displaced;
  * `BackedInv`, `LogInv`: l counts an answer only if another replica holds the batch,
    and what is executed is such a batch;
  * `PlacedOnce`, so that two instances of l never share a command.
* From it `OneBatchPerBallotHolds`, `AgreementHolds`, `ExecutedIsHeldHolds` (l and a replica
  that answered are a write quorum if `F <= 1`), `AnsweredIsExecutedHolds`,
  `ExecutedOnceHolds`, and `Refinement`: `Spec => ImplementsConsensus`.

`StableInv` was checked with TLC for 2, 3 and 4 replicas before it was proved.

`SwiftProofs` (`RecSpec`: any number of replicas, commands, candidates and changes of the
leader; the assumptions on the constants, of which `NilAssumption` says that the two marks
for "no dependencies" and "no hash" are no set and no sequence of commands):

* `RecTypeCorrect`: `RecSpec => []RecTypeOK`. It needs `ProposedIsKnown`: a descriptor has a
  proposal only if the replica has received the command. The commands `handleSync` proposes
  again are found through their descriptors, and the types say that they were received.
* `HashesConvergeHolds` and `AnswerIsHeldHolds`, both about ballot 0, by
  `FirstBallotInvariant`: in every state there is a sequence P of different commands, the
  order in which replica 0 has registered them while it leads, such that
  * `LeaderState`: the hash log of the leader is P, the dependencies of a command come
    from the commands before it, and everything it has registered it has handled;
  * `AckState`: an ack of the leader has as hash a prefix of P that ends with its command,
    as sequence number the command's place, and the dependencies that belong to the hash;
  * `HashState`: the log of a follower is the prefix of P that is synced and then the
    pending commands, none twice. For each command of P the leader's hash is
    under way, kept in `pendingHashUpds`, or applied and the command taken out of the
    pending ones. So when none is under way and no proposal is missing, nothing is
    pending and the synced prefix is all of P;
  * `FollowerDesc`: a follower on the slow path has the leader's dependencies,
    also those that waited in `afterPropagate`;
  * `ClientState`: what the clients have been sent in the ballot is of this kind.

  P is not a variable and the leader's log can go on only while it is in ballot 0; after
  that P stays what it was, and the followers that are still in ballot 0 keep to it.
  A replica changes only what is its own (`Alone`) and the messages of a change of
  the leader are of later ballots (`LaterBallots`), so a recovery disturbs
  nobody who has not joined it. That the leader is in every fast quorum it sends to
  (`LeaderInFastQuorum`) gives its hash to whoever counts it.

`FirstBallotInvariant` was checked with TLC (two and three replicas, up to three commands)
before it was proved.

`EPaxosProofs` (`CommitSpec`: any number of replicas, commands, rows' lengths, stops, recoveries
and lost messages; the assumptions on the constants), with `EPaxosCommit` as the module:

* `TypeCorrect`: `CommitSpec => []TypeOK`. `handleAcceptReply` commits the commands the instance
  space has, so `TypeOK` says that they are there once the bookkeeping is past NONE.
* `UnrecoveredAgree`: an instance that nobody has begun to recover (`Unrecovered`) is committed
  alike by all, whatever happens to the other instances. `AgreementHolds`: `Agreement`, as long as
  no recovery has begun. A hypothesis about recoveries is needed, since with them `Agreement` is
  false ([below](#where-the-code-departs-from-what-it-says)). What makes it inductive is that of
  an unrecovered instance the leader's bookkeeping says everything (`InstanceInv`):
  * `LeaderInv`: an instance is in the books only once it is in the row; from the moment
    it is accepted the instance space has the attributes of the books; nothing but a commit
    makes it COMMITTED, and then the books no longer change;
  * `OtherInv`: another replica never reaches ACCEPTED (`handleAccept` leaves the
    status), and what it has committed is what the books say;
  * `MessageInv`: requests come from the leader, replies go to it, and a late PreAcceptReply of
    a replica that has committed finds the books closed.
* `UnrecoveredOrdered`: of two unrecovered committed instances with conflicting commands one
  depends on the other, and `ConflictsAreOrderedHolds`: all of them do, as long as no recovery has
  begun. The hypotheses are `MaxBatch <= 1` and `N \notin {4, 6}`; without either it is
  false ([below](#where-the-code-departs-from-what-it-says)). The inductive invariant is
  `OrderedInv`. There is, for each instance v, a set Q[v] of the replicas whose PreAcceptReply the
  leader has counted, such that
  * `VoteInv`: a replica votes once, by the one PreAccept it is sent, so that `preAcceptOKs`, a
    number, is the size of Q[v]; what the leader merges does not fall below what it sent;
  * `RegisterInv`: whoever has voted for v (`Holds`: its reply is under way or counted, or it is
    the leader) has v or a later instance of the row in `conflicts`;
  * `PairInv`: a replica that has voted for two conflicting instances of different rows
    has, in one of the two votes, a dependency on the other. The later vote was
    computed from `conflicts` after the earlier one was registered there;
  * `RowInv`: the later of two conflicting instances of one row depends on the earlier one,
    because its leader has registered the earlier one itself.

  Two fast quorums meet (`FastQuorumsMeet`), and the leader merges the dependencies of the votes it
  counts, so the common voter's dependency is in the committed instance. (`mergeAttributes`
  leaves out the leader's own row, but the other instance is in another row.) The slow path needs
  nothing more: the Accept carries the merged attributes of a fast quorum of PreAcceptReplies.

As in `CurpProofs`, the handlers are first brought to a few forms (`StepEffects`: a proposal, the
vote, the count of a vote, an Accept, its count, a Commit, or a step that concerns a recovered
instance), and the invariants are proved for those. `AgreementInv` and
`OrderedInv` were checked with TLC (three replicas with three proposers, or with two instances of
one of two rows; by simulation also five replicas with failures and a recovery) before they were
proved.

Proved only (no run checks them): `CurpInv`, `CommittedIsHeld` and `ExecutedAlike` of CURP,
`LeaderInv` of N2Paxos, `QuorumInv`, `Agreement`, `NoStaleCollision` and `RecoveryKeepsCommit` of Fast Paxos,
`BookInv`, `StableInv` and `Agreement` of Paxos (of which a run shows that it needs the one
leader), `ProposedIsKnown` and `FirstBallotInvariant` of SwiftPaxos, `ClientTypeOK` and Curp's `TypeOK`,
and of EPaxos `UnrecoveredAgree` and `UnrecoveredOrdered`, which go on after a recovery has begun.

Model-checked only: liveness (out of the prover's reach), `ProposalsInOrder` of
`DelayProposeChan`, `HeldAlike` of `SwiftRecovery`, and of `EPaxos` the executor (`ExecutedAlike`,
`ImplementsCommit`) and what a recovery keeps (`Agreement` and `ConflictsAreOrdered` in
`epaxos_live`, where the recoverer has seen the PreAccept; in general it is false). `EPaxos` and
`DelayProposeChan` follow trees and graphs with RECURSIVE operators, which keeps them out of
the prover's reach. Of Paxos, what happens when leaders change or replicas recover is proved as far
as `PaxosProofs` goes; the log itself is not, because it does not hold.

## Where the code departs from what it says

Shown by runs (`findings` in `PROJECT.json` quotes the lines):

* **Paxos, leader change** (`paxos.go:581-593`, `paxos_leaderchange`). A new leader
  overwrites the batch the acceptors report with that of its own clients.
* **EPaxos, order of execution** (`exec.go`, `epaxos_order`). `updateAttributes` looks at the last
  conflicting instance of each row, so two instances of one row on one key may end with
  the same Seq; the order inside a strongly connected component is then that of
  `proposeTime`, which is local to a replica.

Met while modelling, and visible in the modules as actions, without a run of their own:

* Paxos counts replies, not acceptors, and each PrepareReply past the read quorum sends the
  Accepts again (`paxos.go:581, 646`). With 3 replicas a write quorum of others is one
  reply, so nothing shows; with 5 (`MCPaxos_stable` with N = 5) TLC violates
  `ExecutedIsHeld`: one acceptor replies twice and the leader executes.
* `handlePrepareReply` does not look at the status of the instance (`paxos.go:539-593`). With 5
  replicas and one leader that nobody replaces, a PrepareReply that is late after the
  commit sets the instance back to ACCEPTED. If an acceptor has had the Accept and the
  CommitShort before the Prepare, it answers the Prepare with a Commit, and
  `handleCommit`, finding the instance ACCEPTED, puts its commands back into the channel
  (lines 503-508): they are proposed and executed a second time. TLC violates
  `ExecutedOnce` with N = 5, one command and `MaxInstance` 1. With 3 replicas only one
  promise can be late, and nobody is left to send that Commit (`LateInv`).
* `deliver` of N2Paxos marks the slot before it executes it (`n2paxos.go:283-285`), so the
  goroutine of the next slot may execute first: `ExecutedInOrder` of `N2Paxos` is false,
  with 3 replicas.
* The same order of `deliver` in SwiftPaxos (`swift.go:555`), and a quorum that commits a command
  at a follower with its own dependencies: `Swift!ExecutedAlike` is false within ballot 0.
* The clients of CURP and SwiftPaxos keep one `val` for all outstanding commands
  (`curp/client.go:128`, `swift/client.go:253`): `AnswerIsOwn` of `CurpClient` is false
  when two commands are under way. The command is safe (`AnsweredIsSafe`); the value may be
  that of the other one.
* The branch of Fast Paxos called unreachable "because of a fixed fast quorum"
  (`fastpaxos.go:129-137`) is reached when no quorum file is given, which is the
  default (line 49): `StaleCollision`, which TLC reaches in `fast_threequarters`.
* The leader of CURP is meant to answer before the commit only if the slot it depends on is
  committed (`curp.go:506-516`). The goroutine of a slot keeps the dependency it was
  created with (line 570), and if a "deliver" message creates it before the proposal
  comes, that is none: the leader answers although the conflicting slot before is not
  committed. `HandlePropose` has the step, and `DependencyIsCommitted`, which states
  the comment, is false in two replicas after five steps. The client still needs the
  witnesses, and they refuse a command that conflicts with one they know of
  (`FastConflictIsCommitted`).
* When `sync` runs before the command is counted, the clamp at zero
  (`curp.go:416`) loses the decrement and the key of the command never has a fast
  path again at that witness: `StorePropose`, `AnswerPropose`, `Sync`.
* `recover` runs at any replica and ends in proposing a no-op, whatever the acceptors
  report (`paxos.go:589`): `BatchOf`.
* `handleAcceptReply` passes a ballot to `makeBallot`, which takes an instance
  (`paxos.go:639`): `RetryAccept`, `PanicAccept`.
* A CommitShort that overtakes its Accept commits an instance without commands
  (`paxos.go:533`): `HandleCommitShort`.
* Answers go by position to the proposals of the instance, which may not be what was
  committed there (`paxos.go:702`): `Execute`, `PanicExecute`.
* A Fast Paxos replica outside the quorum overwrites the value of an instance it has
  committed (`fastpaxos.go:81`): `HandleProposal`.
* `commit` dereferences a command whose proposal has not arrived, as the FIXME of
  `fastpaxos.go:189` says: `Execute`, `panicked`.
* The leader of N2Paxos executes and answers a command no other replica holds
  (`n2paxos.go:267`): `CanDeliver`.

SwiftPaxos, in `SwiftRecovery`:

* The FastAcks that a new leader sends from `handleSync` have no checksum
  (`recovery.go:240-248`), and every follower that knows the proposal ends in `Fatal`
  (`swift.go:809-811`): `RecordLeaderHash`. `RecoveryEnds` therefore lets a replica be
  `"fatal"` once it has been synchronised.
* A second MNewLeader at a replica that is still RECOVERING stops the `replyChan` a second
  time and waits for ever (`recovery.go:25, 44-46`): `HandleSecondNewLeader`.
* A proposal whose goroutine has not handled it yet is reported as an accepted NOOP
  (`recovery.go:132-139`), and the entry that is merged last wins (86-95): it may replace a
  COMMIT. Commands in PRE_ACCEPT are dropped, so those answered on the fast path are lost:
  `Entries`, `Merges`.
* `handleSync` proposes again what has been delivered and not removed yet, which is
  `Fatal` (`swift.go:288`): `ProposeDelivered`.
* An equal hash does not mean equal dependencies: `FastAnswerHasDeps` of `Swift` is false
  with three writes. The dependency of a command is the last one received (`key.go`,
  `lightKeyInfo`), but a hash of the leader takes its command out of the middle of a
  follower's log (`dpath.go`, `update`). A follower receives c2, then c1; the leader's hash
  of c1, its first, leaves c1 synced and c2 pending; then c3 comes, and the hash is that of
  c1, c2, c3, as at the leader, where c3 depends on c2 and not on c1. The client takes this
  FastAck for one that agrees (`client.go`, `handleFastAndSlowAcks`). The comment at
  `swift.go:280` expects that the order may break, but only that it disables the fast path.
  When the leader's FastAck comes, the follower takes its dependencies and sends a slow ack
  as well, which is why `AnswerIsHeld` asks for them on the slow path.
* The hashes are not reset by a recovery, which is why `AnswerIsHeld` is about ballot 0.

EPaxos (each of these is found by TLC with the constants of `MCEPaxos_live.cfg`, or with other
values of those the item names):

* With the constants of `epaxos_live` as they are, `HighestBallotIsTaken` is false. The VBallot of a
  PrepareReply is not on the wire (`defs.go:153-252`), so all replies of others have VBallot 0 and
  "only replies from the highest ballot are taken into account" (`epaxos.go:1229`) cannot be.
  A recoverer r > 0, or one of another replica's instance, goes on with what it has itself,
  since its own ballot is above 0. Replica 0, whose peer 1 has stopped, recovers its own instance at
  ballot 0 and takes the last reply of another, even if that replica has nothing: the batch of
  its client is replaced by an empty one and never executed (`HasLostBatch`).
* Three replicas, two commands of one site (`MaxInstance` 1), and a leader that stops while
  its commit is broadcast: `Agreement` is false. A replica outside the fast quorum that
  recovers the instance counts its own PrepareReply under the ballot it has just made
  (`epaxos.go:1154-1155`); only replies of the highest ballot are looked at (line 1229), so
  what the others have accepted or committed is overwritten with a NOOP.
* Five replicas and a leader that stops: `Agreement` is false because subCase 4 has the condition of
  subCase 3 (lines 1269, 1271; line 1233 announces another), so TryPreAccept is never sent.
* Recoveries while the leader goes on (`Patient` FALSE): `Agreement` and `ExecutedAlike` are false
  with 3 replicas, without a failure. Of `ConflictsAreOrdered` TLC found no violation there in
  the two million states it visited; its state space was not exhausted.
* A replica that knows an instance only as a dependency never recovers it
  (lines 397, 408; `exec.go:79`), so if its leader stops in the middle of a commit the
  instance that depends on it is stuck (`KnowsOnlyAsDependency`). `ClientsAreAnswered` has this and
  the lost batch as its only exceptions: without either of the two it is false in `epaxos_live`.
* With two commands in a batch (`MaxBatch` 2, no failure) `ConflictsAreOrdered` is false. In each
  row the first command of the batch that raises the dependency ends the search (the `break` of
  `updateAttributes`, `epaxos.go:663-677`). Row 0 has a write, then a read; the batch <read,
  write> of row 1 on that key depends, for its read, on the write, and the search ends there:
  the write of the batch and the later read of row 0 are not ordered.
* With 4 or 6 replicas `ConflictsAreOrdered` is false, without failures. `FastQuorumSize` is
  F + (F + 1) / 2 (`replica.go:132-134`), F = (N - 1) / 2: 2 of 4 replicas, or 3 of 6, the leader
  included. Two of them need not meet, and equal replies commit on the fast path. (N = 4 with a
  command at each replica; N = 6 with one at 0 and at 3; `MaxInstance` 0.)

## What is left out

* In Paxos: waiting to fill a batch (it only delays `handlePropose`; any subset of the
  waiting commands may be the batch), stable storage (never enabled), statistics. The
  executor goroutine reads an instance that the run loop writes without a lock; each of
  its reads is one atomic step here, torn reads are not modelled.
* In Fast Paxos: failures, which the code does not handle; the reply to the client.
  Under ThreeQuarters a replica that revotes at the same ballot resends an equal M2B,
  which a set of messages does not tell from the first.
* In N2Paxos: the descriptor pool, the limit on goroutines (`desc.seq` handles a slot in
  the run loop: fewer interleavings), channel capacities, `HISTORY_SIZE`; the 1A, 1B
  and Sync messages, which are declared and never handled.
* In CURP: `contactClients` and the variant that is not optimized, which no start-up
  option turns on; MSync, which the client never sends (`client.go:101-103`); pooling,
  the limit on goroutines, channel capacities; failures of the leader, which nothing recovers.
* In SwiftPaxos: the variants of the switches that are not set (without `optExec`, with
  `slowAddrs`), several keys and SCANs, quorum files (`SameHigher`, `BallotAt`, `BallotOf`),
  pooling and the limit on goroutines, the `history` that only `GetCmd` reads, the batcher that
  merges acks of one replica (here they are late), the delay log. The client's MsgSets
  are not a state machine: `Completes` says when they are full.
* In EPaxos: the answers with a higher ballot that make a leader prepare and the TryPreAccepts,
  neither of which any state reaches; `CommittedUpTo`, which needs more than 7 replicas;
  SCAN ranges, which `updateConflicts` ignores; batching by time; stable storage; the
  executor that reads while the run loop writes COMMITTED before the attributes (here one
  step).
* Everything marked `not_modelled` in `PROJECT.json`: configuration, logging, marshalling and
  scripts are I/O; the delay log decides nothing.

## The plan

1. **Core** (done): `Consensus`, `Paxos`, `FastPaxos`, `N2Paxos`, their runs; proofs for
   the three of them.
2. **CURP** (done): `Curp` and `CurpClient`, with their proofs.
3. **SwiftPaxos** (done): `QuorumSystem`, `Swift`, `SwiftRecovery`. Left: the client's
   MsgSets, as `CurpClient` does it for CURP; the quorum files with SameHigher.
4. **EPaxos** (done): the phases and the recovery, the execution.
5. **Small parts**: `DelayProposeChan` composed with `Paxos` (done); left: `Master` composed
   with the leaders it makes (a former leader that answers again keeps its flag).
6. **Proofs**: Fast Paxos, N2Paxos, CURP and its client, Paxos, SwiftPaxos, the commit
   protocol of EPaxos (done). Left: `HeldAlike` of `SwiftRecovery`, of which it is open whether
   it holds with three replicas (the run has two); the execution of EPaxos, whose search is a
   RECURSIVE operator.
