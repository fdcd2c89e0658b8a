# Reindexer: TLA+ models, checks and proofs of the cluster and of its log and storage

Reindexer is an in-memory document database. Its *synchronous cluster*
(RAFT-like elections, initial sync of a new leader, online replication with
consensus) is the part of it where concurrency, lost messages and time decide
about correctness; the *write-ahead log* and the *write-behind storage* of a
namespace are those where restarts, crashes and failing writes do. These are
what this project models. All paths below are
relative to `src/cpp_src/` unless they start with `src/`.

- [Inventory](#inventory)
- [Modules and their correspondence to the code](#modules)
- [Runs](#runs)
- [Proofs](#proofs)
- [Findings](#findings)
- [Other disagreements met](#disagreements)
- [What is not modelled](#not-modelled)
- [Plan](#plan)

## Inventory

### How the parts work together

```
       commands (set_leader_node, ForceElections)   RPC: SuggestLeader, LeadersPing
                     |                                     |
   raft thread:  clusterControlRoutine  <----->  RaftManager / VotingManager
                     | onRoleChanged(info)
                     v
   SharedSyncState (next_, current_, synchronized_, initialSyncDoneCnt_)
                     ^  |
   role switch thread: RoleSwitcher::handleRoleSwitch -> initialLeadersSync
                     |                                     | LeaderSyncer::Sync
                     | onRoleSwitchDone                    v
                     |                          sync threads + LeaderSyncQueue
                     v
   UpdatesQueue::SetWritable;  writers: PushAndWait --> UpdatesQueue
                                                           | Read, OnUpdateHandled
                                                           v
                                         replication threads (one Node per follower)
                                                           | RPC: updates, snapshots
                                                           v
   follower: NamespaceImpl --> WALTracker (ring of records, stored records)
                           --> AsyncStorage (chunks --> LevelDB / RocksDB)
```

The leader's namespace feeds the same log and storage; a snapshot for a follower is
read from the log if the follower's LSN is still in it.

| component | state | operations | correct when |
|---|---|---|---|
| Elections (`cluster/raftmanager.*`) | `VoteData` (term, leader id, role, time of the last ping), desired leader with timeout, coroutines of a round, ping routines | `RunElectionsRound` (suggest, ping, end), `SuggestLeader`, `LeadersPing`, `FollowersAreAvailable` | a pinged node is bound to one leader at a time; a new leader is backed by a majority that is still bound to it; no ping routine outlives its leadership |
| Control routine (`cluster/replication/clusterdatareplicator.*`) | the last announced `RaftInfo`, `restartElections_`, command queue | elections loop, watching the leader or the followers, commands | role changes are announced in an order the role switcher can process |
| Shared sync state, role switcher (`sharedsyncstate.*`, `roleswitcher.*`) | next and current role, marks of synchronized namespaces, channel of one notification, resync timer, sync coroutine | `SetRole`, `TryTransitRole`, `MarkSynchronized`, `handleRoleSwitch`, `handleInitialSync`, `initialLeadersSync` | no role change is lost; marks belong to the present leadership; one initial sync at a time |
| Initial leader sync (`leadersyncer.*`) | queue of namespaces, snapshots per source node, errors per thread | `TryToGetEntry`, `SyncDone`, `sync` | every namespace is synchronized or the sync fails; no source is overloaded |
| Updates queue (`updates/updatesqueue.h`) | chunks of updates, per update: replicas, approves, errors, emitter, result callback; size, drop record, invalidation | `PushAndWait`, `PushAsync`, `Read`, `OnUpdateHandled`, `onResult`, `eraseReplicated`, `dropOverflowingUpdates`, `SetWritable` | a success means consensus; each writer is answered once and only while it waits; handled chunks are freed; no reader sleeps over data or skips updates unknowingly |
| Replication threads (`replicationthread.*`, `clusterreplthread.*`, `updatesbatcher.h`, `ns_sync_scheduler.h`) | per follower: connection, next update id, sync state of its namespaces | connect, sync by WAL or snapshot, online updates, retry | each update is reported once, truly, and none is passed over; the follower converges to the leader |
| Synchronization list, statistics (`cluster/stats/`) | last synchronized update id per node | `Init`, `Clear`, `MarkSynchronized` | a node is only reported as synchronized when it is |
| Asynchronous replication (`asyncdatareplicator.*`, `asyncreplthread.*`, `updatesqueuepair.*`) | own queue and threads, namespace lists per node | as above, without results | as above |
| Write-ahead log (`wal/`, `tools/lsn.h`) | ring of records, LSN counter, offset, stored records | `Add`, `Set`, `Resize`, `Reset`, `Init`, `available` | an LSN counts as available only if its own record is in the ring; the records after it rebuild the items |
| Clusterizator, configuration (`cluster/clusterizator.*`, `cluster/config.*`) | replicators, node lists | dispatch, parsing | |
| Asynchronous storage (`core/namespace/asyncstorage.*`) | chunks of writes, their count, proxy of unflushed values, flush error | write, write at once, flush, reopen after an error, copy and inherit, close | no write is lost or set back; what is read was written last |
| Cluster proxy (`core/clusterproxy.*`), sharding (`cluster/sharding/`) | leader connections, shards | routing of calls | |
| Namespaces, transactions, snapshots, query engine, indexes, full text, vectors (`core/`) | the data | | |
| Client, network, servers, events, coroutines, bindings, tools | | | |

The hard behaviours: requests whose client has given up and that are executed
later; answers counted in a round and stale at its end; a command in the middle
of an elections round; role changes while the role switch thread is blocked in
a sync; the result of an update decided by a compare-exchange without a lock,
while a role switch answers the same writer; chunks dropped under a reader; batched
updates answered after later ones were sent; a log rebuilt after a restart from
items and records stored at different times; a failed flush that is repeated
while new writes come. The list `hazards` of `PROJECT.json` names the line of each one.

<a name="modules"></a>
## Modules and their correspondence to the code

| module | models | composed with |
|---|---|---|
| `RaftElections` | `RaftManager` and `clusterControlRoutine` of all nodes | implements `RoleFeed` |
| `RoleFeed` | abstract: the sequence of `RaftInfo`s `onRoleChanged` is called with | the interface between `RaftElections` and `RoleSwitch` |
| `RoleSwitch` | `SharedSyncState`, `RoleSwitcher`, the phases of `LeaderSyncer::Sync` in one node | its raft thread takes the steps of `RoleFeed` |
| `LeaderSync` | `LeaderSyncQueue` and the threads of `LeaderSyncer` | the detail of `SyncNamespace` and `JoinThreads` of `RoleSwitch` |
| `UpdatesQueue` | the queue of a synchronous cluster, its writers and how replication threads read and count | |
| `ReplNode` | the routine of a replication thread for one node, its follower, the connection, and what it sees of the queue | the detail of a reader of `UpdatesQueue` |
| `WalTracker` | the write-ahead log of a namespace, the operations that feed it, restart and crash | |
| `AsyncStorage` | the write-behind storage of a namespace | |
| `RaftElectionsProofs`, `RoleSwitchProofs`, `LeaderSyncProofs`, `UpdatesQueueProofs`, `ReplNodeProofs`, `ReplFollowerProofs`, `AsyncStorageProofs`, `WalTrackerProofs` | theorems; the first one has the refinement of `RoleFeed` | each extends the module it is about |
| `MC...` | symmetry sets and constant functions for TLC | |

### RaftElections

Each node has one raft thread: `pc[n]` is the place of `clusterControlRoutine`
(`loop`, `retry` after a round without a result, when commands are handled, the
wait for old ping routines `drain`, a `round`, `elected`, the sleep `await` of `endElections`, the sleep `yield` after stepping back for a desired
leader, and the watching of `lead` and `follow`). The coroutines of a round
are `rpc[n][m]`: `suggest` (request sent), `yes`/`no` (answer on its way),
`suspended` (waits for the outcome of phase 1), `resumed`, `ping`, `pong`/`refused`,
and the ends `acked`, `voted`, `failed`. The counters of `electionsStat` are the
cardinalities of sets of these. The ping routines of a leader are `ping[n][m]`.

*Messages.* A request, its execution at the peer and the delivery of the answer
are three steps. `RpcError`/`PingError` (to the nodes of `Lossy`) end a request at the
client; the request was executed, is lost, or is kept in `late`, to be executed at any
later time and in any order with others. The answer of a
routine ping is delivered with its execution: only `isOk` depends on it.

*Time.* `pingAge`, `timer` and `desiredAge` are ages in ticks of `Tick`, capped at
the interval they are compared with. The clocks are steady clocks and run at the same
rate. `Deadline` < `Lease` and `Deadline` < `DesiredTimeout` are the only relations of the intervals
the model assumes, and they are those of `cluster/consts.h`.

*Faithful details worth knowing.* `LeadersPing` writes the term of its sender,
older or not. `SuggestLeader` grants a vote to a newer term unless the leader is
available. Whether the node itself is the desired leader is read when a round begins (`isDesiredLeader`) and used in
phase 2, whatever became of the command since. `endElections(Leader)` is tried when a coroutine of the round has ended; the
model allows it at any moment of the round in which `MayLead` holds, which
includes those. `endElections` for the other roles sleeps and looks at the leader id
afterwards. Commands wait in a queue, are taken between rounds, announce `Candidate` at once
with the leader id of the voting data; the next round announces it again with the
leader the control routine knew (`knownLeader`).

`holder[m]` is a ghost: the sender of the last ping that `m` accepted.

### RoleFeed

The sequence of roles one node announces: a leader passes through `Candidate`, still
naming itself, before anything else. `RoleSwitch` takes its inputs from this
module's `RoleStep`; that `RaftElections` implements it (`FeedsRoles`) is checked by a run and proved (`ElectionsFeedRoles`).

### RoleSwitch

One node. The raft thread does `SetRole` and `OnRoleChanged` as two steps. The role
switch thread runs its coroutines one at a time; `LoopRuns` is the condition that
its event loop is not blocked by `LeaderSyncer::Sync` (`created`, `threads`).
`handleRoleSwitch` is split where another thread can interfere: `SwitchStatus`,
`TryTransitRole`, and the end by one of `KeepRole`, `BeginLeaderSync`, `CancelLeaderSync`
with `EndSwitch`. The sync coroutine goes through `collect` (one step per namespace,
with the outcomes *local data is the latest*, *another node has newer data*, *too few
answers*), `created`, `threads`, then `done` or `failed`, and `off` after
`disconnectNodes`. One initial sync marks namespaces and, at its end, the whole database.

`replThreadsCnt_` is taken as 1: `initialSyncDoneCnt_` then counts one sync.

### LeaderSync

The threads of one `LeaderSyncer::Sync`. The order of the entries in the queue is
abstracted: `TryToGetEntry` takes any entry that satisfies the conditions of the pass (the
preferred node first, then any node with room), so the properties hold for every
order. A sync succeeds, with the hash compared, or fails. `MaxSyncsPerNode` is positive:
`roleswitcher.cc:267` replaces 0 by `kMaxConcurentSnapshots`.

### UpdatesQueue

Ids are positions; a chunk is named by the id of its first update and holds up to `BatchSize`
of them. Chunks are pushed at the back and leave at the front only, so the queue is the interval from
`firstChunkID` to `nextChunkID`. `upd[i]` has the packed counters of `UpdatesStatus`. A reader (`status[f]`) goes
through the steps that are separate in the code: `ApplyUpdate` (validity check and the
request to the follower), `Replicated` (the compare-exchange), `SendResult`
(`onResult`, under the mutex), `CountErased` (`erased_.fetch_add`), `Sweep` (`eraseReplicated`,
one chunk per step). Between any two of them another reader, a writer or
`SetWritable` may run. `onResult` holds the writer whose stack the callback points into, so
a use after its return shows as `CallbackIsAlive` violated. Every update has the
size 1, and an entry of the queue the overhead 1 (`TotalSizeBytes`).

### ReplNode

One routine (`nodeReplicationRoutine`) and one namespace. `pc` is its place: `start`,
`snapshot` and `apply` are `syncNamespace`, `loop`, `idle` and `chunk` the updates
handling loop, `batch` and `await` the update just read that waits for room in
the batch or for the batched ones, `call` an update sent alone, `drain` the
answers left at the end of a chunk, and `wait` the wait after an error. Each wait of the coroutine is a
step of its own, and between any two of them the leader writes, the queue drops
chunks, the follower executes requests, the connection breaks or a request times
out. `inflight` holds the requests of `UpdatesBatcher` in their order, each with the state
`sent` or its answer; answers are taken in that order.

*Follower.* It accepts an update with the next LSN only, so its state is one number
(`flsn`). When the connection breaks, any prefix of the unanswered requests may have
reached the follower: these are kept in `late` and executed later, in their order, the others are lost; a
timed out one is kept. *Queue.* `log` has all updates ever pushed, `dropped` is the last id of the
drop record; network check records are pushed by the connection observer
(`offline`) and by the leader's ping (`online`). `counted` is what this node reports through
`OnUpdateHandled`, `synced` its entry in the `SynchronizationList`. *Modes.* `async` is fixed by
`Init`: in asynchronous replication there are namespaces that are not in the config of the node,
in a cluster there are emitters and marks.

*Faithful details worth knowing.* An answer moves `latestLsn` even if it is an error, while an
update that was sent alone moves it only on success. The request for a resync is cleared before the follower's state is
read, so that a break in between is not forgotten. `handleUpdatesWithError` runs for network and
data errors only, counts the updates it gives up and stops before the first one that this node
emitted.

### WalTracker

`wal` is the tracker: the vector of the ring, the LSN counter, `walOffset_`, `walSize_`,
`lastLsn_` and the stored log. `RingSize` is `size()`, `Available` is `available()`, `Add`,
`ResizeTo`, `Reset` and `InitWal` are the methods of the same names; `Add` is composed of `Advance` (the counter, the last LSN
and `walOffset_`), `Put`, `BlankOld` (the older record of the item) and `WriteToStorage`. `SetRecords` is a loop over `Set`:
the records that `available` accepts have slots of their own, so the loop is written as one function of the position. The namespace's actions are `ModifyItem`,
`DeleteItem` and `Truncate` (local, or replicated with the leader's LSN), `Flush` of the
asynchronous storage, `Resize`, `ForceSync` (a raw snapshot followed by the leader's last records), `Reopen` after a
close and `Crash`, which loses what was not flushed while the stored records stay.

`hist`, `floor` and `resized` are history variables: what every LSN did, which items there were after
it, and from which LSN on nothing was taken away. `CompleteLog` is the promise of the log in terms
of them: a replica at an LSN that is not outdated has the items of now after the records above it.

### AsyncStorage

`self` is the storage of the namespace, `copy` that of the copy a large transaction is
committed into, which holds both locks of the original (`copying`). A storage has a current chunk, finished chunks, the counter of updates and the proxy. The flush is split
where its lock is released: `FlushBegin`, `ReopenBegin`/`ReopenOk`/`ReopenFails` after an earlier failure, `TakeFinishedChunk` or
`TakeCurrentChunk`, `WriteChunk` or `WriteChunkFails` (the chunk is put back), `ChunkWritten`, `FlushEnds`. `Write` collects, `WriteSync` writes
at once unless the latest flush failed, and `WriteSyncFails` collects what could not be.
`InheritUpdatesFrom` puts the original's chunks before those of the copy. `Close` flushes, then
clears. `latest` is a ghost: what was written last to each key.

<a name="runs"></a>
## Runs

| run | bounds | checks |
|---|---|---|
| `elections_contention` | 3 nodes, 2 of them run elections, terms up to 2, one begins the first term only, the other is told to elect it, lease 1, a round within one tick, no request is lost or late | `LeaseIsExclusive`, `NewLeaderHoldsQuorum`, `ObeysCommand` |
| `elections_commands` | 3 nodes, one runs elections and gets commands naming itself or another, lossy requests, one late request, terms up to 3, lease 2, round deadline 1 | `TypeOK`, `NoStalePingRoutine`, `FeedsRoles` (refinement of `RoleFeed`) |
| `elections_split` | 3 nodes, 2 of them run elections in any terms up to 2, no commands, lease 2, round deadline 1 | `OneLeaderPerTerm`, violated |
| `role_switch` | one other node, 2 namespaces, 5 role changes, fairness | `TypeOK`, `SettledRole`, `FreshLeadership`, `OneSync`, `RoleIsTaken` |
| `queue_results` | 3 nodes, one may be the emitter, 2 writers with 1 or 2 updates, 2 chunks of 2, the queue is closed and opened again | `TypeOK`, `CallbackIsAlive`, `NothingIsLeft`, `HandledHasResult` |
| `queue_five` | 5 nodes, one writer, one update | `AckedHasConsensus`, violated |
| `queue_overflow` | 3 chunks of 1, a limit that admits one of them, synchronous and asynchronous pushes, one role switch, fairness | `AwaitsNothing`, `DataSizeExact`, `NoSilentSkip`, `WriterReturns` |
| `leader_sync` | 3 threads, 4 namespaces, 3 sources with room for one | `TypeOK`, `LimitIsKept`, `QueueIsEmptied`, `AllSynchronized` |
| `repl_node` | cluster and asynchronous mode, 2 updates of 3 kinds, chunks of 2, 2 batching routines, one fault with its check records, fairness | `TypeOK`, `CountedOnce`, `OkIsApplied`, `NothingPassedOver`, `SyncMarkIsTrue`, `EmitterIsAsked`, `Converges`, `EveryUpdateCounted` |
| `wal_restart` | 3 items, capacities 2 and 3, 4 records, 2 events (resize, force sync, restart, crash), 2 servers | `SlotIsOwn`, `UpdateIsCurrent`, `LastLsnIsTrue`, `CompleteLog` |
| `storage_flush` | one item key, one meta key, chunks of 2, 3 writes, 2 failures, one copy, one advice, with and without proxy, fairness | `TotalIsExact`, `ItemsSurvive`, `UnflushedIsRead`, `ItemsAreFlushed` |
| `storage_copy` | 2 writes, one copy, no proxy, no failure | `ReadSeesLastWrite`, violated |

*Why the bounds are enough to be interesting.* Three nodes are the smallest cluster with a
majority that is not everybody, and two contenders the smallest with a conflict;
two terms are needed to set a term back and reuse it. A node that was told to elect another one has
spent a term before it can watch a command, so the round it must not run begins in the second term. A lease of 2 with a
deadline of 1 leaves one tick in which an ack may be counted, one in which the
round is over and the lease is not, and one after. Five role changes are the
sequence leader, candidate, follower, candidate, leader after the first
candidate; they are also enough for a node to lead twice with another leader in between. Two updates in a chunk let the last result and the last
replica belong to different updates. Five nodes are the smallest cluster in which a consensus of errors leaves a follower to approve. Three chunks with a limit that admits one make a drop
happen twice while a reader is inside a chunk. In `leader_sync` there
are more namespaces than sources and fewer places than threads, so threads end at the
limit. In `repl_node` the bounds let the queue grow to four records in two chunks
(two updates, the news of the break and of the return), so a batch spans a failed and a
later update and a chunk is dropped under the reader. In `wal_restart` four
records go round a ring of two twice and overlap a resize to three. A record lost by a resize and a restart
needs a fifth record, whose state space is too large to be kept as a run (below). In `storage_flush` three writes with
chunks of two leave a finished and a current chunk, and two failures let the repeated flush fail again.
Symmetry is declared over the nodes, namespaces, threads or followers the
configuration does not tell apart, never in a run with a liveness property.

*What the bounds cut.* `Contenders`, `Lossy`, `Commanded` and `Targets` restrict which nodes
act in a run; `MaxTerm` ends the elections, `OneTerm` those of some nodes after the first term (with commands two contenders of two terms
are too many states), `MaxLate` the requests kept. The theorems below
hold without these restrictions.

*Deadlock* is checked for the elections (time always advances). The other models
really stop: no more role changes, no more updates, all threads joined.

*Fairness.* `role_switch`: the raft thread ends a call it has begun, the coroutines and
threads of the node run (weak fairness); the event loop serves the async watcher and the
waiting coroutine although syncs that fail again and again block it in between
(strong fairness of `Notify` and `Await`: libev hands out all pending events in
each iteration, and the thread returns to the loop between two syncs because the
resync timer has an interval). Role changes and the timer are not assumed to
happen. `queue_overflow`: every replication thread keeps running, which means that a
request to a follower ends with an answer or an error (the clients have timeouts),
and that an emitter that went offline comes back: `handleUpdatesWithError` keeps its
update for it (`replicationthread.cc:1125`; that the kept update is sent in the end is
`EveryUpdateCounted` of `repl_node`). A woken writer returns. `repl_node`: the
routine and the follower's server keep running, the timer of the wait fires, and a follower
that cannot be reached comes back; writes, drops and the notifications that lead to `handleUpdatesWithError` are not
assumed. `storage_flush`: the background thread flushes again and again, and a transaction that has begun is
committed or dropped; the failures are bounded.

Every property of a passing run has a mutant in `PROJECT.json`: a definition with
the mark `Mutant` in the modules, with a plausible mistake, under which TLC finds the
property violated.

## Proofs

TLC checks the instances above. The following holds for every value of the
constants that satisfies the named `ASSUME`s, and is checked by TLAPS.

**`RaftElectionsProofs`** (any finite set of nodes, any intervals with
`Deadline < Lease` and `Deadline < DesiredTimeout`, any bounds):

- `TypeCorrect`: `Spec => []TypeOK`.
- `LeaseInvariant`, `LeaseExclusive`: a node bound by a ping younger than
  `kMinLeaderAwaitInterval` accepts pings of the same leader only. `LeaseIsExclusive` is not
  inductive: `LeadersPing` compares `leaderId`, which `SuggestLeader` and
  `StartNewTerm` overwrite too. `LeaseLeader` says that while the lease lasts `leaderId` names its
  holder or the node itself (after its own `StartNewTerm`), and `DesiredLease` that a desired
  leader leaves no lease to another.
- `NewLeaderQuorum`: a node takes the role `Leader` only while a majority is bound to
  it (or was told by command to elect someone). `AckedLease` carries it: an ack counted in a running
  round is at most as old as the round, and `MayLead` requires the round to be younger
  than `Deadline < Lease`. `NoSelfPing` excludes the case that a node leases to itself.
  A commanded node is an exception that the code really has: the command drops the
  lease.

- `CommandObeyed` (`ObeysCommand`): a node that was told to elect another node does not become the leader
  while the command is valid, because it steps back in the rounds that begin in this time. The invariant is `DesiredRound`: no round is running with another
  desired leader, because commands are executed between rounds only.

**`LeaderSyncProofs`** (any finite set of threads, any sources, namespaces and positive limit):

- `SyncInvariant`: the inductive invariant `Inv`.
- `LimitKept`: the counter of a source is the number of threads that sync from it and
  is at most the limit.
- `QueueEmptied`: when all threads have ended, the queue is empty, although a thread that finds
  every source at its limit ends for good. The reason is the fourth conjunct of `Inv`:
  while there are entries, some thread has not ended. A thread that gives up
  does so because a source of the entry is at its limit, which is positive, so by `LimitIsKept`
  another thread is syncing, and that one will look again.
- `AllAreSynchronized`: without errors every namespace is synchronized.
- `TypeCorrect`: `Spec => []TypeOK`, with the bound of the counters.

**`ReplNodeProofs`** (any chunk size, number of batching routines, number of updates and
faults, both modes; only the assumptions of `ReplNodeAssumption`):

- `ReportInvariant`: the inductive invariant `IInv`. That a node reports once is not inductive: it
  rests on what is *not yet* reported. `FlightOK` says that the requests without a processed answer are in the
  order of the queue, behind `nextUpdateId` and unreported; `HeldOK` the same of the update that was read and
  waits to be sent, which is behind all of them; `UnreadOK` of everything from `nextUpdateId` on. A rewind
  then returns to exactly the one update that was not sent.
- `ReportedOnce`: `CountedOnce`. A second report would let one follower stand for two in the consensus.
- `NonePassedOver`: `NothingPassedOver`.
- `EmitterAsked`: `EmitterIsAsked`, for which lemma `GivenUp` shows that `handleUpdatesWithError` stops before the first
  update of the emitter (it takes the least of a set, by the well-foundedness of `<`).

**`RoleSwitchProofs`** (any other nodes, any namespaces, any number of role changes):

- `SwitchInvariant`: the inductive invariant. `ChangeIsPending`: a role change that was announced and not taken is
  still on its way, as a call of the raft thread, in the async watcher, in the channel of one
  notification or read by `handleRoleSwitch`. `Prepared`: each place of the switch has the role it was prepared
  for. `SyncOfLeader`: the sync coroutine and its timer belong to a leader, never both at once. `Told`: which role
  was last reported as done.
- `RoleIsSettled` (`SettledRole`), the action properties `LeadershipIsFresh` (`FreshLeadership`) and `OneSyncAtATime` (`OneSync`)
  and `TypeCorrect` follow. For the fresh leadership the invariant says that a role other than `Leader` leaves no marks and that
  `handleRoleSwitch` has waited for the sync coroutine before it takes the next role. That the role is taken in the end is left to TLC.

**`ReplFollowerProofs`** (as `ReplNodeProofs`, which it extends): the follower.

- `FollowerInvariant`: LSNs grow along the queue and the follower never goes back (`LsnOK`); an answered request
  is on the follower (`AnswersOK`); `latestLsn` is beyond the follower only after a failed
  answer, and then not beyond the first update that is still to be read (`LatestOK`); while the loop has met no
  error, everything behind `nextUpdateId` that is not on its way is on the follower (`BehindOK`); the snapshot
  brings what was read before it (`SnapOK`); the mark is behind all this (`MarkOK`).
- `ReportedIsApplied` (`OkIsApplied`), `MarkedIsSynced` (`SyncMarkIsTrue`), `TypeCorrect`. The last
  one bounds the log: a break leaves at most two network check records.

**`UpdatesQueueProofs`** (any followers, writers, chunk size, limit and number of updates and role switches):

- `QueueInvariant`: the inductive invariant. Its core is an account kept by readers that count without the mutex. Each
  follower is counted once in an update; the counters of a chunk plus what its readers still owe to it are what its
  updates have reached (`ChunkCountsOK`); a result is due exactly once, because approves and errors together are
  fewer than twice the consensus (`CallbackOK`, `WriterOK`); a chunk that was erased is behind every reader (`GoneOK`);
  whoever counts the last update of the first chunk sweeps until the first chunk is not complete (`SweepOK`).
- `CallbackAlive`, `AwaitsNone`, `SizeExact`, `SkipsNothing`, `TypeCorrect` for every cluster.
- `HandledResult` and `NothingLeft`: with votes that are not split the result comes and the chunk is freed, in every cluster. With
  an odd number of nodes the votes are never split (`OddHandledResult`), with four they may be ([below](#disagreements)).
- `AckedConsensus` (`AckedHasConsensus`) for up to four nodes. With five the code does not keep it (finding 3).

**`AsyncStorageProofs`** (any keys, chunk size and number of writes, failures, copies and advices):

- `StorageInvariant`: the inductive invariant `IInv`. `ValueOK`: the disk, the chunk that is being
  written and the waiting ones, written one after the other, give what was written last, and those of the copy on top of
  it what the transaction wrote. `DiskOK`: once the chunk is written the disk has all of it, so
  that it may be forgotten. `PhaseOK`: a copy excludes a flush and a close, and a close clears an empty storage only.
  The lemmas under it say what chunks leave of a key when they are concatenated (`AllConcat`), that writing one again changes
  nothing (`AfterTwice`), and how many updates they have (`CountConcat`).
- `TotalExact` (`TotalIsExact`), `ItemsAreSafe` (`ItemsSurvive`).
- `ProxyInvariant`: ids grow along the chunks and the proxy has exactly what each of them leaves of its items, so the newest
  batch of a key is its last chunk. `UnflushedAreRead` (`UnflushedIsRead`) follows.

Two more theorems of `RaftElectionsProofs` rest on the control routine rather than on leases: `ElectionsFeedRoles`, the
refinement of `RoleFeed`, and `PingsAreOff` (`NoStalePingRoutine`). Their invariant `RoleInv` ties the role `Leader` to
the places of `clusterControlRoutine` where a node leads or has just stopped (`PhaseOK`), says that what was announced fits the
place (`InfoOK`), and that a node that does not lead has no ping routine unless it waits for them to end or has
stepped back within the present tick (`PingOK`).

**`WalTrackerProofs`** (any keys, servers, capacities and bounds on records and events):

- `WalInvariant`: the log agrees with the history of the LSNs. None of the four properties is inductive: what `Add` or `Set`
  does to a slot depends on which LSN the slot belongs to, and so on `walOffset_` and the length of the vector. `Shaped` says
  how these fit: the ring holds the last `n` LSNs, `walOffset_` is the position of the oldest, and the vector is shorter than the
  capacity only while it has not wrapped; from it follow that every LSN of the ring has a slot (`SlotOf`) and none shares it
  (`SlotsApart`, by arithmetic modulo the capacity). `SlotsTrue`, `EndTrue` and `StoredTrue` say that slots, last LSN and
  stored records are what the history says of their LSNs; a stored record of an overwritten position may be older than
  the ring and is still true, so that `InitWal` and a later `Resize` may read it. `Current` (an update in the ring is its item's
  newest) needs `ItemsTrue` of the items and of the disk, so that the LSN an item has leads `Add` and `Set` to its record.
- `OwnSlots` (`SlotIsOwn`), `CurrentUpdates` (`UpdateIsCurrent`), `TrueLastLsn` (`LastLsnIsTrue`).
- `LogInvariant` strengthens it for completeness: the items followed the history from `floor` on (`HistItems`), a slot above
  `floor` is blank only if its update is outdated (`Kept`), every other record from `resized` on is stored
  unless a record a turn of the ring newer took its place (`Backed`), so a restart misses none of the ring, and either an
  item or a stored record has the last LSN (`Top`), so it finds the counter again. `CompleteReplay` (`CompleteLog`) follows:
  the newest record of an item in the history is also the newest that is replayed.

Every method of the tracker has a lemma on what it leaves of the ring (`AddedToRing`, `Overwriting`, `Writing`, `Initialized`,
`Adding`, `Resizing`, `Rebuilding`) and one on the agreement with the history (`AddAgrees`, `SettingEmpty`, `InitAgrees`). The
records a force sync adds are a recursive function of their number; that it exists (`LogExists`) and what it
keeps (`RelogEnds`) are proved by the least counterexample, since the induction theorems of the library cannot be used.

*Only model-checked*: liveness (`RoleIsTaken`, `WriterReturns`, `Converges`, `EveryUpdateCounted`, `ItemsAreFlushed`: fairness is
out of the reach of TLAPS). Every invariant and action property that a passing run checks is stated by a theorem. The properties of the violation
runs (`OneLeaderPerTerm`, `ReadSeesLastWrite`, and `AckedHasConsensus` beyond four nodes) are false of the code and belong to the findings.

## Findings

1. `elections_split` (`cluster/raftmanager.cc:187`): two leaders of the same term. A ping of
   term 1, delayed past the receiver's `StartNewTerm`, sets its term from 2 back to 1; its
   answers of term 2 and those of the other candidate's term 2 both count. The leases are
   still exclusive.
2. `storage_copy` (`core/namespace/asyncstorage.h:257`): a meta value is set back. It was written into the
   chunks of a copy, or after a failed flush; the next one is written at once, and the flush of the chunk then
   overwrites it. Items are not concerned, they always go through the chunks (`ItemsSurvive`). The records of the log
   are written with `WriteSync` too (`wal/waltracker.cc:176`): after a failed flush one of them may wait in a chunk, be lost by a
   crash or set its position back. `WalTracker` stores them at once and does not show this.
3. `queue_five` (`updates/updatesqueue.h:76`): in a cluster of five, errors of three followers followed by
   the emitter's approve tell the writer of success with two copies. Up to four nodes a consensus of errors takes every
   follower, so none is left to approve after it, and `AckedHasConsensus` is a theorem (`AckedConsensus`).

The quotations these contradict are in `PROJECT.json`.

<a name="disagreements"></a>
## Other disagreements met

Each of these can be reproduced with the models, by the instance named here; no run of
the project is kept for them.

- `cluster/replication/roleswitcher.cc:138`: a node that leads, follows another one and leads again while its
  role switch thread is busy compares equal roles, starts no new initial sync and keeps the marks of the
  previous one, although "right after role switch node begins initial leader sync" (`src/replication.md:336`).
  `FollowingEndsSync` of `RoleSwitch` forbids it, and is violated under the fairness and the five role changes of `role_switch.cfg`:
  the role stays `Leader`, the mark is that of the first leadership and no sync begins.
- `updates/updatesqueue.h:87`: in a cluster of four, two copies and two errors give no
  result at all, and the writer waits until the role changes. The documentation
  (`src/replication.md:339`) has the leader go on until "an error in consensus". `queue_results.cfg` with three followers
  reaches it if `IsDecided` is left out of `HandledHasResult`. With an odd number of nodes it cannot happen (`OddHandledResult`).
- `wal/waltracker.h:117`: after a change of the capacity and a restart the ring may have
  lost records that were stored under the positions of the old capacity, yet `is_outdated` ("complete log is not available") says nothing of
  it. `CompleteLog` therefore holds from `floor` on; with `floor` left alone by `Restart` and five records
  (`MaxLsn = 5`) it is violated.

<a name="not-modelled"></a>
## What is not modelled

- Start, configuration changes and termination of the replicators.
- The propagation of a desired leader to the other nodes: the command may arrive at
  any commanded node.
- Waiting clients (`AwaitInitialSync`, `AwaitRole`) and the marks set by
  `OnNewNsAppearance`.
- The queue: a reader has one update in flight (batches are in `ReplNode`); `CountErased` is the counting of an erased
  update and the check whether its chunk is complete in one step (`updatesqueue.h:143` and `:145`).
- Replication threads: several namespaces per node and their synchronization tokens (`ns_sync_scheduler.h`), the sharding
  config, transactions (`replicationthread.cc:983`) and the closing of namespaces. What elections and role switches do to
  the routine: it leaves its loop when the node is no longer leader (`:923`), a change of the role requires a resync of every
  node (`SetNodesRequireResync`) and disconnects them unless the node leads (`clusterreplthread.cc:42`), and a consensus of errors ends
  the loop and asks for elections (`:1053`). The `Select` that refreshes the tags of a namespace before
  the first update after a sync (`:989`), which may fail like an update that is sent alone. A force sync
  is applied to a temporary namespace and renamed (`:797`); the model applies it with the last
  part of the snapshot. The requests of a synchronization fail with the connection, but do not time out and are not
  executed late. `ReplNode` is not composed with the counters of `UpdatesQueue`.
- Log: of the records those that concern items; the others (indexes, meta data, queries) are stored and lost like the truncation.
  Records are stored at once (finding 2). The deletion of an item that is not there, which a replica logs all the
  same (`namespaceimpl.cc:2562`), is left out. A force sync takes its records from a leader whose ring is complete and has the
  servers that wrote them; the empty records a leader has after its own restart carry its own server. The memory of the
  records and `heapSize` are left out.
- Storage: opening, destroying, cursors, switching the proxy at run time; a write of one chunk to LevelDB
  or RocksDB is atomic. `InheritUpdates` adds the totals of the two storages where the code adds the updates of each chunk
  (`asyncstorage.cc:110`), the same number as long as `TotalIsExact` holds.
- Namespaces beyond how they feed the log and the storage, queries, proxies, sharding, network, bindings: see the
  notes in `PROJECT.json`. Most of the repository is the query engine, its indexes and their algorithms over
  data; a model checker does not reach them in a useful size.

## Plan

In this order; the first three groups are done.

1. Done: `RaftElections` with `RoleFeed`, `RoleSwitch`, `UpdatesQueue`, `LeaderSync`; proofs of the lease, the quorum and
   the initial sync.
2. Done: `ReplNode` with the offline emitter, the synchronization list and the asynchronous mode; `WalTracker`;
   `AsyncStorage`; proofs of the reports of a node.
3. Done: proofs of `RoleSwitch`, `UpdatesQueue`, `AsyncStorage`, `WalTracker`, of the follower in `ReplNode`, and that
   `RaftElections` implements `RoleFeed`.
4. `LeaderSync` as the implementation of the sync phase of `RoleSwitch` (refinement); `ReplNode` composed with the
   counters of `UpdatesQueue`.
5. The waiting of clients in the cluster proxy, the network monitor of sharding, `Namespace::CommitTransaction`.
