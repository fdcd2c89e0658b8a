------------------------------ MODULE ReplNode ------------------------------
(***************************************************************************)
(* The routine of a replication thread for one node                        *)
(* (ReplThread::nodeReplicationRoutine): it brings one namespace of the    *)
(* follower to the leader's state by a snapshot, then sends it the online  *)
(* updates of the queue, the item updates in batches whose answers come    *)
(* later; after an error it waits, counting the updates it cannot send,    *)
(* and starts again.                                                       *)
(*                                                                         *)
(* The follower accepts an update only with the LSN it expects             *)
(* (NamespaceImpl::checkClusterStatus), so its state is the number of      *)
(* updates of the namespace that it has.  The connection may break: the    *)
(* requests on it fail at once, yet the follower may still execute them    *)
(* later; the next request logs in again if the follower can be reached.   *)
(* A request may also time out.  The counters of the queue's updates, the  *)
(* results sent to the writers and the erasure of chunks are those of      *)
(* UpdatesQueue; here it is counted what this node reports.                *)
(***************************************************************************)
EXTENDS Integers, FiniteSets, Sequences

CONSTANTS AsyncModes,  \* which of the two: asynchronous replication or a sync cluster
          Kinds,       \* of updates: item, ddl (not batched), other (namespace not in config)
          ChunkSize,   \* updates in a chunk of the queue (kBatchSize)
          Routines,    \* BatchingRoutinesCount
          MaxUpdates,  \* bound: updates written to the leader
          MaxFaults    \* bound: broken connections and timeouts

ASSUME ReplNodeAssumption ==
    /\ AsyncModes \subseteq BOOLEAN
    /\ Kinds \subseteq {"item", "ddl", "other"}
    /\ ChunkSize \in Nat \ {0} /\ Routines \in Nat \ {0}
    /\ MaxUpdates \in Nat /\ MaxFaults \in Nat

VARIABLES
    async,                          \* the behaviour parameter of the thread
    lsn,                            \* the last LSN of the namespace on the leader
    log, dropped,                   \* the queue: all updates, the last id of the drop block
    pc, err, res,                   \* the routine, its error, the result of the updates loop
    nextUpdateId, chunkEnd,         \* Node::nextUpdateId, the end of the chunk being read
    latestLsn, requireResync,       \* NamespaceData::latestLsn, Node::requireResync
    awaits, notified,               \* the queue's awaitsData, Node::updateNotifier
    remote, snapTo,                 \* the follower's state as known, the snapshot's last LSN
    inflight,                       \* the batched updates without a processed answer
    synced,                         \* SynchronizationList: this node's entry
    counted,                        \* OnUpdateHandled calls of this node, by update
    flsn, late,                     \* the follower: its last LSN, requests of old connections
    up, faults                      \* the follower can be reached, faults so far

leaderVars == <<lsn, log, dropped>>
syncVars == <<remote, snapTo>>
readVars == <<nextUpdateId, chunkEnd>>
wakeVars == <<awaits, notified>>
followerVars == <<flsn, late, up, faults>>
vars == <<async, leaderVars, pc, err, res, readVars, latestLsn, requireResync, wakeVars,
          syncVars, inflight, synced, counted, followerVars>>

kUnsynchronizedID == -2
Ids == 1 .. Len(log)
InConfig(i) == log[i].kind \in {"item", "ddl"}
NewUpdate(kind, n, isEmitter) == [kind |-> kind, lsn |-> n, isEmitter |-> isEmitter]
Uncounted == [ok |-> 0, err |-> 0]

ChunkEndOf(id) == ((id - 1) \div ChunkSize + 1) * ChunkSize

-----------------------------------------------------------------------------
(* The leader's queue.                                                     *)

(* A push wakes the routine if its latest read found nothing. *)
Enqueued(u) ==
    /\ log' = Append(log, u)
    /\ counted' = Append(counted, Uncounted)
    /\ awaits' = FALSE
    /\ notified' = (notified \/ awaits)

(* The namespace's lock is held until its update is in the queue. *)
Write(kind, isEmitter) ==
    /\ lsn + Cardinality({i \in Ids : log[i].kind = "other"}) <= MaxUpdates
    /\ isEmitter => ~async /\ kind # "other"
    /\ kind = "other" => async
    /\ lsn' = IF kind = "other" THEN lsn ELSE lsn + 1
    /\ Enqueued(NewUpdate(kind, lsn', isEmitter))
    /\ UNCHANGED <<async, dropped, pc, err, res, readVars, latestLsn, requireResync,
                   syncVars, inflight, synced, followerVars>>

(* Full chunks are dropped once the writers have their results, and a writer *)
(* has none before its emitter reported.                                     *)
DropUpdates(d) ==
    /\ d > dropped
    /\ d % ChunkSize = 0
    /\ \A i \in 1 .. d : log[i].isEmitter => counted[i] # Uncounted
    /\ dropped' = d
    /\ UNCHANGED <<async, lsn, log, pc, err, res, readVars, latestLsn, requireResync,
                   wakeVars, syncVars, inflight, synced, counted, followerVars>>

-----------------------------------------------------------------------------
(* The follower and the connection.                                        *)

Accepts(n) == n = flsn + 1

(* The requests of a connection are executed in the order they were sent. *)
FollowerApplies(k) ==
    /\ k \in DOMAIN inflight /\ inflight[k].st = "sent"
    /\ \A j \in 1 .. k - 1 : inflight[j].st # "sent"
    /\ up
    /\ inflight' = [inflight EXCEPT ![k].st =
                        IF Accepts(log[inflight[k].id].lsn) THEN "ok" ELSE "data"]
    /\ flsn' = IF Accepts(log[inflight[k].id].lsn) THEN flsn + 1 ELSE flsn
    /\ UNCHANGED <<async, leaderVars, pc, err, res, readVars, latestLsn, requireResync,
                   wakeVars, syncVars, synced, counted, late, up, faults>>

(* A request whose answer nobody awaits any more is executed. *)
LateRequest ==
    /\ late # <<>>
    /\ late' = Tail(late)
    /\ flsn' = IF Accepts(Head(late)) THEN flsn + 1 ELSE flsn
    /\ UNCHANGED <<async, leaderVars, pc, err, res, readVars, latestLsn, requireResync,
                   wakeVars, syncVars, inflight, synced, counted, up, faults>>

LsnsOf(reqs) == [k \in DOMAIN reqs |-> log[reqs[k].id].lsn]

(* The requests without an answer are the last ones, for the answers come in *)
(* order; those up to the n-th reached the follower, at most one a routine.  *)
FirstSent == Len(inflight) + 1 - Cardinality({k \in DOMAIN inflight : inflight[k].st = "sent"})
Sent(n) == SubSeq(inflight, FirstSent, n)

(* The connection state observer: the node needs a resync, and a network    *)
(* check record (offline) in the queue wakes the routine.                   *)
ConnectionBreaks ==
    /\ up /\ faults < MaxFaults
    /\ faults' = faults + 1
    /\ up' = FALSE
    /\ \E n \in 0 .. Len(inflight) :
           n < FirstSent + Routines /\ late' = late \o LsnsOf(Sent(n))
    /\ inflight' = [k \in DOMAIN inflight |->
                      IF inflight[k].st = "sent" THEN [inflight[k] EXCEPT !.st = "net"]
                      ELSE inflight[k]]
    /\ requireResync' = TRUE
    /\ Enqueued(NewUpdate("offline", 0, FALSE))
    /\ UNCHANGED <<async, lsn, dropped, pc, err, res, readVars, latestLsn, syncVars,
                   synced, flsn>>

(* The leader of a cluster pings the nodes and pushes a check record when   *)
(* one is back, unless the ping did not miss it.                            *)
NetworkReturns ==
    /\ ~up
    /\ up' = TRUE
    /\ \/ ~async /\ Enqueued(NewUpdate("online", 0, FALSE))
       \/ UNCHANGED <<log, counted, wakeVars>>
    /\ UNCHANGED <<async, lsn, dropped, pc, err, res, readVars, latestLsn,
                   requireResync, syncVars, inflight, synced, flsn, late, faults>>

RequestTimesOut(k) ==
    /\ faults < MaxFaults
    /\ k \in DOMAIN inflight /\ inflight[k].st = "sent"
    /\ \A j \in 1 .. k - 1 : inflight[j].st # "sent"
    /\ faults' = faults + 1
    /\ inflight' = [inflight EXCEPT ![k].st = "timeout"]
    /\ late' = Append(late, log[inflight[k].id].lsn)
    /\ UNCHANGED <<async, leaderVars, pc, err, res, readVars, latestLsn, requireResync,
                   wakeVars, syncVars, synced, counted, flsn, up>>

-----------------------------------------------------------------------------
(* The routine: synchronizing the namespace.                               *)

(* MarkSynchronized and MarkUnsynchonized: clusters only *)
Mark(id) == synced' = IF async THEN synced ELSE id

(* An attempt fails: the node is marked and the routine waits. *)
Fails(e) ==
    /\ pc' = "wait"
    /\ err' = e
    /\ Mark(kUnsynchronizedID)

NoConnection ==
    /\ pc \in {"start", "apply"} /\ ~up
    /\ Fails("net")
    /\ UNCHANGED <<async, leaderVars, res, readVars, latestLsn, requireResync, wakeVars,
                   syncVars, inflight, counted, followerVars>>

\* Mutant: the request for a resync is dropped after the resync, not before.
ClearResyncLate == UNCHANGED requireResync

ClearResync == requireResync' = FALSE

(* nodeReplicationImpl begins: what was known of the namespace is forgotten *)
(* and the follower's state is asked for.                                   *)
GetReplState ==
    /\ pc = "start" /\ up
    /\ pc' = "snapshot"
    /\ ClearResync
    /\ latestLsn' = 0
    /\ remote' = flsn
    /\ UNCHANGED <<async, leaderVars, err, res, readVars, wakeVars, snapTo, inflight,
                   synced, counted, followerVars>>

GetSnapshot ==
    /\ pc = "snapshot"
    /\ pc' = "apply"
    /\ snapTo' = lsn
    /\ UNCHANGED <<async, leaderVars, err, res, readVars, latestLsn, requireResync,
                   wakeVars, remote, inflight, synced, counted, followerVars>>

(* A chunk of one record.  The follower refuses it if a late request was    *)
(* executed in between.                                                     *)
ApplySnapshotChunk ==
    /\ pc = "apply" /\ up /\ remote < snapTo /\ flsn = remote
    /\ flsn' = flsn + 1
    /\ remote' = remote + 1
    /\ UNCHANGED <<async, leaderVars, pc, err, res, readVars, latestLsn, requireResync,
                   wakeVars, snapTo, inflight, synced, counted, late, up, faults>>

(* The rejected chunk is a logic error: the routine retries, or, with       *)
(* ForceSyncOnLogicError, replaces the namespace by a new snapshot.         *)
ChunkRejected ==
    /\ pc = "apply" /\ up /\ remote < snapTo /\ flsn # remote
    /\ \/ /\ Fails("logic")
          /\ UNCHANGED <<latestLsn, flsn>>
       \/ /\ pc' = "loop"
          /\ flsn' = lsn /\ latestLsn' = lsn
          /\ UNCHANGED <<err, synced>>
    /\ UNCHANGED <<async, leaderVars, res, readVars, requireResync, wakeVars, syncVars,
                   inflight, counted, late, up, faults>>

(* The follower's state must be that of the snapshot, or else it is         *)
(* replaced by a new one.                                                   *)
SnapshotApplied ==
    /\ pc = "apply" /\ up /\ remote = snapTo
    /\ pc' = "loop"
    /\ flsn' = IF flsn = snapTo THEN flsn ELSE lsn
    /\ latestLsn' = flsn'
    /\ UNCHANGED <<async, leaderVars, err, res, readVars, requireResync, wakeVars,
                   syncVars, inflight, synced, counted, late, up, faults>>

-----------------------------------------------------------------------------
(* The updates handling loop.                                              *)

Resync ==
    /\ pc = "loop" /\ requireResync
    /\ pc' = "start"
    /\ UNCHANGED <<async, leaderVars, err, res, readVars, latestLsn, requireResync,
                   wakeVars, syncVars, inflight, synced, counted, followerVars>>

\* Mutant: the id after the block is taken for that after the next chunk.
AfterNextChunk == dropped + 1 + ChunkSize

AfterDropBlock == dropped + 1

\* Mutant: the routine goes on with the updates after the block.
ContinueAfterDrop == pc' = "loop"

ResyncOnUpdatesDrop == pc' = "start"

ReadDropBlock ==
    /\ pc = "loop" /\ ~requireResync
    /\ nextUpdateId <= dropped
    /\ nextUpdateId' = AfterDropBlock
    /\ ResyncOnUpdatesDrop
    /\ UNCHANGED <<async, leaderVars, err, res, chunkEnd, latestLsn, requireResync,
                   wakeVars, syncVars, inflight, synced, counted, followerVars>>

(* OnAllUpdatesReplicated, if no notification is pending *)
ReadNothing ==
    /\ pc = "loop" /\ ~requireResync
    /\ nextUpdateId > Len(log)
    /\ pc' = "idle"
    /\ awaits' = TRUE
    /\ IF notified THEN UNCHANGED synced ELSE Mark(nextUpdateId - 1)
    /\ UNCHANGED <<async, leaderVars, err, res, readVars, latestLsn, requireResync,
                   notified, syncVars, inflight, counted, followerVars>>

Awake ==
    /\ pc = "idle" /\ notified
    /\ notified' = FALSE
    /\ pc' = "loop"
    /\ UNCHANGED <<async, leaderVars, err, res, readVars, latestLsn, requireResync,
                   awaits, syncVars, inflight, synced, counted, followerVars>>

ReadChunk ==
    /\ pc = "loop" /\ ~requireResync
    /\ nextUpdateId > dropped /\ nextUpdateId <= Len(log)
    /\ pc' = "chunk"
    /\ res' = "ok"
    /\ chunkEnd' = ChunkEndOf(nextUpdateId)
    /\ UNCHANGED <<async, leaderVars, err, nextUpdateId, latestLsn, requireResync,
                   wakeVars, syncVars, inflight, synced, counted, followerVars>>

HasUpdate == nextUpdateId > dropped /\ nextUpdateId <= Len(log) /\ nextUpdateId <= chunkEnd

(* The chunk is read to its end, or it was dropped meanwhile. *)
ChunkEnds ==
    /\ pc = "chunk" /\ ~HasUpdate
    /\ pc' = "drain"
    /\ UNCHANGED <<async, leaderVars, err, res, readVars, latestLsn, requireResync,
                   wakeVars, syncVars, inflight, synced, counted, followerVars>>

CountOk(i) == counted' = [counted EXCEPT ![i].ok = @ + 1]
CountErr(i) == counted' = [counted EXCEPT ![i].err = @ + 1]

IsNetworkCheck(i) == log[i].kind \in {"online", "offline"}

(* The node is online here: only news of the contrary are checked.  The      *)
(* record is counted in any case.                                            *)
HandleNetworkCheck ==
    LET ok == up \/ log[nextUpdateId].kind = "online" IN
    /\ pc = "chunk" /\ HasUpdate /\ IsNetworkCheck(nextUpdateId)
    /\ CountOk(nextUpdateId)
    /\ nextUpdateId' = nextUpdateId + 1
    /\ res' = IF ok THEN "ok" ELSE "net"
    /\ pc' = IF ok THEN "chunk" ELSE "drain"
    /\ UNCHANGED <<async, leaderVars, err, chunkEnd, latestLsn, requireResync, wakeVars,
                   syncVars, inflight, synced, followerVars>>

\* Mutant: the update right after the snapshot is taken for one of it.
OutdatedOffByOne(i) == log[i].lsn <= latestLsn + 1

IsOutdatedRecord(i) == log[i].lsn <= latestLsn

(* Of a namespace the node does not replicate, or in the snapshot already *)
SkipUpdate ==
    /\ pc = "chunk" /\ HasUpdate
    /\ \/ log[nextUpdateId].kind = "other"
       \/ InConfig(nextUpdateId) /\ IsOutdatedRecord(nextUpdateId)
    /\ CountOk(nextUpdateId)
    /\ nextUpdateId' = nextUpdateId + 1
    /\ UNCHANGED <<async, leaderVars, pc, err, res, chunkEnd, latestLsn, requireResync,
                   wakeVars, syncVars, inflight, synced, followerVars>>

(* An item update is batched, another one awaits the batched ones. *)
NextUpdate ==
    /\ pc = "chunk" /\ HasUpdate
    /\ InConfig(nextUpdateId) /\ ~IsOutdatedRecord(nextUpdateId)
    /\ pc' = IF log[nextUpdateId].kind = "item" THEN "batch" ELSE "await"
    /\ nextUpdateId' = nextUpdateId + 1
    /\ UNCHANGED <<async, leaderVars, err, res, chunkEnd, latestLsn, requireResync,
                   wakeVars, syncVars, inflight, synced, counted, followerVars>>

Request(i) == [id |-> i, st |-> IF up THEN "sent" ELSE "net"]

(* Batch takes the answers that are there before it sends; one update may    *)
(* wait in updatesCh_ for a routine.                                         *)
HasAnswer == inflight # <<>> /\ Head(inflight).st # "sent"
MustTakeAnswer == HasAnswer \/ Len(inflight) > Routines

Batch ==
    /\ pc = "batch" /\ ~MustTakeAnswer
    /\ pc' = "chunk"
    /\ inflight' = Append(inflight, Request(nextUpdateId - 1))
    /\ UNCHANGED <<async, leaderVars, err, res, readVars, latestLsn, requireResync,
                   wakeVars, syncVars, synced, counted, followerVars>>

\* Mutant: an answer marks the node whatever it is.
AnswerAlwaysMarks(a) ==
    /\ IF a.st = "ok" THEN CountOk(a.id) ELSE CountErr(a.id)
    /\ Mark(a.id)

CountAnswer(a) ==
    IF a.st = "ok" THEN CountOk(a.id) /\ Mark(a.id)
                   ELSE CountErr(a.id) /\ UNCHANGED synced

(* onUpdateResult_: the oldest answer is counted, and latestLsn moves even   *)
(* if it is an error.                                                        *)
TakeAnswer ==
    /\ HasAnswer
    /\ inflight' = Tail(inflight)
    /\ latestLsn' = log[Head(inflight).id].lsn
    /\ CountAnswer(Head(inflight))
    /\ res' = IF res = "ok" THEN Head(inflight).st ELSE res

\* Mutant: the update that could not be sent is not read again.
RewindNot == UNCHANGED nextUpdateId

\* Mutant: the failed update is read again, not the one that could not be sent.
RewindToFailed == nextUpdateId' = Head(inflight).id

(* "Have to read this update again" *)
Rewind == nextUpdateId' = nextUpdateId - 1

BatchTakesAnswer ==
    /\ pc = "batch" /\ MustTakeAnswer
    /\ TakeAnswer
    /\ IF res' = "ok" THEN UNCHANGED <<pc, nextUpdateId>> ELSE pc' = "drain" /\ Rewind
    /\ UNCHANGED <<async, leaderVars, err, chunkEnd, requireResync, wakeVars, syncVars,
                   followerVars>>

(* AwaitBatchedUpdates takes all of them, before an update that is then sent *)
(* alone ...                                                                 *)
AwaitTakesAnswer ==
    /\ pc = "await"
    /\ TakeAnswer
    /\ IF inflight' # <<>> \/ res' = "ok" THEN UNCHANGED <<pc, nextUpdateId>>
       ELSE pc' = "drain" /\ Rewind
    /\ UNCHANGED <<async, leaderVars, err, chunkEnd, requireResync, wakeVars, syncVars,
                   followerVars>>

ApplyUpdate ==
    /\ pc = "await" /\ inflight = <<>>
    /\ inflight' = <<Request(nextUpdateId - 1)>>
    /\ pc' = "call"
    /\ UNCHANGED <<async, leaderVars, err, res, readVars, latestLsn, requireResync,
                   wakeVars, syncVars, synced, counted, followerVars>>

(* ... and answered: an error does not move latestLsn. *)
UpdateApplied ==
    LET a == Head(inflight) IN
    /\ pc = "call" /\ HasAnswer
    /\ inflight' = <<>>
    /\ res' = a.st
    /\ CountAnswer(a)
    /\ IF a.st = "ok" THEN latestLsn' = log[a.id].lsn /\ pc' = "chunk"
                      ELSE pc' = "drain" /\ UNCHANGED latestLsn
    /\ UNCHANGED <<async, leaderVars, err, readVars, requireResync, wakeVars, syncVars,
                   followerVars>>

(* The answers that are left at the end of the chunk *)
DrainTakesAnswer ==
    /\ pc = "drain" /\ inflight # <<>>
    /\ TakeAnswer
    /\ UNCHANGED <<async, leaderVars, pc, err, readVars, requireResync, wakeVars,
                   syncVars, followerVars>>

Drained ==
    /\ pc = "drain" /\ inflight = <<>>
    /\ IF res = "ok" THEN pc' = "loop" /\ UNCHANGED <<err, synced>> ELSE Fails(res)
    /\ UNCHANGED <<async, leaderVars, res, readVars, latestLsn, requireResync, wakeVars,
                   syncVars, inflight, counted, followerVars>>

-----------------------------------------------------------------------------
(* The wait before the next attempt.                                       *)

\* Mutant: the emitter's own update is given up like any other.
KeepNothing(i) == FALSE

(* The update of an emitter is kept for it. *)
KeptForEmitter(i) == log[i].isEmitter

(* handleUpdatesWithError goes on to the first update that this node        *)
(* emitted, which is kept, or to the news that the node is online again,    *)
(* or else to the end.  Updates of namespaces that are not in the config of *)
(* the node are passed over.                                                *)
HandleUpdatesWithError ==
    LET from == IF nextUpdateId <= dropped THEN dropped + 1 ELSE nextUpdateId
        stop == {i \in from .. Len(log) : KeptForEmitter(i) \/ (log[i].kind = "online" /\ up)}
        last == IF stop = {} THEN Len(log) ELSE CHOOSE i \in stop : \A j \in stop : i <= j
        to == IF stop # {} /\ KeptForEmitter(last) THEN last - 1 ELSE last
    IN /\ pc = "wait" /\ err \in {"net", "data"}
       /\ notified' = FALSE
       /\ nextUpdateId' = to + 1
       /\ counted' = [i \in Ids |->
                        IF i \notin from .. to \/ log[i].kind = "other" THEN counted[i]
                        ELSE IF IsNetworkCheck(i) THEN [counted[i] EXCEPT !.ok = @ + 1]
                        ELSE [counted[i] EXCEPT !.err = @ + 1]]
       /\ IF stop # {} THEN pc' = "start" /\ err' = "none" /\ UNCHANGED awaits
                       ELSE awaits' = TRUE /\ UNCHANGED <<pc, err>>
       /\ UNCHANGED <<async, leaderVars, res, chunkEnd, latestLsn, requireResync, syncVars,
                      inflight, synced, followerVars>>

(* The client is connected anew; whether that works shows in the next       *)
(* request.                                                                 *)
Retry ==
    /\ pc = "wait"
    /\ pc' = "start"
    /\ err' = "none"
    /\ UNCHANGED <<async, leaderVars, res, readVars, latestLsn, requireResync, wakeVars,
                   syncVars, inflight, synced, counted, followerVars>>

-----------------------------------------------------------------------------
(* The leader has one record more or as many as the follower at the start. *)
Init ==
    /\ async \in AsyncModes
    /\ lsn = 1 /\ log = <<>> /\ dropped = 0
    /\ pc = "start" /\ err = "none" /\ res = "ok"
    /\ nextUpdateId = 1 /\ chunkEnd = 0 /\ latestLsn = 0 /\ requireResync = FALSE
    /\ awaits = FALSE /\ notified = FALSE
    /\ remote = 0 /\ snapTo = 0 /\ inflight = <<>>
    /\ synced = kUnsynchronizedID /\ counted = <<>>
    /\ flsn \in {0, 1} /\ late = <<>> /\ up = TRUE /\ faults = 0

Leader ==
    \/ \E kind \in Kinds, isEmitter \in BOOLEAN : Write(kind, isEmitter)
    \/ \E d \in Ids : DropUpdates(d)

Follower == LateRequest \/ \E k \in DOMAIN inflight : FollowerApplies(k)

Faults == ConnectionBreaks \/ NetworkReturns \/ \E k \in DOMAIN inflight : RequestTimesOut(k)

Sync ==
    \/ NoConnection \/ GetReplState \/ GetSnapshot
    \/ ApplySnapshotChunk \/ ChunkRejected \/ SnapshotApplied

Loop ==
    \/ Resync \/ ReadDropBlock \/ ReadNothing \/ Awake \/ ReadChunk \/ ChunkEnds
    \/ HandleNetworkCheck \/ SkipUpdate \/ NextUpdate
    \/ Batch \/ BatchTakesAnswer \/ AwaitTakesAnswer
    \/ ApplyUpdate \/ UpdateApplied \/ DrainTakesAnswer \/ Drained

Next ==
    \/ Leader \/ Follower \/ Faults
    \/ Sync \/ Loop
    \/ HandleUpdatesWithError \/ Retry

Spec == Init /\ [][Next]_vars

(* The routine and the follower's server keep running, the wait ends, and a  *)
(* follower that cannot be reached comes back.                               *)
FairSpec ==
    /\ Spec
    /\ WF_vars(Follower)
    /\ WF_vars(Sync) /\ WF_vars(Loop) /\ WF_vars(Retry)
    /\ WF_vars(NetworkReturns)

-----------------------------------------------------------------------------
(* Properties.                                                             *)

TypeOK ==
    /\ async \in AsyncModes
    /\ lsn \in 1 .. MaxUpdates + 1 /\ flsn \in 0 .. lsn
    /\ Len(log) <= MaxUpdates + 2 * MaxFaults /\ dropped \in 0 .. Len(log)
    /\ pc \in {"start", "snapshot", "apply", "loop", "idle", "chunk", "batch", "await",
              "call", "drain", "wait"}
    /\ err \in {"none", "net", "data", "timeout", "logic"}
    /\ res \in {"ok", "net", "data", "timeout"}
    /\ nextUpdateId \in 1 .. Len(log) + 1 /\ chunkEnd \in Nat
    /\ latestLsn \in 0 .. lsn /\ snapTo \in 0 .. lsn /\ remote \in 0 .. lsn
    /\ \A k \in DOMAIN inflight : inflight[k].id \in Ids
    /\ synced \in {kUnsynchronizedID} \cup 0 .. Len(log)
    /\ DOMAIN counted = Ids

Counts(i) == counted[i].ok + counted[i].err

(* A node reports on an update at most once: a second report would let one   *)
(* follower stand for two in the consensus.  Failed, batched, rewound and     *)
(* given up updates all come by the same ids.                                 *)
CountedOnce == \A i \in Ids : Counts(i) <= 1

(* What the node counted as replicated is on the follower, be it sent, be it *)
(* skipped because a snapshot had it.                                        *)
OkIsApplied ==
    \A i \in Ids : counted[i].ok = 1 /\ InConfig(i) => log[i].lsn <= flsn

(* No update is passed over: what lies behind nextUpdateId was reported, is   *)
(* on its way, or was in a dropped block (and the namespace is synchronized   *)
(* again).  So a batched update that fails after later ones were sent loses   *)
(* none of them.                                                              *)
NothingPassedOver ==
    \A i \in 1 .. nextUpdateId - 1 :
        InConfig(i) /\ i > dropped =>
            \/ Counts(i) = 1
            \/ \E k \in DOMAIN inflight : inflight[k].id = i
            \/ pc \in {"batch", "await"} /\ i = nextUpdateId - 1

(* The synchronization list, from which the elections of a new leader take   *)
(* the nodes that are up to date: the follower has every update up to its    *)
(* entry, although entries are set by batched answers and by the idle loop.  *)
SyncMarkIsTrue ==
    ~async => \A i \in Ids : i <= synced /\ InConfig(i) => log[i].lsn <= flsn

(* A writer gets its result only with its emitter's report, and that report  *)
(* is a failure only if the update was really sent to it.                    *)
EmitterIsAsked ==
    [][\A i \in Ids : log[i].isEmitter /\ counted'[i].err > counted[i].err =>
           \E k \in DOMAIN inflight : inflight[k].id = i]_vars

(* Once writes and faults end, the follower gets the leader's state and keeps *)
(* it, whatever was lost, late, dropped or refused before.                    *)
Converges == <>[](flsn = lsn)

(* Every update is reported, so no writer waits for this node forever; the   *)
(* update that an offline emitter wrote is kept until it is back.            *)
EveryUpdateCounted ==
    \A i \in 1 .. MaxUpdates + 2 * MaxFaults :
        (i \in Ids /\ InConfig(i)) ~> (i \in Ids /\ (Counts(i) = 1 \/ dropped >= i))
=============================================================================
