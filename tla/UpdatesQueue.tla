---------------------------- MODULE UpdatesQueue ----------------------------
(***************************************************************************)
(* updates::UpdatesQueue, the queue of online updates of a sync cluster's  *)
(* leader: writers push updates and wait for the consensus, one            *)
(* replication thread per follower reads them, sends them and counts the   *)
(* outcome, the raft thread makes the queue writable or not.               *)
(*                                                                         *)
(* Push, Read, SetWritable and onResult hold the queue's mutex and are one *)
(* step each; eraseReplicated gives it up after every chunk it erases.     *)
(* The counters of an update and of its chunk are atomics changed without  *)
(* the mutex, and the readers keep pointers to chunks that may have left   *)
(* the queue, also while an update is on its way to the follower: sending  *)
(* an update and the steps of OnUpdateHandled are separate.                *)
(***************************************************************************)
EXTENDS Integers, FiniteSets

CONSTANTS
    Followers,    \* the nodes the leader replicates to
    Emitters,     \* bound: the followers that proxy writes to the leader
    NoEmitter,
    Writers,      \* bound: the threads in PushAndWait, one call each
    NoWriter,
    PushSizes,    \* bound: the number of updates of one PushAndWait
    AsyncSizes,   \* bound: the number of updates of one PushAsync
    BatchSize,    \* kBatchSize
    MaxDataSize,  \* MaxDataSize; an update has size 1, an empty chunk 1
    MaxChunks,    \* bound: the number of chunks
    MaxSwitches   \* bound: the number of calls of SetWritable

\* The minimal size of a cluster is 3 nodes (clusterdatareplicator.cc:63).
ASSUME UpdatesQueueAssumption ==
    /\ IsFiniteSet(Followers) /\ Cardinality(Followers) >= 2
    /\ IsFiniteSet(Writers)
    /\ Emitters \subseteq Followers /\ NoEmitter \notin Followers /\ NoWriter \notin Writers
    /\ PushSizes \subseteq Nat \ {0} /\ AsyncSizes \subseteq Nat \ {0}
    /\ BatchSize \in Nat \ {0} /\ MaxChunks \in Nat \ {0}
    /\ MaxDataSize \in Nat /\ MaxSwitches \in Nat

VARIABLES
    firstChunkID, nextChunkID,           \* queue_: its chunks have consecutive ids; nextChunkID_
    dataSize,                            \* dataSize_
    invalidated, switches,               \* invalidated_, calls of SetWritable so far
    dropRecord,                          \* the id of updatedDropRecord_, -1 without it
    chunk,                               \* QueueEntry: its counters, by chunk id
    upd,                                 \* Value: its counters and callback, by update id
    writer,                              \* the locals of PushAndWait
    nextUpdateId, ptr, awaits,           \* a reader: its position, chunk, awaitsData
    status                               \* a reader's update: what there is to do for it

queueVars == <<firstChunkID, nextChunkID, dataSize, dropRecord>>
readerVars == <<nextUpdateId, ptr, awaits>>
vars == <<queueVars, invalidated, switches, chunk, upd, writer, readerVars, status>>

ChunkIds == {i * BatchSize : i \in 0..(MaxChunks - 1)}
Ids == 0..(MaxChunks * BatchSize - 1)
NoChunk == -1
Idle == [id |-> -1, sent |-> FALSE, ok |-> TRUE, result |-> FALSE, erase |-> FALSE,
         sweep |-> FALSE]

NodesCount == Cardinality(Followers) + 1
ConsensusCnt == NodesCount \div 2 + 1
RequiredReplicas == NodesCount - 1

ChunkOf(id) == (id \div BatchSize) * BatchSize
ChunksIn(from, to) == {c \in ChunkIds : from <= c /\ c < to}
TotalSizeBytes(c, ch) == 1 + ch[c].count
IsFull(c, ch) == ch[c].count = BatchSize
IsAllResultsSent(c, ch) == ch[c].resultsSent = ch[c].count
IsFullyErased(c, ch) == ch[c].erased = BatchSize
IsEmpty == firstChunkID = nextChunkID
InQueue(c) == firstChunkID <= c /\ c < nextChunkID
Back == nextChunkID - BatchSize
GetNextUpdateID == IF IsEmpty THEN nextChunkID ELSE Back + chunk[Back].count

----------------------------------------------------------------------------
(* Results                                                                 *)

\* The callback of PushAndWait, called for the updates in ids.  (onResult_ is
\* reset by the caller.)
Notified(wr, ids, ok) ==
    [w \in Writers |->
        LET mine == Cardinality({i \in ids : upd[i].onResult = w})
        IN [wr[w] EXCEPT !.executed = @ + mine, !.ok = @ /\ (ok \/ mine = 0)]]

\* Mutant: the chunk at the front is erased when all of it was replicated,
\* though a result is still to be sent.
ErasableEarly(c, ch) == IsFullyErased(c, ch)

Erasable(c, ch) == IsAllResultsSent(c, ch) /\ IsFullyErased(c, ch)

\* One turn of the loop of eraseReplicated
EraseReplicated(ch) ==
    IF ~IsEmpty /\ Erasable(firstChunkID, ch)
    THEN /\ firstChunkID' = firstChunkID + BatchSize
         /\ dataSize' = dataSize - TotalSizeBytes(firstChunkID, ch)
    ELSE UNCHANGED <<firstChunkID, dataSize>>

----------------------------------------------------------------------------
(* The writers and the raft thread                                         *)

HasRoom(k) == GetNextUpdateID + k <= MaxChunks * BatchSize

\* Mutant: a chunk takes more updates than it has room for.
CountAbove(c, to) == to - c

\* addDataImpl: the updates of a chunk of the queue once all before to are in it
CountBelow(c, to) == IF to >= c + BatchSize THEN BatchSize ELSE to - c

\* append, for the updates in ids
Appended(ids, emitter, w) ==
    [i \in Ids |->
        IF i \in ids
        THEN [upd[i] EXCEPT !.emitter = emitter, !.onResult = w,
                            !.replicatedToEmitter = emitter = NoEmitter]
        ELSE upd[i]]

\* Mutant: the readers are not notified.
NotifyNobody == UNCHANGED awaits

\* notifyAll: the flag is reset as the notifier is called.
NotifyAll == awaits' = [f \in Followers |-> FALSE]

\* Mutant: the size of the chunks themselves is forgotten.
DroppedData(d) == d - firstChunkID

\* The chunks before d, all of them full
DroppedSize(d) == Cardinality(ChunksIn(firstChunkID, d)) + d - firstChunkID

Droppable(c, ch) == IsAllResultsSent(c, ch) /\ IsFull(c, ch)

\* dropOverflowingUpdates: d is the first chunk that stays of a queue of the
\* given size that ends before end.
DropsUpTo(d, end, size, ch) ==
    IF /\ MaxDataSize > 0 /\ size > MaxDataSize
       /\ firstChunkID + BatchSize < end /\ IsAllResultsSent(firstChunkID, ch)
    THEN /\ firstChunkID <= d /\ d <= end
         /\ \A c \in ChunksIn(firstChunkID, d) : Droppable(c, ch)
         /\ d < end => ~Droppable(d, ch)
    ELSE d = firstChunkID

\* addDataToQueue: adds k updates, drops the overflowing chunks and notifies
\* the readers that await data.
AddDataToQueue(k, emitter, w) ==
    LET from == GetNextUpdateID
        to == from + k
        end == ChunkOf(to - 1) + BatchSize
        size == dataSize + k + Cardinality(ChunksIn(nextChunkID, end))
        ch == [c \in ChunkIds |->
                  IF firstChunkID <= c /\ c < end
                  THEN [chunk[c] EXCEPT !.count = CountBelow(c, to)] ELSE chunk[c]]
    IN /\ nextChunkID' = end
       /\ upd' = Appended(from..(to - 1), emitter, w)
       /\ \E d \in ChunkIds \cup {end} :
            /\ DropsUpTo(d, end, size, ch)
            /\ firstChunkID' = d
            /\ dataSize' = size - DroppedSize(d)
            /\ chunk' = [c \in ChunkIds |->
                            [ch[c] EXCEPT !.invalidated = @ \/ c \in ChunksIn(firstChunkID, d)]]
            /\ dropRecord' = IF d > firstChunkID THEN d - 1 ELSE dropRecord
       /\ NotifyAll

\* PushAndWait up to its wait; a queue that is not writable refuses.
PushAndWait(w, k, emitter) ==
    /\ writer[w].state = "idle"
    /\ HasRoom(k)
    /\ IF invalidated
       THEN /\ writer' = [writer EXCEPT ![w].state = "refused"]
            /\ UNCHANGED <<queueVars, chunk, upd, awaits>>
       ELSE /\ writer' = [writer EXCEPT ![w].state = "waiting", ![w].dataSize = k,
                                             ![w].first = GetNextUpdateID]
            /\ AddDataToQueue(k, emitter, w)
    /\ UNCHANGED <<invalidated, switches, nextUpdateId, ptr, status>>

\* condResultReady_.wait() returns
Return(w) ==
    /\ writer[w].state = "waiting"
    /\ writer[w].executed = writer[w].dataSize
    /\ writer' = [writer EXCEPT ![w].state = "done"]
    /\ UNCHANGED <<queueVars, invalidated, switches, chunk, upd, readerVars, status>>

\* PushAsync<false>: nobody waits for the result.
PushAsync(k) ==
    /\ ~invalidated
    /\ HasRoom(k)
    /\ AddDataToQueue(k, NoEmitter, NoWriter)
    /\ UNCHANGED <<invalidated, switches, writer, nextUpdateId, ptr, status>>

\* SetWritable(false): every writer gets the error, the queue is emptied.
SetUnwritable ==
    LET ids == {i \in Ids : InQueue(ChunkOf(i)) /\ i < ChunkOf(i) + chunk[ChunkOf(i)].count}
    IN /\ switches < MaxSwitches
       /\ switches' = switches + 1
       /\ invalidated' = TRUE
       /\ writer' = Notified(writer, ids, FALSE)
       /\ upd' = [i \in Ids |-> IF i \in ids THEN [upd[i] EXCEPT !.onResult = NoWriter] ELSE upd[i]]
       /\ chunk' = [c \in ChunkIds |-> [chunk[c] EXCEPT !.invalidated = @ \/ InQueue(c)]]
       /\ firstChunkID' = nextChunkID
       /\ dataSize' = 0
       /\ UNCHANGED <<nextChunkID, dropRecord, readerVars, status>>

SetWritable ==
    /\ switches < MaxSwitches
    /\ invalidated
    /\ switches' = switches + 1
    /\ invalidated' = FALSE
    /\ UNCHANGED <<queueVars, chunk, upd, writer, readerVars, status>>

----------------------------------------------------------------------------
(* The replication threads                                                 *)

\* Mutant: the update drop record is ignored.
MissesNothing(f) == FALSE

\* The updates the reader needs were dropped.
ReadsDropRecord(f) == dropRecord >= 0 /\ nextUpdateId[f] <= dropRecord

\* The chunk Read returns: the one with the id, or the first if the id is before it
ChunkToRead(f) ==
    IF IsEmpty THEN NoChunk
    ELSE IF nextUpdateId[f] < firstChunkID THEN firstChunkID
    ELSE LET c == ChunkOf(nextUpdateId[f])
         IN IF InQueue(c) /\ nextUpdateId[f] < c + chunk[c].count THEN c ELSE NoChunk

\* Read; the drop record makes the node resynchronize from behind it.
Read(f) ==
    /\ ptr[f] = NoChunk /\ ~awaits[f]
    /\ \/ /\ ReadsDropRecord(f)
          /\ nextUpdateId' = [nextUpdateId EXCEPT ![f] = dropRecord + 1]
          /\ UNCHANGED <<ptr, awaits>>
       \/ LET c == ChunkToRead(f)
          IN /\ ~ReadsDropRecord(f)
             /\ ptr' = [ptr EXCEPT ![f] = c]
             /\ awaits' = [awaits EXCEPT ![f] = c = NoChunk]
             /\ nextUpdateId' = [nextUpdateId EXCEPT ![f] = IF c > @ THEN c ELSE @]
    /\ UNCHANGED <<queueVars, invalidated, switches, chunk, upd, writer, status>>

\* The loop over the chunk ends: it was read to its end or invalidated.
LeaveChunk(f) ==
    /\ ptr[f] # NoChunk /\ status[f] = Idle
    /\ chunk[ptr[f]].invalidated \/ nextUpdateId[f] >= ptr[f] + chunk[ptr[f]].count
    /\ ptr' = [ptr EXCEPT ![f] = NoChunk]
    /\ UNCHANGED <<queueVars, invalidated, switches, chunk, upd, writer, nextUpdateId,
                   awaits, status>>

\* Mutant: the result is sent with every approve after the consensus.
RequireResultAgain(r, ok, isEmitter) ==
    /\ r.replicatedToEmitter
    /\ r.approves >= ConsensusCnt \/ r.errors >= ConsensusCnt

\* Mutant: an answer of the emitter that comes after the consensus sends nothing.
RequireResultOnce(r, ok, isEmitter) ==
    /\ r.replicatedToEmitter
    /\ IF ok THEN r.approves = ConsensusCnt ELSE r.errors = ConsensusCnt

\* The condition of replicated(), on the new counters
RequireResult(r, ok, isEmitter) ==
    \/ ok /\ r.approves = ConsensusCnt /\ r.replicatedToEmitter
    \/ ~ok /\ r.errors = ConsensusCnt /\ r.replicatedToEmitter
    \/ isEmitter /\ (r.approves >= ConsensusCnt \/ r.errors >= ConsensusCnt)

\* The next update of the chunk is sent to the follower.
ApplyUpdate(f) ==
    /\ ptr[f] # NoChunk /\ status[f] = Idle
    /\ ~chunk[ptr[f]].invalidated /\ nextUpdateId[f] < ptr[f] + chunk[ptr[f]].count
    /\ nextUpdateId' = [nextUpdateId EXCEPT ![f] = @ + 1]
    /\ status' = [status EXCEPT ![f] = [Idle EXCEPT !.id = nextUpdateId[f], !.sent = TRUE]]
    /\ UNCHANGED <<queueVars, invalidated, switches, chunk, upd, writer, ptr, awaits>>

Done(st) == IF st.result \/ st.erase \/ st.sweep THEN st ELSE Idle

\* The follower applied the update or failed to: the compare-exchange loop of
\* replicated()
Replicated(f, ok) ==
    LET id == status[f].id
        isEmitter == upd[id].emitter = f
        r == [upd[id] EXCEPT !.replicatedToEmitter = @ \/ isEmitter,
                             !.approves = IF ok THEN @ + 1 ELSE @,
                             !.errors = IF ok THEN @ ELSE @ + 1,
                             !.replicas = @ + 1]
    IN /\ status[f].sent
       /\ upd' = [upd EXCEPT ![id] = r]
       /\ status' = [status EXCEPT ![f] =
                       Done([@ EXCEPT !.sent = FALSE, !.ok = ok,
                                      !.result = RequireResult(r, ok, isEmitter),
                                      !.erase = r.replicas = RequiredReplicas])]
       /\ UNCHANGED <<queueVars, invalidated, switches, chunk, writer, readerVars>>

\* Mutant: the chunk is not tried for erasure after a result.
NoErase(ch) == UNCHANGED <<firstChunkID, dataSize>>

EraseAfterResult(ch) == EraseReplicated(ch)

\* onResult(id, err), under the mutex; nothing if the chunk has left the queue
SendResult(f) ==
    LET id == status[f].id
        c == ChunkOf(id)
        ch == [chunk EXCEPT ![c].resultsSent = @ + 1]
    IN /\ status[f].result
       /\ IF InQueue(c)
          THEN /\ chunk' = ch
               /\ writer' = Notified(writer, {id}, status[f].ok)
               /\ upd' = [upd EXCEPT ![id].onResult = NoWriter]
               /\ EraseAfterResult(ch)
          ELSE UNCHANGED <<chunk, writer, upd, firstChunkID, dataSize>>
       /\ status' = [status EXCEPT ![f] = Done([@ EXCEPT !.result = FALSE,
                                                         !.sweep = firstChunkID' # firstChunkID])]
       /\ UNCHANGED <<nextChunkID, dropRecord, invalidated, switches, readerVars>>

\* erased_.fetch_add(1) and IsFullyErased()
CountErased(f) ==
    LET c == ChunkOf(status[f].id)
        ch == [chunk EXCEPT ![c].erased = @ + 1]
    IN /\ status[f].erase /\ ~status[f].result /\ ~status[f].sweep
       /\ chunk' = ch
       /\ status' = [status EXCEPT ![f] = Done([@ EXCEPT !.erase = FALSE,
                                                         !.sweep = IsFullyErased(c, ch)])]
       /\ UNCHANGED <<queueVars, invalidated, switches, upd, writer, readerVars>>

\* eraseReplicated, until a chunk has to stay
Sweep(f) ==
    /\ status[f].sweep
    /\ EraseReplicated(chunk)
    /\ status' = [status EXCEPT ![f] = Done([@ EXCEPT !.sweep = firstChunkID' # firstChunkID])]
    /\ UNCHANGED <<nextChunkID, dropRecord, invalidated, switches, chunk, upd, writer,
                   readerVars>>

----------------------------------------------------------------------------
Init ==
    /\ firstChunkID = 0 /\ nextChunkID = 0 /\ dataSize = 0 /\ dropRecord = -1
    /\ invalidated = FALSE /\ switches = 0
    /\ chunk = [c \in ChunkIds |-> [count |-> 0, erased |-> 0, resultsSent |-> 0,
                                    invalidated |-> FALSE]]
    /\ upd = [i \in Ids |-> [emitter |-> NoEmitter, onResult |-> NoWriter,
                             replicatedToEmitter |-> FALSE, replicas |-> 0,
                             approves |-> 1, errors |-> 0]]
    /\ writer = [w \in Writers |-> [state |-> "idle", dataSize |-> 0, first |-> 0,
                                    executed |-> 0, ok |-> TRUE]]
    /\ nextUpdateId = [f \in Followers |-> 0]
    /\ ptr = [f \in Followers |-> NoChunk]
    /\ awaits = [f \in Followers |-> FALSE]
    /\ status = [f \in Followers |-> Idle]

Push ==
    \/ \E w \in Writers, k \in PushSizes, e \in Emitters \cup {NoEmitter} :
          PushAndWait(w, k, e)
    \/ \E k \in AsyncSizes : PushAsync(k)

Reader(f) ==
    \/ Read(f) \/ LeaveChunk(f) \/ ApplyUpdate(f)
    \/ \E ok \in BOOLEAN : Replicated(f, ok)
    \/ SendResult(f) \/ CountErased(f) \/ Sweep(f)

Next ==
    \/ Push
    \/ \E w \in Writers : Return(w)
    \/ SetUnwritable \/ SetWritable
    \/ \E f \in Followers : Reader(f)

Spec == Init /\ [][Next]_vars

\* Every replication thread keeps running, and so does a writer that was woken.
\* A follower answers or the request to it fails; an emitter that is offline is
\* back some time (handleUpdatesWithError keeps its updates until then).
FairSpec ==
    /\ Spec
    /\ \A f \in Followers : WF_vars(Reader(f))
    /\ \A w \in Writers : WF_vars(Return(w))

----------------------------------------------------------------------------
TypeOK ==
    /\ {firstChunkID, nextChunkID} \subseteq ChunkIds \cup {MaxChunks * BatchSize}
    /\ firstChunkID <= nextChunkID
    /\ dataSize \in 0..(MaxChunks * (BatchSize + 1))
    /\ dropRecord \in Ids \cup {-1}
    /\ invalidated \in BOOLEAN /\ switches \in 0..MaxSwitches
    /\ chunk \in [ChunkIds -> [count : 0..BatchSize, erased : 0..BatchSize,
                               resultsSent : 0..BatchSize, invalidated : BOOLEAN]]
    /\ upd \in [Ids -> [emitter : Emitters \cup {NoEmitter},
                        onResult : Writers \cup {NoWriter},
                        replicatedToEmitter : BOOLEAN,
                        replicas : 0..RequiredReplicas,
                        approves : 1..NodesCount, errors : 0..RequiredReplicas]]
    /\ writer \in [Writers -> [state : {"idle", "refused", "waiting", "done"},
                               dataSize : PushSizes \cup {0}, first : Ids \cup {0},
                               executed : Nat, ok : BOOLEAN]]
    /\ nextUpdateId \in [Followers -> 0..(MaxChunks * BatchSize)]
    /\ ptr \in [Followers -> ChunkIds \cup {NoChunk}]
    /\ awaits \in [Followers -> BOOLEAN]
    /\ status \in [Followers -> [id : Ids \cup {-1}, sent : BOOLEAN, ok : BOOLEAN,
                                 result : BOOLEAN, erase : BOOLEAN, sweep : BOOLEAN]]

Pushed(i) == i < ChunkOf(i) + chunk[ChunkOf(i)].count
UpdatesOf(w) == writer[w].first..(writer[w].first + writer[w].dataSize - 1)
Quiet == \A f \in Followers : status[f] = Idle

\* A writer that is told of success has written to a majority of the cluster,
\* and to the node the write came from: what replication.md states of every
\* data write.  With five nodes it is false: the emitter's answer then comes
\* after a consensus of errors, and onUpdateHandled reports it as success.  (Up
\* to four nodes a consensus of errors takes every follower, and it holds.)
AckedHasConsensus ==
    \A w \in Writers : writer[w].state = "done" /\ writer[w].ok =>
        \A i \in UpdatesOf(w) : upd[i].approves >= ConsensusCnt /\ upd[i].replicatedToEmitter

\* A callback refers to the locals of a PushAndWait that still waits for it,
\* though results come from readers, from role switches and from neither.
CallbackIsAlive ==
    /\ \A i \in Ids : LET w == upd[i].onResult
                      IN w # NoWriter => /\ writer[w].state = "waiting"
                                         /\ writer[w].executed < writer[w].dataSize
    /\ \A c \in ChunkIds : chunk[c].resultsSent <= chunk[c].count

IsDecided(i) == upd[i].approves >= ConsensusCnt \/ upd[i].errors >= ConsensusCnt

\* What every follower has handled does not stay in the queue: whichever of the
\* last result and the last replica comes later erases the chunk, unless the
\* votes of an update are split (which an even number of nodes allows).
NothingIsLeft == Quiet /\ ~IsEmpty =>
    \E i \in firstChunkID..(firstChunkID + BatchSize - 1) :
        upd[i].replicas < RequiredReplicas \/ ~IsDecided(i)

\* A writer does not wait for an update that every follower has handled, if the
\* approves or the errors have reached the consensus: in no order of the answers
\* of the emitter and the others is the result forgotten.
HandledHasResult ==
    \A i \in Ids : upd[i].replicas = RequiredReplicas /\ IsDecided(i) /\ Quiet
                    => upd[i].onResult = NoWriter

\* A reader waits for data only when there is none for it.
AwaitsNothing ==
    \A f \in Followers : awaits[f] => ~ReadsDropRecord(f) /\ ChunkToRead(f) = NoChunk

\* The size that decides about dropping updates is that of the chunks in the
\* queue and of the updates in them.
DataSizeExact ==
    dataSize = Cardinality(ChunksIn(firstChunkID, nextChunkID))
               + Cardinality({i \in Ids : InQueue(ChunkOf(i)) /\ Pushed(i)})

\* A reader handles the updates in their order, each once, and passes over
\* others only when it reads their drop record (Read then returns no chunk, and
\* the node resynchronizes) or when a role switch threw them away.
NoSilentSkip ==
    [][\A f \in Followers :
          LET from == nextUpdateId[f]
              to == nextUpdateId'[f]
          IN \/ to = from
             \/ to = from + 1 /\ status'[f].sent /\ status'[f].id = from
             \/ to = dropRecord + 1 /\ ptr'[f] = NoChunk
             \/ to > from /\ \A i \in from..(to - 1) :
                   i > dropRecord /\ (Pushed(i) => chunk[ChunkOf(i)].invalidated)]_vars

\* Every writer gets an answer.
WriterReturns == \A w \in Writers : writer[w].state = "waiting" ~> writer[w].state = "done"
=============================================================================
