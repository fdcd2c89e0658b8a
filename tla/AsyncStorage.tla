---------------------------- MODULE AsyncStorage ----------------------------
(***************************************************************************)
(* The write-behind storage of a namespace (core/namespace/asyncstorage).  *)
(* Writes are collected in chunks and written to the data storage (LevelDB *)
(* or RocksDB) by a flushing thread; some are written at once, unless the  *)
(* latest flush failed.  A large transaction is committed into a copy of   *)
(* the namespace, whose storage collects its updates and then inherits     *)
(* those of the original.  A proxy lets unflushed values be read.          *)
(*                                                                         *)
(* Items are written by Write and Remove, meta data by WriteSync and       *)
(* RemoveSync (NamespaceImpl::putMeta, deleteMeta).  All writers hold the  *)
(* namespace's lock; only the flush runs beside them.  A write of one      *)
(* chunk to the data storage is atomic.                                    *)
(***************************************************************************)
EXTENDS Integers, FiniteSets, Sequences, FiniteSetsExt

CONSTANTS ItemKeys, MetaKeys,  \* disjoint sets of keys
          ChunkLimit,          \* kFlushChunckSize
          Proxies,             \* the values of withProxy_
          MaxWrites,           \* bound: modifications
          MaxFaults,           \* bound: failures of the data storage
          MaxCopies,           \* bound: transactions committed into a copy
          MaxAdvices           \* bound: transactions that advise batching

ASSUME StorageAssumption ==
    /\ ItemKeys \cap MetaKeys = {}
    /\ ChunkLimit \in Nat \ {0} /\ Proxies \subseteq BOOLEAN
    /\ {MaxWrites, MaxFaults, MaxCopies, MaxAdvices} \subseteq Nat

Keys == ItemKeys \cup MetaKeys
Removed == 0   \* no value

VARIABLES
    disk,        \* the data storage
    self,        \* the storage of the namespace
    copy,        \* that of the copy while a transaction is committed into it
    copying,     \* the copy exists and holds both locks of self
    flushing,    \* the chunk that is being written, or <<>>
    pc, isLast,  \* the flush; it writes the current chunk, its last one
    failed,      \* lastFlushError_ is set
    advices,     \* batchingAdvices_
    withProxy,   \* withProxy_
    closing,     \* Close: "no", it flushes, or it is about to clear
    closed,      \* the storage was closed
    latest,      \* what was written last to a key in the namespace
    txLatest,    \* and in the copy, if there is one
    writes, faults, copies, advised

flushVars == <<flushing, pc, isLast, closing>>
bounds == <<writes, faults, copies, advised>>
vars == <<disk, self, copy, copying, flushVars, failed, advices, withProxy, closed, latest,
          txLatest, bounds>>

-----------------------------------------------------------------------------
(* One storage: its chunks of operations, updates counter and proxy.       *)

Chunk(id, ops) == [id |-> id, ops |-> ops]

NewStorage == [cur |-> Chunk(0, <<>>), finished |-> <<>>, batchIdCounter |-> 1,
               total |-> 0, proxy |-> {}]

(* createUpdatesCollection in place of the current chunk *)
NewChunk(s) == [s EXCEPT !.cur = Chunk(s.batchIdCounter, <<>>), !.batchIdCounter = @ + 1]

BeginNewUpdatesChunk(s) == NewChunk([s EXCEPT !.finished = Append(@, s.cur)])

ProxyAdd(s, k, v) ==
    IF withProxy
    THEN {e \in s.proxy : e.id # s.cur.id \/ e.key # k}
           \cup {[id |-> s.cur.id, key |-> k, val |-> v]}
    ELSE s.proxy

ChunkIsFull(s) == Len(s.cur.ops) = ChunkLimit

ModifyAsync(s, k, v) ==
    LET t == [s EXCEPT !.total = @ + 1, !.proxy = ProxyAdd(s, k, v),
                       !.cur.ops = Append(@, [key |-> k, val |-> v])]
    IN IF ChunkIsFull(t) THEN BeginNewUpdatesChunk(t) ELSE t

ProxyDelete(s, k) ==
    [s EXCEPT !.proxy = IF withProxy THEN {e \in @ : e.key # k} ELSE @]

\* Mutant: the proxy forgets all chunks once one of them is written.
ProxyKeepsNothing(s, id) == [s EXCEPT !.proxy = {}]

ProxyErase(s, id) ==
    [s EXCEPT !.proxy = IF withProxy THEN {e \in @ : e.id # id} ELSE @]

(* The value that the operations leave, or what was there before. *)
After(ops, k, before) ==
    LET is == {i \in DOMAIN ops : ops[i].key = k}
    IN IF is = {} THEN before ELSE ops[Max(is)].val

(* Read: the newest batch of the proxy that has the key, else the disk *)
Read(k) ==
    LET found == {e \in self.proxy : e.key = k}
    IN IF withProxy /\ found # {}
       THEN (CHOOSE e \in found : \A f \in found : f.id <= e.id).val
       ELSE disk[k]

-----------------------------------------------------------------------------
(* The writers.                                                            *)

CanWrite == ~copying /\ ~closed /\ closing = "no" /\ writes < MaxWrites

Written(k, v) ==
    /\ latest' = [latest EXCEPT ![k] = v]
    /\ txLatest' = latest'
    /\ writes' = writes + 1
    /\ UNCHANGED <<copy, copying, advices, withProxy, closed, copies, advised>>

Values == {Removed, writes + 1}

Write(k, v) ==
    /\ CanWrite /\ k \in ItemKeys
    /\ self' = ModifyAsync(self, k, v)
    /\ Written(k, v)
    /\ UNCHANGED <<disk, flushVars, failed, faults>>

(* At once, unless the latest flush failed. *)
WriteSync(k, v) ==
    /\ CanWrite /\ k \in MetaKeys /\ ~failed
    /\ disk' = [disk EXCEPT ![k] = v]
    /\ self' = ProxyDelete(self, k)
    /\ Written(k, v)
    /\ UNCHANGED <<flushVars, failed, faults>>

(* The data storage fails, or has failed. *)
WriteSyncFails(k, v) ==
    /\ CanWrite /\ k \in MetaKeys
    /\ \/ failed /\ UNCHANGED <<failed, faults>>
       \/ ~failed /\ faults < MaxFaults /\ failed' = TRUE /\ faults' = faults + 1
    /\ self' = ModifyAsync(self, k, v)
    /\ Written(k, v)
    /\ UNCHANGED <<disk, flushVars>>

(* A transaction of many steps advises the flush to batch. *)
BeginAdvice ==
    /\ CanWrite /\ ~advices /\ advised < MaxAdvices
    /\ advices' = TRUE
    /\ advised' = advised + 1
    /\ UNCHANGED <<disk, self, copy, copying, flushVars, failed, withProxy, closed,
                   latest, txLatest, writes, faults, copies>>

EndAdvice ==
    /\ advices
    /\ advices' = FALSE
    /\ UNCHANGED <<disk, self, copy, copying, flushVars, failed, withProxy, closed,
                   latest, txLatest, bounds>>

-----------------------------------------------------------------------------
(* The flush.  It holds flushMtx_ from its begin to its end, and the       *)
(* writers' mutex except while it reopens or writes.                       *)

CanFlush == pc = "idle" /\ closing = "no" /\ ~copying /\ ~closed /\ self.total > 0

(* Close goes on after its flush ... *)
FlushReturns == closing' = IF closing = "flush" THEN "clear" ELSE closing

(* ... or throws. *)
FlushThrows == closing' = "no"

FlushBegins(next) ==
    /\ CanFlush
    /\ pc' = next
    /\ UNCHANGED <<disk, self, copy, copying, flushing, isLast, closing, failed,
                   advices, withProxy, closed, latest, txLatest, bounds>>

FlushBegin == ~failed /\ FlushBegins("chunks")

(* After a failure the period of reopening must be over. *)
ReopenBegin == failed /\ FlushBegins("reopen")

ReopenOk ==
    /\ pc = "reopen"
    /\ failed' = FALSE
    /\ pc' = "chunks"
    /\ UNCHANGED <<disk, self, copy, copying, flushing, isLast, closing, advices,
                   withProxy, closed, latest, txLatest, bounds>>

ReopenFails ==
    /\ pc = "reopen" /\ faults < MaxFaults
    /\ faults' = faults + 1
    /\ pc' = "idle"
    /\ FlushThrows
    /\ UNCHANGED <<disk, self, copy, copying, flushing, isLast, failed, advices,
                   withProxy, closed, latest, txLatest, writes, copies, advised>>

TakeFinishedChunk ==
    /\ pc = "chunks" /\ self.finished # <<>>
    /\ flushing' = Head(self.finished)
    /\ self' = [self EXCEPT !.finished = Tail(@), !.total = @ - Len(flushing'.ops)]
    /\ isLast' = FALSE
    /\ pc' = "write"
    /\ UNCHANGED <<disk, copy, copying, closing, failed, advices, withProxy, closed,
                   latest, txLatest, bounds>>

TakeCurrentChunk ==
    /\ pc = "chunks" /\ self.finished = <<>> /\ ~advices /\ self.total > 0
    /\ flushing' = self.cur
    /\ self' = NewChunk([self EXCEPT !.total = 0])
    /\ isLast' = TRUE
    /\ pc' = "write"
    /\ UNCHANGED <<disk, copy, copying, closing, failed, advices, withProxy, closed,
                   latest, txLatest, bounds>>

FlushEnds ==
    /\ pc = "chunks" /\ self.finished = <<>> /\ (advices \/ self.total = 0)
    /\ pc' = "idle"
    /\ FlushReturns
    /\ UNCHANGED <<disk, self, copy, copying, flushing, isLast, failed, advices,
                   withProxy, closed, latest, txLatest, bounds>>

WriteChunk ==
    /\ pc = "write"
    /\ disk' = [k \in Keys |-> After(flushing.ops, k, disk[k])]
    /\ pc' = "written"
    /\ UNCHANGED <<self, copy, copying, flushing, isLast, closing, failed, advices,
                   withProxy, closed, latest, txLatest, bounds>>

\* Mutant: the chunk is put back without its updates being counted again.
PutBackUncounted(s) == [s EXCEPT !.finished = <<flushing>> \o @]

PutBack(s) == [s EXCEPT !.finished = <<flushing>> \o @, !.total = @ + Len(flushing.ops)]

WriteChunkFails ==
    /\ pc = "write" /\ faults < MaxFaults
    /\ faults' = faults + 1
    /\ self' = PutBack(self)
    /\ failed' = TRUE
    /\ flushing' = Chunk(0, <<>>)
    /\ pc' = "idle"
    /\ FlushThrows
    /\ UNCHANGED <<disk, copy, copying, isLast, advices, withProxy, closed, latest,
                   txLatest, writes, copies, advised>>

(* The proxy is told, and the chunk is recycled. *)
ChunkWritten ==
    /\ pc = "written"
    /\ self' = ProxyErase(self, flushing.id)
    /\ flushing' = Chunk(0, <<>>)
    /\ pc' = IF isLast THEN "idle" ELSE "chunks"
    /\ IF isLast THEN FlushReturns ELSE UNCHANGED closing
    /\ UNCHANGED <<disk, copy, copying, isLast, failed, advices, withProxy, closed,
                   latest, txLatest, bounds>>

(* Close, under the lock of the namespace, reopens the storage at once. *)
BeginClose ==
    /\ pc = "idle" /\ closing = "no" /\ ~copying /\ ~closed /\ ~advices
    /\ IF self.total = 0
       THEN closing' = "clear" /\ UNCHANGED pc
       ELSE closing' = "flush" /\ pc' = (IF failed THEN "reopen" ELSE "chunks")
    /\ UNCHANGED <<disk, self, copy, copying, flushing, isLast, failed, advices,
                   withProxy, closed, latest, txLatest, bounds>>

(* clearUpdates and reset *)
Close ==
    /\ closing = "clear"
    /\ closing' = "no"
    /\ closed' = TRUE
    /\ failed' = FALSE
    /\ self' = [NewStorage EXCEPT !.batchIdCounter = 0, !.proxy = self.proxy]
    /\ UNCHANGED <<disk, copy, copying, flushing, pc, isLast, advices, withProxy,
                   latest, txLatest, bounds>>

-----------------------------------------------------------------------------
(* A transaction is committed into a copy, with both mutexes held.         *)

BeginCopy ==
    /\ ~copying /\ ~closed /\ closing = "no" /\ pc = "idle" /\ ~advices /\ copies < MaxCopies
    /\ copying' = TRUE
    /\ copies' = copies + 1
    /\ copy' = NewStorage
    /\ UNCHANGED <<disk, self, flushVars, failed, advices, withProxy, closed, latest,
                   txLatest, writes, faults, advised>>

(* All writes into the copy are asynchronous; a transaction deletes no meta. *)
CopyWrite(k, v) ==
    /\ copying /\ writes < MaxWrites
    /\ v = Removed => k \in ItemKeys
    /\ copy' = ModifyAsync(copy, k, v)
    /\ txLatest' = [txLatest EXCEPT ![k] = v]
    /\ writes' = writes + 1
    /\ UNCHANGED <<disk, self, copying, flushVars, failed, advices, withProxy, closed,
                   latest, faults, copies, advised>>

\* Mutant: the inherited chunks are put behind those of the copy.
InheritedLast(own, src) == own.finished \o Append(src.finished, src.cur)

(* The chunks of the original go before those of the copy. *)
InheritedFirst(own, src) == Append(src.finished, src.cur) \o own.finished

(* InheritUpdatesFrom: the proxy and the error stay behind. *)
InheritUpdatesFrom ==
    /\ copying
    /\ self' = [copy EXCEPT !.finished = InheritedFirst(copy, self),
                            !.batchIdCounter = self.batchIdCounter,
                            !.total = self.total + copy.total]
    /\ failed' = FALSE
    /\ latest' = txLatest
    /\ copying' = FALSE
    /\ copy' = NewStorage
    /\ UNCHANGED <<disk, flushVars, advices, withProxy, closed, txLatest, bounds>>

(* The transaction fails and the copy is dropped. *)
DropCopy ==
    /\ copying
    /\ copying' = FALSE
    /\ copy' = NewStorage
    /\ txLatest' = latest
    /\ UNCHANGED <<disk, self, flushVars, failed, advices, withProxy, closed, latest,
                   bounds>>

-----------------------------------------------------------------------------
Init ==
    /\ disk = [k \in Keys |-> Removed]
    /\ self = NewStorage /\ copy = NewStorage /\ copying = FALSE
    /\ flushing = Chunk(0, <<>>) /\ pc = "idle" /\ isLast = FALSE /\ closing = "no"
    /\ failed = FALSE /\ advices = FALSE /\ withProxy \in Proxies /\ closed = FALSE
    /\ latest = disk /\ txLatest = disk
    /\ writes = 0 /\ faults = 0 /\ copies = 0 /\ advised = 0

Writer ==
    \E k \in Keys, v \in Values :
        Write(k, v) \/ WriteSync(k, v) \/ WriteSyncFails(k, v) \/ CopyWrite(k, v)

Flush ==
    \/ FlushBegin \/ ReopenBegin \/ ReopenOk
    \/ TakeFinishedChunk \/ TakeCurrentChunk \/ WriteChunk \/ ChunkWritten \/ FlushEnds

Next ==
    \/ Writer \/ BeginAdvice \/ EndAdvice
    \/ Flush \/ ReopenFails \/ WriteChunkFails
    \/ BeginCopy \/ InheritUpdatesFrom \/ DropCopy
    \/ BeginClose \/ Close

Spec == Init /\ [][Next]_vars

(* The background thread flushes again and again, transactions end. *)
FairSpec ==
    /\ Spec
    /\ WF_vars(Flush) /\ WF_vars(EndAdvice) /\ WF_vars(InheritUpdatesFrom \/ DropCopy)

-----------------------------------------------------------------------------
(* Properties.                                                             *)

(* The chunks that wait for a flush, in the order they are written in. *)
Waiting(s) == Append(s.finished, s.cur)

(* The places of the updates in a sequence of chunks. *)
Updates(chunks) == UNION {{i} \X DOMAIN chunks[i].ops : i \in DOMAIN chunks}

(* What the chunks leave of a key when they are written one after another *)
HasKey(ops, k) == \E i \in DOMAIN ops : ops[i].key = k

AfterAll(chunks, k, before) ==
    LET is == {i \in DOMAIN chunks : HasKey(chunks[i].ops, k)}
    IN IF is = {} THEN before ELSE After(chunks[Max(is)].ops, k, before)

(* The counter by which a flush decides whether there is anything to do is   *)
(* the number of waiting updates, through chunks that fail, current chunks   *)
(* and inherited ones: too small a count would leave them in memory, and an  *)
(* unsigned one that wraps would never end a flush.                          *)
TotalIsExact ==
    /\ self.total = Cardinality(Updates(Waiting(self)))
    /\ copying => copy.total = Cardinality(Updates(Waiting(copy)))

(* No item is lost or set back: the disk, with what is still to be written   *)
(* in its order, gives what was written last, though a failed chunk is put   *)
(* back while new ones come, and a copy inherits chunks older than its own.  *)
(* After a close that returned, the disk alone does.                         *)
ItemsSurvive ==
    \A k \in ItemKeys :
        LET pending == IF closed THEN <<>> ELSE <<flushing>> \o Waiting(self)
        IN AfterAll(pending, k, disk[k]) = latest[k]

(* With the proxy an item is read as it was written last, at any moment of   *)
(* a flush or of its failure, until a transaction is committed into a copy.  *)
UnflushedIsRead ==
    withProxy /\ copies = 0 /\ ~closed => \A k \in ItemKeys : Read(k) = latest[k]

(* Whatever fails, items get to the disk in the end. *)
ItemsAreFlushed == <>[](\A k \in ItemKeys : disk[k] = latest[k])

(* What is read is what was written last: at once with the proxy, without it *)
(* after a flush (the expectation of AsyncStorage.SyncReadSimpleTest).       *)
ReadSeesLastWrite ==
    ~copying /\ ~closed /\ pc = "idle" /\ (withProxy \/ self.total = 0)
        => \A k \in Keys : Read(k) = latest[k]
=============================================================================
