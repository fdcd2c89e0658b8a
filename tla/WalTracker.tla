----------------------------- MODULE WalTracker -----------------------------
(***************************************************************************)
(* The write-ahead log of one namespace (wal/waltracker.{h,cc}), together  *)
(* with the operations of the namespace that feed it and what of both      *)
(* survives a restart.                                                     *)
(*                                                                         *)
(* The log is a ring of walSize slots.  An item update is logged as the id *)
(* of the item only: its content is read from the item itself, so a newer  *)
(* update of the item blanks the older record.  Item updates are not       *)
(* written to the storage of the log: after a restart the ring is rebuilt  *)
(* from the LSNs of the loaded items and from the stored records.  The     *)
(* records are stored under their position in the ring, at once; the items *)
(* are written later, by the flushing of the asynchronous storage.         *)
(*                                                                         *)
(* A replica that has everything up to an LSN gets the records after it    *)
(* if that LSN is still in the ring (WALSelecter); if not it needs the     *)
(* whole namespace (force sync).  The history hist (what every LSN did and *)
(* which items there were after it) is kept to state what the log is for.  *)
(***************************************************************************)
EXTENDS Integers, Sequences, FiniteSetsExt

CONSTANTS Keys,      \* primary keys; an item's id is taken to be its key
          Local,     \* server id of this node
          Remote,    \* server id of the leader this node may follow
          WalSizes,  \* capacities the configuration may set
          Crashes,   \* whether the node may stop without a flush
          MaxLsn,    \* bound: number of records a behaviour writes
          MaxEvents  \* bound: restarts, resizes and force syncs of a behaviour

ASSUME WalAssumption ==
    /\ Local # Remote
    /\ WalSizes \subseteq Nat \ {0}   \* NamespaceImpl::getWalSize
    /\ Crashes \in BOOLEAN
    /\ MaxLsn \in Nat /\ MaxEvents \in Nat

VARIABLES wal,      \* the WALTracker
          items,    \* the items in memory: the LSN each one was written with
          disk,     \* the items in the storage
          hist,     \* history: what each LSN was, and the items after it
          floor,    \* history: LSN from which nothing of the log was lost
          resized,  \* history: LSN counter at the latest change of capacity
          events    \* bound: restarts, resizes and force syncs so far

vars == <<wal, items, disk, hist, floor, resized, events>>

Servers == {Local, Remote}
lsn_t(c, s) == [counter |-> c, server |-> s]
NoLsn == lsn_t(-1, Local)

(* The record types the log tells apart. *)
WalEmpty == [type |-> "Empty", keys |-> {}]
WalItemUpdate(k) == [type |-> "ItemUpdate", keys |-> {k}]
WalItemDelete(k) == [type |-> "ItemModify", keys |-> {k}]   \* ModeDelete
WalTruncate == [type |-> "UpdateQuery", keys |-> Keys]      \* "TRUNCATE ns"

Records == {WalEmpty, WalTruncate}
             \cup {WalItemUpdate(k) : k \in Keys} \cup {WalItemDelete(k) : k \in Keys}

(***************************************************************************)
(* The ring.  w.records is the vector: a function on 0 .. size - 1.        *)
(***************************************************************************)
Blank == [server |-> Local, rec |-> WalEmpty]
Blanks(n) == [p \in 0 .. n - 1 |-> Blank]

Pos(w, lsn) == lsn.counter % w.walSize

(* Count of the records in the ring. *)
RingSize(w) ==
    LET walEnd == w.counter % w.walSize IN
    IF w.counter = 0 THEN 0
    ELSE IF w.offset = walEnd THEN w.walSize
    ELSE IF w.offset < walEnd THEN walEnd - w.offset
    ELSE walEnd + Cardinality(DOMAIN w.records) - w.offset

(* The counters whose records the ring holds. *)
Window(w) == (w.counter - RingSize(w)) .. (w.counter - 1)

Available(w, lsn, ignoreServer) ==
    /\ lsn.counter < w.counter
    /\ w.counter - lsn.counter <= RingSize(w)
    /\ ignoreServer \/ w.records[Pos(w, lsn)].server = lsn.server

(* The vector grows up to the position. *)
Put(w, lsn, rec) ==
    [w EXCEPT !.records = [p \in DOMAIN w.records \cup 0 .. Pos(w, lsn) |->
        IF p = Pos(w, lsn) THEN [server |-> lsn.server, rec |-> rec]
        ELSE IF p \in DOMAIN w.records THEN w.records[p] ELSE Blank]]

(* The record of a batch that is for a position of the ring. *)
For(w, batch, p) == CHOOSE b \in batch : Pos(w, b.lsn) = p

(* Writes a batch of records, one LSN each, into the slots they have; the   *)
(* last LSN takes the server of the record that has its counter.            *)
Overwrite(w, batch) ==
    [w EXCEPT
        !.records = [p \in DOMAIN w.records |->
            IF \E b \in batch : Pos(w, b.lsn) = p
            THEN [server |-> For(w, batch, p).lsn.server, rec |-> For(w, batch, p).rec]
            ELSE w.records[p]],
        !.last = IF \E b \in batch : b.lsn.counter = w.last.counter
                 THEN (CHOOSE b \in batch : b.lsn.counter = w.last.counter).lsn ELSE @]

\* Mutant: the availability of the LSN is not checked.
SetAlways(w, batch, ignoreServer) == Overwrite(w, batch)

\* Mutant: lastLsn_ keeps the server that initPositions gave it.
SetKeepsLast(w, batch, ignoreServer) ==
    [w EXCEPT !.records =
        Overwrite(w, {b \in batch : Available(w, b.lsn, ignoreServer)}).records]

(* Set for every record of a batch.  The records that are available have    *)
(* slots of their own, so the order of the calls does not matter, and the   *)
(* vector has those slots already: available has just read them.            *)
SetRecords(w, batch, ignoreServer) ==
    Overwrite(w, {b \in batch : Available(w, b.lsn, ignoreServer)})

(* The stored log has one entry for each position. *)
WriteToStorage(w, lsn) ==
    LET pos == Pos(w, lsn) IN
    [w EXCEPT !.stored = {e \in @ : e.pos # pos}
                \cup {[pos |-> pos, lsn |-> lsn, rec |-> w.records[pos].rec]}]

\* Mutant: only the records without an item are stored.
StoredWithoutItem(rec) == rec.type = "UpdateQuery"

(* Item updates are restored from the items. *)
ToStorage(rec) == rec.type # "ItemUpdate"

\* Mutant: the record of the older update stays.
NeverOutlived(w, oldLsn) == FALSE

(* The older update of the item is still in the ring. *)
Outlived(w, oldLsn) == oldLsn # NoLsn /\ Available(w, oldLsn, FALSE)

(* The ring makes room for an LSN: a full ring drops its oldest record, and *)
(* the first record of an empty log, which may have any LSN, starts it.     *)
NextOffset(w, lsn) ==
    IF w.counter = 0 THEN lsn.counter % w.walSize
    ELSE IF w.offset = lsn.counter % w.walSize THEN (lsn.counter + 1) % w.walSize
    ELSE w.offset

Advance(w, lsn) ==
    [w EXCEPT !.counter = lsn.counter + 1, !.last = lsn, !.offset = NextOffset(w, lsn),
              !.records = IF w.counter = 0 THEN Blanks(NextOffset(w, lsn)) ELSE w.records]

(* The older record of the item is blanked; another server's blank record   *)
(* is stored, for the storage to keep the server of its LSN.                *)
BlankOld(w, oldLsn) ==
    IF ~Outlived(w, oldLsn) THEN w
    ELSE IF oldLsn.server = Local THEN Put(w, oldLsn, WalEmpty)
    ELSE WriteToStorage(Put(w, oldLsn, WalEmpty), oldLsn)

(* Local writes take the next LSN, replicated ones bring theirs. *)
Add(w, rec, originLsn, oldLsn) ==
    LET lsn == IF originLsn = NoLsn THEN lsn_t(w.counter, Local) ELSE originLsn
        added == BlankOld(Put(Advance(w, lsn), lsn, rec), oldLsn)
    IN IF ToStorage(rec) THEN WriteToStorage(added, lsn) ELSE added

(* An empty ring that ends at maxLSN and starts not before minLSN (-1: no  *)
(* item has an LSN).                                                       *)
InitPositions(w, sz, minLSN, maxLSN) ==
    LET counter == maxLSN + 1 IN
    [w EXCEPT !.counter = counter, !.last = lsn_t(maxLSN, Local), !.walSize = sz,
              !.records = Blanks(Min({counter, sz})),
              !.offset = IF minLSN = -1 THEN 0
                         ELSE IF counter > sz + minLSN THEN counter % sz
                         ELSE minLSN % sz]

(* Keeps the newest records; the stored log is left as it is. *)
ResizeTo(w, sz) ==
    LET filled == RingSize(w)
        maxLSN == IF filled = 0 THEN -1 ELSE w.counter - 1
        minLSN == IF filled = 0 THEN -1 ELSE maxLSN - (Min({sz, filled}) - 1)
        moved == IF filled = 0 THEN {} ELSE minLSN .. maxLSN
        slot(c) == w.records[c % w.walSize]
    IN SetRecords(InitPositions(w, sz, minLSN, maxLSN),
                  {[lsn |-> lsn_t(c, slot(c).server), rec |-> slot(c).rec] : c \in moved}, TRUE)

Reset(w) ==
    [w EXCEPT !.records = Blanks(0), !.counter = 0, !.offset = 0,
              !.last = NoLsn, !.stored = {}]

Present(its) == {k \in Keys : its[k] # NoLsn}

(* Init, then one record for every item that was loaded (initWAL). *)
InitWal(w, loaded) ==
    LET lsns == {loaded[k].counter : k \in Present(loaded)}
        minLSN == IF lsns = {} THEN -1 ELSE Min(lsns)
        maxLSN == Max({-1} \cup lsns \cup {e.lsn.counter : e \in w.stored})
        read == SetRecords(InitPositions(w, w.walSize, minLSN, maxLSN), w.stored, TRUE)
    IN SetRecords(read, {[lsn |-> loaded[k], rec |-> WalItemUpdate(k)] : k \in Present(loaded)},
                  TRUE)
-----------------------------------------------------------------------------
(***************************************************************************)
(* The namespace.                                                          *)
(***************************************************************************)
NoItems == [k \in Keys |-> NoLsn]

Init ==
    /\ wal \in {[records |-> Blanks(0), counter |-> 0, last |-> NoLsn,
                 walSize |-> sz, offset |-> 0, stored |-> {}] : sz \in WalSizes}
    /\ items = NoItems /\ disk = NoItems
    /\ hist = <<>> /\ floor = 0 /\ resized = 0 /\ events = 0

(* A local write has no origin LSN.  A replicated one is accepted if its    *)
(* LSN is the one expected (checkClusterStatus).                            *)
Origin(s) == IF s = Local THEN NoLsn ELSE lsn_t(wal.counter, s)

Logged(rec, s, its) ==
    /\ items' = its
    /\ hist' = Append(hist, [server |-> s, rec |-> rec, items |-> its])
    /\ UNCHANGED <<disk, floor, resized, events>>

ModifyItem(k, s) ==
    /\ wal.counter < MaxLsn
    /\ wal' = Add(wal, WalItemUpdate(k), Origin(s), items[k])
    /\ Logged(WalItemUpdate(k), s, [items EXCEPT ![k] = lsn_t(wal.counter, s)])

(* The record of an item that goes is replaced by an empty one. *)
Blanking(k) == [lsn |-> items[k], rec |-> WalEmpty]

(* The record of the item is blanked twice: by doDelete and, if the item's  *)
(* LSN is another server's, for the storage too, when the deletion is added.*)
DeleteItem(k, s) ==
    /\ wal.counter < MaxLsn
    /\ items[k] # NoLsn
    /\ wal' = Add(SetRecords(wal, {Blanking(k)}, FALSE), WalItemDelete(k), Origin(s), items[k])
    /\ Logged(WalItemDelete(k), s, [items EXCEPT ![k] = NoLsn])

Truncate(s) ==
    /\ wal.counter < MaxLsn
    /\ wal' = Add(SetRecords(wal, {Blanking(k) : k \in Present(items)}, FALSE),
                  WalTruncate, Origin(s), NoLsn)
    /\ Logged(WalTruncate, s, NoItems)

(* The items written so far reach the storage. *)
Flush ==
    /\ disk # items
    /\ disk' = items
    /\ UNCHANGED <<wal, items, hist, floor, resized, events>>

Event == events < MaxEvents /\ events' = events + 1

Resize(sz) ==
    /\ Event
    /\ sz # wal.walSize
    /\ wal' = ResizeTo(wal, sz)
    /\ resized' = wal.counter
    /\ UNCHANGED <<items, disk, hist, floor>>

(* What a snapshot holds of an LSN: an outdated item record is empty. *)
Shallow(c) ==
    IF /\ hist[c + 1].rec.type = "ItemUpdate"
       /\ \A k \in hist[c + 1].rec.keys : items[k].counter # c
    THEN WalEmpty ELSE hist[c + 1].rec

Relog(w, c) == Add(w, Shallow(c), lsn_t(c, hist[c + 1].server), NoLsn)

(* The log is cleared (WalResetLocalWal) and then every record of the       *)
(* snapshot is added with the LSN it has.                                   *)
Relogged(first, n) ==
    LET log[i \in 0 .. n] == IF i = 0 THEN Reset(wal) ELSE Relog(log[i - 1], first + i - 1)
    IN log[n]

(* A RAW snapshot of a leader that is at the same LSN: the items come with  *)
(* their LSNs and without records, and the leader's last n records follow.  *)
(* The namespace is received under a temporary name; renaming it flushes.   *)
ForceSync(n) ==
    LET first == wal.counter - n
    IN /\ Event
       /\ n \in 1 .. wal.counter
       /\ wal' = Relogged(first, n)
       /\ disk' = items
       /\ floor' = Max({floor, first})
       /\ resized' = first
       /\ UNCHANGED <<items, hist>>

(* A start of the node: what was not flushed is lost if the previous run    *)
(* crashed.  The history is then what this node still knows of it.          *)
Restart(loaded) ==
    /\ Event
    /\ wal' = InitWal(wal, loaded)
    /\ items' = loaded /\ disk' = loaded
    /\ hist' = [c \in 1 .. wal'.counter |->
                  IF c = wal'.counter THEN [hist[c] EXCEPT !.items = loaded] ELSE hist[c]]
    /\ floor' = IF loaded = items THEN Max({floor, resized}) ELSE wal'.counter
    /\ resized' = Min({resized, wal'.counter})

Reopen == Restart(items)
Crash == Crashes /\ disk # items /\ Restart(disk)

Next ==
    \/ \E k \in Keys, s \in Servers : ModifyItem(k, s)
    \/ \E k \in Keys, s \in Servers : DeleteItem(k, s)
    \/ \E s \in Servers : Truncate(s)
    \/ Flush
    \/ \E sz \in WalSizes : Resize(sz)
    \/ \E n \in 1 .. MaxLsn : ForceSync(n)
    \/ Reopen
    \/ Crash

Spec == Init /\ [][Next]_vars
-----------------------------------------------------------------------------
(***************************************************************************)
(* Properties.                                                             *)
(***************************************************************************)
Slot(c) == wal.records[c % wal.walSize]

(* An LSN that size() counts has a slot in the vector, which available() and *)
(* the iterator index without a check, whatever mixture of resizes, restarts *)
(* and force syncs moved walOffset_.  The slot holds that LSN's record or an *)
(* empty one, never what an earlier turn of the ring, or the storage of an   *)
(* earlier capacity, left at the position; and it names the server of the    *)
(* LSN unless a restart lost it with an empty record.                        *)
SlotIsOwn ==
    /\ Window(wal) \subseteq 0 .. wal.counter - 1
    /\ \A c \in Window(wal) :
          /\ c % wal.walSize \in DOMAIN wal.records
          /\ Slot(c).rec \in {hist[c + 1].rec, WalEmpty}
          /\ Slot(c).server = hist[c + 1].server \/ Slot(c) = Blank

(* WALSelecter reads the item of a WalItemUpdate record and asserts that the *)
(* item still has the LSN of the record (walselecter.cc:95).  So every newer *)
(* update, deletion or truncation blanked it.                                *)
UpdateIsCurrent ==
    \A c \in Window(wal), k \in Keys :
        Slot(c).rec = WalItemUpdate(k) => items[k].counter = c

(* The last LSN is reported with the server that issued it, after restarts   *)
(* and resizes too: syncNamespace compares it with the leader's to decide    *)
(* whether this node needs a force sync.                                     *)
LastLsnIsTrue ==
    wal.counter > 0 => wal.last = lsn_t(wal.counter - 1, hist[wal.counter].server)

(* What a replica that had everything up to c has after the records above c. *)
Replayed(c) ==
    [k \in Keys |->
        LET about == {d \in c + 1 .. wal.counter - 1 : k \in Slot(d).rec.keys} IN
        IF about = {} THEN hist[c + 1].items[k]
        ELSE IF Slot(Max(about)).rec.type = "ItemUpdate" THEN items[k] ELSE NoLsn]

Outdated(c) ==
    /\ wal.counter # c + 1
    /\ ~Available(wal, lsn_t(c, hist[c + 1].server), FALSE)

(* The log is complete: the records above any LSN that is not outdated turn  *)
(* the items of that LSN into the items of now.  It holds from floor on:     *)
(* below it a crash, a change of capacity followed by a restart, or a force  *)
(* sync took records away.                                                   *)
CompleteLog ==
    \A c \in floor .. wal.counter - 1 : ~Outdated(c) => Replayed(c) = items
=============================================================================
