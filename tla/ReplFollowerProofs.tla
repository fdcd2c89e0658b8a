-------------------------- MODULE ReplFollowerProofs --------------------------
(***************************************************************************)
(* Proofs about ReplNode and what the follower has, for any queue, chunk   *)
(* size, number of batching routines and number of faults: an update that  *)
(* is reported as replicated is on the follower, and so is every update up *)
(* to the entry of the node in the synchronization list.                   *)
(*                                                                         *)
(* The argument: the follower never goes back, and the LSNs of the         *)
(* namespace grow along the queue.  While the updates loop has met no      *)
(* error, everything behind nextUpdateId that is not on its way is on the  *)
(* follower: the snapshot brought all that was read before it, and what    *)
(* was read since was acknowledged or is older than latestLsn.  latestLsn  *)
(* is beyond the follower only after a failed answer, and then it is not   *)
(* beyond the first update that is still to be read.                       *)
(***************************************************************************)
EXTENDS ReplNodeProofs, FiniteSetTheorems

Has(i) == InConfig(i) => log[i].lsn <= flsn

\* The LSNs of the namespace, on the leader, in the queue and on the follower.
LsnOK ==
    /\ lsn \in Nat \ {0} /\ flsn \in 0 .. lsn
    /\ \A i \in Ids : InConfig(i) => log[i].lsn \in 1 .. lsn
    /\ \A i, j \in Ids : i < j /\ InConfig(i) /\ InConfig(j) => log[i].lsn < log[j].lsn
    /\ late \in Seq(Nat) /\ \A k \in 1 .. Len(late) : late[k] <= lsn

\* What was answered with success is there.
AnswersOK ==
    \A k \in 1 .. Len(inflight) :
        /\ InConfig(inflight[k].id)
        /\ inflight[k].st = "ok" => Has(inflight[k].id)

Held(i) == pc \in {"batch", "await"} /\ i = nextUpdateId - 1
ToRead(i) == i >= nextUpdateId \/ Held(i)
OnItsWay(i) == \E k \in 1 .. Len(inflight) : inflight[k].id = i

\* No update that is still to be read is taken for one of the snapshot.
LatestOK ==
    /\ latestLsn \in 0 .. lsn
    /\ \A i \in Ids : Held(i) => InConfig(i)
    /\ \A i \in Ids : ToRead(i) /\ InConfig(i) /\ log[i].lsn <= latestLsn => Has(i)

InChunk == pc \in {"chunk", "batch", "await", "call", "drain"}

\* The loop sends nothing after an error and ends with every answer.
PhaseOK ==
    /\ ~ InChunk => inflight = <<>>
    /\ pc \in {"chunk", "batch", "call"} => res = "ok"
    /\ pc = "await" /\ inflight = <<>> => res = "ok"

NoError == pc \in {"loop", "idle"} \/ (InChunk /\ res = "ok")

BehindOK == NoError => \A i \in Ids : ToRead(i) \/ OnItsWay(i) \/ Has(i)

SnapOK ==
    /\ snapTo \in 0 .. lsn
    /\ pc = "apply" => \A i \in Ids : i < nextUpdateId /\ InConfig(i) => log[i].lsn <= snapTo

MarkOK ==
    /\ synced \in {kUnsynchronizedID} \cup 0 .. Len(log)
    /\ ~ async => \A i \in Ids : i <= synced => Has(i)

\* The inductive invariant of what the follower has.
FInv == LsnOK /\ AnswersOK /\ LatestOK /\ PhaseOK /\ BehindOK /\ SnapOK /\ OkIsApplied /\ MarkOK

LEMMA InitFollower == Init => FInv
<1> SUFFICES ASSUME Init PROVE FInv
  OBVIOUS
<1> USE DEF Init
<1>1. Ids = {} /\ inflight = <<>> /\ pc = "start" /\ Len(inflight) = 0
  BY DEF Ids
<1>2. LsnOK
  BY <1>1 DEF LsnOK
<1>3. AnswersOK /\ LatestOK
  BY <1>1 DEF AnswersOK, LatestOK
<1>4. PhaseOK /\ BehindOK
  BY <1>1 DEF PhaseOK, BehindOK, NoError, InChunk
<1>5. SnapOK /\ OkIsApplied /\ MarkOK
  BY <1>1 DEF SnapOK, OkIsApplied, MarkOK
<1> QED
  BY <1>2, <1>3, <1>4, <1>5 DEF FInv

-----------------------------------------------------------------------------
(* The follower and the queue only go forward.                             *)

Forward ==
    /\ Len(log') >= Len(log)
    /\ \A i \in Ids : log'[i] = log[i]
    /\ \A i \in Ids' : i \notin Ids /\ InConfig(i)' => log'[i].lsn > lsn
    /\ flsn' >= flsn /\ lsn' >= lsn

LEMMA Stays ==
  ASSUME IInv, LsnOK, LsnOK', Forward, NEW i \in Ids
  PROVE  /\ i \in Ids' /\ InConfig(i)' = InConfig(i) /\ log'[i].lsn = log[i].lsn
         /\ Has(i) => Has(i)'
<1>1. log'[i] = log[i]
  BY DEF Forward
<1>2. i \in Ids'
  BY DEF Forward, Ids, IInv, QueueOK
<1>3. InConfig(i)' = InConfig(i)
  BY <1>1 DEF InConfig
<1>4. ASSUME Has(i), InConfig(i)' PROVE log'[i].lsn <= flsn'
  <2>1. InConfig(i) /\ flsn \in Int /\ flsn' \in Int /\ log[i].lsn \in Int
    <3>1. InConfig(i)
      BY <1>3, <1>4
    <3>2. log[i].lsn \in 1 .. lsn
      BY <3>1 DEF LsnOK
    <3> QED
      BY <3>1, <3>2 DEF LsnOK
  <2> QED
    BY <1>1, <1>3, <1>4, <2>1 DEF Has, Forward
<1> QED
  BY <1>1, <1>2, <1>3, <1>4 DEF Has

\* An update is appended, with the next LSN if it is of the namespace.
LEMMA Appends ==
  ASSUME IInv, LsnOK, NEW u \in Updates, Enqueued(u), flsn' = flsn,
         \/ u.kind \in {"item", "ddl"} /\ u.lsn = lsn' /\ lsn' = lsn + 1
         \/ u.kind \notin {"item", "ddl"} /\ lsn' = lsn,
         late' \in Seq(Nat), \A k \in 1 .. Len(late') : late'[k] <= lsn
  PROVE  LsnOK' /\ Forward
<1>1. /\ Len(log') = Len(log) + 1 /\ Len(log) \in Nat
      /\ \A i \in 1 .. Len(log) : log'[i] = log[i]
      /\ log'[Len(log) + 1] = u
  BY DEF Enqueued, IInv, QueueOK
<1>2. lsn \in Nat \ {0} /\ lsn' \in Nat \ {0} /\ lsn' >= lsn /\ flsn \in 0 .. lsn
  BY DEF LsnOK
<1>3. \A i \in Ids : i \in Ids' /\ log'[i] = log[i] /\ InConfig(i)' = InConfig(i)
  BY <1>1 DEF Ids, InConfig
<1>4. ASSUME NEW i \in Ids', i \notin Ids, InConfig(i)'
      PROVE  i = Len(log) + 1 /\ log'[i].lsn = lsn' /\ lsn' = lsn + 1
  <2>1. i = Len(log) + 1
    BY <1>1, <1>4 DEF Ids
  <2> QED
    BY <1>1, <1>4, <2>1 DEF InConfig
<1>5. Forward
  BY <1>1, <1>2, <1>3, <1>4 DEF Forward
<1>6. ASSUME NEW i \in Ids', InConfig(i)' PROVE log'[i].lsn \in 1 .. lsn'
  <2>1. CASE i \in Ids
    <3>1. log[i].lsn \in 1 .. lsn
      BY <1>3, <1>6, <2>1 DEF LsnOK
    <3> QED
      BY <1>2, <1>3, <2>1, <3>1
  <2>2. CASE i \notin Ids
    BY <1>2, <1>4, <1>6, <2>2
  <2> QED
    BY <2>1, <2>2
<1>7. ASSUME NEW i \in Ids', NEW j \in Ids', i < j, InConfig(i)', InConfig(j)'
      PROVE  log'[i].lsn < log'[j].lsn
  <2>1. i \in Ids
    BY <1>1, <1>7 DEF Ids
  <2>2. CASE j \in Ids
    BY <1>3, <1>7, <2>1, <2>2 DEF LsnOK
  <2>3. CASE j \notin Ids
    <3>1. log[i].lsn \in 1 .. lsn
      BY <1>3, <1>7, <2>1 DEF LsnOK
    <3> QED
      BY <1>2, <1>3, <1>4, <1>7, <2>1, <2>3, <3>1
  <2> QED
    BY <2>2, <2>3
<1>8. \A k \in 1 .. Len(late') : late'[k] <= lsn'
  <2>1. ASSUME NEW k \in 1 .. Len(late') PROVE late'[k] <= lsn'
    <3>1. late'[k] \in Nat /\ late'[k] <= lsn
      BY <2>1, ElementOf
    <3> QED
      BY <1>2, <3>1
  <2> QED
    BY <2>1
<1> QED
  BY <1>2, <1>5, <1>6, <1>7, <1>8 DEF LsnOK

\* The queue stays and the follower goes on, but not beyond the leader.
LEMMA Follows ==
  ASSUME IInv, LsnOK, UNCHANGED <<lsn, log>>, flsn' \in flsn .. lsn,
         late' \in Seq(Nat), \A k \in 1 .. Len(late') : late'[k] <= lsn
  PROVE  LsnOK' /\ Forward
<1>1. Ids' = Ids /\ \A i \in Ids : InConfig(i)' = InConfig(i) /\ log'[i] = log[i]
  BY DEF Ids, InConfig
<1>2. flsn \in Nat /\ lsn \in Nat /\ flsn' \in 0 .. lsn' /\ flsn' >= flsn
  BY DEF LsnOK
<1>3. LsnOK'
  BY <1>1, <1>2 DEF LsnOK
<1> QED
  BY <1>1, <1>2, <1>3 DEF Forward, IInv, QueueOK

LEMMA BoundedConcat ==
  ASSUME NEW n, NEW s \in Seq(Nat), NEW t \in Seq(Nat),
         \A k \in 1 .. Len(s) : s[k] <= n, \A k \in 1 .. Len(t) : t[k] <= n
  PROVE  s \o t \in Seq(Nat) /\ \A k \in 1 .. Len(s \o t) : (s \o t)[k] <= n
<1>1. s \o t \in Seq(Nat) /\ Len(s \o t) = Len(s) + Len(t) /\ Len(s) \in Nat /\ Len(t) \in Nat
  OBVIOUS
<1>2. ASSUME NEW k \in 1 .. Len(s \o t) PROVE (s \o t)[k] <= n
  <2>1. CASE k <= Len(s)
    BY <1>1, <2>1
  <2>2. CASE k > Len(s)
    <3>1. k - Len(s) \in 1 .. Len(t) /\ (s \o t)[k] = t[k - Len(s)]
      BY <1>1, <2>2
    <3> QED
      BY <3>1
  <2> QED
    BY <1>1, <2>1, <2>2
<1> QED
  BY <1>1, <1>2

\* Requests that failed with the connection may be executed later.
LEMMA LateOnes ==
  ASSUME IInv, FInv, NEW n \in 0 .. Len(inflight), late' = late \o LsnsOf(Sent(n))
  PROVE  late' \in Seq(Nat) /\ \A k \in 1 .. Len(late') : late'[k] <= lsn
<1> DEFINE S == {k \in DOMAIN inflight : inflight[k].st = "sent"}
           r == Sent(n)
           m == LsnsOf(r)
<1>1. inflight \in Seq(Requests) /\ DOMAIN inflight = 1 .. Len(inflight) /\ Len(inflight) \in Nat
  BY DEF IInv, FlightOK
<1>2. FirstSent \in 1 .. Len(inflight) + 1
  <2>1. IsFiniteSet(1 .. Len(inflight)) /\ Cardinality(1 .. Len(inflight)) = Len(inflight)
    <3>1. 1 \in Int /\ Len(inflight) \in Int
      BY <1>1
    <3>2. /\ IsFiniteSet(1 .. Len(inflight))
          /\ Cardinality(1 .. Len(inflight))
               = IF 1 > Len(inflight) THEN 0 ELSE Len(inflight) - 1 + 1
      BY <3>1, FS_Interval
    <3> QED
      BY <1>1, <3>2
  <2>2. IsFiniteSet(S) /\ Cardinality(S) <= Len(inflight) /\ Cardinality(S) \in Nat
    BY <1>1, <2>1, FS_Subset, FS_CardinalityType
  <2> QED
    BY <1>1, <2>2 DEF FirstSent
<1>3. /\ r \in Seq(Requests) /\ Len(r) \in Nat /\ DOMAIN r = 1 .. Len(r)
      /\ \A k \in 1 .. Len(r) : \E j \in 1 .. Len(inflight) : r[k] = inflight[j]
  <2>1. \A k \in 1 .. Len(r) :
           FirstSent + k - 1 \in 1 .. Len(inflight) /\ r[k] = inflight[FirstSent + k - 1]
    BY <1>1, <1>2 DEF Sent
  <2>2. r \in Seq(Requests)
    BY <1>1, <1>2 DEF Sent
  <2>3. Len(r) \in Nat /\ DOMAIN r = 1 .. Len(r)
    BY <2>2
  <2> QED
    BY <2>1, <2>2, <2>3
<1>4. ASSUME NEW k \in 1 .. Len(r) PROVE m[k] \in Nat /\ m[k] <= lsn
  <2>1. PICK j \in 1 .. Len(inflight) : r[k] = inflight[j]
    BY <1>3
  <2>2. inflight[j].id \in Ids /\ InConfig(inflight[j].id)
    BY DEF IInv, FlightOK, QueueOK, Ids, FInv, AnswersOK
  <2>3. m[k] = log[inflight[j].id].lsn
    BY <1>3, <2>1 DEF LsnsOf
  <2>4. log[inflight[j].id].lsn \in 1 .. lsn /\ lsn \in Nat
    BY <2>2 DEF FInv, LsnOK
  <2> QED
    BY <2>3, <2>4
<1>5. m \in Seq(Nat) /\ Len(m) = Len(r)
  <2>1. m = [k \in 1 .. Len(r) |-> log[r[k].id].lsn]
    BY <1>3 DEF LsnsOf
  <2>2. m \in [1 .. Len(r) -> Nat]
    BY <1>4, <2>1
  <2> QED
    BY <1>3, <2>2, FunctionIsSeq
<1>6. /\ late \in Seq(Nat) /\ Len(late) \in Nat
      /\ \A k \in 1 .. Len(late) : late[k] <= lsn
  <2>1. late \in Seq(Nat)
    BY DEF FInv, LsnOK
  <2>2. Len(late) \in Nat
    BY <2>1
  <2> QED
    BY <2>1, <2>2 DEF FInv, LsnOK
<1>7. \A k \in 1 .. Len(m) : m[k] <= lsn
  BY <1>3, <1>4, <1>5
<1>8. late' = late \o m
  OBVIOUS
<1> HIDE DEF m
<1> QED
  BY <1>5, <1>6, <1>7, <1>8, BoundedConcat

LEMMA FlightIds ==
  ASSUME IInv, FInv, NEW k \in 1 .. Len(inflight)
  PROVE  /\ inflight[k] \in Requests /\ inflight[k].id \in Ids /\ InConfig(inflight[k].id)
         /\ log[inflight[k].id].lsn \in 1 .. lsn
<1>1. inflight[k] \in Requests
  BY ElementOf DEF IInv, FlightOK
<1>2. inflight[k].id \in Ids /\ InConfig(inflight[k].id)
  BY DEF IInv, FlightOK, QueueOK, Ids, FInv, AnswersOK
<1> QED
  BY <1>1, <1>2 DEF FInv, LsnOK

\* Every step but a write leaves the LSN of the leader.
LEMMA LsnStep ==
  ASSUME IInv, FInv, [Next]_vars
  PROVE  LsnOK' /\ Forward
<1> USE DEF leaderVars, readVars, followerVars, syncVars, wakeVars
<1>1. /\ LsnOK /\ lsn \in Nat \ {0} /\ flsn \in 0 .. lsn
      /\ late \in Seq(Nat) /\ \A k \in 1 .. Len(late) : late[k] <= lsn
  BY DEF FInv, LsnOK
<1>2. flsn \in flsn .. lsn
  BY <1>1
<1>3. ASSUME NEW kind \in Kinds, NEW isEmitter \in BOOLEAN, Write(kind, isEmitter)
      PROVE  LsnOK' /\ Forward
  <2> DEFINE u == NewUpdate(kind, lsn', isEmitter)
  <2>1. kind \in {"item", "ddl", "other"} /\ lsn' \in Nat
    BY <1>1, <1>3, ReplNodeAssumption DEF Write
  <2>2. u \in Updates /\ u.kind = kind /\ u.lsn = lsn'
    BY <2>1 DEF NewUpdate, Updates
  <2>3. Enqueued(u) /\ late' = late /\ flsn' = flsn
    BY <1>3 DEF Write
  <2>4. \/ kind \in {"item", "ddl"} /\ lsn' = lsn + 1
        \/ kind = "other" /\ lsn' = lsn
    BY <1>3, <2>1 DEF Write
  <2> QED
    BY <1>1, <2>2, <2>3, <2>4, Appends
<1>4. ASSUME NEW k \in DOMAIN inflight, FollowerApplies(k) PROVE LsnOK' /\ Forward
  <2>1. k \in 1 .. Len(inflight)
    BY DEF IInv, FlightOK
  <2>2. log[inflight[k].id].lsn \in 1 .. lsn
    BY <2>1, FlightIds
  <2>3. flsn' \in flsn .. lsn
    BY <1>1, <1>4, <2>2 DEF FollowerApplies, Accepts
  <2> QED
    BY <1>1, <1>4, <2>3, Follows DEF FollowerApplies
<1>5. CASE LateRequest
  <2>1. late # <<>> /\ late' = Tail(late)
    BY <1>5 DEF LateRequest
  <2>2. Head(late) = late[1] /\ 1 \in 1 .. Len(late) /\ Head(late) \in Nat
    BY <1>1, <2>1
  <2>3. Head(late) <= lsn
    BY <1>1, <2>2
  <2>4. flsn' \in flsn .. lsn
    BY <1>1, <1>5, <2>2, <2>3 DEF LateRequest, Accepts
  <2>5. late' \in Seq(Nat)
    BY <1>1, <2>1
  <2>6. ASSUME NEW k \in 1 .. Len(late') PROVE late'[k] <= lsn
    <3>1. k + 1 \in 1 .. Len(late) /\ late'[k] = late[k + 1]
      BY <1>1, <2>1
    <3> QED
      BY <1>1, <3>1
  <2> QED
    BY <1>1, <1>5, <2>4, <2>5, <2>6, Follows DEF LateRequest
<1>6. CASE ConnectionBreaks
  <2>1. late' \in Seq(Nat) /\ \A k \in 1 .. Len(late') : late'[k] <= lsn
    BY <1>6, LateOnes DEF ConnectionBreaks
  <2> DEFINE u == NewUpdate("offline", 0, FALSE)
  <2>2. u \in Updates /\ u.kind = "offline" /\ Enqueued(u) /\ flsn' = flsn /\ lsn' = lsn
    BY <1>6 DEF ConnectionBreaks, NewUpdate, Updates
  <2> QED
    BY <1>1, <2>1, <2>2, Appends
<1>7. CASE NetworkReturns
  <2> DEFINE u == NewUpdate("online", 0, FALSE)
  <2>1. u \in Updates /\ u.kind = "online" /\ flsn' = flsn /\ lsn' = lsn /\ late' = late
    BY <1>7 DEF NetworkReturns, NewUpdate, Updates
  <2>2. CASE Enqueued(u)
    BY <1>1, <2>1, <2>2, Appends
  <2>3. CASE log' = log
    BY <1>1, <1>2, <2>1, <2>3, Follows
  <2> QED
    BY <1>7, <2>2, <2>3 DEF NetworkReturns
<1>8. ASSUME NEW k \in DOMAIN inflight, RequestTimesOut(k) PROVE LsnOK' /\ Forward
  <2>1. k \in 1 .. Len(inflight)
    BY DEF IInv, FlightOK
  <2>2. log[inflight[k].id].lsn \in 1 .. lsn
    BY <2>1, FlightIds
  <2>3. late' = Append(late, log[inflight[k].id].lsn)
    BY <1>8 DEF RequestTimesOut
  <2>4. late' \in Seq(Nat) /\ \A j \in 1 .. Len(late') : late'[j] <= lsn
    BY <1>1, <2>2, <2>3
  <2> QED
    BY <1>1, <1>2, <1>8, <2>4, Follows DEF RequestTimesOut
<1>9. CASE ApplySnapshotChunk
  <2>1. flsn' \in flsn .. lsn
    BY <1>1, <1>9 DEF ApplySnapshotChunk, FInv, SnapOK
  <2> QED
    BY <1>1, <1>9, <2>1, Follows DEF ApplySnapshotChunk
<1>10. CASE ChunkRejected \/ SnapshotApplied
  <2>1. flsn' \in {flsn, lsn} /\ UNCHANGED <<lsn, log, late>>
    BY <1>10 DEF ChunkRejected, SnapshotApplied
  <2>2. flsn' \in flsn .. lsn
    BY <1>1, <2>1
  <2> QED
    BY <1>1, <2>1, <2>2, Follows
<1>11. CASE UNCHANGED <<lsn, log, late, flsn>>
  BY <1>1, <1>2, <1>11, Follows
<1>12. ASSUME NEW d \in Ids, DropUpdates(d) PROVE UNCHANGED <<lsn, log, late, flsn>>
  BY <1>12 DEF DropUpdates
<1>13. NoConnection \/ GetReplState \/ GetSnapshot \/ Retry \/ HandleUpdatesWithError
         => UNCHANGED <<lsn, log, late, flsn>>
  BY DEF NoConnection, GetReplState, GetSnapshot, Retry, HandleUpdatesWithError
<1>14. Resync \/ ReadDropBlock \/ ReadNothing \/ Awake \/ ReadChunk \/ ChunkEnds
         \/ HandleNetworkCheck \/ SkipUpdate \/ NextUpdate
         => UNCHANGED <<lsn, log, late, flsn>>
  BY DEF Resync, ReadDropBlock, ReadNothing, Awake, ReadChunk, ChunkEnds,
         HandleNetworkCheck, SkipUpdate, NextUpdate
<1>15. Batch \/ BatchTakesAnswer \/ AwaitTakesAnswer \/ ApplyUpdate \/ UpdateApplied
         \/ DrainTakesAnswer \/ Drained
         => UNCHANGED <<lsn, log, late, flsn>>
  BY DEF Batch, BatchTakesAnswer, AwaitTakesAnswer, ApplyUpdate, UpdateApplied,
         DrainTakesAnswer, Drained
<1>16. UNCHANGED vars => UNCHANGED <<lsn, log, late, flsn>>
  BY DEF vars
<1> QED
  BY <1>3, <1>4, <1>5, <1>6, <1>7, <1>8, <1>9, <1>10, <1>11, <1>12, <1>13, <1>14, <1>15, <1>16
     DEF Next, Leader, Follower, Faults, Sync, Loop

-----------------------------------------------------------------------------
(* Steps of the others: the routine does nothing.                          *)

LEMMA Quiet ==
  ASSUME IInv, IInv', FInv, LsnOK', Forward, SameFlight,
         \A k \in 1 .. Len(inflight), i \in Ids :
            i = inflight[k].id /\ inflight'[k].st = "ok" => Has(i)',
         UNCHANGED <<async, pc, res, nextUpdateId, latestLsn, snapTo, synced>>,
         \A i \in Ids : counted'[i] = counted[i]
  PROVE  FInv'
<1>1. \A i \in Ids : /\ i \in Ids' /\ InConfig(i)' = InConfig(i) /\ log'[i].lsn = log[i].lsn
                     /\ Has(i) => Has(i)'
  BY Stays DEF FInv
<1>2. /\ lsn \in Nat /\ lsn' \in Nat /\ lsn' >= lsn
      /\ Len(log) \in Nat /\ Len(log') \in Nat /\ Len(log') >= Len(log)
      /\ nextUpdateId \in 1 .. Len(log) + 1
  BY DEF FInv, LsnOK, Forward, IInv, QueueOK
<1>3. \A i \in Ids' : i \notin Ids => i >= nextUpdateId
  BY <1>2 DEF Ids
<1>4. \A i : (Held(i)' <=> Held(i)) /\ (ToRead(i)' <=> ToRead(i))
  BY DEF Held, ToRead
<1>5. AnswersOK'
  <2>1. ASSUME NEW k \in 1 .. Len(inflight')
        PROVE  /\ (InConfig(inflight[k].id))'
               /\ inflight'[k].st = "ok" => (Has(inflight[k].id))'
    <3>1. k \in 1 .. Len(inflight) /\ inflight'[k].id = inflight[k].id
      BY DEF SameFlight
    <3>2. inflight[k].id \in Ids /\ InConfig(inflight[k].id)
      BY <3>1, FlightIds
    <3> QED
      BY <1>1, <3>1, <3>2 DEF InConfig, Has
  <2> QED
    BY <2>1 DEF AnswersOK
<1>6. LatestOK'
  <2>1. latestLsn \in 0 .. lsn /\ latestLsn' \in 0 .. lsn'
    BY <1>2 DEF FInv, LatestOK
  <2>2. ASSUME NEW i \in Ids', Held(i)' PROVE InConfig(i)'
    <3>1. i \in Ids
      BY <1>2, <1>3, <1>4, <2>2 DEF Held, Ids
    <3> QED
      BY <1>1, <1>4, <2>2, <3>1 DEF FInv, LatestOK
  <2>3. ASSUME NEW i \in Ids', ToRead(i)', InConfig(i)', log'[i].lsn <= latestLsn'
        PROVE  Has(i)'
    <3>1. CASE i \in Ids
      BY <1>1, <1>4, <2>3, <3>1 DEF FInv, LatestOK
    <3>2. CASE i \notin Ids
      <4>1. log'[i].lsn > lsn /\ log'[i].lsn \in 1 .. lsn'
        BY <2>3, <3>2 DEF Forward, LsnOK
      <4> QED
        BY <1>2, <2>1, <2>3, <4>1
    <3> QED
      BY <3>1, <3>2
  <2> QED
    BY <2>1, <2>2, <2>3 DEF LatestOK
<1>7. PhaseOK'
  <2>1. inflight' = <<>> <=> inflight = <<>>
    BY DEF SameFlight, IInv, FlightOK
  <2> QED
    BY <2>1 DEF FInv, PhaseOK, InChunk
<1>8. BehindOK'
  <2>1. ASSUME NoError', NEW i \in Ids' PROVE ToRead(i)' \/ OnItsWay(i)' \/ Has(i)'
    <3>1. CASE i \in Ids
      <4>1. ToRead(i) \/ OnItsWay(i) \/ Has(i)
        BY <2>1, <3>1 DEF FInv, BehindOK, NoError, InChunk
      <4>2. OnItsWay(i) => OnItsWay(i)'
        BY DEF OnItsWay, SameFlight
      <4> QED
        BY <1>1, <1>4, <3>1, <4>1, <4>2
    <3>2. CASE i \notin Ids
      BY <1>3, <3>2 DEF ToRead
    <3> QED
      BY <3>1, <3>2
  <2> QED
    BY <2>1 DEF BehindOK
<1>9. SnapOK'
  <2>1. snapTo' \in 0 .. lsn'
    BY <1>2 DEF FInv, SnapOK
  <2>2. ASSUME pc' = "apply", NEW i \in Ids', i < nextUpdateId', InConfig(i)'
        PROVE  log'[i].lsn <= snapTo'
    <3>1. i \in Ids
      BY <1>2, <1>3, <2>2 DEF Ids
    <3> QED
      BY <1>1, <2>2, <3>1 DEF FInv, SnapOK
  <2> QED
    BY <2>1, <2>2 DEF SnapOK
<1>10. OkIsApplied'
  <2>1. ASSUME NEW i \in Ids', counted'[i].ok = 1, InConfig(i)' PROVE log'[i].lsn <= flsn'
    <3>1. CASE i \in Ids
      <4>1. counted[i].ok = 1 /\ InConfig(i)
        BY <1>1, <2>1, <3>1
      <4>2. Has(i)
        BY <3>1, <4>1 DEF FInv, OkIsApplied, Has
      <4> QED
        BY <1>1, <2>1, <3>1, <4>2 DEF Has
    <3>2. CASE i \notin Ids
      <4>1. counted'[i].ok + counted'[i].err = 0
        BY <1>3, <3>2 DEF IInv, UnreadOK, Counts
      <4>2. counted'[i] \in [ok : Nat, err : Nat]
        BY ElementOf DEF IInv, QueueOK, Ids
      <4> QED
        BY <2>1, <4>1, <4>2
    <3> QED
      BY <3>1, <3>2
  <2> QED
    BY <2>1 DEF OkIsApplied
<1>11. MarkOK'
  <2>1. /\ synced' \in {kUnsynchronizedID} \cup 0 .. Len(log')
        /\ synced \in 0 .. Len(log) \/ synced = -2
    BY <1>2 DEF FInv, MarkOK, kUnsynchronizedID
  <2>2. ASSUME ~ async', NEW i \in Ids', i <= synced' PROVE Has(i)'
    <3>1. i \in Ids
      BY <1>2, <2>1, <2>2 DEF Ids
    <3> QED
      BY <1>1, <2>2, <3>1 DEF FInv, MarkOK
  <2> QED
    BY <2>1, <2>2 DEF MarkOK
<1> QED
  BY <1>5, <1>6, <1>7, <1>8, <1>9, <1>10, <1>11 DEF FInv

LEMMA OthersStep ==
  ASSUME IInv, IInv', FInv, LsnOK', Forward, Leader \/ Follower \/ Faults
  PROVE  FInv'
<1> USE DEF leaderVars, readVars, syncVars, wakeVars
<1>1. inflight \in Seq(Requests) /\ DOMAIN inflight = 1 .. Len(inflight)
  BY DEF IInv, FlightOK
<1>2. \A k \in 1 .. Len(inflight), i \in Ids :
         i = inflight[k].id /\ inflight[k].st = "ok" => Has(i)'
  <2>1. \A i \in Ids : Has(i) => Has(i)'
    BY Stays DEF FInv
  <2> QED
    BY <2>1 DEF FInv, AnswersOK
<1>3. inflight' = inflight => SameFlight
  BY <1>1 DEF SameFlight
<1>4. ASSUME NEW u, Enqueued(u) PROVE \A i \in Ids : counted'[i] = counted[i]
  BY <1>4 DEF Enqueued, Ids, IInv, QueueOK
<1>5. ASSUME NEW kind \in Kinds, NEW isEmitter \in BOOLEAN, Write(kind, isEmitter)
      PROVE  FInv'
  <2>1. \A i \in Ids : counted'[i] = counted[i]
    BY <1>4, <1>5 DEF Write
  <2> QED
    BY <1>2, <1>3, <1>5, <2>1, Quiet DEF Write
<1>6. ASSUME NEW d \in Ids, DropUpdates(d) PROVE FInv'
  BY <1>2, <1>3, <1>6, Quiet DEF DropUpdates
<1>7. CASE LateRequest
  BY <1>2, <1>3, <1>7, Quiet DEF LateRequest
<1>8. ASSUME NEW k \in DOMAIN inflight, FollowerApplies(k) PROVE FInv'
  <2> DEFINE id == inflight[k].id
             st == IF Accepts(log[id].lsn) THEN "ok" ELSE "data"
  <2>1. st \in {"ok", "data"} /\ inflight' = [inflight EXCEPT ![k].st = st]
    BY <1>8 DEF FollowerApplies
  <2>2. SameFlight
    BY <1>1, <2>1, Answered
  <2>3. ASSUME NEW j \in 1 .. Len(inflight), NEW i \in Ids,
               i = inflight[j].id, inflight'[j].st = "ok"
        PROVE  Has(i)'
    <3>1. CASE j = k
      <4>1. inflight'[k].st = st
        BY <1>1, <2>1, <3>1, ElementOf DEF Requests
      <4>2. Accepts(log[id].lsn)
        BY <2>3, <3>1, <4>1
      <4>3. flsn' = log[id].lsn /\ log' = log
        BY <1>8, <4>2 DEF FollowerApplies, Accepts
      <4>4. log[id].lsn \in 1 .. lsn
        BY <1>1, FlightIds
      <4> QED
        BY <2>3, <3>1, <4>3, <4>4 DEF Has
    <3>2. CASE j # k
      <4>1. inflight'[j] = inflight[j]
        BY <1>1, <2>1, <3>2
      <4> QED
        BY <1>2, <2>3, <4>1
    <3> QED
      BY <3>1, <3>2
  <2> QED
    BY <1>8, <2>2, <2>3, Quiet DEF FollowerApplies
<1>9. CASE ConnectionBreaks
  <2>1. inflight' = [k \in 1 .. Len(inflight) |->
                       IF inflight[k].st = "sent" THEN [inflight[k] EXCEPT !.st = "net"]
                       ELSE inflight[k]]
    BY <1>1, <1>9 DEF ConnectionBreaks
  <2>2. ASSUME NEW k \in 1 .. Len(inflight)
        PROVE  /\ inflight'[k] \in Requests /\ inflight'[k].id = inflight[k].id
               /\ inflight'[k].st = "ok" => inflight[k].st = "ok"
    <3>1. inflight[k] \in Requests
      BY <1>1, ElementOf
    <3> QED
      BY <2>1, <3>1 DEF Requests
  <2>3. SameFlight
    <3>1. inflight' \in [1 .. Len(inflight) -> Requests]
      BY <2>1, <2>2
    <3> QED
      BY <1>1, <2>2, <3>1, FunctionIsSeq DEF SameFlight
  <2>4. \A i \in Ids : counted'[i] = counted[i]
    BY <1>4, <1>9 DEF ConnectionBreaks
  <2> QED
    BY <1>2, <1>9, <2>2, <2>3, <2>4, Quiet DEF ConnectionBreaks
<1>10. CASE NetworkReturns
  <2>1. \A i \in Ids : counted'[i] = counted[i]
    BY <1>4, <1>10 DEF NetworkReturns
  <2> QED
    BY <1>2, <1>3, <1>10, <2>1, Quiet DEF NetworkReturns
<1>11. ASSUME NEW k \in DOMAIN inflight, RequestTimesOut(k) PROVE FInv'
  <2>1. SameFlight
    BY <1>1, <1>11, Answered DEF RequestTimesOut
  <2>2. ASSUME NEW j \in 1 .. Len(inflight), inflight'[j].st = "ok"
        PROVE  inflight[j].st = "ok"
    BY <1>1, <1>11, <2>2, ElementOf DEF RequestTimesOut, Requests
  <2> QED
    BY <1>2, <1>11, <2>1, <2>2, Quiet DEF RequestTimesOut
<1> QED
  BY <1>5, <1>6, <1>7, <1>8, <1>9, <1>10, <1>11 DEF Leader, Follower, Faults

-----------------------------------------------------------------------------
(* Steps of the routine that neither read, send nor report.                *)

LEMMA Turn ==
  ASSUME IInv, IInv', FInv, LsnOK', Forward,
         UNCHANGED <<async, lsn, log, inflight, counted, nextUpdateId>>,
         pc \notin {"batch", "await"}, pc' \notin {"batch", "await"},
         latestLsn' = latestLsn \/ latestLsn' \in 0 .. flsn'
  PROVE  /\ AnswersOK' /\ LatestOK' /\ OkIsApplied'
         /\ synced' \in {synced, kUnsynchronizedID} => MarkOK'
<1>1. /\ Ids' = Ids
      /\ \A i \in Ids : InConfig(i)' = InConfig(i) /\ log'[i].lsn = log[i].lsn
                        /\ (Has(i) => Has(i)')
  BY Stays DEF FInv, Ids
<1>2. lsn \in Nat /\ flsn' \in 0 .. lsn
  BY DEF LsnOK
<1>3. AnswersOK'
  BY <1>1, FlightIds DEF FInv, AnswersOK
<1>4. LatestOK'
  <2>1. latestLsn' \in 0 .. lsn' /\ latestLsn' \in Nat
    BY <1>2 DEF FInv, LatestOK
  <2>2. \A i : ~ Held(i)'
    BY DEF Held
  <2>3. ASSUME NEW i \in Ids', ToRead(i)', InConfig(i)', log'[i].lsn <= latestLsn'
        PROVE  Has(i)'
    <3>1. ToRead(i)
      BY <2>2, <2>3 DEF ToRead
    <3>2. CASE latestLsn' = latestLsn
      BY <1>1, <2>3, <3>1, <3>2 DEF FInv, LatestOK
    <3>3. CASE latestLsn' \in 0 .. flsn'
      <4>1. log'[i].lsn \in 1 .. lsn'
        BY <2>3 DEF LsnOK
      <4> QED
        BY <1>2, <2>3, <3>3, <4>1 DEF Has
    <3> QED
      BY <3>2, <3>3
  <2> QED
    BY <2>1, <2>2, <2>3 DEF LatestOK
<1>5. OkIsApplied'
  <2>1. ASSUME NEW i \in Ids', counted'[i].ok = 1, InConfig(i)' PROVE log'[i].lsn <= flsn'
    <3>1. i \in Ids /\ counted[i].ok = 1 /\ InConfig(i)
      BY <1>1, <2>1
    <3>2. Has(i)
      BY <3>1 DEF FInv, OkIsApplied, Has
    <3> QED
      BY <1>1, <2>1, <3>1, <3>2 DEF Has
  <2> QED
    BY <2>1 DEF OkIsApplied
<1>6. ASSUME synced' \in {synced, kUnsynchronizedID} PROVE MarkOK'
  <2>1. synced' \in {kUnsynchronizedID} \cup 0 .. Len(log')
    BY <1>6 DEF FInv, MarkOK
  <2>2. ASSUME ~ async', NEW i \in Ids', i <= synced' PROVE Has(i)'
    <3>1. synced' = synced
      BY <1>1, <1>6, <2>2 DEF Ids, kUnsynchronizedID
    <3> QED
      BY <1>1, <2>2, <3>1 DEF FInv, MarkOK
  <2> QED
    BY <2>1, <2>2 DEF MarkOK
<1> QED
  BY <1>3, <1>4, <1>5, <1>6

\* The routine stops sending, or has not begun.
LEMMA SendsNothing ==
  ASSUME FInv, LsnOK', inflight' = <<>>, pc' \in {"start", "snapshot", "wait"},
         UNCHANGED <<lsn, snapTo>>
  PROVE  PhaseOK' /\ BehindOK' /\ SnapOK'
  BY DEF FInv, PhaseOK, BehindOK, NoError, InChunk, SnapOK

\* The routine goes on without an error.
LEMMA GoesOn ==
  ASSUME IInv, FInv, LsnOK', Forward, UNCHANGED <<lsn, log, inflight, nextUpdateId, snapTo>>,
         pc \notin {"batch", "await"}, pc' \notin {"batch", "await", "apply"},
         NoError' => NoError
  PROVE  BehindOK' /\ SnapOK'
<1>1. /\ Ids' = Ids /\ \A i \in Ids : Has(i) => Has(i)'
  BY Stays DEF FInv, Ids
<1>2. \A i : (ToRead(i)' <=> ToRead(i)) /\ (OnItsWay(i)' <=> OnItsWay(i))
  BY DEF ToRead, Held, OnItsWay
<1> QED
  BY <1>1, <1>2 DEF FInv, BehindOK, SnapOK

LEMMA SyncFollower ==
  ASSUME IInv, IInv', FInv, LsnOK', Forward, Sync \/ Retry
  PROVE  FInv'
<1> USE DEF leaderVars, readVars, syncVars, wakeVars, followerVars
<1>1. /\ UNCHANGED <<async, lsn, log, inflight, counted, nextUpdateId>>
      /\ pc \in {"start", "snapshot", "apply", "wait"}
      /\ pc' \notin {"batch", "await"}
      /\ synced' \in {synced, kUnsynchronizedID}
  BY DEF Sync, Retry, NoConnection, GetReplState, GetSnapshot, ApplySnapshotChunk,
         ChunkRejected, SnapshotApplied, Fails, Mark
<1>2. inflight = <<>> /\ inflight' = <<>>
  BY <1>1 DEF FInv, PhaseOK, InChunk
<1>3. lsn \in Nat /\ flsn \in 0 .. lsn /\ flsn' \in 0 .. lsn'
  BY DEF FInv, LsnOK
<1>4. latestLsn' = latestLsn \/ latestLsn' \in 0 .. flsn'
  BY <1>3 DEF Sync, Retry, NoConnection, GetReplState, GetSnapshot, ApplySnapshotChunk,
         ChunkRejected, SnapshotApplied
<1>5. AnswersOK' /\ LatestOK' /\ OkIsApplied' /\ MarkOK'
  BY <1>1, <1>4, Turn
<1>6. CASE pc' \in {"start", "snapshot", "wait"}
  <2>1. snapTo' = snapTo
    BY <1>6 DEF Sync, Retry, NoConnection, GetReplState, GetSnapshot, ApplySnapshotChunk,
           ChunkRejected, SnapshotApplied
  <2>2. PhaseOK' /\ BehindOK' /\ SnapOK'
    BY <1>1, <1>2, <1>6, <2>1, SendsNothing
  <2> QED
    BY <1>5, <2>2 DEF FInv
<1>7. CASE pc' = "apply"
  <2>1. PhaseOK' /\ BehindOK'
    BY <1>2, <1>7 DEF PhaseOK, BehindOK, NoError, InChunk
  <2>2. \A i \in Ids : InConfig(i)' = InConfig(i) /\ log'[i].lsn = log[i].lsn
    BY <1>1 DEF InConfig
  <2>3. CASE GetSnapshot
    <3>1. snapTo' = lsn
      BY <2>3 DEF GetSnapshot
    <3>2. \A i \in Ids : InConfig(i) => log[i].lsn <= lsn
      BY DEF FInv, LsnOK
    <3> QED
      BY <1>1, <1>3, <1>5, <2>1, <2>2, <3>1, <3>2 DEF FInv, SnapOK, Ids
  <2>4. CASE ApplySnapshotChunk
    <3>1. pc = "apply" /\ snapTo' = snapTo
      BY <2>4 DEF ApplySnapshotChunk
    <3> QED
      BY <1>1, <1>5, <2>1, <2>2, <3>1 DEF FInv, SnapOK, Ids
  <2> QED
    BY <1>7, <2>3, <2>4 DEF Sync, Retry, NoConnection, GetReplState, ChunkRejected,
         SnapshotApplied, Fails
<1>8. CASE pc' = "loop"
  <2>1. PhaseOK'
    BY <1>2, <1>8 DEF PhaseOK
  <2>2. pc = "apply" /\ snapTo' = snapTo /\ flsn' \in {snapTo, lsn}
    BY <1>8 DEF Sync, Retry, NoConnection, GetReplState, GetSnapshot, ApplySnapshotChunk,
         ChunkRejected, SnapshotApplied, Fails
  <2>3. ASSUME NEW i \in Ids', i < nextUpdateId' PROVE Has(i)'
    <3>1. CASE InConfig(i)
      <4>1. log[i].lsn <= snapTo /\ log[i].lsn \in 1 .. lsn
        BY <1>1, <2>2, <2>3, <3>1 DEF FInv, SnapOK, LsnOK, Ids
      <4> QED
        BY <1>1, <2>2, <4>1 DEF Has
    <3>2. CASE ~ InConfig(i)
      BY <1>1, <3>2 DEF Has, InConfig
    <3> QED
      BY <3>1, <3>2
  <2>4. BehindOK'
    BY <2>3 DEF BehindOK, ToRead, Ids, IInv, QueueOK
  <2>5. SnapOK'
    BY <1>1, <1>8, <2>2 DEF FInv, SnapOK
  <2> QED
    BY <1>5, <2>1, <2>4, <2>5 DEF FInv
<1> QED
  BY <1>6, <1>7, <1>8 DEF Sync, Retry, NoConnection, GetReplState, GetSnapshot,
       ApplySnapshotChunk, ChunkRejected, SnapshotApplied, Fails

\* The loop over the chunks.
LEMMA ChunksFollower ==
  ASSUME IInv, IInv', FInv, LsnOK', Forward,
         Resync \/ ReadNothing \/ Awake \/ ReadChunk \/ ChunkEnds \/ Drained
  PROVE  FInv'
<1> USE DEF leaderVars, readVars, syncVars, wakeVars, followerVars
<1>1. /\ UNCHANGED <<async, lsn, log, inflight, counted, nextUpdateId, latestLsn, snapTo>>
      /\ pc \notin {"batch", "await"}
      /\ pc' \in {"start", "idle", "loop", "chunk", "drain", "wait"}
  BY DEF Resync, ReadNothing, Awake, ReadChunk, ChunkEnds, Drained, Fails
<1>2. /\ AnswersOK' /\ LatestOK' /\ OkIsApplied'
      /\ synced' \in {synced, kUnsynchronizedID} => MarkOK'
  BY <1>1, Turn
<1>3. CASE Resync
  <2>1. inflight' = <<>> /\ pc' = "start" /\ synced' = synced
    BY <1>1, <1>3 DEF Resync, FInv, PhaseOK, InChunk
  <2>2. PhaseOK' /\ BehindOK' /\ SnapOK'
    BY <1>1, <2>1, SendsNothing
  <2> QED
    BY <1>2, <2>1, <2>2 DEF FInv
<1>4. CASE ReadNothing
  <2>1. pc = "loop" /\ pc' = "idle" /\ inflight = <<>> /\ inflight' = <<>>
    BY <1>1, <1>4 DEF ReadNothing, FInv, PhaseOK, InChunk
  <2>2. PhaseOK' /\ NoError
    BY <2>1 DEF PhaseOK, NoError
  <2>3. BehindOK' /\ SnapOK'
    BY <1>1, <2>1, <2>2, GoesOn
  <2>4. MarkOK'
    <3>1. CASE synced' = synced
      BY <1>2, <3>1
    <3>2. CASE synced' = nextUpdateId - 1
      <4>1. synced' \in 0 .. Len(log')
        BY <1>1, <3>2 DEF IInv, QueueOK
      <4>2. ASSUME NEW i \in Ids', i <= synced' PROVE Has(i)'
        <5>1. i \in Ids /\ i < nextUpdateId /\ ~ ToRead(i) /\ ~ OnItsWay(i)
          BY <1>1, <2>1, <3>2, <4>2 DEF Ids, ToRead, Held, OnItsWay, IInv, QueueOK
        <5>2. Has(i)
          BY <2>2, <5>1 DEF FInv, BehindOK
        <5> QED
          BY <5>1, <5>2, Stays DEF FInv
      <4> QED
        BY <4>1, <4>2 DEF MarkOK
    <3> QED
      BY <1>4, <3>1, <3>2 DEF ReadNothing, Mark
  <2> QED
    BY <1>2, <2>2, <2>3, <2>4 DEF FInv
<1>5. CASE Awake \/ ReadChunk
  <2>1. /\ pc \in {"idle", "loop"} /\ pc' \in {"loop", "chunk"}
        /\ pc' = "chunk" => res' = "ok"
        /\ synced' = synced
    BY <1>5 DEF Awake, ReadChunk
  <2>2. inflight = <<>> /\ inflight' = <<>> /\ NoError
    BY <1>1, <2>1 DEF FInv, PhaseOK, InChunk, NoError
  <2>3. PhaseOK'
    BY <2>1, <2>2 DEF PhaseOK
  <2>4. BehindOK' /\ SnapOK'
    BY <1>1, <2>1, <2>2, GoesOn
  <2> QED
    BY <1>2, <2>1, <2>3, <2>4 DEF FInv
<1>6. CASE ChunkEnds
  <2>1. pc = "chunk" /\ pc' = "drain" /\ res' = res /\ synced' = synced
    BY <1>6 DEF ChunkEnds
  <2>2. PhaseOK'
    BY <2>1 DEF PhaseOK, InChunk
  <2>3. NoError' => NoError
    BY <2>1 DEF NoError, InChunk
  <2>4. BehindOK' /\ SnapOK'
    BY <1>1, <2>1, <2>3, GoesOn
  <2> QED
    BY <1>2, <2>1, <2>2, <2>4 DEF FInv
<1>7. CASE Drained
  <2>1. /\ pc = "drain" /\ inflight = <<>> /\ inflight' = <<>>
        /\ synced' \in {synced, kUnsynchronizedID}
        /\ \/ res = "ok" /\ pc' = "loop"
           \/ pc' = "wait"
    BY <1>1, <1>7 DEF Drained, Fails, Mark
  <2>2. CASE pc' = "wait"
    <3>1. PhaseOK' /\ BehindOK' /\ SnapOK'
      BY <1>1, <2>1, <2>2, SendsNothing
    <3> QED
      BY <1>2, <2>1, <3>1 DEF FInv
  <2>3. CASE res = "ok" /\ pc' = "loop"
    <3>1. PhaseOK' /\ NoError
      BY <2>1, <2>3 DEF PhaseOK, NoError, InChunk
    <3>2. BehindOK' /\ SnapOK'
      BY <1>1, <2>1, <2>3, <3>1, GoesOn
    <3> QED
      BY <1>2, <2>1, <3>1, <3>2 DEF FInv
  <2> QED
    BY <2>1, <2>2, <2>3
<1> QED
  BY <1>3, <1>4, <1>5, <1>6, <1>7

-----------------------------------------------------------------------------
(* Steps of the routine with the updates.                                  *)

LEMMA Same ==
  ASSUME UNCHANGED <<lsn, log, flsn>>
  PROVE  Ids' = Ids /\ \A i : (InConfig(i)' <=> InConfig(i)) /\ (Has(i)' <=> Has(i))
<1>1. Ids' = Ids
  BY DEF Ids
<1>2. \A i : InConfig(i)' <=> InConfig(i)
  BY DEF InConfig
<1> QED
  BY <1>1, <1>2 DEF Has

\* An update is read: it is held for sending, or the follower has it.
LEMMA ReadsOne ==
  ASSUME IInv, IInv', FInv, LsnOK',
         UNCHANGED <<async, lsn, log, flsn, inflight, latestLsn, snapTo, synced>>,
         pc = "chunk", nextUpdateId \in Ids, nextUpdateId' = nextUpdateId + 1,
         \A i \in Ids : i # nextUpdateId => counted'[i] = counted[i],
         \/ /\ pc' \in {"batch", "await"} /\ res' = res
            /\ InConfig(nextUpdateId) /\ counted' = counted
         \/ /\ pc' \in {"chunk", "drain"} /\ (pc' = "chunk" => res' = "ok")
            /\ Has(nextUpdateId)
  PROVE  FInv'
<1>1. Ids' = Ids /\ \A i : (InConfig(i)' <=> InConfig(i)) /\ (Has(i)' <=> Has(i))
  BY Same
<1>2. nextUpdateId \in Nat /\ Ids \subseteq Nat
  BY DEF Ids, IInv, QueueOK
<1>3. res = "ok" /\ NoError
  BY DEF FInv, PhaseOK, NoError, InChunk
<1>4. AnswersOK'
  BY <1>1 DEF FInv, AnswersOK, InConfig, Has
<1>5. LatestOK'
  <2>1. \A i \in Ids : Held(i)' => InConfig(i)'
    BY <1>1, <1>2 DEF Held
  <2>2. \A i \in Ids : ToRead(i)' => ToRead(i)
    BY <1>2 DEF ToRead, Held
  <2> QED
    BY <1>1, <2>1, <2>2 DEF FInv, LatestOK
<1>6. PhaseOK'
  BY <1>3 DEF PhaseOK, InChunk
<1>7. BehindOK'
  <2>1. ASSUME NEW i \in Ids PROVE ToRead(i)' \/ OnItsWay(i)' \/ Has(i)'
    <3>1. CASE i = nextUpdateId
      BY <1>1, <1>2, <3>1 DEF ToRead, Held
    <3>2. CASE i # nextUpdateId
      <4>1. ToRead(i) => ToRead(i)'
        BY <1>2, <3>2 DEF ToRead, Held
      <4>2. OnItsWay(i)' <=> OnItsWay(i)
        BY DEF OnItsWay
      <4> QED
        BY <1>1, <1>3, <4>1, <4>2 DEF FInv, BehindOK
    <3> QED
      BY <3>1, <3>2
  <2> QED
    BY <1>1, <2>1 DEF BehindOK
<1>8. SnapOK'
  BY DEF FInv, SnapOK
<1>9. OkIsApplied'
  <2>1. ASSUME NEW i \in Ids, counted'[i].ok = 1, InConfig(i) PROVE Has(i)
    <3>1. CASE counted'[i] = counted[i]
      BY <2>1, <3>1 DEF FInv, OkIsApplied, Has
    <3>2. CASE counted'[i] # counted[i]
      BY <2>1, <3>2
    <3> QED
      BY <3>1, <3>2
  <2> QED
    BY <1>1, <2>1 DEF OkIsApplied, Has
<1>10. MarkOK'
  BY <1>1 DEF FInv, MarkOK
<1> QED
  BY <1>4, <1>5, <1>6, <1>7, <1>8, <1>9, <1>10 DEF FInv

LEMMA ReadFollower ==
  ASSUME IInv, IInv', FInv, LsnOK', HandleNetworkCheck \/ SkipUpdate \/ NextUpdate
  PROVE  FInv'
<1> USE DEF leaderVars, readVars, syncVars, wakeVars, followerVars
<1>1. /\ UNCHANGED <<async, lsn, log, flsn, inflight, latestLsn, snapTo, synced>>
      /\ pc = "chunk" /\ nextUpdateId' = nextUpdateId + 1
  BY DEF HandleNetworkCheck, SkipUpdate, NextUpdate
<1>2. nextUpdateId \in Ids
  BY DEF HandleNetworkCheck, SkipUpdate, NextUpdate, HasUpdate, Ids, IInv, QueueOK
<1>3. ASSUME CountOk(nextUpdateId), NEW i \in Ids, i # nextUpdateId
      PROVE  counted'[i] = counted[i]
  BY <1>3 DEF CountOk, Ids, IInv, QueueOK
<1>4. CASE HandleNetworkCheck
  <2>1. Has(nextUpdateId)
    BY <1>4 DEF HandleNetworkCheck, IsNetworkCheck, Has, InConfig
  <2>2. pc' \in {"chunk", "drain"} /\ (pc' = "chunk" => res' = "ok")
    BY <1>4 DEF HandleNetworkCheck
  <2>3. CountOk(nextUpdateId)
    BY <1>4 DEF HandleNetworkCheck
  <2> QED
    BY <1>1, <1>2, <1>3, <2>1, <2>2, <2>3, ReadsOne
<1>5. CASE SkipUpdate
  <2>1. Has(nextUpdateId)
    <3>1. CASE log[nextUpdateId].kind = "other"
      BY <3>1 DEF Has, InConfig
    <3>2. CASE InConfig(nextUpdateId) /\ log[nextUpdateId].lsn <= latestLsn
      <4>1. ToRead(nextUpdateId)
        BY DEF ToRead, IInv, QueueOK
      <4> QED
        BY <1>2, <3>2, <4>1 DEF FInv, LatestOK
    <3> QED
      BY <1>5, <3>1, <3>2 DEF SkipUpdate, IsOutdatedRecord
  <2>2. pc' = "chunk" /\ res' = "ok" /\ CountOk(nextUpdateId)
    BY <1>1, <1>5 DEF SkipUpdate, FInv, PhaseOK
  <2> QED
    BY <1>1, <1>2, <1>3, <2>1, <2>2, ReadsOne
<1>6. CASE NextUpdate
  <2>1. /\ pc' \in {"batch", "await"} /\ res' = res
        /\ InConfig(nextUpdateId) /\ counted' = counted
    BY <1>6 DEF NextUpdate
  <2> QED
    BY <1>1, <1>2, <2>1, ReadsOne
<1> QED
  BY <1>4, <1>5, <1>6

\* The update that was held is sent.
LEMMA SendFollower ==
  ASSUME IInv, IInv', FInv, LsnOK', Batch \/ ApplyUpdate
  PROVE  FInv'
<1> USE DEF leaderVars, readVars, syncVars, wakeVars, followerVars
<1> DEFINE i0 == nextUpdateId - 1
<1>1. /\ UNCHANGED <<async, lsn, log, flsn, latestLsn, snapTo, synced, nextUpdateId, counted, res>>
      /\ pc \in {"batch", "await"} /\ pc' \in {"chunk", "call"}
      /\ pc = "await" => inflight = <<>>
  BY DEF Batch, ApplyUpdate
<1>2. inflight' = Append(inflight, Request(i0)) /\ inflight \in Seq(Requests)
  <2>1. inflight \in Seq(Requests)
    BY DEF IInv, FlightOK
  <2>2. <<Request(i0)>> = Append(<<>>, Request(i0))
    OBVIOUS
  <2> QED
    BY <2>1, <2>2, Zenon DEF Batch, ApplyUpdate
<1>3. Request(i0).id = i0 /\ Request(i0).st # "ok"
  BY DEF Request
<1>4. /\ Len(inflight') = Len(inflight) + 1 /\ Len(inflight) \in Nat
      /\ \A k \in 1 .. Len(inflight) : inflight'[k] = inflight[k]
      /\ inflight'[Len(inflight) + 1] = Request(i0)
  BY <1>2
<1>5. Ids' = Ids /\ \A i : (InConfig(i)' <=> InConfig(i)) /\ (Has(i)' <=> Has(i))
  BY <1>1, Same
<1>6. i0 \in Ids /\ Held(i0) /\ InConfig(i0) /\ res = "ok" /\ NoError
  <2>1. i0 \in Ids /\ Held(i0)
    BY <1>1 DEF Ids, Held, IInv, QueueOK, HeldOK
  <2>2. res = "ok"
    BY <1>1 DEF FInv, PhaseOK
  <2> QED
    BY <1>1, <2>1, <2>2 DEF FInv, LatestOK, NoError, InChunk
<1>7. AnswersOK'
  <2>1. ASSUME NEW k \in 1 .. Len(inflight')
        PROVE  (InConfig(inflight[k].id))' /\ (inflight'[k].st = "ok" => (Has(inflight[k].id))')
    <3>1. CASE k \in 1 .. Len(inflight)
      <4>1. InConfig(inflight[k].id) /\ (inflight[k].st = "ok" => Has(inflight[k].id))
        BY <3>1 DEF FInv, AnswersOK
      <4> QED
        BY <1>1, <1>4, <3>1, <4>1 DEF InConfig, Has
    <3>2. CASE k = Len(inflight) + 1
      <4>1. inflight'[k].id = i0 /\ inflight'[k].st # "ok"
        BY <1>3, <1>4, <3>2
      <4> QED
        BY <1>1, <1>6, <4>1 DEF InConfig
    <3> QED
      BY <1>4, <3>1, <3>2
  <2> QED
    BY <2>1 DEF AnswersOK
<1>8. LatestOK'
  <2>1. \A i : ~ Held(i)' /\ (ToRead(i)' => ToRead(i))
    BY <1>1 DEF Held, ToRead
  <2> QED
    BY <1>1, <1>5, <2>1 DEF FInv, LatestOK
<1>9. PhaseOK'
  BY <1>1, <1>6 DEF PhaseOK, InChunk
<1>10. BehindOK'
  <2>1. ASSUME NEW i \in Ids PROVE ToRead(i)' \/ OnItsWay(i)' \/ Has(i)'
    <3>1. CASE i = i0
      <4>1. inflight'[Len(inflight) + 1].id = i /\ Len(inflight) + 1 \in 1 .. Len(inflight')
        BY <1>3, <1>4, <3>1
      <4> QED
        BY <4>1 DEF OnItsWay
    <3>2. CASE i # i0
      <4>1. ToRead(i) => ToRead(i)'
        BY <1>1, <3>2 DEF ToRead, Held
      <4>2. OnItsWay(i) => OnItsWay(i)'
        BY <1>4 DEF OnItsWay
      <4> QED
        BY <1>5, <1>6, <4>1, <4>2 DEF FInv, BehindOK
    <3> QED
      BY <3>1, <3>2
  <2> QED
    BY <1>5, <2>1 DEF BehindOK
<1>11. SnapOK'
  BY <1>1 DEF FInv, SnapOK
<1>12. OkIsApplied' /\ MarkOK'
  BY <1>1, <1>5 DEF FInv, OkIsApplied, MarkOK
<1> QED
  BY <1>7, <1>8, <1>9, <1>10, <1>11, <1>12 DEF FInv

\* The oldest answer is taken.
LEMMA AnswerFollower ==
  ASSUME IInv, IInv', FInv, LsnOK', PhaseOK',
         UNCHANGED <<async, lsn, log, flsn, snapTo>>,
         HasAnswer, inflight' = Tail(inflight), CountAnswer(Head(inflight)),
         latestLsn' \in {latestLsn, log[Head(inflight).id].lsn},
         InChunk, InChunk', res' = IF res = "ok" THEN Head(inflight).st ELSE res,
         \/ pc' = pc /\ nextUpdateId' = nextUpdateId
         \/ /\ pc \in {"batch", "await"} /\ pc' = "drain"
            /\ nextUpdateId' = nextUpdateId - 1 /\ res' # "ok"
         \/ pc = "call" /\ pc' \in {"chunk", "drain"} /\ nextUpdateId' = nextUpdateId
  PROVE  FInv'
<1> DEFINE a == inflight[1].id
<1>1. /\ inflight \in Seq(Requests) /\ inflight # <<>>
      /\ Head(inflight) = inflight[1] /\ Len(inflight) \in Nat \ {0} /\ 1 \in 1 .. Len(inflight)
  BY DEF IInv, FlightOK, HasAnswer
<1>2. /\ Len(inflight') = Len(inflight) - 1
      /\ \A k \in 1 .. Len(inflight) - 1 : inflight'[k] = inflight[k + 1]
  BY <1>1
<1>3. /\ a \in Ids /\ InConfig(a) /\ log[a].lsn \in 1 .. lsn
      /\ inflight[1].st = "ok" => Has(a)
  BY <1>1, FlightIds DEF FInv, AnswersOK
<1>4. Ids' = Ids /\ \A i : (InConfig(i)' <=> InConfig(i)) /\ (Has(i)' <=> Has(i))
  BY Same
<1>5. nextUpdateId \in Nat /\ Ids \subseteq Nat /\ lsn \in Nat
  BY DEF Ids, IInv, QueueOK
<1>6. \A i \in Ids : ToRead(i) => a < i
  <2>1. a \in 1 .. nextUpdateId - 1
    BY <1>1 DEF IInv, FlightOK
  <2>2. pc \in {"batch", "await"} => a < nextUpdateId - 1
    BY <1>1 DEF IInv, HeldOK
  <2> QED
    BY <1>3, <1>5, <2>1, <2>2 DEF ToRead, Held
<1>7. \A i \in Ids : (ToRead(i)' => ToRead(i)) /\ (Held(i)' => Held(i))
  BY <1>5 DEF ToRead, Held
<1>8. AnswersOK'
  <2>1. ASSUME NEW k \in 1 .. Len(inflight')
        PROVE  (InConfig(inflight[k].id))' /\ (inflight'[k].st = "ok" => (Has(inflight[k].id))')
    <3>1. k + 1 \in 1 .. Len(inflight) /\ inflight'[k] = inflight[k + 1]
      BY <1>1, <1>2
    <3>2. /\ InConfig(inflight[k + 1].id)
          /\ inflight[k + 1].st = "ok" => Has(inflight[k + 1].id)
      BY <3>1 DEF FInv, AnswersOK
    <3> QED
      BY <3>1, <3>2 DEF InConfig, Has
  <2> QED
    BY <2>1 DEF AnswersOK
<1>9. LatestOK'
  <2>1. latestLsn' \in 0 .. lsn'
    BY <1>1, <1>3, <1>5 DEF FInv, LatestOK
  <2>2. \A i \in Ids : Held(i)' => InConfig(i)'
    BY <1>4, <1>7 DEF FInv, LatestOK
  <2>3. ASSUME NEW i \in Ids, ToRead(i)', InConfig(i), log[i].lsn <= latestLsn' PROVE Has(i)
    <3>1. ToRead(i) /\ a < i
      BY <1>6, <1>7, <2>3
    <3>2. CASE latestLsn' = latestLsn
      BY <2>3, <3>1, <3>2 DEF FInv, LatestOK
    <3>3. CASE latestLsn' = log[a].lsn
      <4>1. log[a].lsn < log[i].lsn /\ log[i].lsn \in 1 .. lsn
        BY <1>3, <2>3, <3>1 DEF FInv, LsnOK
      <4> QED
        BY <1>3, <1>5, <2>3, <3>3, <4>1
    <3> QED
      BY <1>1, <3>2, <3>3
  <2> QED
    BY <1>4, <2>1, <2>2, <2>3 DEF LatestOK
<1>10. BehindOK'
  <2>1. ASSUME NoError', NEW i \in Ids PROVE ToRead(i)' \/ OnItsWay(i)' \/ Has(i)'
    <3>1. res' = "ok" /\ res = "ok" /\ inflight[1].st = "ok" /\ NoError
      BY <1>1, <2>1 DEF NoError, InChunk
    <3>2. ToRead(i) => ToRead(i)'
      BY <3>1 DEF ToRead, Held
    <3>3. OnItsWay(i) => i = a \/ OnItsWay(i)'
      <4>1. ASSUME NEW k \in 1 .. Len(inflight), inflight[k].id = i, k # 1 PROVE OnItsWay(i)'
        <5>1. k - 1 \in 1 .. Len(inflight') /\ inflight'[k - 1] = inflight[k]
          BY <1>1, <1>2, <4>1
        <5> QED
          BY <4>1, <5>1 DEF OnItsWay
      <4> QED
        BY <4>1 DEF OnItsWay
    <3>4. ToRead(i) \/ OnItsWay(i) \/ Has(i)
      BY <3>1 DEF FInv, BehindOK
    <3> QED
      BY <1>3, <1>4, <3>1, <3>2, <3>3, <3>4
  <2> QED
    BY <1>4, <2>1 DEF BehindOK
<1>11. SnapOK'
  BY DEF FInv, SnapOK, InChunk
<1>12. OkIsApplied'
  <2>1. ASSUME NEW i \in Ids, counted'[i].ok = 1, InConfig(i) PROVE Has(i)
    <3>1. counted \in Seq([ok : Nat, err : Nat]) /\ i \in 1 .. Len(counted) /\ a \in 1 .. Len(counted)
      BY <1>3 DEF IInv, QueueOK, Ids
    <3>2. counted[i] \in [ok : Nat, err : Nat]
      BY <3>1, ElementOf
    <3>3. CASE inflight[1].st = "ok" /\ i = a
      BY <1>3, <3>3
    <3>4. CASE inflight[1].st = "ok" /\ i # a
      <4>1. counted'[i] = counted[i]
        <5>1. CountOk(a)
          BY <1>1, <3>4 DEF CountAnswer
        <5> QED
          BY <3>1, <3>4, <5>1 DEF CountOk
      <4> QED
        BY <2>1, <4>1 DEF FInv, OkIsApplied, Has
    <3>5. CASE inflight[1].st # "ok"
      <4>1. counted'[i].ok = counted[i].ok
        <5>1. CountErr(a)
          BY <1>1, <3>5 DEF CountAnswer
        <5> QED
          BY <3>1, <3>2, <5>1 DEF CountErr
      <4> QED
        BY <2>1, <4>1 DEF FInv, OkIsApplied, Has
    <3> QED
      BY <3>3, <3>4, <3>5
  <2> QED
    BY <1>4, <2>1 DEF OkIsApplied, Has
<1>13. MarkOK'
  <2>1. CASE synced' = synced
    BY <1>4, <2>1 DEF FInv, MarkOK
  <2>2. CASE inflight[1].st = "ok" /\ synced' = a
    <3>1. synced' \in 0 .. Len(log')
      BY <1>3, <2>2 DEF Ids
    <3>2. ASSUME NEW i \in Ids, i <= a PROVE Has(i)
      <4>1. CASE i = a
        BY <1>3, <2>2, <4>1
      <4>2. CASE i < a /\ InConfig(i)
        <5>1. log[i].lsn < log[a].lsn /\ log[i].lsn \in 1 .. lsn
          BY <1>3, <4>2 DEF FInv, LsnOK
        <5>2. log[a].lsn <= flsn /\ flsn \in 0 .. lsn
          BY <1>3, <2>2 DEF Has, FInv, LsnOK
        <5> QED
          BY <1>3, <1>5, <5>1, <5>2 DEF Has
      <4>3. CASE ~ InConfig(i)
        BY <4>3 DEF Has
      <4>4. i = a \/ i < a
        <5>1. i \in Nat /\ a \in Nat
          BY <1>3, <1>5
        <5> QED
          BY <3>2, <5>1
      <4> QED
        BY <4>1, <4>2, <4>3, <4>4
    <3> QED
      BY <1>4, <2>2, <3>1, <3>2 DEF MarkOK
  <2> QED
    BY <1>1, <2>1, <2>2 DEF CountAnswer, Mark
<1> QED
  BY <1>8, <1>9, <1>10, <1>11, <1>12, <1>13 DEF FInv

LEMMA EmptyIfNone ==
  ASSUME NEW S, NEW s \in Seq(S), Len(s) = 0
  PROVE  s = <<>>
  OBVIOUS

LEMMA AnswersFollower ==
  ASSUME IInv, IInv', FInv, LsnOK',
         BatchTakesAnswer \/ AwaitTakesAnswer \/ UpdateApplied \/ DrainTakesAnswer
  PROVE  FInv'
<1> USE DEF leaderVars, readVars, syncVars, wakeVars, followerVars
<1>1. inflight \in Seq(Requests)
  BY DEF IInv, FlightOK
<1>2. CASE BatchTakesAnswer
  <2>1. /\ UNCHANGED <<async, lsn, log, flsn, snapTo>> /\ TakeAnswer /\ pc = "batch"
        /\ \/ UNCHANGED <<pc, nextUpdateId>> /\ res' = "ok"
           \/ pc' = "drain" /\ nextUpdateId' = nextUpdateId - 1 /\ res' # "ok"
    BY <1>2 DEF BatchTakesAnswer, Rewind
  <2>2. PhaseOK' /\ InChunk /\ InChunk'
    BY <2>1 DEF PhaseOK, InChunk
  <2> QED
    BY <2>1, <2>2, AnswerFollower DEF TakeAnswer
<1>3. CASE AwaitTakesAnswer
  <2>1. /\ UNCHANGED <<async, lsn, log, flsn, snapTo>> /\ TakeAnswer /\ pc = "await"
        /\ \/ UNCHANGED <<pc, nextUpdateId>> /\ (inflight' # <<>> \/ res' = "ok")
           \/ pc' = "drain" /\ nextUpdateId' = nextUpdateId - 1 /\ res' # "ok"
    BY <1>3 DEF AwaitTakesAnswer, Rewind
  <2>2. PhaseOK' /\ InChunk /\ InChunk'
    BY <2>1 DEF PhaseOK, InChunk
  <2> QED
    BY <2>1, <2>2, AnswerFollower DEF TakeAnswer
<1>4. CASE DrainTakesAnswer
  <2>1. /\ UNCHANGED <<async, lsn, log, flsn, snapTo, pc, nextUpdateId>>
        /\ TakeAnswer /\ pc = "drain"
    BY <1>4 DEF DrainTakesAnswer
  <2>2. PhaseOK' /\ InChunk /\ InChunk'
    BY <2>1 DEF PhaseOK, InChunk
  <2> QED
    BY <2>1, <2>2, AnswerFollower DEF TakeAnswer
<1>5. CASE UpdateApplied
  <2>1. /\ UNCHANGED <<async, lsn, log, flsn, snapTo, nextUpdateId>>
        /\ pc = "call" /\ HasAnswer /\ inflight' = <<>> /\ CountAnswer(Head(inflight))
        /\ res' = Head(inflight).st
        /\ \/ res' = "ok" /\ pc' = "chunk" /\ latestLsn' = log[Head(inflight).id].lsn
           \/ pc' = "drain" /\ latestLsn' = latestLsn
    BY <1>5 DEF UpdateApplied
  <2>2. PhaseOK' /\ InChunk /\ InChunk' /\ res = "ok"
    BY <2>1 DEF FInv, PhaseOK, InChunk
  <2>3. inflight' = Tail(inflight)
    <3>1. Len(inflight) = 1
      BY <2>1 DEF IInv, HeldOK
    <3>2. Tail(inflight) \in Seq(Requests) /\ Len(Tail(inflight)) = 0
      BY <1>1, <3>1
    <3>3. Tail(inflight) = <<>>
      BY <3>2, EmptyIfNone
    <3> QED
      BY <2>1, <3>3
  <2> QED
    BY <2>1, <2>2, <2>3, AnswerFollower
<1> QED
  BY <1>2, <1>3, <1>4, <1>5

\* The routine goes on to a later update without having sent what is between.
LEMMA Jumps ==
  ASSUME IInv, IInv', FInv, LsnOK',
         UNCHANGED <<async, lsn, log, flsn, inflight, latestLsn, snapTo, synced>>,
         pc \in {"loop", "wait"}, pc' \in {"start", "wait"}, nextUpdateId' >= nextUpdateId,
         \A i \in Ids : InConfig(i) => counted'[i].ok = counted[i].ok
  PROVE  FInv'
<1>1. Ids' = Ids /\ \A i : (InConfig(i)' <=> InConfig(i)) /\ (Has(i)' <=> Has(i))
  BY Same
<1>2. inflight' = <<>>
  BY DEF FInv, PhaseOK, InChunk
<1>3. AnswersOK'
  BY <1>2 DEF AnswersOK
<1>4. LatestOK'
  <2>1. \A i \in Ids : ~ Held(i)' /\ (ToRead(i)' => ToRead(i))
    <3>1. nextUpdateId \in Nat /\ nextUpdateId' \in Nat /\ Ids \subseteq Nat
      BY DEF Ids, IInv, QueueOK
    <3>2. \A i : ~ Held(i)'
      BY DEF Held
    <3>3. ASSUME NEW i \in Ids, i >= nextUpdateId' PROVE i >= nextUpdateId
      <4>1. i \in Nat
        BY <3>1
      <4> QED
        BY <3>1, <3>3, <4>1
    <3> QED
      BY <3>2, <3>3 DEF ToRead
  <2> QED
    BY <1>1, <2>1 DEF FInv, LatestOK
<1>5. PhaseOK' /\ BehindOK' /\ SnapOK'
  BY <1>2, SendsNothing
<1>6. OkIsApplied'
  BY <1>1 DEF FInv, OkIsApplied
<1>7. MarkOK'
  BY <1>1 DEF FInv, MarkOK
<1> QED
  BY <1>3, <1>4, <1>5, <1>6, <1>7 DEF FInv

LEMMA JumpFollower ==
  ASSUME IInv, IInv', FInv, LsnOK', ReadDropBlock \/ HandleUpdatesWithError
  PROVE  FInv'
<1> USE DEF leaderVars, readVars, syncVars, wakeVars, followerVars
<1>1. CASE ReadDropBlock
  <2>1. nextUpdateId' >= nextUpdateId
    BY <1>1 DEF ReadDropBlock, AfterDropBlock, IInv, QueueOK
  <2> QED
    BY <1>1, <2>1, Jumps DEF ReadDropBlock, ResyncOnUpdatesDrop
<1>2. CASE HandleUpdatesWithError
  <2>1. /\ UNCHANGED <<async, lsn, log, flsn, inflight, latestLsn, snapTo, synced>>
        /\ pc = "wait" /\ pc' \in {"start", "wait"}
        /\ nextUpdateId' = To + 1
    BY <1>2, ErrorReports DEF HandleUpdatesWithError, IInv
  <2>2. nextUpdateId' >= nextUpdateId
    <3>1. To \in Int /\ To >= From - 1 /\ From \in Nat /\ From >= nextUpdateId
      BY GivenUp DEF IInv
    <3> QED
      BY <2>1, <3>1 DEF IInv, QueueOK
  <2>3. ASSUME NEW i \in Ids, InConfig(i) PROVE counted'[i].ok = counted[i].ok
    <3>1. counted' = [j \in Ids |->
                       IF j \notin From .. To \/ log[j].kind = "other" THEN counted[j]
                       ELSE IF IsNetworkCheck(j) THEN [counted[j] EXCEPT !.ok = @ + 1]
                       ELSE [counted[j] EXCEPT !.err = @ + 1]]
      BY <1>2, Zenon DEF HandleUpdatesWithError, From, Stops, Last, To
    <3>2. ~ IsNetworkCheck(i)
      BY <2>3 DEF InConfig, IsNetworkCheck
    <3>3. counted[i] \in [ok : Nat, err : Nat]
      BY ElementOf DEF IInv, QueueOK, Ids
    <3>4. counted'[i] \in {counted[i], [counted[i] EXCEPT !.err = @ + 1]}
      BY <3>1, <3>2
    <3> QED
      BY <3>3, <3>4
  <2> QED
    BY <2>1, <2>2, <2>3, Jumps
<1> QED
  BY <1>1, <1>2

LEMMA StepFollower == IInv /\ IInv' /\ FInv /\ [Next]_vars => FInv'
<1> SUFFICES ASSUME IInv, IInv', FInv, [Next]_vars PROVE FInv'
  OBVIOUS
<1>1. LsnOK' /\ Forward
  BY LsnStep
<1>2. CASE Leader \/ Follower \/ Faults
  BY <1>1, <1>2, OthersStep
<1>3. CASE Sync \/ Retry
  BY <1>1, <1>3, SyncFollower
<1>4. CASE Loop
  BY <1>1, <1>4, ChunksFollower, ReadFollower, SendFollower, AnswersFollower, JumpFollower
     DEF Loop
<1>5. CASE HandleUpdatesWithError
  BY <1>1, <1>5, JumpFollower
<1>6. CASE UNCHANGED vars
  <2>1. SameFlight
    BY <1>6 DEF vars, SameFlight, IInv, FlightOK
  <2>2. \A k \in 1 .. Len(inflight), i \in Ids :
           i = inflight[k].id /\ inflight'[k].st = "ok" => Has(i)'
    BY <1>1, <1>6, Stays DEF vars, FInv, AnswersOK
  <2> QED
    BY <1>1, <1>6, <2>1, <2>2, Quiet DEF vars, readVars, syncVars
<1> QED
  BY <1>2, <1>3, <1>4, <1>5, <1>6 DEF Next

\* What the follower has, and what the routine may conclude of it, in every
\* reachable state.
THEOREM FollowerInvariant == Spec => []FInv
<1>1. Init => FInv
  BY InitFollower
<1>2. IInv /\ IInv' /\ FInv /\ [Next]_vars => FInv'
  BY StepFollower
<1> QED
  BY <1>1, <1>2, ReportInvariant, PTL DEF Spec

\* OnUpdateHandled reports no update as replicated that the follower does not have:
\* neither an answered one nor one that is skipped as older than latestLsn.
THEOREM ReportedIsApplied == Spec => []OkIsApplied
<1>1. FInv => OkIsApplied
  BY DEF FInv
<1> QED
  BY <1>1, FollowerInvariant, PTL

\* The entry of a node in the synchronization list, from which a new leader is
\* elected, promises no update that the node does not have.
THEOREM MarkedIsSynced == Spec => []SyncMarkIsTrue
<1>1. FInv => SyncMarkIsTrue
  BY DEF FInv, MarkOK, SyncMarkIsTrue, Has
<1> QED
  BY <1>1, FollowerInvariant, PTL

-----------------------------------------------------------------------------
(* Type correctness.                                                       *)

Others == {i \in Ids : log[i].kind = "other"}

\* A broken connection leaves at most two records in the queue, the second of
\* them when the follower is back.
BoundOK ==
    /\ faults \in 0 .. MaxFaults /\ up \in BOOLEAN
    /\ IsFiniteSet(Others)
    /\ lsn - 1 + Cardinality(Others) <= MaxUpdates
    /\ Len(log) <= lsn - 1 + Cardinality(Others) + 2 * faults - (IF up THEN 0 ELSE 1)

RoutineOK ==
    /\ async \in AsyncModes
    /\ pc \in {"start", "snapshot", "apply", "loop", "idle", "chunk", "batch", "await",
              "call", "drain", "wait"}
    /\ err \in {"none", "net", "data", "timeout", "logic"}
    /\ res \in {"ok", "net", "data", "timeout"}
    /\ chunkEnd \in Nat /\ remote \in 0 .. lsn

TInv == BoundOK /\ RoutineOK

LEMMA InitTypes == Init => TInv
<1> SUFFICES ASSUME Init PROVE TInv
  OBVIOUS
<1> USE DEF Init
<1>1. Others = {}
  BY DEF Others, Ids
<1>2. IsFiniteSet(Others) /\ Cardinality(Others) = 0
  BY <1>1, FS_EmptySet
<1>3. BoundOK
  BY <1>2, ReplNodeAssumption DEF BoundOK
<1>4. RoutineOK
  BY DEF RoutineOK
<1> QED
  BY <1>3, <1>4 DEF TInv

\* An append adds at most one update of another namespace.
LEMMA OthersGrow ==
  ASSUME IInv, IsFiniteSet(Others), NEW u \in Updates, Enqueued(u)
  PROVE  /\ IsFiniteSet(Others') /\ Cardinality(Others) \in Nat
         /\ Len(log') = Len(log) + 1 /\ Len(log) \in Nat
         /\ Cardinality(Others') = Cardinality(Others) + (IF u.kind = "other" THEN 1 ELSE 0)
<1>1. /\ Len(log') = Len(log) + 1 /\ Len(log) \in Nat
      /\ \A i \in 1 .. Len(log) : log'[i] = log[i]
      /\ log'[Len(log) + 1] = u
  BY DEF Enqueued, IInv, QueueOK
<1>2. Len(log) + 1 \notin Others
  BY <1>1 DEF Others, Ids
<1>3. /\ IsFiniteSet(Others \cup {Len(log) + 1})
      /\ Cardinality(Others \cup {Len(log) + 1}) = Cardinality(Others) + 1
      /\ Cardinality(Others) \in Nat
  BY <1>2, FS_AddElement, FS_CardinalityType
<1>4. CASE u.kind = "other"
  <2>1. Others' = Others \cup {Len(log) + 1}
    BY <1>1, <1>4 DEF Others, Ids
  <2> QED
    BY <1>1, <1>3, <1>4, <2>1
<1>5. CASE u.kind # "other"
  <2>1. Others' = Others
    BY <1>1, <1>5 DEF Others, Ids
  <2> QED
    BY <1>1, <1>3, <1>5, <2>1
<1> QED
  BY <1>4, <1>5

LEMMA BoundStep ==
  ASSUME IInv, FInv, BoundOK, [Next]_vars
  PROVE  BoundOK'
<1> USE DEF leaderVars, readVars, syncVars, wakeVars, followerVars
<1>1. /\ lsn \in Nat \ {0} /\ Cardinality(Others) \in Nat /\ Len(log) \in Nat
      /\ faults \in 0 .. MaxFaults /\ MaxFaults \in Nat /\ MaxUpdates \in Nat
      /\ up \in BOOLEAN
  BY FS_CardinalityType, ReplNodeAssumption DEF BoundOK, FInv, LsnOK, IInv, QueueOK
<1>2. ASSUME NEW kind \in Kinds, NEW isEmitter \in BOOLEAN, Write(kind, isEmitter)
      PROVE  BoundOK'
  <2> DEFINE u == NewUpdate(kind, lsn', isEmitter)
  <2>1. kind \in {"item", "ddl", "other"} /\ lsn' \in Nat
    BY <1>1, <1>2, ReplNodeAssumption DEF Write
  <2>2. u \in Updates /\ u.kind = kind /\ Enqueued(u)
    BY <1>2, <2>1 DEF Write, NewUpdate, Updates
  <2>3. /\ IsFiniteSet(Others') /\ Len(log') = Len(log) + 1
        /\ Cardinality(Others') = Cardinality(Others) + (IF kind = "other" THEN 1 ELSE 0)
    BY <2>2, OthersGrow DEF BoundOK
  <2>4. /\ lsn + Cardinality(Others) <= MaxUpdates
        /\ lsn' = IF kind = "other" THEN lsn ELSE lsn + 1
        /\ faults' = faults /\ up' = up
    BY <1>2 DEF Write, Others
  <2> QED
    BY <1>1, <2>3, <2>4 DEF BoundOK
<1>3. CASE ConnectionBreaks
  <2> DEFINE u == NewUpdate("offline", 0, FALSE)
  <2>1. /\ u \in Updates /\ u.kind = "offline" /\ Enqueued(u) /\ lsn' = lsn
        /\ up /\ ~ up' /\ up' \in BOOLEAN
        /\ faults < MaxFaults /\ faults' = faults + 1
    BY <1>3 DEF ConnectionBreaks, NewUpdate, Updates
  <2>2. /\ IsFiniteSet(Others') /\ Len(log') = Len(log) + 1
        /\ Cardinality(Others') = Cardinality(Others)
    <3>1. /\ IsFiniteSet(Others') /\ Len(log') = Len(log) + 1
          /\ Cardinality(Others') = Cardinality(Others) + (IF u.kind = "other" THEN 1 ELSE 0)
      BY <2>1, OthersGrow DEF BoundOK
    <3>2. (IF u.kind = "other" THEN 1 ELSE 0) = 0
      BY <2>1
    <3>3. Cardinality(Others) + 0 = Cardinality(Others)
      BY <1>1
    <3> QED
      BY <3>1, <3>2, <3>3
  <2>3. Len(log) <= lsn - 1 + Cardinality(Others) + 2 * faults
    BY <2>1 DEF BoundOK
  <2>4. /\ Len(log') <= lsn' - 1 + Cardinality(Others') + 2 * faults' - 1
        /\ faults' \in 0 .. MaxFaults
    BY <1>1, <2>1, <2>2, <2>3
  <2>5. lsn' - 1 + Cardinality(Others') <= MaxUpdates
    BY <2>1, <2>2 DEF BoundOK
  <2> QED
    BY <2>1, <2>2, <2>4, <2>5 DEF BoundOK
<1>4. CASE NetworkReturns
  <2> DEFINE u == NewUpdate("online", 0, FALSE)
  <2>1. /\ u \in Updates /\ u.kind = "online" /\ lsn' = lsn /\ faults' = faults
        /\ ~ up /\ up' /\ up' \in BOOLEAN
    BY <1>4 DEF NetworkReturns, NewUpdate, Updates
  <2>2. CASE Enqueued(u)
    <3>1. /\ IsFiniteSet(Others') /\ Len(log') = Len(log) + 1
          /\ Cardinality(Others') = Cardinality(Others)
      <4>1. /\ IsFiniteSet(Others') /\ Len(log') = Len(log) + 1
            /\ Cardinality(Others') = Cardinality(Others) + (IF u.kind = "other" THEN 1 ELSE 0)
        BY <2>1, <2>2, OthersGrow DEF BoundOK
      <4>2. (IF u.kind = "other" THEN 1 ELSE 0) = 0
        BY <2>1
      <4>3. Cardinality(Others) + 0 = Cardinality(Others)
        BY <1>1
      <4> QED
        BY <4>1, <4>2, <4>3
    <3>2. Len(log) <= lsn - 1 + Cardinality(Others) + 2 * faults - 1
      BY <2>1 DEF BoundOK
    <3>3. Len(log') <= lsn' - 1 + Cardinality(Others') + 2 * faults' - 0
      BY <1>1, <2>1, <3>1, <3>2
    <3>4. lsn' - 1 + Cardinality(Others') <= MaxUpdates
      BY <2>1, <3>1 DEF BoundOK
    <3> QED
      BY <1>1, <2>1, <3>1, <3>3, <3>4 DEF BoundOK
  <2>3. CASE log' = log
    <3>1. Others' = Others
      BY <2>3 DEF Others, Ids
    <3> QED
      BY <1>1, <2>1, <2>3, <3>1 DEF BoundOK
  <2> QED
    BY <1>4, <2>2, <2>3 DEF NetworkReturns
<1>5. ASSUME NEW k \in DOMAIN inflight, RequestTimesOut(k) PROVE BoundOK'
  <2>1. UNCHANGED <<lsn, log, up>> /\ faults < MaxFaults /\ faults' = faults + 1
    BY <1>5 DEF RequestTimesOut
  <2>2. Others' = Others
    BY <2>1 DEF Others, Ids
  <2> QED
    BY <1>1, <2>1, <2>2 DEF BoundOK
<1>6. CASE UNCHANGED <<lsn, log, up, faults>>
  <2>1. Others' = Others
    BY <1>6 DEF Others, Ids
  <2> QED
    BY <1>6, <2>1 DEF BoundOK
<1>7. ASSUME NEW d \in Ids, DropUpdates(d) PROVE UNCHANGED <<lsn, log, up, faults>>
  BY <1>7 DEF DropUpdates
<1>8. Follower => UNCHANGED <<lsn, log, up, faults>>
  BY DEF Follower, LateRequest, FollowerApplies
<1>9. Sync \/ Retry \/ HandleUpdatesWithError => UNCHANGED <<lsn, log, up, faults>>
  BY DEF Sync, NoConnection, GetReplState, GetSnapshot, ApplySnapshotChunk, ChunkRejected,
         SnapshotApplied, Retry, HandleUpdatesWithError
<1>10. Resync \/ ReadDropBlock \/ ReadNothing \/ Awake \/ ReadChunk \/ ChunkEnds
         \/ HandleNetworkCheck \/ SkipUpdate \/ NextUpdate
         => UNCHANGED <<lsn, log, up, faults>>
  BY DEF Resync, ReadDropBlock, ReadNothing, Awake, ReadChunk, ChunkEnds,
         HandleNetworkCheck, SkipUpdate, NextUpdate
<1>11. Batch \/ BatchTakesAnswer \/ AwaitTakesAnswer \/ ApplyUpdate \/ UpdateApplied
         \/ DrainTakesAnswer \/ Drained
         => UNCHANGED <<lsn, log, up, faults>>
  BY DEF Batch, BatchTakesAnswer, AwaitTakesAnswer, ApplyUpdate, UpdateApplied,
         DrainTakesAnswer, Drained
<1>12. UNCHANGED vars => UNCHANGED <<lsn, log, up, faults>>
  BY DEF vars
<1> QED
  BY <1>2, <1>3, <1>4, <1>5, <1>6, <1>7, <1>8, <1>9, <1>10, <1>11, <1>12
     DEF Next, Leader, Faults, Loop

LEMMA RoutineStep ==
  ASSUME IInv, FInv, RoutineOK, [Next]_vars
  PROVE  RoutineOK'
<1> USE DEF leaderVars, readVars, syncVars, wakeVars, followerVars
<1>1. lsn \in Nat \ {0} /\ lsn' \in Nat /\ lsn' >= lsn /\ flsn \in 0 .. lsn
  BY LsnStep DEF FInv, LsnOK, Forward
<1>2. async' = async /\ async' \in AsyncModes
  BY DEF RoutineOK, Next, vars, Leader, Write, DropUpdates, Follower, LateRequest,
         FollowerApplies, Faults, ConnectionBreaks, NetworkReturns, RequestTimesOut, Sync,
         NoConnection, GetReplState, GetSnapshot, ApplySnapshotChunk, ChunkRejected,
         SnapshotApplied, Retry, HandleUpdatesWithError, Loop, Resync, ReadDropBlock,
         ReadNothing, Awake, ReadChunk, ChunkEnds, HandleNetworkCheck, SkipUpdate,
         NextUpdate, Batch, BatchTakesAnswer, AwaitTakesAnswer, ApplyUpdate,
         UpdateApplied, DrainTakesAnswer, Drained
<1>3. CASE UNCHANGED <<pc, err, res, chunkEnd, remote>>
  BY <1>1, <1>2, <1>3 DEF RoutineOK
<1>4. Leader \/ Follower \/ Faults \/ UNCHANGED vars => UNCHANGED <<pc, err, res, chunkEnd, remote>>
  BY DEF vars, Leader, Write, DropUpdates, Follower, LateRequest,
         FollowerApplies, Faults, ConnectionBreaks, NetworkReturns, RequestTimesOut
<1>5. CASE Sync \/ Retry
  <2>1. /\ res' = res /\ chunkEnd' = chunkEnd
        /\ pc' \in {"start", "snapshot", "apply", "loop", "wait"}
        /\ err' \in {err, "none", "net", "logic"}
    BY <1>5 DEF Sync, NoConnection, GetReplState, GetSnapshot, ApplySnapshotChunk,
         ChunkRejected, SnapshotApplied, Retry, Fails
  <2>2. remote' \in 0 .. lsn'
    <3>1. \/ remote' = remote
          \/ remote' = flsn
          \/ remote' = remote + 1 /\ remote < snapTo
      BY <1>5 DEF Sync, NoConnection, GetReplState, GetSnapshot, ApplySnapshotChunk,
           ChunkRejected, SnapshotApplied, Retry
    <3> QED
      BY <1>1, <3>1 DEF RoutineOK, FInv, SnapOK
  <2> QED
    BY <1>2, <2>1, <2>2 DEF RoutineOK
<1>6. CASE HandleUpdatesWithError
  <2>1. /\ UNCHANGED <<res, chunkEnd, remote>>
        /\ pc' \in {"start", pc} /\ err' \in {"none", err}
    BY <1>6 DEF HandleUpdatesWithError
  <2> QED
    BY <1>1, <1>2, <2>1 DEF RoutineOK
<1>7. CASE Resync \/ ReadDropBlock \/ ReadNothing \/ Awake \/ ChunkEnds \/ HandleNetworkCheck
             \/ SkipUpdate \/ NextUpdate
  <2>1. /\ UNCHANGED <<err, chunkEnd, remote>> /\ res' \in {res, "ok", "net"}
        /\ pc' \in {pc, "start", "loop", "idle", "chunk", "batch", "await", "drain"}
    BY <1>7 DEF Resync, ReadDropBlock, ReadNothing, Awake, ChunkEnds, HandleNetworkCheck,
         SkipUpdate, NextUpdate, ResyncOnUpdatesDrop
  <2> QED
    BY <1>1, <1>2, <2>1 DEF RoutineOK
<1>8. CASE ReadChunk
  <2>1. UNCHANGED <<err, remote>> /\ res' = "ok" /\ pc' = "chunk"
    BY <1>8 DEF ReadChunk
  <2>2. chunkEnd' \in Nat
    <3>1. nextUpdateId - 1 \in Nat /\ ChunkSize \in Nat \ {0}
      BY ReplNodeAssumption DEF IInv, QueueOK
    <3>2. (nextUpdateId - 1) \div ChunkSize \in Nat
      BY <3>1
    <3>3. \A m, n \in Nat : (m + 1) * n \in Nat
      OBVIOUS
    <3> QED
      BY <1>8, <3>1, <3>2, <3>3 DEF ReadChunk, ChunkEndOf
  <2> QED
    BY <1>1, <1>2, <2>1, <2>2 DEF RoutineOK
<1>9. CASE Batch \/ ApplyUpdate
  <2>1. UNCHANGED <<err, res, chunkEnd, remote>> /\ pc' \in {"chunk", "call"}
    BY <1>9 DEF Batch, ApplyUpdate
  <2> QED
    BY <1>1, <1>2, <2>1 DEF RoutineOK
<1>10. CASE BatchTakesAnswer \/ AwaitTakesAnswer \/ UpdateApplied \/ DrainTakesAnswer
  <2>1. /\ UNCHANGED <<err, chunkEnd, remote>> /\ HasAnswer
        /\ pc' \in {pc, "chunk", "drain"} /\ res' \in {res, Head(inflight).st}
    BY <1>10 DEF BatchTakesAnswer, AwaitTakesAnswer, UpdateApplied, DrainTakesAnswer, TakeAnswer
  <2>2. Head(inflight).st \in {"ok", "data", "net", "timeout"}
    <3>1. inflight \in Seq(Requests) /\ inflight # <<>> /\ Head(inflight).st # "sent"
      BY <2>1 DEF HasAnswer, IInv, FlightOK
    <3>2. Head(inflight) \in Requests
      BY <3>1
    <3> QED
      BY <3>1, <3>2 DEF Requests
  <2> QED
    BY <1>1, <1>2, <2>1, <2>2 DEF RoutineOK
<1>11. CASE Drained
  <2>1. /\ UNCHANGED <<res, chunkEnd, remote>> /\ pc' \in {"loop", "wait"}
        /\ err' = err \/ (err' = res /\ res # "ok")
    BY <1>11 DEF Drained, Fails
  <2> QED
    BY <1>1, <1>2, <2>1 DEF RoutineOK
<1> QED
  BY <1>3, <1>4, <1>5, <1>6, <1>7, <1>8, <1>9, <1>10, <1>11 DEF Next, Loop

\* The variables have their types and the queue stays within the bounds of the
\* writes and of the faults.
THEOREM TypeCorrect == Spec => []TypeOK
<1>1. Init => TInv
  BY InitTypes
<1>2. IInv /\ FInv /\ TInv /\ [Next]_vars => TInv'
  BY BoundStep, RoutineStep DEF TInv
<1>3. IInv /\ FInv /\ TInv => TypeOK
  <2> SUFFICES ASSUME IInv, FInv, TInv PROVE TypeOK
    OBVIOUS
  <2>1. /\ Cardinality(Others) \in Nat /\ MaxUpdates \in Nat /\ MaxFaults \in Nat
        /\ lsn \in Nat \ {0} /\ Len(log) \in Nat
    BY FS_CardinalityType, ReplNodeAssumption DEF TInv, BoundOK, FInv, LsnOK, IInv, QueueOK
  <2>2. lsn \in 1 .. MaxUpdates + 1 /\ Len(log) <= MaxUpdates + 2 * MaxFaults
    BY <2>1 DEF TInv, BoundOK
  <2>3. \A k \in DOMAIN inflight : inflight[k].id \in Ids
    BY DEF IInv, FlightOK, QueueOK, Ids
  <2>4. DOMAIN counted = Ids /\ dropped \in 0 .. Len(log) /\ nextUpdateId \in 1 .. Len(log) + 1
    BY DEF IInv, QueueOK, Ids
  <2>5. /\ flsn \in 0 .. lsn /\ latestLsn \in 0 .. lsn /\ snapTo \in 0 .. lsn
        /\ synced \in {kUnsynchronizedID} \cup 0 .. Len(log)
    BY DEF FInv, LsnOK, LatestOK, SnapOK, MarkOK
  <2> QED
    BY <2>2, <2>3, <2>4, <2>5 DEF TypeOK, TInv, RoutineOK
<1> QED
  BY <1>1, <1>2, <1>3, ReportInvariant, FollowerInvariant, PTL DEF Spec
=============================================================================
