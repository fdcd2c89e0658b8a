---------------------------- MODULE ReplNodeProofs ----------------------------
(***************************************************************************)
(* Proofs about ReplNode, for any queue, chunk size, number of batching    *)
(* routines and number of faults: a node reports on every update at most   *)
(* once and passes over none, and an emitter's update fails only if it was *)
(* sent to it.                                                             *)
(*                                                                         *)
(* The argument: the updates on their way are in the order of the queue,   *)
(* lie behind nextUpdateId and are not yet reported; neither is anything   *)
(* from nextUpdateId on, nor the update that was read and waits for the    *)
(* answers of earlier ones (pc "batch" and "await").  So a rewind goes     *)
(* back to exactly the update that was not sent.                           *)
(***************************************************************************)
EXTENDS ReplNode, NaturalsInduction, WellFoundedInduction, TLAPS

Updates == [kind : {"item", "ddl", "other", "online", "offline"}, lsn : Nat,
            isEmitter : BOOLEAN]
Requests == [id : Nat, st : {"sent", "ok", "data", "net", "timeout"}]

QueueOK ==
    /\ lsn \in Nat
    /\ log \in Seq(Updates)
    /\ counted \in Seq([ok : Nat, err : Nat])
    /\ Len(counted) = Len(log)
    /\ dropped \in 0 .. Len(log)
    /\ nextUpdateId \in 1 .. Len(log) + 1

\* What is on its way is behind nextUpdateId, in order and not reported.
FlightOK ==
    /\ inflight \in Seq(Requests)
    /\ \A k \in 1 .. Len(inflight) :
          /\ inflight[k].id \in 1 .. nextUpdateId - 1
          /\ Counts(inflight[k].id) = 0
          /\ \A j \in 1 .. k - 1 : inflight[j].id < inflight[k].id

\* The update that was read and not sent is behind all of them.
HeldOK ==
    /\ pc \in {"batch", "await"} =>
          /\ nextUpdateId > 1
          /\ Counts(nextUpdateId - 1) = 0
          /\ \A k \in 1 .. Len(inflight) : inflight[k].id < nextUpdateId - 1
    /\ pc = "call" => Len(inflight) = 1

UnreadOK == \A i \in Ids : i >= nextUpdateId => Counts(i) = 0

\* The inductive invariant of the reports.
IInv == QueueOK /\ FlightOK /\ HeldOK /\ UnreadOK /\ CountedOnce /\ NothingPassedOver

LEMMA InitInv == Init => IInv
<1> SUFFICES ASSUME Init PROVE IInv
  OBVIOUS
<1> USE DEF Init
<1>1. QueueOK
  BY DEF QueueOK
<1>2. FlightOK
  BY DEF FlightOK
<1>3. HeldOK
  BY DEF HeldOK
<1>4. UnreadOK /\ CountedOnce
  BY DEF UnreadOK, CountedOnce, Ids
<1>5. NothingPassedOver
  BY DEF NothingPassedOver
<1> QED
  BY <1>1, <1>2, <1>3, <1>4, <1>5 DEF IInv

\* The updates that NothingPassedOver asks about.
Passed(i) == InConfig(i) /\ i > dropped
Accounted(i) ==
    \/ Counts(i) = 1
    \/ \E k \in 1 .. Len(inflight) : inflight[k].id = i
    \/ pc \in {"batch", "await"} /\ i = nextUpdateId - 1

LEMMA PassedOver ==
  ASSUME inflight \in Seq(Requests)
  PROVE  NothingPassedOver <=> \A i \in 1 .. nextUpdateId - 1 : Passed(i) => Accounted(i)
<1>1. DOMAIN inflight = 1 .. Len(inflight)
  OBVIOUS
<1> QED
  BY <1>1 DEF NothingPassedOver, Passed, Accounted

LEMMA PassedOverNext ==
  ASSUME inflight' \in Seq(Requests)
  PROVE  NothingPassedOver' <=> \A i \in 1 .. nextUpdateId' - 1 : Passed(i)' => Accounted(i)'
<1>1. DOMAIN inflight' = 1 .. Len(inflight')
  OBVIOUS
<1> QED
  BY <1>1 DEF NothingPassedOver, Passed, Accounted

\* Steps that neither read, send nor report.
LEMMA Frame ==
  ASSUME IInv,
         UNCHANGED <<lsn, log, counted, nextUpdateId, inflight>>,
         dropped' \in dropped .. Len(log),
         \/ pc' = pc
         \/ pc \notin {"batch", "await"} /\ pc' \notin {"batch", "await", "call"}
  PROVE  IInv'
<1>1. QueueOK'
  BY DEF IInv, QueueOK
<1>2. \A i : Counts(i)' = Counts(i)
  BY DEF Counts
<1>3. FlightOK' /\ HeldOK'
  BY <1>2 DEF IInv, FlightOK, HeldOK
<1>4. UnreadOK' /\ CountedOnce'
  BY <1>2 DEF IInv, UnreadOK, CountedOnce, Ids
<1>5. NothingPassedOver'
  <2>1. ASSUME NEW i \in 1 .. nextUpdateId' - 1, Passed(i)' PROVE Accounted(i)'
    <3>1. i \in 1 .. nextUpdateId - 1 /\ Passed(i)
      BY <2>1 DEF Passed, InConfig, IInv, QueueOK
    <3>2. Accounted(i)
      BY <3>1, PassedOver DEF IInv, FlightOK
    <3> QED
      BY <1>2, <3>2 DEF Accounted
  <2> QED
    BY <1>3, <2>1, PassedOverNext DEF FlightOK
<1> QED
  BY <1>1, <1>3, <1>4, <1>5 DEF IInv

\* The ids of the requests stay, whatever becomes of them.
SameFlight ==
    /\ inflight' \in Seq(Requests)
    /\ Len(inflight') = Len(inflight)
    /\ \A k \in 1 .. Len(inflight) : inflight'[k].id = inflight[k].id

\* Answers arrive and connections break without a report.
LEMMA FlightFrame ==
  ASSUME IInv, SameFlight, UNCHANGED <<lsn, log, dropped, counted, nextUpdateId, pc>>
  PROVE  IInv'
<1>1. QueueOK'
  BY DEF IInv, QueueOK
<1>2. \A i : Counts(i)' = Counts(i)
  BY DEF Counts
<1>3. FlightOK' /\ HeldOK'
  BY <1>2 DEF IInv, FlightOK, HeldOK, SameFlight
<1>4. UnreadOK' /\ CountedOnce'
  BY <1>2 DEF IInv, UnreadOK, CountedOnce, Ids
<1>5. NothingPassedOver'
  <2>1. ASSUME NEW i \in 1 .. nextUpdateId' - 1, Passed(i)' PROVE Accounted(i)'
    <3>1. i \in 1 .. nextUpdateId - 1 /\ Passed(i)
      BY <2>1 DEF Passed, InConfig
    <3>2. Accounted(i)
      BY <3>1, PassedOver DEF IInv, FlightOK
    <3> QED
      BY <1>2, <3>2 DEF Accounted, SameFlight
  <2> QED
    BY <1>3, <2>1, PassedOverNext DEF FlightOK
<1> QED
  BY <1>1, <1>3, <1>4, <1>5 DEF IInv

\* The queue grows.
LEMMA Grow ==
  ASSUME IInv, SameFlight, NEW u \in Updates, Enqueued(u),
         lsn' \in Nat, UNCHANGED <<dropped, nextUpdateId, pc>>
  PROVE  IInv'
<1>1. /\ Len(log') = Len(log) + 1 /\ Len(counted') = Len(counted) + 1
      /\ \A i \in 1 .. Len(log) : log'[i] = log[i] /\ counted'[i] = counted[i]
      /\ counted'[Len(log) + 1] = Uncounted
  <2>1. Uncounted \in [ok : Nat, err : Nat]
    BY DEF Uncounted
  <2> QED
    BY <2>1 DEF Enqueued, IInv, QueueOK
<1>2. QueueOK'
  <2>1. Uncounted \in [ok : Nat, err : Nat]
    BY DEF Uncounted
  <2>2. log' \in Seq(Updates) /\ counted' \in Seq([ok : Nat, err : Nat])
    BY <2>1 DEF Enqueued, IInv, QueueOK
  <2> QED
    BY <1>1, <2>2 DEF IInv, QueueOK
<1>3. /\ \A i \in Ids : Counts(i)' = Counts(i)
      /\ \A i \in Ids' : i \notin Ids => Counts(i)' = 0
  <2>1. \A i \in Ids : Counts(i)' = Counts(i)
    BY <1>1 DEF Counts, Ids
  <2>2. ASSUME NEW i \in Ids', i \notin Ids PROVE Counts(i)' = 0
    <3>1. i = Len(log) + 1
      BY <1>1, <2>2 DEF Ids, IInv, QueueOK
    <3> QED
      BY <1>1, <3>1 DEF Counts, Uncounted
  <2> QED
    BY <2>1, <2>2
<1>7. 1 .. nextUpdateId - 1 \subseteq Ids
  BY DEF IInv, QueueOK, Ids
<1>4. FlightOK' /\ HeldOK'
  <2>1. FlightOK'
    BY <1>3, <1>7 DEF IInv, FlightOK, SameFlight
  <2>2. HeldOK'
    <3>1. nextUpdateId > 1 => nextUpdateId - 1 \in Ids
      BY DEF IInv, QueueOK, Ids
    <3> QED
      BY <1>3, <3>1 DEF IInv, HeldOK, SameFlight
  <2> QED
    BY <2>1, <2>2
<1>5. UnreadOK' /\ CountedOnce'
  BY <1>3 DEF IInv, UnreadOK, CountedOnce
<1>6. NothingPassedOver'
  <2>1. ASSUME NEW i \in 1 .. nextUpdateId' - 1, Passed(i)' PROVE Accounted(i)'
    <3>1. i \in 1 .. nextUpdateId - 1 /\ i \in Ids
      BY <1>7
    <3>2. Passed(i)
      BY <1>1, <2>1, <3>1 DEF Passed, InConfig, Ids
    <3>3. Accounted(i)
      BY <3>1, <3>2, PassedOver DEF IInv, FlightOK
    <3> QED
      BY <1>3, <3>1, <3>3 DEF Accounted, SameFlight
  <2> QED
    BY <1>4, <2>1, PassedOverNext DEF FlightOK
<1> QED
  BY <1>2, <1>4, <1>5, <1>6 DEF IInv

-----------------------------------------------------------------------------
(* Reports.                                                                *)

LEMMA ElementOf ==
  ASSUME NEW S, NEW s \in Seq(S), NEW i \in 1 .. Len(s)
  PROVE  s[i] \in S
  OBVIOUS

LEMMA FunctionIsSeq ==
  ASSUME NEW S, NEW n \in Nat, NEW f \in [1 .. n -> S]
  PROVE  f \in Seq(S) /\ Len(f) = n
  OBVIOUS

Reports(a) == CountOk(a) \/ CountErr(a)

\* A report counts for one update and for no other.
LEMMA OneReport ==
  ASSUME QueueOK, NEW a \in Ids, Reports(a)
  PROVE  /\ counted' \in Seq([ok : Nat, err : Nat])
         /\ Len(counted') = Len(counted)
         /\ \A i \in Ids : i # a => counted'[i] = counted[i]
         /\ counted'[a].ok + counted'[a].err = counted[a].ok + counted[a].err + 1
<1>1. a \in 1 .. Len(counted) /\ counted \in Seq([ok : Nat, err : Nat])
  BY DEF QueueOK, Ids
<1>2. PICK c \in [ok : Nat, err : Nat] :
        /\ counted' = [counted EXCEPT ![a] = c]
        /\ c.ok + c.err = counted[a].ok + counted[a].err + 1
  <2>1. counted[a] \in [ok : Nat, err : Nat]
    BY <1>1, ElementOf
  <2>2. CASE CountOk(a)
    <3> DEFINE c == [counted[a] EXCEPT !.ok = @ + 1]
    <3>1. counted' = [counted EXCEPT ![a] = c]
      BY <2>2 DEF CountOk
    <3>2. c \in [ok : Nat, err : Nat] /\ c.ok + c.err = counted[a].ok + counted[a].err + 1
      BY <2>1
    <3> QED
      BY <3>1, <3>2
  <2>3. CASE CountErr(a)
    <3> DEFINE c == [counted[a] EXCEPT !.err = @ + 1]
    <3>1. counted' = [counted EXCEPT ![a] = c]
      BY <2>3 DEF CountErr
    <3>2. c \in [ok : Nat, err : Nat] /\ c.ok + c.err = counted[a].ok + counted[a].err + 1
      BY <2>1
    <3> QED
      BY <3>1, <3>2
  <2> QED
    BY <2>2, <2>3 DEF Reports
<1>3. counted' \in Seq([ok : Nat, err : Nat]) /\ Len(counted') = Len(counted)
  BY <1>1, <1>2
<1> QED
  BY <1>1, <1>2, <1>3 DEF QueueOK, Ids

\* The oldest answer is taken; the routine goes on, or stops and goes back to
\* the update that was not sent.
LEMMA TakesAnswer ==
  ASSUME IInv, TakeAnswer, UNCHANGED <<lsn, log, dropped>>,
         \/ UNCHANGED <<pc, nextUpdateId>> /\ pc # "call"
         \/ pc \in {"batch", "await"} /\ pc' = "drain" /\ nextUpdateId' = nextUpdateId - 1
  PROVE  IInv'
<1> DEFINE a == inflight[1].id
<1>1. /\ inflight \in Seq(Requests) /\ inflight # <<>>
      /\ Head(inflight) = inflight[1] /\ Len(inflight) \in Nat \ {0}
  BY DEF IInv, FlightOK, TakeAnswer, HasAnswer
<1>2. /\ inflight' \in Seq(Requests) /\ Len(inflight') = Len(inflight) - 1
      /\ \A k \in 1 .. Len(inflight) - 1 : inflight'[k] = inflight[k + 1]
  BY <1>1 DEF TakeAnswer
<1>3. a \in Ids /\ a \in 1 .. nextUpdateId - 1 /\ Counts(a) = 0
  BY <1>1 DEF IInv, FlightOK, QueueOK, Ids
<1>4. /\ counted' \in Seq([ok : Nat, err : Nat])
      /\ Len(counted') = Len(counted)
      /\ \A i \in Ids : i # a => counted'[i] = counted[i]
      /\ counted'[a].ok + counted'[a].err = counted[a].ok + counted[a].err + 1
  <2>1. Reports(a)
    BY <1>1 DEF TakeAnswer, CountAnswer, Reports
  <2> QED
    BY <1>3, <2>1, OneReport DEF IInv
<1>5. /\ \A i \in Ids : i # a => Counts(i)' = Counts(i)
      /\ \A i \in Ids : i = a => Counts(i)' = 1
  BY <1>3, <1>4 DEF Counts
<1>6. QueueOK' /\ nextUpdateId' \in {nextUpdateId, nextUpdateId - 1}
  <2>1. /\ nextUpdateId' \in 1 .. Len(log) + 1
        /\ nextUpdateId' \in {nextUpdateId, nextUpdateId - 1}
    BY DEF IInv, QueueOK, HeldOK
  <2> QED
    BY <1>4, <2>1 DEF IInv, QueueOK
<1>13. \A k \in 1 .. Len(inflight) :
          inflight[k].id \in 1 .. nextUpdateId - 1 /\ inflight[k].id \in Ids
  BY DEF IInv, FlightOK, QueueOK, Ids
<1>14. \A k \in 1 .. Len(inflight) : inflight[k].id \in 1 .. nextUpdateId' - 1
  <2>1. CASE nextUpdateId' = nextUpdateId
    BY <1>13, <2>1
  <2>2. CASE pc \in {"batch", "await"} /\ nextUpdateId' = nextUpdateId - 1
    <3>1. ASSUME NEW k \in 1 .. Len(inflight) PROVE inflight[k].id < nextUpdateId'
      BY <2>2 DEF IInv, HeldOK
    <3> QED
      BY <1>13, <2>2, <3>1 DEF IInv, QueueOK
  <2> QED
    BY <2>1, <2>2
<1>7. \A k \in 1 .. Len(inflight') :
         /\ inflight[k + 1].id \in Ids /\ inflight[k + 1].id > a
         /\ inflight'[k].id = inflight[k + 1].id
         /\ pc \in {"batch", "await"} => inflight[k + 1].id < nextUpdateId - 1
  <2>1. ASSUME NEW k \in 1 .. Len(inflight')
        PROVE  k + 1 \in 1 .. Len(inflight) /\ 1 \in 1 .. (k + 1) - 1
    BY <1>1, <1>2
  <2>2. ASSUME NEW k \in 1 .. Len(inflight')
        PROVE  /\ inflight[k + 1].id \in Ids
               /\ inflight'[k].id = inflight[k + 1].id
    BY <1>2, <1>13, <2>1
  <2>3. ASSUME NEW k \in 1 .. Len(inflight') PROVE inflight[k + 1].id > a
    BY <1>3, <1>13, <2>1 DEF IInv, FlightOK
  <2>4. ASSUME NEW k \in 1 .. Len(inflight'), pc \in {"batch", "await"}
        PROVE  inflight[k + 1].id < nextUpdateId - 1
    BY <2>1, <2>4 DEF IInv, HeldOK
  <2> QED
    BY <2>1, <2>2, <2>3, <2>4
<1>8. FlightOK'
  <2>1. ASSUME NEW k \in 1 .. Len(inflight')
        PROVE  /\ inflight'[k].id \in 1 .. nextUpdateId' - 1
               /\ (Counts(inflight[k].id))' = 0
               /\ \A j \in 1 .. k - 1 : inflight'[j].id < inflight'[k].id
    <3>1. k + 1 \in 1 .. Len(inflight) /\ inflight'[k].id = inflight[k + 1].id
      BY <1>1, <1>2, <1>7
    <3>2. inflight'[k].id \in 1 .. nextUpdateId' - 1
      BY <1>14, <3>1
    <3>3. (Counts(inflight[k].id))' = 0
      <4>1. inflight'[k].id \in Ids /\ inflight'[k].id # a
        BY <1>3, <1>7, <1>13, <3>1 DEF Ids, IInv, QueueOK
      <4>2. Counts(inflight[k + 1].id) = 0
        BY <3>1 DEF IInv, FlightOK
      <4> QED
        BY <1>4, <3>1, <4>1, <4>2 DEF Counts
    <3>4. ASSUME NEW j \in 1 .. k - 1 PROVE inflight'[j].id < inflight'[k].id
      <4>1. j + 1 \in 1 .. (k + 1) - 1 /\ inflight'[j].id = inflight[j + 1].id
        BY <1>1, <1>2, <1>7
      <4> QED
        BY <3>1, <4>1 DEF IInv, FlightOK
    <3> QED
      BY <3>2, <3>3, <3>4
  <2> QED
    BY <1>2, <2>1 DEF FlightOK
<1>9. HeldOK'
  <2>1. CASE UNCHANGED <<pc, nextUpdateId>> /\ pc \in {"batch", "await"}
    <3>1. /\ nextUpdateId > 1 /\ Counts(nextUpdateId - 1) = 0
          /\ nextUpdateId - 1 \in Ids /\ nextUpdateId - 1 # a
      BY <1>1, <1>3, <2>1 DEF IInv, HeldOK, QueueOK, Ids
    <3>2. (Counts(nextUpdateId - 1))' = 0
      BY <1>4, <2>1, <3>1 DEF Counts
    <3> QED
      BY <1>7, <2>1, <3>1, <3>2 DEF HeldOK
  <2>2. CASE pc' \notin {"batch", "await", "call"}
    BY <2>2 DEF HeldOK
  <2> QED
    BY <2>1, <2>2
<1>10. UnreadOK'
  <2>1. ASSUME NEW i \in Ids', i >= nextUpdateId' PROVE Counts(i)' = 0
    <3>1. i \in Ids /\ i # a
      <4>1. i \in Ids /\ 1 \in 1 .. Len(inflight)
        BY <1>1, <2>1 DEF Ids
      <4>2. a \in 1 .. nextUpdateId' - 1
        BY <1>14, <4>1
      <4>3. i \in Int /\ nextUpdateId' \in Int /\ i >= nextUpdateId'
        BY <1>6, <2>1, <4>1 DEF Ids, QueueOK
      <4>4. i # a
        BY <4>2, <4>3
      <4> QED
        BY <4>1, <4>4
    <3>2. Counts(i) = 0
      BY <2>1, <3>1 DEF IInv, UnreadOK, HeldOK, QueueOK, Ids
    <3> QED
      BY <1>5, <3>1, <3>2
  <2> QED
    BY <2>1 DEF UnreadOK
<1>11. CountedOnce'
  BY <1>5 DEF IInv, CountedOnce, Ids
<1>12. NothingPassedOver'
  <2>1. ASSUME NEW i \in 1 .. nextUpdateId' - 1, Passed(i)' PROVE Accounted(i)'
    <3>1. i \in 1 .. nextUpdateId - 1 /\ i \in Ids
      BY <2>1 DEF IInv, QueueOK, Ids
    <3>2. Accounted(i)
      BY <2>1, <3>1, PassedOver DEF IInv, FlightOK, Passed, InConfig
    <3>3. CASE i = a
      BY <1>5, <3>1, <3>3 DEF Accounted
    <3>4. CASE i # a /\ Counts(i) = 1
      BY <1>5, <3>1, <3>4 DEF Accounted
    <3>5. CASE i # a /\ \E k \in 1 .. Len(inflight) : inflight[k].id = i
      <4>1. PICK k \in 1 .. Len(inflight) : inflight[k].id = i
        BY <3>5
      <4>2. k - 1 \in 1 .. Len(inflight') /\ inflight'[k - 1].id = i
        BY <1>1, <1>2, <3>5, <4>1
      <4> QED
        BY <4>2 DEF Accounted
    <3>6. CASE pc \in {"batch", "await"} /\ i = nextUpdateId - 1
      BY <2>1, <3>6 DEF Accounted, IInv, QueueOK
    <3> QED
      BY <3>2, <3>3, <3>4, <3>5, <3>6 DEF Accounted
  <2> QED
    BY <1>2, <2>1, PassedOverNext
<1> QED
  BY <1>6, <1>8, <1>9, <1>10, <1>11, <1>12 DEF IInv

\* The next update is read and either reported at once or held for sending.
LEMMA Reads ==
  ASSUME IInv, HasUpdate, pc = "chunk", nextUpdateId' = nextUpdateId + 1,
         UNCHANGED <<lsn, log, dropped, inflight>>,
         \/ Reports(nextUpdateId) /\ pc' \in {"chunk", "drain"}
         \/ UNCHANGED counted /\ pc' \in {"batch", "await"}
  PROVE  IInv'
<1> DEFINE a == nextUpdateId
<1>1. a \in Ids /\ a \in Nat /\ Counts(a) = 0
  BY DEF IInv, QueueOK, UnreadOK, Ids, HasUpdate
<1>2. /\ counted' \in Seq([ok : Nat, err : Nat])
      /\ Len(counted') = Len(counted)
      /\ \A i \in Ids : i # a => counted'[i] = counted[i]
      /\ \/ /\ pc' \in {"chunk", "drain"}
            /\ counted'[a].ok + counted'[a].err = 1
         \/ /\ pc' \in {"batch", "await"}
            /\ counted'[a].ok + counted'[a].err = 0
  <2>1. CASE Reports(a) /\ pc' \in {"chunk", "drain"}
    BY <1>1, <2>1, OneReport DEF IInv, Counts
  <2>2. CASE UNCHANGED counted /\ pc' \in {"batch", "await"}
    BY <1>1, <2>2 DEF IInv, QueueOK, Counts
  <2> QED
    BY <2>1, <2>2
<1>3. QueueOK'
  BY <1>1, <1>2 DEF IInv, QueueOK, Ids
<1>4. \A i \in Ids : i # a => Counts(i)' = Counts(i)
  BY <1>2 DEF Counts
<1>5. \A k \in 1 .. Len(inflight) :
         /\ inflight[k].id \in 1 .. a - 1 /\ inflight[k].id \in Ids /\ inflight[k].id # a
         /\ inflight[k].id < a
  <2>1. \A k \in 1 .. Len(inflight) : inflight[k].id \in 1 .. a - 1
    BY DEF IInv, FlightOK
  <2> QED
    BY <1>1, <2>1 DEF Ids
<1>6. FlightOK'
  <2>1. ASSUME NEW k \in 1 .. Len(inflight') PROVE (Counts(inflight[k].id))' = 0
    BY <1>2, <1>5, <2>1 DEF IInv, FlightOK, Counts
  <2>2. ASSUME NEW k \in 1 .. Len(inflight') PROVE inflight'[k].id \in 1 .. nextUpdateId' - 1
    BY <1>1, <1>5, <2>2
  <2> QED
    BY <2>1, <2>2 DEF IInv, FlightOK
<1>7. HeldOK'
  <2>1. CASE pc' \in {"chunk", "drain"}
    BY <2>1 DEF HeldOK
  <2>2. CASE pc' \in {"batch", "await"}
    <3>1. nextUpdateId' > 1 /\ nextUpdateId' - 1 = a
      BY <1>1 DEF Ids
    <3>2. counted'[nextUpdateId' - 1].ok + counted'[nextUpdateId' - 1].err = 0
      BY <1>2, <2>2, <3>1
    <3> QED
      BY <1>5, <2>2, <3>1, <3>2 DEF HeldOK, Counts
  <2> QED
    BY <1>2, <2>1, <2>2
<1>8. UnreadOK'
  <2>1. ASSUME NEW i \in Ids', i >= nextUpdateId' PROVE Counts(i)' = 0
    <3>1. i \in Ids /\ i # a /\ i >= a
      BY <1>1, <2>1 DEF Ids
    <3> QED
      BY <1>4, <3>1 DEF IInv, UnreadOK
  <2> QED
    BY <2>1 DEF UnreadOK
<1>9. CountedOnce'
  <2>1. ASSUME NEW i \in Ids' PROVE Counts(i)' <= 1
    <3>1. i \in Ids
      BY DEF Ids
    <3>2. CASE i # a
      BY <1>4, <3>1, <3>2 DEF IInv, CountedOnce
    <3>3. CASE i = a
      BY <1>2, <3>3 DEF Counts
    <3> QED
      BY <3>2, <3>3
  <2> QED
    BY <2>1 DEF CountedOnce
<1>10. NothingPassedOver'
  <2>1. ASSUME NEW i \in 1 .. nextUpdateId' - 1, Passed(i)' PROVE Accounted(i)'
    <3>1. CASE i = a
      BY <1>1, <1>2, <3>1 DEF Accounted, Counts
    <3>2. CASE i # a
      <4>1. i \in 1 .. nextUpdateId - 1 /\ i \in Ids
        BY <1>1, <2>1, <3>2 DEF Ids
      <4>2. Accounted(i)
        BY <2>1, <4>1, PassedOver DEF IInv, FlightOK, Passed, InConfig
      <4> QED
        BY <1>4, <3>2, <4>1, <4>2 DEF Accounted
    <3> QED
      BY <3>1, <3>2
  <2> QED
    BY <1>6, <2>1, PassedOverNext DEF FlightOK
<1> QED
  BY <1>3, <1>6, <1>7, <1>8, <1>9, <1>10 DEF IInv

\* The held update is sent.
LEMMA Sends ==
  ASSUME IInv, pc \in {"batch", "await"},
         inflight' = Append(inflight, Request(nextUpdateId - 1)),
         pc' = "chunk" \/ (pc' = "call" /\ inflight = <<>>),
         UNCHANGED <<lsn, log, dropped, counted, nextUpdateId>>
  PROVE  IInv'
<1> DEFINE a == nextUpdateId - 1
<1> DEFINE n == Len(inflight) + 1
<1>1. /\ a \in Nat /\ a \in 1 .. nextUpdateId - 1 /\ Counts(a) = 0
      /\ \A k \in 1 .. Len(inflight) : inflight[k].id < a
  <2>1. nextUpdateId \in Nat /\ nextUpdateId > 1
    BY DEF IInv, HeldOK, QueueOK
  <2>2. Counts(a) = 0 /\ \A k \in 1 .. Len(inflight) : inflight[k].id < a
    BY DEF IInv, HeldOK
  <2> QED
    BY <2>1, <2>2
<1>2. Request(a) \in Requests /\ Request(a).id = a
  <2>1. CASE up
    <3>1. Request(a) = [id |-> a, st |-> "sent"]
      BY <2>1 DEF Request
    <3> QED
      BY <1>1, <3>1 DEF Requests
  <2>2. CASE ~up
    <3>1. Request(a) = [id |-> a, st |-> "net"]
      BY <2>2 DEF Request
    <3> QED
      BY <1>1, <3>1 DEF Requests
  <2> QED
    BY <2>1, <2>2
<1>3. /\ inflight' \in Seq(Requests) /\ Len(inflight') = n /\ n \in Nat \ {0}
      /\ inflight'[n].id = a
      /\ \A k \in 1 .. Len(inflight) : inflight'[k] = inflight[k]
  BY <1>2 DEF IInv, FlightOK
<1>4. QueueOK' /\ \A i : Counts(i)' = Counts(i)
  BY DEF IInv, QueueOK, Counts
<1>5. FlightOK'
  <2>1. ASSUME NEW k \in 1 .. Len(inflight')
        PROVE  /\ inflight'[k].id \in 1 .. nextUpdateId' - 1
               /\ (Counts(inflight[k].id))' = 0
               /\ \A j \in 1 .. k - 1 : inflight'[j].id < inflight'[k].id
    <3>1. CASE k = n
      <4>1. \A j \in 1 .. k - 1 : inflight'[j].id < inflight'[k].id
        BY <1>1, <1>3, <3>1
      <4> QED
        BY <1>1, <1>3, <3>1, <4>1 DEF Counts
    <3>2. CASE k \in 1 .. Len(inflight)
      <4>1. \A j \in 1 .. k - 1 : j \in 1 .. Len(inflight)
        BY <3>2
      <4> QED
        BY <1>3, <3>2, <4>1 DEF IInv, FlightOK, Counts
    <3> QED
      BY <1>3, <3>1, <3>2
  <2> QED
    BY <1>3, <2>1 DEF FlightOK
<1>6. HeldOK'
  BY <1>3 DEF HeldOK
<1>7. UnreadOK' /\ CountedOnce'
  BY <1>4 DEF IInv, UnreadOK, CountedOnce, Ids
<1>8. NothingPassedOver'
  <2>1. ASSUME NEW i \in 1 .. nextUpdateId' - 1, Passed(i)' PROVE Accounted(i)'
    <3>1. Accounted(i)
      BY <2>1, PassedOver DEF IInv, FlightOK, Passed, InConfig
    <3>2. CASE i = a
      BY <1>3, <3>2 DEF Accounted
    <3>3. CASE i # a
      BY <1>3, <1>4, <3>1, <3>3 DEF Accounted
    <3> QED
      BY <3>2, <3>3
  <2> QED
    BY <1>3, <2>1, PassedOverNext
<1> QED
  BY <1>4, <1>5, <1>6, <1>7, <1>8 DEF IInv

\* An update that awaited its answer alone is reported.
LEMMA Alone ==
  ASSUME IInv, UpdateApplied
  PROVE  IInv'
<1> DEFINE a == inflight[1].id
<1>1. /\ inflight \in Seq(Requests) /\ Len(inflight) = 1
      /\ Head(inflight) = inflight[1] /\ inflight' = <<>>
      /\ UNCHANGED <<lsn, log, dropped, nextUpdateId>>
      /\ pc' \in {"chunk", "drain"} /\ pc = "call"
  BY DEF IInv, FlightOK, HeldOK, UpdateApplied, HasAnswer, leaderVars, readVars
<1>2. a \in Ids /\ a \in 1 .. nextUpdateId - 1 /\ Counts(a) = 0
  <2>1. a \in 1 .. nextUpdateId - 1 /\ Counts(a) = 0
    BY <1>1 DEF IInv, FlightOK
  <2> QED
    BY <2>1 DEF IInv, QueueOK, Ids
<1>3. /\ counted' \in Seq([ok : Nat, err : Nat])
      /\ Len(counted') = Len(counted)
      /\ \A i \in Ids : i # a => counted'[i] = counted[i]
      /\ counted'[a].ok + counted'[a].err = counted[a].ok + counted[a].err + 1
  <2>1. Reports(a)
    BY <1>1 DEF UpdateApplied, CountAnswer, Reports
  <2> QED
    BY <1>2, <2>1, OneReport DEF IInv
<1>4. /\ \A i \in Ids : i # a => Counts(i)' = Counts(i)
      /\ \A i \in Ids : i = a => Counts(i)' = 1
  BY <1>2, <1>3 DEF Counts
<1>5. QueueOK'
  BY <1>1, <1>3 DEF IInv, QueueOK
<1>6. FlightOK' /\ HeldOK'
  BY <1>1 DEF FlightOK, HeldOK
<1>7. UnreadOK'
  <2>1. ASSUME NEW i \in Ids', i >= nextUpdateId' PROVE Counts(i)' = 0
    <3>1. i \in Ids /\ i # a /\ i >= nextUpdateId
      BY <1>1, <1>2, <2>1 DEF Ids, IInv, QueueOK
    <3> QED
      BY <1>4, <3>1 DEF IInv, UnreadOK
  <2> QED
    BY <2>1 DEF UnreadOK
<1>8. CountedOnce'
  BY <1>1, <1>4 DEF IInv, CountedOnce, Ids
<1>9. NothingPassedOver'
  <2>1. ASSUME NEW i \in 1 .. nextUpdateId' - 1, Passed(i)' PROVE Accounted(i)'
    <3>1. i \in 1 .. nextUpdateId - 1 /\ i \in Ids
      BY <1>1, <2>1 DEF IInv, QueueOK, Ids
    <3>2. Accounted(i)
      BY <1>1, <2>1, <3>1, PassedOver DEF IInv, Passed, InConfig
    <3>3. CASE i = a
      BY <1>4, <3>1, <3>3 DEF Accounted
    <3>4. CASE i # a
      BY <1>1, <1>4, <3>1, <3>2, <3>4 DEF Accounted
    <3> QED
      BY <3>3, <3>4
  <2> QED
    BY <1>1, <1>6, <2>1, PassedOverNext DEF FlightOK
<1> QED
  BY <1>5, <1>6, <1>7, <1>8, <1>9 DEF IInv

\* A dropped block is skipped.
LEMMA Drops ==
  ASSUME IInv, ReadDropBlock
  PROVE  IInv'
<1>1. /\ nextUpdateId' = dropped + 1 /\ nextUpdateId <= dropped
      /\ UNCHANGED <<lsn, log, dropped, counted, inflight>>
      /\ pc = "loop" /\ pc' = "start"
  BY DEF ReadDropBlock, AfterDropBlock, ResyncOnUpdatesDrop, leaderVars
<1>2. QueueOK' /\ nextUpdateId \in Nat /\ dropped \in Nat
  BY <1>1 DEF IInv, QueueOK
<1>3. \A i : Counts(i)' = Counts(i)
  BY <1>1 DEF Counts
<1>4. FlightOK'
  <2>1. \A k \in 1 .. Len(inflight) : inflight[k].id \in 1 .. nextUpdateId' - 1
    BY <1>1, <1>2 DEF IInv, FlightOK
  <2> QED
    BY <1>1, <1>3, <2>1 DEF IInv, FlightOK
<1>5. HeldOK'
  BY <1>1 DEF HeldOK
<1>6. UnreadOK' /\ CountedOnce'
  BY <1>1, <1>2, <1>3 DEF IInv, UnreadOK, CountedOnce, Ids
<1>7. NothingPassedOver'
  BY <1>1, <1>2, <1>4, PassedOverNext DEF FlightOK, Passed
<1> QED
  BY <1>2, <1>4, <1>5, <1>6, <1>7 DEF IInv

LEMMA LeastOf ==
  ASSUME NEW S \in SUBSET Nat, S # {}
  PROVE  \E i \in S : \A j \in S : i <= j
<1>1. PICK x \in S : \A y \in S : ~ (<<y, x>> \in OpToRel(<, Nat))
  BY NatLessThanWellFounded, WFMin, Zenon
<1>2. \A y \in S : ~ (y < x)
  BY <1>1, Zenon DEF OpToRel
<1> QED
  BY <1>2

\* Where handleUpdatesWithError begins and ends.
From == IF nextUpdateId <= dropped THEN dropped + 1 ELSE nextUpdateId
Stops == {i \in From .. Len(log) : KeptForEmitter(i) \/ (log[i].kind = "online" /\ up)}
Last == IF Stops = {} THEN Len(log) ELSE CHOOSE i \in Stops : \A j \in Stops : i <= j
To == IF Stops # {} /\ KeptForEmitter(Last) THEN Last - 1 ELSE Last

\* What lies between them was not read, and nothing of it is kept for the emitter.
LEMMA GivenUp ==
  ASSUME QueueOK
  PROVE  /\ From \in Nat /\ From >= nextUpdateId /\ From <= Len(log) + 1
         /\ \A i \in nextUpdateId .. From - 1 : i <= dropped
         /\ To \in Int /\ To >= From - 1 /\ To <= Len(log)
         /\ \A i \in From .. To : ~ KeptForEmitter(i)
<1>1. /\ From \in Nat /\ From >= nextUpdateId /\ From <= Len(log) + 1
      /\ \A i \in nextUpdateId .. From - 1 : i <= dropped
      /\ Len(log) \in Nat /\ From \in 1 .. Len(log) + 1
  BY DEF QueueOK, From
<1>2. CASE Stops = {}
  <2>1. Last = Len(log) /\ To = Len(log)
    BY <1>2 DEF Last, To
  <2>2. \A i \in From .. Len(log) : ~ KeptForEmitter(i)
    BY <1>2 DEF Stops
  <2> QED
    BY <1>1, <2>1, <2>2
<1>3. CASE Stops # {}
  <2>1. Stops \in SUBSET Nat
    BY <1>1 DEF Stops
  <2>2. \E i \in Stops : \A j \in Stops : i <= j
    BY <1>3, <2>1, LeastOf
  <2>3. Last \in Stops /\ \A j \in Stops : Last <= j
    <3>1. Last = CHOOSE i \in Stops : \A j \in Stops : i <= j
      BY <1>3 DEF Last
    <3> QED
      BY <2>2, <3>1, Zenon
  <2>4. Last \in Nat /\ Last >= From /\ Last <= Len(log)
    BY <1>1, <2>3 DEF Stops
  <2>5. To = IF KeptForEmitter(Last) THEN Last - 1 ELSE Last
    BY <1>3 DEF To
  <2>6. To \in Int /\ To >= From - 1 /\ To <= Last
    BY <1>1, <2>4, <2>5
  <2>7. ASSUME NEW i \in From .. To, KeptForEmitter(i) PROVE FALSE
    <3>1. i \in From .. Len(log) /\ i <= Last
      BY <1>1, <2>4, <2>6
    <3>2. i = Last
      <4>1. i \in Stops
        BY <2>7, <3>1 DEF Stops
      <4> QED
        BY <1>1, <2>3, <2>4, <3>1, <4>1
    <3> QED
      BY <1>1, <2>4, <2>5, <2>7, <3>2
  <2> QED
    BY <1>1, <2>4, <2>6, <2>7
<1> QED
  BY <1>2, <1>3

GivesUp(i) == i \in From .. To /\ log[i].kind # "other"

\* What handleUpdatesWithError reports.
LEMMA ErrorReports ==
  ASSUME QueueOK, HandleUpdatesWithError
  PROVE  /\ pc = "wait" /\ pc' \in {"start", "wait"}
         /\ nextUpdateId' = To + 1
         /\ UNCHANGED <<lsn, log, dropped, inflight>>
         /\ counted' \in Seq([ok : Nat, err : Nat]) /\ Len(counted') = Len(counted)
         /\ \A i \in Ids : ~ GivesUp(i) => counted'[i] = counted[i]
         /\ \A i \in Ids : GivesUp(i) =>
               counted'[i].ok + counted'[i].err = counted[i].ok + counted[i].err + 1
<1>1. /\ pc = "wait" /\ nextUpdateId' = To + 1
      /\ counted' = [i \in Ids |->
                       IF i \notin From .. To \/ log[i].kind = "other" THEN counted[i]
                       ELSE IF IsNetworkCheck(i) THEN [counted[i] EXCEPT !.ok = @ + 1]
                       ELSE [counted[i] EXCEPT !.err = @ + 1]]
      /\ pc' = "start" \/ UNCHANGED pc
      /\ UNCHANGED <<lsn, log, dropped, inflight>>
  BY Zenon DEF HandleUpdatesWithError, leaderVars, From, Stops, Last, To
<1>2. /\ Ids = 1 .. Len(counted)
      /\ \A i \in Ids : counted[i] \in [ok : Nat, err : Nat]
  BY ElementOf DEF QueueOK, Ids
<1>3. ASSUME NEW i \in Ids
      PROVE  /\ counted'[i] \in [ok : Nat, err : Nat]
             /\ ~ GivesUp(i) => counted'[i] = counted[i]
             /\ GivesUp(i) =>
                  counted'[i].ok + counted'[i].err = counted[i].ok + counted[i].err + 1
  <2>1. counted[i] \in [ok : Nat, err : Nat]
    BY <1>2
  <2>2. CASE ~ GivesUp(i)
    <3>1. counted'[i] = counted[i]
      BY <1>1, <2>2 DEF GivesUp
    <3> QED
      BY <2>1, <2>2, <3>1
  <2>3. CASE GivesUp(i) /\ IsNetworkCheck(i)
    <3>1. counted'[i] = [counted[i] EXCEPT !.ok = @ + 1]
      BY <1>1, <2>3 DEF GivesUp
    <3> QED
      BY <2>1, <2>3, <3>1
  <2>4. CASE GivesUp(i) /\ ~ IsNetworkCheck(i)
    <3>1. counted'[i] = [counted[i] EXCEPT !.err = @ + 1]
      BY <1>1, <2>4 DEF GivesUp
    <3> QED
      BY <2>1, <2>4, <3>1
  <2> QED
    BY <2>2, <2>3, <2>4
<1>4. counted' \in Seq([ok : Nat, err : Nat]) /\ Len(counted') = Len(counted)
  <2>1. Len(counted) \in Nat
    BY DEF QueueOK
  <2>2. counted' \in [1 .. Len(counted) -> [ok : Nat, err : Nat]]
    <3>1. DOMAIN counted' = 1 .. Len(counted) /\ counted' = [i \in 1 .. Len(counted) |-> counted'[i]]
      BY <1>1, <1>2
    <3> QED
      BY <1>2, <1>3, <3>1
  <2> QED
    BY <2>1, <2>2, FunctionIsSeq
<1> QED
  BY <1>1, <1>3, <1>4

LEMMA GivingUp ==
  ASSUME IInv, HandleUpdatesWithError
  PROVE  IInv'
<1>1. QueueOK /\ nextUpdateId \in Nat /\ Len(log) \in Nat
  BY DEF IInv, QueueOK
<1>2. /\ From \in Nat /\ From >= nextUpdateId
      /\ \A i \in nextUpdateId .. From - 1 : i <= dropped
      /\ To \in Int /\ To >= From - 1 /\ To <= Len(log)
  BY <1>1, GivenUp
<1>3. /\ pc = "wait" /\ pc' \in {"start", "wait"}
      /\ nextUpdateId' = To + 1
      /\ UNCHANGED <<lsn, log, dropped, inflight>>
      /\ counted' \in Seq([ok : Nat, err : Nat]) /\ Len(counted') = Len(counted)
      /\ \A i \in Ids : ~ GivesUp(i) => counted'[i] = counted[i]
      /\ \A i \in Ids : GivesUp(i) =>
               counted'[i].ok + counted'[i].err = counted[i].ok + counted[i].err + 1
  BY <1>1, ErrorReports
<1>4. \A i \in Ids : GivesUp(i) => i >= nextUpdateId /\ i < nextUpdateId' /\ Counts(i) = 0
  BY <1>1, <1>2, <1>3 DEF GivesUp, IInv, UnreadOK, Ids
<1>5. /\ \A i \in Ids : ~ GivesUp(i) => Counts(i)' = Counts(i)
      /\ \A i \in Ids : GivesUp(i) => Counts(i)' = 1
  BY <1>3, <1>4 DEF Counts
<1>6. QueueOK'
  <2>1. nextUpdateId' \in 1 .. Len(log) + 1
    BY <1>1, <1>2, <1>3 DEF QueueOK
  <2> QED
    BY <1>1, <1>3, <2>1 DEF QueueOK
<1>7. \A k \in 1 .. Len(inflight) :
         /\ inflight[k].id \in 1 .. nextUpdateId' - 1
         /\ inflight[k].id \in Ids /\ ~ GivesUp(inflight[k].id)
  <2>1. \A k \in 1 .. Len(inflight) : inflight[k].id \in 1 .. nextUpdateId - 1
    BY DEF IInv, FlightOK
  <2>2. ASSUME NEW i \in 1 .. nextUpdateId - 1
        PROVE  i \in 1 .. nextUpdateId' - 1 /\ i \in Ids /\ ~ GivesUp(i)
    BY <1>1, <1>2, <1>3, <1>4 DEF QueueOK, Ids
  <2> QED
    BY <2>1, <2>2
<1>8. FlightOK'
  <2>1. ASSUME NEW k \in 1 .. Len(inflight') PROVE (Counts(inflight[k].id))' = 0
    BY <1>3, <1>7, <2>1 DEF IInv, FlightOK, Counts
  <2> QED
    BY <1>3, <1>7, <2>1 DEF IInv, FlightOK
<1>9. HeldOK'
  BY <1>3 DEF HeldOK
<1>10. UnreadOK'
  <2>1. ASSUME NEW i \in Ids', i >= nextUpdateId' PROVE Counts(i)' = 0
    <3>1. i \in Ids /\ ~ GivesUp(i) /\ i >= nextUpdateId
      BY <1>1, <1>2, <1>3, <1>4, <2>1 DEF Ids
    <3> QED
      BY <1>5, <3>1 DEF IInv, UnreadOK
  <2> QED
    BY <2>1 DEF UnreadOK
<1>11. CountedOnce'
  BY <1>3, <1>5 DEF IInv, CountedOnce, Ids
<1>12. NothingPassedOver'
  <2>1. ASSUME NEW i \in 1 .. nextUpdateId' - 1, Passed(i)' PROVE Accounted(i)'
    <3>1. i \in Ids /\ i > dropped /\ i <= To /\ log[i].kind # "other" /\ Passed(i)
      BY <1>1, <1>2, <1>3, <2>1 DEF Passed, InConfig, Ids
    <3>2. CASE i >= nextUpdateId
      <4>1. i \in Nat /\ dropped \in Nat
        BY <1>1, <3>1 DEF Ids, QueueOK
      <4>2. i >= From
        BY <1>1, <1>2, <3>1, <3>2, <4>1
      <4>3. GivesUp(i)
        BY <1>2, <3>1, <4>1, <4>2 DEF GivesUp
      <4> QED
        BY <1>5, <3>1, <4>3 DEF Accounted
    <3>3. CASE i < nextUpdateId
      <4>1. i \in 1 .. nextUpdateId - 1
        BY <1>1, <3>1, <3>3 DEF Ids
      <4>2. Accounted(i)
        BY <3>1, <4>1, PassedOver DEF IInv, FlightOK
      <4>3. ~ GivesUp(i)
        BY <1>1, <1>4, <3>1, <4>1
      <4> QED
        BY <1>3, <1>5, <3>1, <4>2, <4>3 DEF Accounted
    <3> QED
      BY <1>1, <3>1, <3>2, <3>3 DEF Ids
  <2> QED
    BY <1>8, <2>1, PassedOverNext DEF FlightOK
<1> QED
  BY <1>6, <1>8, <1>9, <1>10, <1>11, <1>12 DEF IInv

-----------------------------------------------------------------------------
(* The steps.                                                              *)

\* An answer arrives for one of the requests.
LEMMA Answered ==
  ASSUME inflight \in Seq(Requests), NEW k \in DOMAIN inflight,
         NEW st \in {"ok", "data", "timeout"}, inflight' = [inflight EXCEPT ![k].st = st]
  PROVE  SameFlight
<1>1. k \in 1 .. Len(inflight)
  OBVIOUS
<1>2. inflight[k] \in Requests
  BY <1>1, ElementOf
<1>3. PICK r \in Requests : inflight' = [inflight EXCEPT ![k] = r] /\ r.id = inflight[k].id
  <2> DEFINE r == [inflight[k] EXCEPT !.st = st]
  <2>1. inflight' = [inflight EXCEPT ![k] = r]
    OBVIOUS
  <2>2. r \in Requests /\ r.id = inflight[k].id
    BY <1>2 DEF Requests
  <2> QED
    BY <2>1, <2>2
<1> QED
  BY <1>1, <1>3 DEF SameFlight

LEMMA LeaderStep ==
  ASSUME IInv, Leader
  PROVE  IInv'
<1>1. ASSUME NEW kind \in Kinds, NEW isEmitter \in BOOLEAN, Write(kind, isEmitter)
      PROVE  IInv'
  <2>1. lsn' \in Nat
    BY <1>1 DEF Write, IInv, QueueOK
  <2>2. NewUpdate(kind, lsn', isEmitter) \in Updates
    BY <2>1, ReplNodeAssumption DEF NewUpdate, Updates
  <2>3. SameFlight
    BY <1>1 DEF Write, SameFlight, IInv, FlightOK
  <2> QED
    BY <1>1, <2>1, <2>2, <2>3, Grow DEF Write, readVars
<1>2. ASSUME NEW d \in Ids, DropUpdates(d) PROVE IInv'
  <2>1. dropped' \in dropped .. Len(log)
    BY <1>2 DEF DropUpdates, Ids, IInv, QueueOK
  <2> QED
    BY <1>2, <2>1, Frame DEF DropUpdates, readVars
<1> QED
  BY <1>1, <1>2 DEF Leader

LEMMA FollowerStep ==
  ASSUME IInv, Follower
  PROVE  IInv'
<1>1. ASSUME LateRequest PROVE IInv'
  <2>1. dropped \in dropped .. Len(log)
    BY DEF IInv, QueueOK
  <2> QED
    BY <1>1, <2>1, Frame DEF LateRequest, leaderVars, readVars
<1>2. ASSUME NEW k \in DOMAIN inflight, FollowerApplies(k) PROVE IInv'
  <2> DEFINE st == IF Accepts(log[inflight[k].id].lsn) THEN "ok" ELSE "data"
  <2>1. st \in {"ok", "data"} /\ inflight' = [inflight EXCEPT ![k].st = st]
    BY <1>2 DEF FollowerApplies
  <2>2. SameFlight
    BY <2>1, Answered DEF IInv, FlightOK
  <2> QED
    BY <1>2, <2>2, FlightFrame DEF FollowerApplies, leaderVars, readVars
<1> QED
  BY <1>1, <1>2 DEF Follower

LEMMA FaultStep ==
  ASSUME IInv, Faults
  PROVE  IInv'
<1>1. ASSUME ConnectionBreaks PROVE IInv'
  <2>1. SameFlight
    <3>1. /\ inflight \in Seq(Requests) /\ DOMAIN inflight = 1 .. Len(inflight)
          /\ Len(inflight) \in Nat
      BY DEF IInv, FlightOK
    <3>2. inflight' = [k \in 1 .. Len(inflight) |->
                         IF inflight[k].st = "sent" THEN [inflight[k] EXCEPT !.st = "net"]
                         ELSE inflight[k]]
      BY <1>1, <3>1 DEF ConnectionBreaks
    <3>3. ASSUME NEW k \in 1 .. Len(inflight)
          PROVE  inflight'[k] \in Requests /\ inflight'[k].id = inflight[k].id
      <4>1. inflight[k] \in Requests
        BY <3>1, ElementOf
      <4> QED
        BY <3>2, <4>1 DEF Requests
    <3>4. inflight' \in [1 .. Len(inflight) -> Requests]
      BY <3>2, <3>3
    <3> QED
      BY <3>1, <3>3, <3>4, FunctionIsSeq DEF SameFlight
  <2>2. NewUpdate("offline", 0, FALSE) \in Updates
    BY DEF NewUpdate, Updates
  <2> QED
    BY <1>1, <2>1, <2>2, Grow DEF ConnectionBreaks, readVars, IInv, QueueOK
<1>2. ASSUME NetworkReturns PROVE IInv'
  <2>1. SameFlight
    BY <1>2 DEF NetworkReturns, SameFlight, IInv, FlightOK
  <2>2. NewUpdate("online", 0, FALSE) \in Updates
    BY DEF NewUpdate, Updates
  <2>3. CASE Enqueued(NewUpdate("online", 0, FALSE))
    BY <1>2, <2>1, <2>2, <2>3, Grow DEF NetworkReturns, readVars, IInv, QueueOK
  <2>4. CASE UNCHANGED <<log, counted>>
    BY <1>2, <2>1, <2>4, FlightFrame DEF NetworkReturns, readVars
  <2> QED
    BY <1>2, <2>3, <2>4 DEF NetworkReturns
<1>3. ASSUME NEW k \in DOMAIN inflight, RequestTimesOut(k) PROVE IInv'
  <2>1. SameFlight
    BY <1>3, Answered DEF RequestTimesOut, IInv, FlightOK
  <2> QED
    BY <1>3, <2>1, FlightFrame DEF RequestTimesOut, leaderVars, readVars
<1> QED
  BY <1>1, <1>2, <1>3 DEF Faults

LEMMA SyncStep ==
  ASSUME IInv, Sync \/ Retry
  PROVE  IInv'
<1>1. /\ UNCHANGED <<lsn, log, dropped, counted, nextUpdateId, inflight>>
      /\ pc \notin {"batch", "await"} /\ pc' \notin {"batch", "await", "call"}
  BY DEF Sync, Retry, NoConnection, GetReplState, GetSnapshot, ApplySnapshotChunk,
         ChunkRejected, SnapshotApplied, Fails, leaderVars, readVars
<1>2. dropped' \in dropped .. Len(log)
  BY <1>1 DEF IInv, QueueOK
<1> QED
  BY <1>1, <1>2, Frame

LEMMA LoopStep ==
  ASSUME IInv, Loop
  PROVE  IInv'
<1> USE DEF leaderVars, readVars
<1>1. CASE Resync \/ ReadNothing \/ Awake \/ ReadChunk \/ ChunkEnds \/ Drained
  <2>1. /\ UNCHANGED <<lsn, log, dropped, counted, nextUpdateId, inflight>>
        /\ pc \notin {"batch", "await"} /\ pc' \notin {"batch", "await", "call"}
    BY <1>1 DEF Resync, ReadNothing, Awake, ReadChunk, ChunkEnds, Drained, Fails
  <2>2. dropped' \in dropped .. Len(log)
    BY <2>1 DEF IInv, QueueOK
  <2> QED
    BY <2>1, <2>2, Frame
<1>2. CASE ReadDropBlock
  BY <1>2, Drops
<1>3. CASE HandleNetworkCheck
  BY <1>3, Reads DEF HandleNetworkCheck, Reports
<1>4. CASE SkipUpdate
  BY <1>4, Reads DEF SkipUpdate, Reports
<1>5. CASE NextUpdate
  BY <1>5, Reads DEF NextUpdate
<1>6. CASE Batch
  BY <1>6, Sends DEF Batch
<1>7. CASE BatchTakesAnswer
  BY <1>7, TakesAnswer DEF BatchTakesAnswer, Rewind
<1>8. CASE AwaitTakesAnswer
  BY <1>8, TakesAnswer DEF AwaitTakesAnswer, Rewind
<1>9. CASE ApplyUpdate
  <2>1. inflight' = Append(inflight, Request(nextUpdateId - 1))
    BY <1>9 DEF ApplyUpdate
  <2> QED
    BY <1>9, <2>1, Sends DEF ApplyUpdate
<1>10. CASE UpdateApplied
  BY <1>10, Alone
<1>11. CASE DrainTakesAnswer
  BY <1>11, TakesAnswer DEF DrainTakesAnswer
<1> QED
  BY <1>1, <1>2, <1>3, <1>4, <1>5, <1>6, <1>7, <1>8, <1>9, <1>10, <1>11 DEF Loop

LEMMA StepInv == IInv /\ [Next]_vars => IInv'
<1> SUFFICES ASSUME IInv, [Next]_vars PROVE IInv'
  OBVIOUS
<1>1. CASE Next
  BY <1>1, LeaderStep, FollowerStep, FaultStep, SyncStep, LoopStep, GivingUp DEF Next
<1>2. CASE UNCHANGED vars
  <2>1. dropped' \in dropped .. Len(log)
    BY <1>2 DEF vars, leaderVars, IInv, QueueOK
  <2> QED
    BY <1>2, <2>1, Frame DEF vars, leaderVars, readVars
<1> QED
  BY <1>1, <1>2

\* The reports of a node, whatever fails, breaks off, comes late or is dropped:
\* what is on its way or unread is not reported, and nothing read is forgotten.
THEOREM ReportInvariant == Spec => []IInv
  BY InitInv, StepInv, PTL DEF Spec

\* A node reports on each update at most once, so that it counts once in the
\* consensus of a write (OnUpdateHandled).
THEOREM ReportedOnce == Spec => []CountedOnce
<1>1. IInv => CountedOnce
  BY DEF IInv
<1> QED
  BY <1>1, ReportInvariant, PTL

\* Every update of the namespace behind nextUpdateId was reported, is on its way
\* or held for sending, or was dropped.
THEOREM NonePassedOver == Spec => []NothingPassedOver
<1>1. IInv => NothingPassedOver
  BY DEF IInv
<1> QED
  BY <1>1, ReportInvariant, PTL

\* One step of EmitterIsAsked.
Asked ==
    \A i \in Ids : log[i].isEmitter /\ counted'[i].err > counted[i].err =>
        \E k \in DOMAIN inflight : inflight[k].id = i

LEMMA AskedStep == IInv /\ [Next]_vars => Asked
<1> SUFFICES ASSUME IInv, [Next]_vars, NEW i \in Ids,
                    log[i].isEmitter, counted'[i].err > counted[i].err
             PROVE  \E k \in DOMAIN inflight : inflight[k].id = i
  BY DEF Asked
<1>1. /\ counted \in Seq([ok : Nat, err : Nat]) /\ i \in 1 .. Len(counted)
      /\ counted[i] \in [ok : Nat, err : Nat] /\ counted[i].err \in Nat
  <2>1. counted \in Seq([ok : Nat, err : Nat]) /\ i \in 1 .. Len(counted)
    BY DEF IInv, QueueOK, Ids
  <2>2. counted[i] \in [ok : Nat, err : Nat]
    BY <2>1, ElementOf
  <2> QED
    BY <2>1, <2>2
<1>2. counted'[i].err # counted[i].err
  BY <1>1
<1>3. \A a : counted' = [counted EXCEPT ![a].ok = @ + 1] => counted'[i].err = counted[i].err
  BY <1>1
<1>4. ASSUME HasAnswer, CountAnswer(Head(inflight)) PROVE inflight[1].id = i /\ 1 \in DOMAIN inflight
  <2>1. inflight \in Seq(Requests) /\ inflight # <<>>
    BY <1>4 DEF IInv, FlightOK, HasAnswer
  <2>2. Head(inflight) = inflight[1] /\ 1 \in DOMAIN inflight
    BY <2>1
  <2>3. CountErr(Head(inflight).id)
    BY <1>2, <1>3, <1>4 DEF CountAnswer, CountOk
  <2> QED
    BY <1>1, <1>2, <2>2, <2>3 DEF CountErr
<1>5. CASE Leader
  <2>1. ASSUME NEW u, Enqueued(u) PROVE FALSE
    <3>1. counted'[i] = counted[i]
      BY <1>1, <2>1 DEF Enqueued
    <3> QED
      BY <1>2, <3>1
  <2> QED
    BY <1>2, <1>5, <2>1 DEF Leader, Write, DropUpdates
<1>6. CASE Follower \/ Sync \/ Retry
  BY <1>2, <1>6 DEF Follower, LateRequest, FollowerApplies, Sync, Retry, NoConnection,
       GetReplState, GetSnapshot, ApplySnapshotChunk, ChunkRejected, SnapshotApplied
<1>7. CASE Faults
  <2>1. ASSUME NEW u, Enqueued(u) PROVE FALSE
    <3>1. counted'[i] = counted[i]
      BY <1>1, <2>1 DEF Enqueued
    <3> QED
      BY <1>2, <3>1
  <2> QED
    BY <1>2, <1>7, <2>1 DEF Faults, ConnectionBreaks, NetworkReturns, RequestTimesOut
<1>8. CASE Loop
  <2>1. CASE Resync \/ ReadDropBlock \/ ReadNothing \/ Awake \/ ReadChunk \/ ChunkEnds
               \/ NextUpdate \/ Batch \/ ApplyUpdate \/ Drained
    BY <1>2, <2>1 DEF Resync, ReadDropBlock, ReadNothing, Awake, ReadChunk, ChunkEnds,
         NextUpdate, Batch, ApplyUpdate, Drained
  <2>2. CASE HandleNetworkCheck \/ SkipUpdate
    BY <1>2, <1>3, <2>2 DEF HandleNetworkCheck, SkipUpdate, CountOk
  <2>3. CASE BatchTakesAnswer \/ AwaitTakesAnswer \/ DrainTakesAnswer \/ UpdateApplied
    <3>1. HasAnswer /\ CountAnswer(Head(inflight))
      BY <2>3 DEF BatchTakesAnswer, AwaitTakesAnswer, DrainTakesAnswer, UpdateApplied, TakeAnswer
    <3> QED
      BY <1>4, <3>1
  <2> QED
    BY <1>8, <2>1, <2>2, <2>3 DEF Loop
<1>9. CASE HandleUpdatesWithError
  <2>1. GivesUp(i)
    BY <1>2, <1>9, ErrorReports DEF IInv
  <2>2. ~ KeptForEmitter(i)
    BY <2>1, GivenUp DEF IInv, GivesUp
  <2> QED
    BY <2>2 DEF KeptForEmitter
<1>10. CASE UNCHANGED vars
  BY <1>2, <1>10 DEF vars
<1> QED
  BY <1>5, <1>6, <1>7, <1>8, <1>9, <1>10 DEF Next

\* handleUpdatesWithError gives up no update of the node's own clients: it is
\* reported as failed only after it was sent to the node.
THEOREM EmitterAsked == Spec => EmitterIsAsked
<1>1. IInv /\ [Next]_vars => [Asked]_vars
  BY AskedStep
<1>2. Spec => [][Asked]_vars
  BY <1>1, ReportInvariant, PTL DEF Spec
<1> QED
  BY <1>2 DEF EmitterIsAsked, Asked
=============================================================================
