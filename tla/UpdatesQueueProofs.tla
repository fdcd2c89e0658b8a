------------------------- MODULE UpdatesQueueProofs -------------------------
(***************************************************************************)
(* Proofs about UpdatesQueue for every number of followers and writers,    *)
(* every chunk size, limit and number of updates.  Two theorems are about  *)
(* clusters of certain sizes only, and say so: OddHandledResult and        *)
(* AckedConsensus (up to four nodes).  Beyond these the code does not keep *)
(* the property.                                                           *)
(***************************************************************************)
EXTENDS UpdatesQueue, FiniteSetTheorems, TLAPS

(* Chunks and their ids                                                    *)

LastEnd == MaxChunks * BatchSize
ChunkEnds == ChunkIds \cup {LastEnd}

LEMMA Sizes ==
    /\ BatchSize \in Nat /\ BatchSize >= 1 /\ MaxChunks \in Nat /\ MaxChunks >= 1
    /\ LastEnd \in Nat /\ LastEnd >= BatchSize
    /\ Ids = 0..(LastEnd - 1)
<1>1. /\ BatchSize \in Nat /\ BatchSize >= 1 /\ MaxChunks \in Nat /\ MaxChunks >= 1
  BY UpdatesQueueAssumption DEF UpdatesQueueAssumption
<1>2. \A a, b \in Nat : a >= 1 => a * b \in Nat /\ a * b >= b
  OBVIOUS
<1> QED BY <1>1, <1>2 DEF LastEnd, Ids

LEMMA Division ==
    ASSUME NEW i \in Nat
    PROVE  /\ i \div BatchSize \in Nat
           /\ ChunkOf(i) \in Nat /\ ChunkOf(i) <= i /\ i < ChunkOf(i) + BatchSize
  BY Sizes DEF ChunkOf

\* Different multiples of the chunk size are a chunk apart.
LEMMA Multiples ==
    ASSUME NEW a \in Int, NEW b \in Int, a < b
    PROVE  a * BatchSize + BatchSize <= b * BatchSize
<1>1. \A x, y \in Int : x >= 0 /\ y >= 0 => x * y >= 0
  OBVIOUS
<1>2. (b - a - 1) * BatchSize >= 0
  BY <1>1, Sizes
<1>3. (b - a - 1) * BatchSize = b * BatchSize - a * BatchSize - BatchSize
  BY Sizes
<1> QED BY <1>2, <1>3, Sizes

LEMMA ChunkEndsOK ==
    /\ ChunkIds \subseteq Nat /\ ChunkEnds \subseteq 0..LastEnd /\ 0 \in ChunkIds
    /\ \A c \in ChunkIds : c + BatchSize \in ChunkEnds /\ c \in Ids
    /\ \A c, d \in ChunkEnds : c < d => c + BatchSize <= d /\ c \in ChunkIds
    /\ \A c \in ChunkEnds : c > 0 => c - BatchSize \in ChunkIds
<1>1. \A c \in ChunkEnds : \E a \in 0..MaxChunks : c = a * BatchSize
  BY Sizes DEF ChunkEnds, ChunkIds, LastEnd
<1>2. \A a \in 0..MaxChunks : a * BatchSize \in Nat /\ a * BatchSize <= LastEnd
  <2>1. \A x, y \in Int : x >= 0 /\ y >= 0 => x * y >= 0
    OBVIOUS
  <2> QED BY <2>1, Multiples, Sizes DEF LastEnd
<1>3. 0 \in ChunkIds
  <2>1. 0 \in 0..(MaxChunks - 1) /\ 0 = 0 * BatchSize
    BY Sizes
  <2> QED BY <2>1 DEF ChunkIds
<1>4. ASSUME NEW a \in 0..(MaxChunks - 1)
      PROVE  a * BatchSize + BatchSize \in ChunkEnds
  <2>1. a * BatchSize + BatchSize = (a + 1) * BatchSize
    BY Sizes
  <2> QED BY <2>1, Sizes DEF ChunkEnds, ChunkIds, LastEnd
<1>5. ASSUME NEW c \in ChunkIds PROVE c + BatchSize \in ChunkEnds /\ c \in Ids
  <2>1. PICK a \in 0..(MaxChunks - 1) : c = a * BatchSize
    BY DEF ChunkIds
  <2>2. c + BatchSize \in ChunkEnds
    BY <1>4, <2>1
  <2>3. a * BatchSize + BatchSize <= MaxChunks * BatchSize
    BY Multiples, Sizes
  <2>4. c \in Nat /\ c + BatchSize <= LastEnd
    BY <1>2, <2>1, <2>3, Sizes DEF LastEnd
  <2> QED BY <2>2, <2>4, Sizes
<1>6. ASSUME NEW c \in ChunkEnds, NEW d \in ChunkEnds, c < d
      PROVE  c + BatchSize <= d /\ c \in ChunkIds
  <2>1. PICK a \in 0..MaxChunks : c = a * BatchSize
    BY <1>1
  <2>2. PICK b \in 0..MaxChunks : d = b * BatchSize
    BY <1>1
  <2>3. ~(b < a) /\ a # b
    BY <1>6, <2>1, <2>2, Multiples, Sizes
  <2>4. a < b
    BY <2>3, Sizes
  <2>5. c + BatchSize <= d
    BY <2>1, <2>2, <2>4, Multiples
  <2>6. a \in 0..(MaxChunks - 1)
    BY <2>4, Sizes
  <2> QED BY <2>1, <2>5, <2>6 DEF ChunkIds
<1>7. ChunkEnds \subseteq 0..LastEnd
  BY <1>1, <1>2, Sizes
<1>8. ASSUME NEW c \in ChunkEnds, c > 0 PROVE c - BatchSize \in ChunkIds
  <2>1. PICK a \in 0..MaxChunks : c = a * BatchSize
    BY <1>1
  <2>2. a # 0
    BY <1>8, <2>1, Sizes
  <2>3. a - 1 \in 0..(MaxChunks - 1) /\ c - BatchSize = (a - 1) * BatchSize
    BY <2>1, <2>2, Sizes
  <2> QED BY <2>3 DEF ChunkIds
<1> QED BY <1>3, <1>5, <1>6, <1>7, <1>8, Sizes DEF ChunkEnds

LEMMA Numbers ==
    /\ \A c \in ChunkIds : c \in Nat /\ c \in ChunkEnds /\ c \in Ids
    /\ \A c \in ChunkEnds : c \in Nat /\ c <= LastEnd
    /\ \A i \in Ids : i \in Nat
<1>1. \A c \in ChunkIds : c \in Nat /\ c \in Ids
  BY ChunkEndsOK
<1>2. \A c \in ChunkIds : c \in ChunkEnds
  BY DEF ChunkEnds
<1>3. \A c \in ChunkEnds : c \in Nat /\ c <= LastEnd
  BY ChunkEndsOK, Sizes
<1>4. \A i \in Ids : i \in Nat
  BY Sizes
<1> QED BY <1>1, <1>2, <1>3, <1>4

LEMMA ChunkOfOK ==
    ASSUME NEW i \in Ids
    PROVE  /\ ChunkOf(i) \in ChunkIds
           /\ ChunkOf(i) <= i /\ i < ChunkOf(i) + BatchSize
<1> DEFINE q == i \div BatchSize
<1>1. i \in Nat /\ i < LastEnd
  BY Sizes
<1>2. ChunkOf(i) <= i /\ i < ChunkOf(i) + BatchSize /\ q \in Nat /\ ChunkOf(i) = q * BatchSize
  BY <1>1, Division DEF ChunkOf
<1> HIDE DEF q
<1>3. q * BatchSize < MaxChunks * BatchSize
  BY <1>1, <1>2, Sizes DEF LastEnd
<1>4. ~(MaxChunks < q) /\ MaxChunks # q
  BY <1>2, <1>3, Multiples, Sizes
<1>5. q \in 0..(MaxChunks - 1)
  BY <1>2, <1>4, Sizes
<1> QED BY <1>2, <1>5 DEF ChunkIds

\* A chunk has the ids from its own one up to the next chunk's.
LEMMA IdsOfChunk ==
    ASSUME NEW c \in ChunkIds, NEW i \in Int, c <= i, i < c + BatchSize
    PROVE  i \in Ids /\ ChunkOf(i) = c
<1>1. i \in Ids
  BY ChunkEndsOK, Sizes
<1>2. /\ ChunkOf(i) \in ChunkIds /\ ChunkOf(i) <= i /\ i < ChunkOf(i) + BatchSize
  BY <1>1, ChunkOfOK
<1>3. c \in ChunkEnds /\ ChunkOf(i) \in ChunkEnds /\ c \in Nat /\ ChunkOf(i) \in Nat
  BY <1>2, ChunkEndsOK DEF ChunkEnds
<1>4. /\ c < ChunkOf(i) => c + BatchSize <= ChunkOf(i)
      /\ ChunkOf(i) < c => ChunkOf(i) + BatchSize <= c
  BY <1>3, ChunkEndsOK
<1> QED BY <1>1, <1>2, <1>3, <1>4, Sizes


----------------------------------------------------------------------------
(* The inductive invariant                                                 *)

Types ==
    /\ firstChunkID \in ChunkEnds /\ nextChunkID \in ChunkEnds
    /\ firstChunkID <= nextChunkID /\ dataSize \in Int
    /\ dropRecord \in Ids \cup {-1}
    /\ invalidated \in BOOLEAN /\ switches \in 0..MaxSwitches
    /\ chunk \in [ChunkIds -> [count : 0..BatchSize, erased : Nat, resultsSent : Nat,
                               invalidated : BOOLEAN]]
    /\ upd \in [Ids -> [emitter : Emitters \cup {NoEmitter},
                        onResult : Writers \cup {NoWriter},
                        replicatedToEmitter : BOOLEAN,
                        replicas : Nat, approves : Nat, errors : Nat]]
    /\ writer \in [Writers -> [state : {"idle", "refused", "waiting", "done"},
                               dataSize : PushSizes \cup {0}, first : Ids \cup {0},
                               executed : Nat, ok : BOOLEAN]]
    /\ nextUpdateId \in [Followers -> Nat]
    /\ ptr \in [Followers -> ChunkIds \cup {NoChunk}]
    /\ awaits \in [Followers -> BOOLEAN]
    /\ status \in [Followers -> [id : Ids \cup {-1}, sent : BOOLEAN, ok : BOOLEAN,
                                 result : BOOLEAN, erase : BOOLEAN, sweep : BOOLEAN]]

\* The chunks before the last one are full, the last one is not empty, and the
\* drop record lies before the queue.
QueueOK ==
    /\ \A c \in ChunkIds : c >= nextChunkID => chunk[c].count = 0 /\ ~chunk[c].invalidated
    /\ \A c \in ChunkIds : InQueue(c) =>
          /\ chunk[c].count >= 1 /\ ~chunk[c].invalidated
          /\ c + BatchSize < nextChunkID => chunk[c].count = BatchSize
    /\ dropRecord < firstChunkID

\* Nobody has touched an update that was not pushed.
FreshOK ==
    \A i \in Ids : ~Pushed(i) =>
        /\ upd[i].onResult = NoWriter /\ ~upd[i].replicatedToEmitter
        /\ upd[i].replicas = 0 /\ upd[i].approves = 1 /\ upd[i].errors = 0

\* A reader's position and update lie in its chunk.
ReaderOK ==
    \A f \in Followers :
        /\ nextUpdateId[f] <= nextChunkID
        /\ ptr[f] # NoChunk =>
              /\ ptr[f] <= nextUpdateId[f] /\ ~awaits[f]
              /\ nextUpdateId[f] <= ptr[f] + chunk[ptr[f]].count
        /\ \/ status[f] = Idle
           \/ /\ ptr[f] # NoChunk /\ ptr[f] <= status[f].id
              /\ status[f].id = nextUpdateId[f] - 1
        /\ status[f].sent => ~status[f].result /\ ~status[f].erase
        /\ status[f].sent \/ status[f].result => ~status[f].sweep

\* The readers that are behind an update and have its answer, or never sent it
Handled(i) ==
    {f \in Followers : nextUpdateId[f] > i /\ ~(status[f].sent /\ status[f].id = i)}

\* Those of them that may be counted
Counted(i) ==
    IF upd[i].replicatedToEmitter THEN Handled(i) ELSE Handled(i) \ {upd[i].emitter}

\* Every reader is counted once.
CountsOK ==
    \A i \in Ids :
        /\ upd[i].approves + upd[i].errors = upd[i].replicas + 1
        /\ upd[i].replicas <= Cardinality(Counted(i))
        /\ upd[i].replicatedToEmitter => upd[i].emitter \in Handled(i) \cup {NoEmitter}

HasResult(i) ==
    /\ upd[i].replicatedToEmitter
    /\ upd[i].approves >= ConsensusCnt \/ upd[i].errors >= ConsensusCnt
WithResult(c) == {i \in Ids : ChunkOf(i) = c /\ HasResult(i)}
Replicas(c) == {i \in Ids : ChunkOf(i) = c /\ upd[i].replicas = RequiredReplicas}
ResultsDue(c) == {f \in Followers : status[f].result /\ ptr[f] = c}
ErasuresDue(c) == {f \in Followers : status[f].erase /\ ptr[f] = c}

\* The counters of a chunk and what its readers have still to add are what its
\* updates have reached.
ChunkCountsOK ==
    \A c \in ChunkIds :
        /\ chunk[c].resultsSent + Cardinality(ResultsDue(c)) <= Cardinality(WithResult(c))
        /\ InQueue(c) =>
             chunk[c].resultsSent + Cardinality(ResultsDue(c)) = Cardinality(WithResult(c))
        /\ chunk[c].erased + Cardinality(ErasuresDue(c)) = Cardinality(Replicas(c))

Pending(w) == {i \in Ids : upd[i].onResult = w}

\* A waiting writer has been called for all updates but those that still have
\* its callback.
WriterOK ==
    \A w \in Writers :
        /\ writer[w].state = "idle" => writer[w].executed = 0
        /\ writer[w].state = "waiting" =>
             writer[w].executed + Cardinality(Pending(w)) = writer[w].dataSize
        /\ writer[w].state # "waiting" => Pending(w) = {}

\* A callback is kept only in the queue, and only until the result is due.
CallbackOK ==
    \A i \in Ids :
        /\ ~InQueue(ChunkOf(i)) => upd[i].onResult = NoWriter
        /\ HasResult(i) /\ upd[i].onResult # NoWriter =>
              \E f \in Followers : status[f].result /\ status[f].id = i

\* What has left the queue was invalidated or is behind all readers.
GoneOK ==
    \A c \in ChunkIds : c < firstChunkID /\ ~chunk[c].invalidated =>
        \A i \in Ids, f \in Followers : ChunkOf(i) = c /\ Pushed(i) => nextUpdateId[f] > i

SizeOK ==
    dataSize = Cardinality(ChunksIn(firstChunkID, nextChunkID)) + GetNextUpdateID - firstChunkID

\* Somebody is about to erase a chunk that can be erased.
SweepOK ==
    ~IsEmpty /\ Erasable(firstChunkID, chunk) => \E f \in Followers : status[f].sweep

IsAcked(i) == upd[i].approves >= ConsensusCnt /\ upd[i].replicatedToEmitter

\* Nobody reports success without the consensus.
AckOK ==
    /\ \A w \in Writers : writer[w].state \in {"waiting", "done"} =>
          \A i \in UpdatesOf(w) :
              /\ i \in Ids /\ Pushed(i)
              /\ IsAcked(i) \/ upd[i].onResult = w \/ ~writer[w].ok
    /\ \A f \in Followers : status[f].result /\ status[f].ok => IsAcked(status[f].id)

----------------------------------------------------------------------------
(* Cardinalities                                                           *)

LEMMA FiniteSets ==
    /\ IsFiniteSet(Ids) /\ IsFiniteSet(ChunkIds) /\ IsFiniteSet(Followers)
    /\ \A S : S \subseteq Ids \/ S \subseteq ChunkIds \/ S \subseteq Followers =>
          IsFiniteSet(S) /\ Cardinality(S) \in Nat
<1>1. IsFiniteSet(Ids) /\ IsFiniteSet(0..LastEnd)
  BY FS_Interval, Sizes
<1>2. IsFiniteSet(ChunkIds)
  BY <1>1, ChunkEndsOK, FS_Subset DEF ChunkEnds
<1>3. IsFiniteSet(Followers)
  BY UpdatesQueueAssumption DEF UpdatesQueueAssumption
<1>4. ASSUME NEW S, S \subseteq Ids \/ S \subseteq ChunkIds \/ S \subseteq Followers
      PROVE  IsFiniteSet(S) /\ Cardinality(S) \in Nat
  <2>1. IsFiniteSet(S)
    BY <1>1, <1>2, <1>3, <1>4, FS_Subset
  <2> QED BY <2>1, FS_CardinalityType
<1> QED BY <1>1, <1>2, <1>3, <1>4

\* There are two followers or more, and more than half of the nodes make the
\* consensus.
LEMMA Nodes ==
    /\ RequiredReplicas \in Nat /\ RequiredReplicas >= 2
    /\ RequiredReplicas = Cardinality(Followers) /\ NodesCount = RequiredReplicas + 1
    /\ ConsensusCnt \in Nat /\ ConsensusCnt >= 2 /\ 2 * ConsensusCnt > NodesCount
    /\ 2 * ConsensusCnt <= NodesCount + 2
<1>1. Cardinality(Followers) \in Nat /\ Cardinality(Followers) >= 2
  BY FiniteSets, UpdatesQueueAssumption DEF UpdatesQueueAssumption
<1> QED BY <1>1 DEF RequiredReplicas, ConsensusCnt, NodesCount

LEMMA Interval ==
    ASSUME NEW a \in Int, NEW n \in Nat
    PROVE  IsFiniteSet(a..(a + n - 1)) /\ Cardinality(a..(a + n - 1)) = n
<1>1. a + n - 1 \in Int
  OBVIOUS
<1> DEFINE b == a + n - 1
<1>2. b \in Int /\ (a > b => n = 0) /\ (~(a > b) => b - a + 1 = n)
  BY <1>1
<1> HIDE DEF b
<1>3. IsFiniteSet(a..b) /\ Cardinality(a..b) = IF a > b THEN 0 ELSE b - a + 1
  BY <1>2, FS_Interval
<1>4. IsFiniteSet(a..b) /\ Cardinality(a..b) = n
  BY <1>2, <1>3
<1> QED BY <1>4 DEF b

LEMMA AddOne ==
    ASSUME NEW S, IsFiniteSet(S), NEW T, NEW x, x \notin S, T = S \cup {x}
    PROVE  IsFiniteSet(T) /\ Cardinality(S) \in Nat /\ Cardinality(T) = Cardinality(S) + 1
  BY FS_AddElement, FS_CardinalityType

----------------------------------------------------------------------------
(* The queue                                                               *)

LEMMA ChunkTypes ==
    ASSUME Types, NEW c \in ChunkIds
    PROVE  /\ chunk[c].count \in 0..BatchSize /\ chunk[c].erased \in Nat
           /\ chunk[c].resultsSent \in Nat /\ chunk[c].invalidated \in BOOLEAN
           /\ chunk[c].count \in Nat /\ chunk[c].count <= BatchSize
<1>1. chunk[c].count \in 0..BatchSize /\ chunk[c].erased \in Nat
      /\ chunk[c].resultsSent \in Nat /\ chunk[c].invalidated \in BOOLEAN
  BY DEF Types
<1> QED BY <1>1, Sizes

\* The updates of the queue are those from the first chunk on up to the next id.
LEMMA NextIdOK ==
    ASSUME Types, QueueOK
    PROVE  /\ GetNextUpdateID \in Nat
           /\ firstChunkID \in Nat /\ nextChunkID \in Nat /\ nextChunkID <= LastEnd
           /\ firstChunkID <= GetNextUpdateID /\ GetNextUpdateID <= nextChunkID
           /\ nextChunkID - BatchSize < GetNextUpdateID
           /\ IsEmpty \/ (Back \in ChunkIds /\ InQueue(Back) /\ Back < GetNextUpdateID)
           /\ \A c \in ChunkIds : InQueue(c) => chunk[c].count = CountBelow(c, GetNextUpdateID)
           /\ \A c \in ChunkIds : c >= nextChunkID => chunk[c].count = 0
<1>1. /\ firstChunkID \in Nat /\ nextChunkID \in Nat /\ nextChunkID <= LastEnd
      /\ firstChunkID <= nextChunkID
  BY ChunkEndsOK, Sizes DEF Types
<1>2. CASE IsEmpty
  BY <1>1, <1>2, ChunkEndsOK, Sizes DEF IsEmpty, GetNextUpdateID, InQueue, QueueOK
<1>3. CASE ~IsEmpty
  <2>1. firstChunkID < nextChunkID /\ firstChunkID + BatchSize <= nextChunkID
    BY <1>1, <1>3, ChunkEndsOK DEF IsEmpty, Types
  <2>2. Back \in ChunkIds
    BY <1>1, <2>1, ChunkEndsOK DEF Types, Back
  <2>3. InQueue(Back) /\ chunk[Back].count >= 1 /\ chunk[Back].count <= BatchSize
        /\ chunk[Back].count \in Nat
    BY <1>1, <2>1, <2>2, ChunkTypes, Sizes DEF Back, InQueue, QueueOK
  <2>4. GetNextUpdateID = Back + chunk[Back].count
    BY <1>3 DEF GetNextUpdateID
  <2>5. ASSUME NEW c \in ChunkIds, InQueue(c)
        PROVE  chunk[c].count = CountBelow(c, GetNextUpdateID)
    <3>1. c \in Nat /\ chunk[c].count \in Nat /\ c + BatchSize <= nextChunkID
      BY <1>1, <2>5, ChunkEndsOK, ChunkTypes DEF InQueue, Types, ChunkEnds
    <3>2. CASE c + BatchSize < nextChunkID
      <4>1. c < Back /\ c + BatchSize <= Back /\ chunk[c].count = BatchSize
        BY <1>1, <2>2, <2>5, <3>1, <3>2, ChunkEndsOK, Sizes DEF Back, QueueOK, ChunkEnds
      <4> QED BY <1>1, <2>3, <2>4, <3>1, <4>1, Sizes DEF CountBelow, Back
    <3>3. CASE c + BatchSize = nextChunkID
      <4>1. c = Back
        BY <1>1, <3>1, <3>3, Sizes DEF Back
      <4> QED BY <1>1, <2>3, <2>4, <3>1, <4>1, Sizes DEF CountBelow, Back
    <3> QED BY <1>1, <3>1, <3>2, <3>3, Sizes
  <2> QED BY <1>1, <2>1, <2>2, <2>3, <2>4, <2>5, Sizes DEF Back, QueueOK
<1> QED BY <1>2, <1>3

LEMMA PushedOK ==
    ASSUME Types, QueueOK, NEW i \in Ids
    PROVE  /\ InQueue(ChunkOf(i)) <=> firstChunkID <= i /\ i < nextChunkID
           /\ firstChunkID <= i => (Pushed(i) <=> i < GetNextUpdateID)
           /\ (i >= GetNextUpdateID /\ InQueue(ChunkOf(i))) \/ i >= nextChunkID => ~Pushed(i)
           /\ Pushed(i) => i < GetNextUpdateID
<1> DEFINE c == ChunkOf(i)
<1>0. c \in ChunkIds /\ c <= i /\ i < c + BatchSize
  BY ChunkOfOK
<1>1. c \in ChunkIds /\ c \in Nat /\ c \in ChunkEnds /\ c <= i /\ i < c + BatchSize /\ i \in Nat
  <2>1. c \in Nat
    BY <1>0, ChunkEndsOK
  <2>2. c \in ChunkEnds
    BY <1>0 DEF ChunkEnds
  <2>3. i \in Nat
    BY Sizes
  <2> QED BY <1>0, <2>1, <2>2, <2>3
<1>2. /\ Pushed(i) <=> i < c + chunk[c].count
      /\ InQueue(c) <=> firstChunkID <= c /\ c < nextChunkID
  BY DEF Pushed, InQueue
<1> HIDE DEF c
<1>3. /\ firstChunkID <= i => firstChunkID <= c
      /\ i < nextChunkID <=> c < nextChunkID
  <2>1. /\ c < firstChunkID => c + BatchSize <= firstChunkID
        /\ c < nextChunkID => c + BatchSize <= nextChunkID
    BY <1>1, ChunkEndsOK DEF Types
  <2> QED BY <1>1, <2>1, NextIdOK, Sizes
<1>4. InQueue(c) <=> firstChunkID <= i /\ i < nextChunkID
  BY <1>1, <1>2, <1>3, NextIdOK
<1>5. i >= nextChunkID => ~Pushed(i)
  BY <1>1, <1>2, <1>3, NextIdOK
<1>6. ASSUME InQueue(c) PROVE Pushed(i) <=> i < GetNextUpdateID
  <2>1. chunk[c].count = CountBelow(c, GetNextUpdateID)
    BY <1>1, <1>6, NextIdOK
  <2>2. GetNextUpdateID \in Nat
    BY NextIdOK
  <2> QED BY <1>1, <1>2, <2>1, <2>2, Sizes DEF CountBelow
<1> QED BY <1>1, <1>3, <1>4, <1>5, <1>6, NextIdOK DEF c

\* A chunk has no more results than updates.
LEMMA ResultsInChunk ==
    ASSUME Types, QueueOK, FreshOK, NEW c \in ChunkIds
    PROVE  /\ WithResult(c) \subseteq c..(c + chunk[c].count - 1)
           /\ Replicas(c) \subseteq c..(c + chunk[c].count - 1)
           /\ Cardinality(c..(c + chunk[c].count - 1)) = chunk[c].count
           /\ Cardinality(WithResult(c)) \in Nat /\ Cardinality(WithResult(c)) <= chunk[c].count
           /\ Cardinality(Replicas(c)) \in Nat /\ Cardinality(Replicas(c)) <= chunk[c].count
           /\ Cardinality(Replicas(c)) = chunk[c].count => Replicas(c) = c..(c + chunk[c].count - 1)
           /\ Cardinality(WithResult(c)) = chunk[c].count => WithResult(c) = c..(c + chunk[c].count - 1)
<1> DEFINE n == chunk[c].count
           S == c..(c + n - 1)
<1>1. c \in Nat /\ n \in Nat
  BY ChunkEndsOK, ChunkTypes
<1>2. IsFiniteSet(S) /\ Cardinality(S) = n
  <2> HIDE DEF n
  <2>1. c \in Int
    BY <1>1
  <2> QED BY <1>1, <2>1, Interval, Zenon DEF S
<1>3. ASSUME NEW i \in Ids, ChunkOf(i) = c, Pushed(i) PROVE i \in S
  <2>1. c <= i /\ i < c + chunk[c].count /\ i \in Nat
    BY <1>3, ChunkOfOK, Sizes DEF Pushed
  <2> QED BY <1>1, <2>1
<1>4. WithResult(c) \subseteq S
  BY <1>3 DEF WithResult, HasResult, FreshOK
<1>5. Replicas(c) \subseteq S
  BY <1>3, Nodes DEF Replicas, FreshOK
<1> HIDE DEF S
<1>6. /\ Cardinality(WithResult(c)) \in Nat /\ Cardinality(WithResult(c)) <= chunk[c].count
      /\ Cardinality(WithResult(c)) = chunk[c].count => WithResult(c) = S
  BY <1>2, <1>4, FS_Subset, FS_CardinalityType
<1>7. /\ Cardinality(Replicas(c)) \in Nat /\ Cardinality(Replicas(c)) <= chunk[c].count
      /\ Cardinality(Replicas(c)) = chunk[c].count => Replicas(c) = S
  BY <1>2, <1>5, FS_Subset, FS_CardinalityType
<1> QED BY <1>2, <1>4, <1>5, <1>6, <1>7 DEF S

LEMMA SentBelowCount ==
    ASSUME Types, QueueOK, FreshOK, ChunkCountsOK, NEW c \in ChunkIds
    PROVE  /\ chunk[c].resultsSent <= chunk[c].count
           /\ chunk[c].erased <= chunk[c].count
<1>1. Cardinality(ResultsDue(c)) \in Nat /\ Cardinality(ErasuresDue(c)) \in Nat
  BY FiniteSets DEF ResultsDue, ErasuresDue
<1> QED BY <1>1, ResultsInChunk, ChunkTypes DEF ChunkCountsOK

----------------------------------------------------------------------------
(* What a push does: the updates from..to - 1 are new, the queue then has   *)
(* the chunks from d up to end.                                             *)
Added(emitter, w, from, to, end, d) ==
    /\ from = GetNextUpdateID /\ to \in Nat /\ from < to /\ to <= LastEnd
    /\ to <= end /\ end - BatchSize < to
    /\ nextChunkID <= end /\ nextChunkID' = end /\ firstChunkID' = d
    /\ firstChunkID <= d /\ d <= from /\ d + BatchSize <= end
    /\ dropRecord' = IF d > firstChunkID THEN d - 1 ELSE dropRecord
    /\ dataSize' = dataSize + (to - from) + Cardinality(ChunksIn(nextChunkID, end))
                   - DroppedSize(d)
    /\ awaits' = [f \in Followers |-> FALSE]
    /\ upd' = Appended(from..(to - 1), emitter, w)
    /\ chunk' \in [ChunkIds -> [count : 0..BatchSize, erased : Nat, resultsSent : Nat,
                                invalidated : BOOLEAN]]
    /\ \A c \in ChunkIds :
          /\ chunk'[c].erased = chunk[c].erased /\ chunk'[c].resultsSent = chunk[c].resultsSent
          /\ chunk'[c].invalidated <=> chunk[c].invalidated \/ c \in ChunksIn(firstChunkID, d)
          /\ chunk'[c].count = IF firstChunkID <= c /\ c < end THEN CountBelow(c, to)
                               ELSE chunk[c].count
          /\ chunk[c].count <= chunk'[c].count
          /\ c \in ChunksIn(firstChunkID, d) => chunk'[c].resultsSent = BatchSize
    /\ d = firstChunkID \/ ~Droppable(d, chunk')

LEMMA AddEffect ==
    ASSUME Types, QueueOK, FreshOK, ChunkCountsOK,
           NEW k \in Nat \ {0}, NEW emitter, NEW w, HasRoom(k),
           AddDataToQueue(k, emitter, w)
    PROVE  \E from, to \in Nat, end \in ChunkEnds, d \in ChunkIds :
              to = from + k /\ Added(emitter, w, from, to, end, d)
<1> DEFINE from == GetNextUpdateID
           to == from + k
           last == ChunkOf(to - 1)
           end == last + BatchSize
           size == dataSize + k + Cardinality(ChunksIn(nextChunkID, end))
           ch == [c \in ChunkIds |->
                    IF firstChunkID <= c /\ c < end
                    THEN [chunk[c] EXCEPT !.count = CountBelow(c, to)] ELSE chunk[c]]
<1>1. PICK d \in ChunkIds \cup {end} :
        /\ DropsUpTo(d, end, size, ch)
        /\ firstChunkID' = d
        /\ dataSize' = size - DroppedSize(d)
        /\ chunk' = [c \in ChunkIds |->
                        [ch[c] EXCEPT !.invalidated = @ \/ c \in ChunksIn(firstChunkID, d)]]
        /\ dropRecord' = IF d > firstChunkID THEN d - 1 ELSE dropRecord
  BY DEF AddDataToQueue
<1>2. /\ nextChunkID' = end
      /\ upd' = Appended(from..(to - 1), emitter, w)
      /\ awaits' = [f \in Followers |-> FALSE]
  BY DEF AddDataToQueue, NotifyAll
<1>3. /\ from \in Nat /\ to \in Nat /\ from < to /\ to <= LastEnd /\ to - 1 \in Ids
      /\ firstChunkID <= from
  BY NextIdOK, Sizes DEF HasRoom, LastEnd
<1>4. last \in ChunkIds /\ last <= to - 1 /\ to - 1 < last + BatchSize /\ last \in Nat
  <2>1. last \in ChunkIds /\ last <= to - 1 /\ to - 1 < last + BatchSize
    BY <1>3, ChunkOfOK
  <2> QED BY <2>1, ChunkEndsOK
<1> HIDE DEF to, from, last
<1>5. end \in ChunkEnds /\ end \in Nat
  BY <1>4, ChunkEndsOK, Sizes
<1>6. nextChunkID <= end
  <2>1. nextChunkID - BatchSize < to
    BY <1>3, NextIdOK, Sizes DEF from
  <2>2. end < nextChunkID => end + BatchSize <= nextChunkID
    BY <1>5, ChunkEndsOK DEF Types
  <2> QED BY <1>3, <1>4, <1>5, <2>1, <2>2, NextIdOK, Sizes
<1>7. firstChunkID <= last /\ firstChunkID \in ChunkIds
  <2>1. firstChunkID < end
    BY <1>3, <1>4, <1>5, NextIdOK, Sizes
  <2>2. /\ firstChunkID \in ChunkIds
        /\ firstChunkID > last => last + BatchSize <= firstChunkID
    BY <1>4, <1>5, <2>1, ChunkEndsOK DEF Types, ChunkEnds
  <2> QED BY <1>4, <2>1, <2>2, NextIdOK, Sizes
<1>8. ASSUME NEW c \in ChunkIds, firstChunkID <= c, c < end
      PROVE  /\ CountBelow(c, to) \in 0..BatchSize
             /\ CountBelow(c, to) >= 1
             /\ chunk[c].count <= CountBelow(c, to)
             /\ from < c + BatchSize => chunk[c].count < CountBelow(c, to)
  <2>1. c \in Nat /\ c <= last
    <3>1. c > last => last + BatchSize <= c
      BY <1>4, <1>5, ChunkEndsOK DEF ChunkEnds
    <3> QED BY <1>4, <1>8, <3>1, ChunkEndsOK, Sizes
  <2>2. CASE c < nextChunkID
    <3>1. chunk[c].count = CountBelow(c, from)
      BY <1>8, <2>2, NextIdOK DEF InQueue, from
    <3>2. chunk[c].count >= 1
      BY <1>8, <2>2 DEF InQueue, QueueOK
    <3> QED BY <1>3, <1>4, <2>1, <3>1, <3>2, Sizes DEF CountBelow
  <2>3. CASE c >= nextChunkID
    <3>1. chunk[c].count = 0
      BY <2>3, NextIdOK
    <3> QED BY <1>3, <1>4, <2>1, <3>1, Sizes DEF CountBelow
  <2> QED BY <2>1, <2>2, <2>3, NextIdOK
<1>9. ch \in [ChunkIds -> [count : 0..BatchSize, erased : Nat, resultsSent : Nat,
                           invalidated : BOOLEAN]]
  BY <1>8 DEF Types
<1>10. \A c \in ChunkIds :
          /\ ch[c].erased = chunk[c].erased /\ ch[c].resultsSent = chunk[c].resultsSent
          /\ ch[c].invalidated = chunk[c].invalidated
          /\ ch[c].count = IF firstChunkID <= c /\ c < end THEN CountBelow(c, to)
                           ELSE chunk[c].count
  BY DEF Types
<1> HIDE DEF ch, end
<1>11. ASSUME NEW c \in ChunkIds, firstChunkID <= c, c < end, from < c + BatchSize
       PROVE  ~Droppable(c, ch)
  <2>1. chunk[c].resultsSent <= chunk[c].count /\ chunk[c].count < CountBelow(c, to)
    BY <1>8, <1>11, SentBelowCount
  <2>2. CountBelow(c, to) \in Nat
    BY <1>8, <1>11, Sizes
  <2> QED BY <1>10, <1>11, <2>1, <2>2, ChunkTypes DEF Droppable, IsAllResultsSent
<1>12. firstChunkID <= d /\ d <= end
       /\ (\A c \in ChunksIn(firstChunkID, d) : Droppable(c, ch))
       /\ (d = firstChunkID \/ (d < end => ~Droppable(d, ch)))
  <2>1. \/ d = firstChunkID
        \/ /\ firstChunkID <= d /\ d <= end
           /\ \A c \in ChunksIn(firstChunkID, d) : Droppable(c, ch)
           /\ d < end => ~Droppable(d, ch)
    BY <1>1 DEF DropsUpTo
  <2>2. CASE d = firstChunkID
    <3>1. ChunksIn(firstChunkID, d) = {}
      <4>1. firstChunkID \in Nat /\ \A c \in ChunkIds : c \in Nat
        BY NextIdOK, ChunkEndsOK
      <4>2. ASSUME NEW c \in ChunksIn(firstChunkID, d) PROVE FALSE
        <5>1. c \in ChunkIds /\ firstChunkID <= c /\ c < firstChunkID
          BY <2>2, <4>2 DEF ChunksIn
        <5> QED BY <4>1, <5>1
      <4> QED BY <4>2
    <3>2. firstChunkID <= d /\ d <= end
      BY <1>4, <1>5, <1>7, <2>2, NextIdOK, Sizes DEF end
    <3> QED BY <2>2, <3>1, <3>2
  <2> QED BY <2>1, <2>2
<1>13. d <= from
  <2>0. from \in Ids /\ d \in Nat /\ d \in ChunkEnds
    BY <1>3, <1>5, ChunkEndsOK, Sizes DEF ChunkEnds
  <2> DEFINE c == ChunkOf(from)
  <2>1. c \in ChunkIds /\ c <= from /\ from < c + BatchSize
    BY <2>0, ChunkOfOK
  <2>2. c \in Nat /\ c \in ChunkEnds
    BY <2>1, ChunkEndsOK DEF ChunkEnds
  <2> HIDE DEF c
  <2>3. c < firstChunkID => c + BatchSize <= firstChunkID
    BY <2>2, ChunkEndsOK DEF Types
  <2>4. firstChunkID <= c
    BY <1>3, <2>1, <2>2, <2>3, NextIdOK, Sizes
  <2>5. c < end
    BY <1>3, <1>4, <2>1, <2>2, Sizes DEF end
  <2>6. ~(c < d)
    BY <1>11, <1>12, <2>1, <2>4, <2>5 DEF ChunksIn
  <2> QED BY <1>3, <2>0, <2>1, <2>2, <2>6
<1>14. d < end /\ d \in ChunkIds /\ d + BatchSize <= end
  <2>1. d < end
    BY <1>3, <1>4, <1>5, <1>12, <1>13, ChunkEndsOK, Sizes DEF end
  <2> QED BY <1>5, <2>1, ChunkEndsOK DEF ChunkEnds
<1>15. chunk' \in [ChunkIds -> [count : 0..BatchSize, erased : Nat, resultsSent : Nat,
                                invalidated : BOOLEAN]]
  BY <1>1, <1>9
<1>16. \A c \in ChunkIds :
          /\ chunk'[c].erased = ch[c].erased /\ chunk'[c].resultsSent = ch[c].resultsSent
          /\ chunk'[c].invalidated <=> ch[c].invalidated \/ c \in ChunksIn(firstChunkID, d)
          /\ chunk'[c].count = ch[c].count
  BY <1>1, <1>9
<1>17. \A c \in ChunkIds : Droppable(c, chunk') <=> Droppable(c, ch)
  BY <1>16 DEF Droppable, IsAllResultsSent, IsFull
<1>18. \A c \in ChunksIn(firstChunkID, d) : chunk'[c].resultsSent = BatchSize
  BY <1>12, <1>16 DEF Droppable, IsAllResultsSent, IsFull, ChunksIn
<1>19. /\ to <= end /\ end - BatchSize < to
       /\ dataSize' = dataSize + (to - from) + Cardinality(ChunksIn(nextChunkID, end))
                      - DroppedSize(d)
  <2>1. Cardinality(ChunksIn(nextChunkID, end)) \in Nat
    BY FiniteSets DEF ChunksIn
  <2>2. dataSize' = size - DroppedSize(d)
    BY <1>1
  <2>3. to - from = k
    BY <1>3 DEF to
  <2>4. to <= end /\ end - BatchSize < to
    BY <1>3, <1>4, Sizes DEF end
  <2>5. dataSize \in Int /\ k \in Int
    BY DEF Types
  <2>6. DroppedSize(d) \in Int
    <3>1. Cardinality(ChunksIn(firstChunkID, d)) \in Nat
      BY FiniteSets DEF ChunksIn
    <3>2. d \in Nat /\ firstChunkID \in Nat
      BY <1>5, ChunkEndsOK, NextIdOK
    <3> QED BY <3>1, <3>2 DEF DroppedSize
  <2> QED BY <2>1, <2>2, <2>3, <2>4, <2>5, <2>6
<1>20. Added(emitter, w, from, to, end, d)
  <2>1. \A c \in ChunkIds :
          /\ chunk'[c].erased = chunk[c].erased /\ chunk'[c].resultsSent = chunk[c].resultsSent
          /\ chunk'[c].invalidated <=> chunk[c].invalidated \/ c \in ChunksIn(firstChunkID, d)
          /\ chunk'[c].count = IF firstChunkID <= c /\ c < end THEN CountBelow(c, to)
                               ELSE chunk[c].count
          /\ chunk[c].count <= chunk'[c].count
          /\ c \in ChunksIn(firstChunkID, d) => chunk'[c].resultsSent = BatchSize
    BY <1>8, <1>10, <1>16, <1>18, ChunkTypes
  <2>2. d = firstChunkID \/ ~Droppable(d, chunk')
    BY <1>12, <1>14, <1>17
  <2>3. /\ from = GetNextUpdateID /\ firstChunkID' = d
        /\ dropRecord' = IF d > firstChunkID THEN d - 1 ELSE dropRecord
    BY <1>1 DEF from
  <2> HIDE DEF size
  <2> QED BY <1>2, <1>3, <1>6, <1>12, <1>13, <1>14, <1>15, <1>19, <2>1, <2>2, <2>3, Zenon
          DEF Added
<1>21. to = from + k
  BY DEF to
<1> QED BY <1>3, <1>5, <1>14, <1>20, <1>21

QueueInv == Types /\ QueueOK /\ FreshOK /\ ReaderOK /\ CountsOK /\ ChunkCountsOK

LEMMA UpdTypes ==
    ASSUME Types, NEW i \in Ids
    PROVE  /\ upd[i].emitter \in Emitters \cup {NoEmitter}
           /\ upd[i].onResult \in Writers \cup {NoWriter}
           /\ upd[i].replicatedToEmitter \in BOOLEAN
           /\ upd[i].replicas \in Nat /\ upd[i].approves \in Nat /\ upd[i].errors \in Nat
  BY DEF Types

\* The updates of a push are new and the others stay as they are.
LEMMA AddedUpdates ==
    ASSUME Types, QueueOK, FreshOK, NEW emitter, NEW w,
           NEW from \in Nat, NEW to \in Nat, NEW end \in ChunkEnds, NEW d \in ChunkIds,
           Added(emitter, w, from, to, end, d), NEW i \in Ids
    PROVE  /\ from <= i /\ i < to =>
                /\ ~Pushed(i) /\ Pushed(i)' /\ InQueue(ChunkOf(i))'
                /\ upd'[i].emitter = emitter /\ upd'[i].onResult = w
                /\ upd'[i].replicatedToEmitter <=> emitter = NoEmitter
                /\ upd'[i].replicas = 0 /\ upd'[i].approves = 1 /\ upd'[i].errors = 0
           /\ ~(from <= i /\ i < to) => upd'[i] = upd[i] /\ (Pushed(i)' <=> Pushed(i))
<1> DEFINE c == ChunkOf(i)
<1>1. c \in ChunkIds /\ c <= i /\ i < c + BatchSize
  BY ChunkOfOK
<1>2. c \in Nat /\ c \in ChunkEnds /\ i \in Nat /\ d \in Nat /\ end \in Nat /\ d \in ChunkEnds
      /\ (i \in from..(to - 1) <=> from <= i /\ i < to)
  <2>1. c \in Nat /\ c \in ChunkEnds /\ i \in Nat /\ d \in Nat /\ end \in Nat /\ d \in ChunkEnds
    BY <1>1, Numbers
  <2> QED BY <2>1
<1>3. /\ Pushed(i) <=> i < c + chunk[c].count
      /\ Pushed(i)' <=> i < c + chunk'[c].count
      /\ InQueue(c)' <=> d <= c /\ c < end
  BY DEF Pushed, InQueue, Added
<1>4. /\ upd' = Appended(from..(to - 1), emitter, w)
      /\ from = GetNextUpdateID /\ from < to /\ to <= end /\ d <= from /\ firstChunkID <= d
      /\ nextChunkID <= end
      /\ chunk'[c].count = IF firstChunkID <= c /\ c < end THEN CountBelow(c, to)
                           ELSE chunk[c].count
  BY <1>1 DEF Added
<1>5. ~(from <= i /\ i < to) => upd'[i] = upd[i]
  BY <1>2, <1>4 DEF Appended
<1>6. ASSUME from <= i, i < to PROVE upd'[i] = [upd[i] EXCEPT !.emitter = emitter, !.onResult = w,
                                                  !.replicatedToEmitter = emitter = NoEmitter]
  BY <1>2, <1>4, <1>6 DEF Appended
<1>7. ASSUME from <= i PROVE ~Pushed(i) /\ d <= c
  <2>1. ~Pushed(i)
    BY <1>2, <1>4, <1>7, NextIdOK, PushedOK
  <2>2. c < d => c + BatchSize <= d
    BY <1>2, ChunkEndsOK
  <2> QED BY <1>1, <1>2, <1>4, <1>7, <2>1, <2>2, Sizes
<1>8. c < end => c + BatchSize <= end
  BY <1>2, ChunkEndsOK
<1>9. ASSUME from <= i, i < to PROVE Pushed(i)' /\ InQueue(c)'
  <2>1. d <= c /\ c < end /\ firstChunkID <= c
    BY <1>1, <1>2, <1>4, <1>7, <1>9, NextIdOK
  <2> QED BY <1>1, <1>2, <1>3, <1>4, <1>9, <2>1, Sizes DEF CountBelow
<1>10. ASSUME ~(from <= i /\ i < to) PROVE Pushed(i)' <=> Pushed(i)
  <2>1. CASE i < from
    <3>1. CASE firstChunkID <= c /\ c < end
      <4>1. firstChunkID <= i
        BY <1>1, <1>2, <3>1, NextIdOK
      <4>2. Pushed(i)
        BY <1>4, <2>1, <4>1, PushedOK
      <4>3. i < c + CountBelow(c, to)
        BY <1>1, <1>2, <1>4, <2>1, Sizes DEF CountBelow
      <4> QED BY <1>3, <1>4, <3>1, <4>2, <4>3
    <3> QED BY <1>3, <1>4, <3>1
  <2>2. CASE to <= i
    <3>1. ~Pushed(i)
      BY <1>2, <1>4, <1>7, <2>2
    <3>2. firstChunkID <= c /\ c < end => ~(i < c + CountBelow(c, to))
      BY <1>1, <1>2, <1>4, <2>2, <1>8, Sizes DEF CountBelow
    <3> QED BY <1>3, <1>4, <3>1, <3>2
  <2> QED BY <1>2, <1>10, <2>1, <2>2
<1>11. ASSUME from <= i, i < to
       PROVE  /\ upd'[i].emitter = emitter /\ upd'[i].onResult = w
              /\ upd'[i].replicatedToEmitter <=> emitter = NoEmitter
              /\ upd'[i].replicas = 0 /\ upd'[i].approves = 1 /\ upd'[i].errors = 0
  <2>1. upd[i].replicas = 0 /\ upd[i].approves = 1 /\ upd[i].errors = 0
    BY <1>7, <1>11 DEF FreshOK
  <2>2. upd[i] \in [emitter : Emitters \cup {NoEmitter},
                        onResult : Writers \cup {NoWriter},
                        replicatedToEmitter : BOOLEAN,
                        replicas : Nat, approves : Nat, errors : Nat]
    BY DEF Types
  <2> QED BY <1>6, <1>11, <2>1, <2>2
<1> QED BY <1>5, <1>7, <1>9, <1>10, <1>11

Pushes(emitter, w, from, to, end, d) ==
    /\ Added(emitter, w, from, to, end, d)
    /\ UNCHANGED <<invalidated, switches, nextUpdateId, ptr, status>>

\* A push keeps the types but for the writer's.
LEMMA AddTypes ==
    ASSUME Types, QueueOK, NEW emitter \in Emitters \cup {NoEmitter},
           NEW w \in Writers \cup {NoWriter},
           NEW from \in Nat, NEW to \in Nat, NEW end \in ChunkEnds, NEW d \in ChunkIds,
           Pushes(emitter, w, from, to, end, d),
           writer' \in [Writers -> [state : {"idle", "refused", "waiting", "done"},
                                    dataSize : PushSizes \cup {0}, first : Ids \cup {0},
                                    executed : Nat, ok : BOOLEAN]]
    PROVE  Types'
<1>1. d \in Nat /\ end \in Nat /\ d \in ChunkEnds /\ firstChunkID \in Nat
  BY Numbers, NextIdOK
<1>2. d <= end
  BY <1>1, Sizes DEF Pushes, Added
<1>3. dataSize' \in Int
  <2>1. /\ Cardinality(ChunksIn(nextChunkID, end)) \in Nat
        /\ Cardinality(ChunksIn(firstChunkID, d)) \in Nat
    BY FiniteSets DEF ChunksIn
  <2>2. DroppedSize(d) \in Int /\ dataSize \in Int
    BY <1>1, <2>1 DEF DroppedSize, Types
  <2> QED BY <2>1, <2>2 DEF Pushes, Added
<1>4. upd' \in [Ids -> [emitter : Emitters \cup {NoEmitter},
                        onResult : Writers \cup {NoWriter},
                        replicatedToEmitter : BOOLEAN,
                        replicas : Nat, approves : Nat, errors : Nat]]
  <2> DEFINE b == emitter = NoEmitter
             R == [emitter : Emitters \cup {NoEmitter}, onResult : Writers \cup {NoWriter},
                   replicatedToEmitter : BOOLEAN, replicas : Nat, approves : Nat, errors : Nat]
  <2>1. b \in BOOLEAN
    OBVIOUS
  <2>2. upd' = [i \in Ids |-> IF i \in from..(to - 1)
                             THEN [upd[i] EXCEPT !.emitter = emitter, !.onResult = w,
                                                 !.replicatedToEmitter = b]
                             ELSE upd[i]]
    BY DEF Pushes, Added, Appended
  <2>3. \A i \in Ids : upd[i] \in R
    BY DEF Types
  <2> HIDE DEF b
  <2>4. \A i \in Ids : [upd[i] EXCEPT !.emitter = emitter, !.onResult = w,
                                      !.replicatedToEmitter = b] \in R
    BY <2>1, <2>3
  <2> HIDE DEF R
  <2>5. upd' \in [Ids -> R]
    BY <2>2, <2>3, <2>4
  <2> QED BY <2>5 DEF R
<1>5. dropRecord' \in Ids \cup {-1}
  <2>1. d > firstChunkID => d - 1 \in Ids
    <3>1. d \in Ids
      BY Numbers
    <3> QED BY <1>1, <3>1, Sizes
  <2> QED BY <2>1 DEF Types, Pushes, Added
<1>6. awaits' \in [Followers -> BOOLEAN]
  BY DEF Pushes, Added
<1> QED BY <1>1, <1>2, <1>3, <1>4, <1>5, <1>6 DEF Types, Pushes, Added

LEMMA AddQueue ==
    ASSUME Types, QueueOK, FreshOK, NEW emitter, NEW w,
           NEW from \in Nat, NEW to \in Nat, NEW end \in ChunkEnds, NEW d \in ChunkIds,
           Pushes(emitter, w, from, to, end, d)
    PROVE  QueueOK' /\ FreshOK'
<1>0. Added(emitter, w, from, to, end, d)
  BY DEF Pushes
<1>1. d \in Nat /\ end \in Nat /\ d \in ChunkEnds /\ firstChunkID \in Nat /\ nextChunkID \in Nat
  BY Numbers, NextIdOK
<1>2. /\ from < to /\ to <= end /\ end - BatchSize < to /\ nextChunkID <= end
      /\ nextChunkID' = end /\ firstChunkID' = d /\ firstChunkID <= d /\ d + BatchSize <= end
      /\ dropRecord' = IF d > firstChunkID THEN d - 1 ELSE dropRecord
      /\ \A c \in ChunkIds :
            /\ chunk'[c].invalidated <=> chunk[c].invalidated \/ c \in ChunksIn(firstChunkID, d)
            /\ chunk'[c].count = IF firstChunkID <= c /\ c < end THEN CountBelow(c, to)
                                 ELSE chunk[c].count
  BY <1>0 DEF Added
<1>3. ASSUME NEW c \in ChunkIds, c >= end
      PROVE  chunk'[c].count = 0 /\ ~chunk'[c].invalidated
  <2>1. c \in Nat
    BY Numbers
  <2>2. c >= nextChunkID /\ ~(c < end) /\ ~(c < d)
    BY <1>1, <1>2, <1>3, <2>1, Sizes
  <2> QED BY <1>2, <2>2 DEF QueueOK, ChunksIn
<1>4. ASSUME NEW c \in ChunkIds, d <= c, c < end
      PROVE  /\ chunk'[c].count >= 1 /\ ~chunk'[c].invalidated
             /\ c + BatchSize < end => chunk'[c].count = BatchSize
  <2>1. c \in Nat /\ c + BatchSize <= end
    BY <1>4, Numbers, ChunkEndsOK
  <2>2. firstChunkID <= c /\ ~(c < d)
    BY <1>1, <1>2, <1>4, <2>1
  <2>3. ~chunk[c].invalidated
    BY <1>1, <2>1, <2>2 DEF QueueOK, InQueue
  <2>4. ~chunk'[c].invalidated
    BY <1>2, <2>2, <2>3 DEF ChunksIn
  <2>5. chunk'[c].count = CountBelow(c, to)
    BY <1>2, <1>4, <2>2
  <2>6. c + BatchSize < end => c + BatchSize + BatchSize <= end
    <3>1. c + BatchSize \in ChunkEnds
      BY ChunkEndsOK
    <3> QED BY <3>1, ChunkEndsOK
  <2> QED BY <1>1, <1>2, <2>1, <2>4, <2>5, <2>6, Sizes DEF CountBelow
<1>5. dropRecord' < d
  BY <1>1, <1>2 DEF QueueOK
<1>6. QueueOK'
  BY <1>2, <1>3, <1>4, <1>5 DEF QueueOK, InQueue
<1>7. FreshOK'
  BY <1>0, AddedUpdates DEF FreshOK
<1> QED BY <1>6, <1>7

\* A reader's update is one of its chunk, and was pushed.
LEMMA StatusOK ==
    ASSUME Types, ReaderOK, NEW f \in Followers, status[f] # Idle
    PROVE  /\ status[f].id \in Ids /\ status[f].id \in Nat /\ ptr[f] \in ChunkIds /\ ptr[f] \in Nat
           /\ ChunkOf(status[f].id) = ptr[f] /\ Pushed(status[f].id)
           /\ nextUpdateId[f] = status[f].id + 1
<1>1. /\ ptr[f] # NoChunk /\ ptr[f] <= nextUpdateId[f] - 1 /\ status[f].id = nextUpdateId[f] - 1
      /\ nextUpdateId[f] <= ptr[f] + chunk[ptr[f]].count
  BY DEF ReaderOK
<1>2. ptr[f] \in ChunkIds /\ nextUpdateId[f] \in Nat
  BY <1>1 DEF Types
<1>3. ptr[f] \in Nat /\ chunk[ptr[f]].count \in Nat /\ chunk[ptr[f]].count <= BatchSize
  BY <1>2, Numbers, ChunkTypes
<1> DEFINE i == nextUpdateId[f] - 1
<1>4. i \in Int /\ ptr[f] <= i /\ i < ptr[f] + BatchSize /\ i < ptr[f] + chunk[ptr[f]].count
  BY <1>1, <1>2, <1>3, Sizes
<1> HIDE DEF i
<1>5. i \in Ids /\ ChunkOf(i) = ptr[f]
  BY <1>2, <1>4, IdsOfChunk
<1>6. Pushed(i)
  BY <1>4, <1>5 DEF Pushed
<1>7. status[f].id = i /\ nextUpdateId[f] = i + 1
  BY <1>1, <1>2 DEF i
<1> QED BY <1>2, <1>3, <1>5, <1>6, <1>7, Numbers

LEMMA BusyNotIdle ==
    ASSUME NEW f, status[f].sent \/ status[f].result \/ status[f].erase \/ status[f].sweep
    PROVE  status[f] # Idle
  BY DEF Idle

\* All results of a chunk are sent: no reader has one to send, no writer waits
\* for one.
LEMMA AllSentOK ==
    ASSUME QueueInv, CallbackOK, NEW c \in ChunkIds, chunk[c].resultsSent = chunk[c].count
    PROVE  /\ ResultsDue(c) = {}
           /\ \A i \in Ids : ChunkOf(i) = c => upd[i].onResult = NoWriter
<1>0. Types /\ QueueOK /\ FreshOK /\ ReaderOK /\ ChunkCountsOK
  BY DEF QueueInv
<1>1. chunk[c].resultsSent + Cardinality(ResultsDue(c)) <= Cardinality(WithResult(c))
  BY <1>0 DEF ChunkCountsOK
<1>2. /\ Cardinality(WithResult(c)) \in Nat /\ Cardinality(WithResult(c)) <= chunk[c].count
      /\ Cardinality(WithResult(c)) = chunk[c].count => WithResult(c) = c..(c + chunk[c].count - 1)
  BY <1>0, ResultsInChunk
<1>3. /\ IsFiniteSet(ResultsDue(c)) /\ Cardinality(ResultsDue(c)) \in Nat
  BY FiniteSets DEF ResultsDue
<1>4. chunk[c].count \in Nat /\ c \in Nat
  BY <1>0, ChunkTypes, Numbers
<1>5. Cardinality(ResultsDue(c)) = 0 /\ Cardinality(WithResult(c)) = chunk[c].count
  BY <1>1, <1>2, <1>3, <1>4
<1>6. ResultsDue(c) = {}
  BY <1>3, <1>5, FS_EmptySet
<1>7. ASSUME NEW i \in Ids, ChunkOf(i) = c PROVE upd[i].onResult = NoWriter
  <2>1. CASE ~Pushed(i)
    BY <1>0, <2>1 DEF FreshOK
  <2>2. CASE Pushed(i)
    <3>1. c <= i /\ i < c + chunk[c].count /\ i \in Nat
      BY <1>7, <2>2, ChunkOfOK, Numbers DEF Pushed
    <3>2. i \in WithResult(c)
      BY <1>2, <1>4, <1>5, <3>1
    <3>3. HasResult(i)
      BY <3>2 DEF WithResult
    <3>4. \A f \in Followers : ~(status[f].result /\ status[f].id = i)
      <4>1. SUFFICES ASSUME NEW f \in Followers, status[f].result, status[f].id = i PROVE FALSE
        OBVIOUS
      <4>2. ptr[f] = c
        BY <1>0, <1>7, <4>1, StatusOK, BusyNotIdle
      <4> QED BY <1>6, <4>1, <4>2 DEF ResultsDue
    <3> QED BY <3>3, <3>4 DEF CallbackOK
  <2> QED BY <2>1, <2>2
<1> QED BY <1>6, <1>7

\* A push does not move the readers, and it leaves them in their chunks.
LEMMA AddReader ==
    ASSUME Types, QueueOK, ReaderOK, NEW emitter, NEW w,
           NEW from \in Nat, NEW to \in Nat, NEW end \in ChunkEnds, NEW d \in ChunkIds,
           Pushes(emitter, w, from, to, end, d)
    PROVE  ReaderOK' /\ AwaitsNothing'
<1>1. /\ nextChunkID' = end /\ nextChunkID <= end
      /\ \A c \in ChunkIds : chunk[c].count <= chunk'[c].count /\ chunk'[c].count \in 0..BatchSize
      /\ awaits' = [f \in Followers |-> FALSE]
      /\ UNCHANGED <<nextUpdateId, ptr, status>>
  BY DEF Pushes, Added
<1>2. AwaitsNothing'
  BY <1>1 DEF AwaitsNothing
<1>3. ASSUME NEW f \in Followers
      PROVE  /\ nextUpdateId[f] <= end
             /\ ptr[f] # NoChunk => nextUpdateId[f] <= ptr[f] + chunk'[ptr[f]].count
  <2>1. nextUpdateId[f] \in Nat /\ end \in Nat /\ nextUpdateId[f] <= nextChunkID
    BY Numbers DEF Types, ReaderOK
  <2>2. ASSUME ptr[f] # NoChunk PROVE nextUpdateId[f] <= ptr[f] + chunk'[ptr[f]].count
    <3>1. ptr[f] \in ChunkIds
      BY <2>2 DEF Types
    <3>2. ptr[f] \in Nat /\ chunk[ptr[f]].count \in Nat /\ chunk'[ptr[f]].count \in Nat
      BY <1>1, <3>1, Numbers, ChunkTypes, Sizes
    <3> QED BY <1>1, <2>1, <2>2, <3>1, <3>2 DEF ReaderOK
  <2> QED BY <1>1, <2>1, <2>2, NextIdOK
<1>4. ReaderOK'
  BY <1>1, <1>3 DEF ReaderOK
<1> QED BY <1>2, <1>4

LEMMA AddCounts ==
    ASSUME QueueInv, NEW emitter \in Emitters \cup {NoEmitter}, NEW w,
           NEW from \in Nat, NEW to \in Nat, NEW end \in ChunkEnds, NEW d \in ChunkIds,
           Pushes(emitter, w, from, to, end, d)
    PROVE  CountsOK' /\ ChunkCountsOK' /\ \A i \in Ids : HasResult(i)' <=> HasResult(i)
<1>0. /\ Types /\ QueueOK /\ FreshOK /\ CountsOK /\ ChunkCountsOK
      /\ Added(emitter, w, from, to, end, d)
  BY DEF QueueInv, Pushes
<1>1. UNCHANGED <<nextUpdateId, ptr, status>>
  BY DEF Pushes
<1>2. \A i \in Ids : Handled(i)' = Handled(i)
  BY <1>1 DEF Handled
<1>3. CountsOK'
  <2> SUFFICES ASSUME NEW i \in Ids
               PROVE  /\ upd'[i].approves + upd'[i].errors = upd'[i].replicas + 1
                      /\ upd'[i].replicas <= Cardinality(Counted(i)')
                      /\ upd'[i].replicatedToEmitter => upd'[i].emitter \in Handled(i) \cup {NoEmitter}
    BY <1>2 DEF CountsOK
  <2>1. CASE from <= i /\ i < to
    <3>1. Cardinality(Counted(i)') \in Nat
      BY FiniteSets DEF Counted, Handled
    <3> QED BY <1>0, <2>1, <3>1, AddedUpdates
  <2>2. CASE ~(from <= i /\ i < to)
    <3>1. upd'[i] = upd[i]
      BY <1>0, <2>2, AddedUpdates
    <3>2. Counted(i)' = Counted(i)
      BY <1>2, <3>1 DEF Counted
    <3> QED BY <1>0, <3>1, <3>2 DEF CountsOK
  <2> QED BY <2>1, <2>2
<1>4. ASSUME NEW i \in Ids
      PROVE  /\ HasResult(i)' <=> HasResult(i)
             /\ upd'[i].replicas = RequiredReplicas <=> upd[i].replicas = RequiredReplicas
  <2>1. CASE from <= i /\ i < to
    <3>1. ~HasResult(i)'
      BY <1>0, <2>1, AddedUpdates, Nodes DEF HasResult
    <3>2. ~HasResult(i) /\ upd[i].replicas = 0 /\ upd'[i].replicas = 0
      BY <1>0, <2>1, AddedUpdates DEF FreshOK, HasResult
    <3> QED BY <3>1, <3>2
  <2>2. CASE ~(from <= i /\ i < to)
    BY <1>0, <2>2, AddedUpdates DEF HasResult
  <2> QED BY <2>1, <2>2
<1>5. \A c \in ChunkIds : /\ WithResult(c)' = WithResult(c) /\ Replicas(c)' = Replicas(c)
                          /\ ResultsDue(c)' = ResultsDue(c) /\ ErasuresDue(c)' = ErasuresDue(c)
  BY <1>1, <1>4 DEF WithResult, Replicas, ResultsDue, ErasuresDue
<1>6. ASSUME NEW c \in ChunkIds, InQueue(c)'
      PROVE  chunk[c].resultsSent + Cardinality(ResultsDue(c)) = Cardinality(WithResult(c))
  <2>1. c \in Nat /\ firstChunkID <= c
    BY <1>0, <1>6, Numbers, NextIdOK DEF InQueue, Added
  <2>2. CASE InQueue(c)
    BY <1>0, <2>2 DEF ChunkCountsOK
  <2>3. CASE ~InQueue(c)
    <3>1. chunk[c].count = 0
      BY <1>0, <2>1, <2>3, NextIdOK DEF InQueue
    <3>2. /\ Cardinality(WithResult(c)) \in Nat /\ Cardinality(WithResult(c)) <= 0
      BY <1>0, <3>1, ResultsInChunk
    <3>3. Cardinality(ResultsDue(c)) \in Nat
      BY FiniteSets DEF ResultsDue
    <3> QED BY <1>0, <3>2, <3>3, ChunkTypes DEF ChunkCountsOK
  <2> QED BY <2>2, <2>3
<1>7. \A c \in ChunkIds : /\ chunk'[c].erased = chunk[c].erased
                          /\ chunk'[c].resultsSent = chunk[c].resultsSent
  BY <1>0 DEF Added
<1>8. ChunkCountsOK'
  BY <1>0, <1>5, <1>6, <1>7 DEF ChunkCountsOK
<1> QED BY <1>3, <1>4, <1>8

\* A push drops no callback, and what it drops of unread updates is marked.
LEMMA AddCallback ==
    ASSUME QueueInv, CallbackOK, GoneOK, NEW emitter \in Emitters \cup {NoEmitter}, NEW w,
           NEW from \in Nat, NEW to \in Nat, NEW end \in ChunkEnds, NEW d \in ChunkIds,
           Pushes(emitter, w, from, to, end, d)
    PROVE  CallbackOK' /\ GoneOK'
<1>0. /\ Types /\ QueueOK /\ FreshOK /\ ChunkCountsOK
      /\ Added(emitter, w, from, to, end, d)
  BY DEF QueueInv, Pushes
<1>1. /\ nextChunkID' = end /\ nextChunkID <= end /\ firstChunkID' = d
      /\ UNCHANGED <<nextUpdateId, ptr, status>>
      /\ \A c \in ChunkIds :
            /\ chunk'[c].resultsSent = chunk[c].resultsSent
            /\ chunk'[c].invalidated <=> chunk[c].invalidated \/ c \in ChunksIn(firstChunkID, d)
            /\ c \in ChunksIn(firstChunkID, d) => chunk'[c].resultsSent = BatchSize
  BY DEF Pushes, Added
<1>2. ASSUME NEW i \in Ids, ~InQueue(ChunkOf(i))' PROVE upd'[i].onResult = NoWriter
  <2> DEFINE c == ChunkOf(i)
  <2>1. ~(from <= i /\ i < to) /\ upd'[i] = upd[i]
    BY <1>0, <1>2, AddedUpdates
  <2>2. c \in ChunkIds /\ c \in Nat /\ d \in Nat /\ end \in Nat
    BY ChunkOfOK, Numbers
  <2>3. CASE ~InQueue(c)
    BY <2>1, <2>3 DEF CallbackOK
  <2>4. CASE InQueue(c)
    <3>1. c \in ChunksIn(firstChunkID, d)
      BY <1>0, <1>1, <1>2, <2>2, <2>4, NextIdOK DEF InQueue, ChunksIn
    <3>2. chunk[c].resultsSent = BatchSize /\ chunk[c].resultsSent <= chunk[c].count
          /\ chunk[c].count <= BatchSize /\ chunk[c].count \in Nat
      BY <1>0, <1>1, <2>2, <3>1, SentBelowCount, ChunkTypes
    <3>3. chunk[c].resultsSent = chunk[c].count
      BY <3>2, Sizes
    <3>4. upd[i].onResult = NoWriter
      BY <2>2, <3>3, AllSentOK
    <3> QED BY <2>1, <3>4
  <2> QED BY <2>3, <2>4
<1>3. ASSUME NEW i \in Ids, HasResult(i)', upd'[i].onResult # NoWriter
      PROVE  \E f \in Followers : status[f].result /\ status[f].id = i
  <2>1. HasResult(i)
    BY <1>3, AddCounts
  <2>2. Pushed(i)
    BY <1>0, <2>1 DEF FreshOK, HasResult
  <2>3. upd'[i] = upd[i]
    BY <1>0, <2>2, AddedUpdates
  <2> QED BY <1>3, <2>1, <2>3 DEF CallbackOK
<1>4. CallbackOK'
  BY <1>1, <1>2, <1>3 DEF CallbackOK
<1>5. ASSUME NEW c \in ChunkIds, c < d, ~chunk'[c].invalidated,
             NEW i \in Ids, NEW f \in Followers, ChunkOf(i) = c, Pushed(i)'
      PROVE  nextUpdateId[f] > i
  <2>1. c \in Nat /\ d \in Nat
    BY Numbers
  <2>2. c < firstChunkID /\ ~chunk[c].invalidated
    BY <1>0, <1>1, <1>5, <2>1, NextIdOK DEF ChunksIn
  <2>3. ~InQueue(c)'
    BY <1>1, <1>5, <2>1 DEF InQueue
  <2>4. Pushed(i)
    BY <1>0, <1>5, <2>3, AddedUpdates
  <2> QED BY <1>5, <2>2, <2>4 DEF GoneOK
<1>6. GoneOK'
  BY <1>1, <1>5 DEF GoneOK
<1> QED BY <1>4, <1>6

LEMMA SplitChunks ==
    ASSUME NEW a \in Nat, NEW b \in Nat, NEW c \in Nat, a <= b, b <= c
    PROVE  /\ Cardinality(ChunksIn(a, c)) = Cardinality(ChunksIn(a, b)) + Cardinality(ChunksIn(b, c))
           /\ Cardinality(ChunksIn(a, b)) \in Nat /\ Cardinality(ChunksIn(b, c)) \in Nat
<1> DEFINE S == ChunksIn(a, b)
           T == ChunksIn(b, c)
<1>1. /\ IsFiniteSet(S) /\ IsFiniteSet(T)
      /\ Cardinality(S) \in Nat /\ Cardinality(T) \in Nat
  BY FiniteSets DEF ChunksIn
<1>2. S \cap T = {}
  BY Numbers DEF ChunksIn
<1>3. S \cup T = ChunksIn(a, c)
  BY Numbers DEF ChunksIn
<1> HIDE DEF S, T
<1>4. Cardinality(S \cup T) = Cardinality(S) + Cardinality(T) - Cardinality(S \cap T)
  BY <1>1, FS_Union
<1>5. Cardinality(S \cap T) = 0
  BY <1>2, FS_EmptySet
<1>6. Cardinality(S \cup T) = Cardinality(S) + Cardinality(T)
  BY <1>1, <1>4, <1>5
<1> QED BY <1>1, <1>3, <1>6 DEF S, T

LEMMA AddSize ==
    ASSUME Types, QueueOK, SizeOK, NEW emitter, NEW w,
           NEW from \in Nat, NEW to \in Nat, NEW end \in ChunkEnds, NEW d \in ChunkIds,
           Pushes(emitter, w, from, to, end, d)
    PROVE  SizeOK'
<1>1. /\ from = GetNextUpdateID /\ from < to /\ to <= end /\ end - BatchSize < to
      /\ nextChunkID' = end /\ firstChunkID' = d /\ firstChunkID <= d /\ d + BatchSize <= end
      /\ nextChunkID <= end
      /\ \A c \in ChunkIds : chunk'[c].count = IF firstChunkID <= c /\ c < end THEN CountBelow(c, to)
                                               ELSE chunk[c].count
      /\ dataSize' = dataSize + (to - from) + Cardinality(ChunksIn(nextChunkID, end))
                     - DroppedSize(d)
  BY DEF Pushes, Added
<1>2. d \in Nat /\ end \in Nat /\ firstChunkID \in Nat /\ nextChunkID \in Nat
      /\ firstChunkID <= nextChunkID
  BY Numbers, NextIdOK DEF Types
<1>3. GetNextUpdateID' = to
  <2>1. end > 0
    BY <1>1, <1>2, Sizes
  <2>2. end - BatchSize \in ChunkIds
    BY <2>1, ChunkEndsOK
  <2>3. chunk'[end - BatchSize].count = CountBelow(end - BatchSize, to)
    BY <1>1, <1>2, <2>2, Sizes
  <2>4. GetNextUpdateID' = end - BatchSize + chunk'[end - BatchSize].count
    BY <1>1, <1>2, Sizes DEF GetNextUpdateID, IsEmpty, Back
  <2> QED BY <1>1, <1>2, <2>3, <2>4, Sizes DEF CountBelow
<1> DEFINE N(a, b) == Cardinality(ChunksIn(a, b))
<1>4. /\ N(firstChunkID, end) = N(firstChunkID, nextChunkID) + N(nextChunkID, end)
      /\ N(firstChunkID, end) = N(firstChunkID, d) + N(d, end)
      /\ N(firstChunkID, nextChunkID) \in Nat /\ N(nextChunkID, end) \in Nat
      /\ N(firstChunkID, d) \in Nat /\ N(d, end) \in Nat
  <2>1. d <= end
    BY <1>1, <1>2, Sizes
  <2>2. /\ N(firstChunkID, end) = N(firstChunkID, nextChunkID) + N(nextChunkID, end)
        /\ N(firstChunkID, nextChunkID) \in Nat /\ N(nextChunkID, end) \in Nat
    BY <1>1, <1>2, SplitChunks
  <2>3. /\ N(firstChunkID, end) = N(firstChunkID, d) + N(d, end)
        /\ N(firstChunkID, d) \in Nat /\ N(d, end) \in Nat
    BY <1>1, <1>2, <2>1, SplitChunks
  <2> QED BY <2>2, <2>3
<1>5. /\ dataSize = N(firstChunkID, nextChunkID) + from - firstChunkID
      /\ DroppedSize(d) = N(firstChunkID, d) + d - firstChunkID
  BY <1>1 DEF SizeOK, DroppedSize
<1>6. dataSize' = N(d, end) + to - d
  <2> HIDE DEF N
  <2>1. dataSize' = dataSize + (to - from) + N(nextChunkID, end) - DroppedSize(d)
    BY <1>1 DEF N
  <2> QED BY <1>2, <1>4, <1>5, <2>1
<1> QED BY <1>1, <1>3, <1>6 DEF SizeOK

LEMMA AddSweep ==
    ASSUME QueueInv, SweepOK, NEW emitter, NEW w,
           NEW from \in Nat, NEW to \in Nat, NEW end \in ChunkEnds, NEW d \in ChunkIds,
           Pushes(emitter, w, from, to, end, d)
    PROVE  SweepOK'
<1>0. /\ Types /\ QueueOK /\ FreshOK /\ ChunkCountsOK
      /\ Added(emitter, w, from, to, end, d) /\ status' = status /\ firstChunkID' = d
  BY DEF QueueInv, Pushes, Added
<1>1. /\ chunk'[d].erased = chunk[d].erased /\ chunk'[d].resultsSent = chunk[d].resultsSent
      /\ chunk[d].count <= chunk'[d].count /\ chunk'[d].count \in 0..BatchSize
      /\ d = firstChunkID \/ ~Droppable(d, chunk')
  BY <1>0 DEF Added
<1>2. SUFFICES ASSUME Erasable(d, chunk') PROVE \E f \in Followers : status[f].sweep
  BY <1>0 DEF SweepOK
<1>3. /\ chunk[d].resultsSent <= chunk[d].count /\ chunk[d].erased <= chunk[d].count
      /\ chunk[d].count \in Nat /\ chunk'[d].count \in Nat /\ chunk'[d].count <= BatchSize
      /\ chunk[d].erased \in Nat /\ chunk[d].resultsSent \in Nat
  BY <1>0, <1>1, SentBelowCount, ChunkTypes, Sizes
<1>4. chunk'[d].resultsSent = chunk'[d].count /\ chunk'[d].erased = BatchSize
  BY <1>2 DEF Erasable, IsAllResultsSent, IsFullyErased
<1>5. chunk'[d].count = BatchSize /\ chunk[d].count = BatchSize
  BY <1>1, <1>3, <1>4, Sizes
<1>6. d = firstChunkID
  BY <1>1, <1>4, <1>5 DEF Droppable, IsAllResultsSent, IsFull
<1>7. ~IsEmpty
  <2>1. d >= nextChunkID => chunk[d].count = 0
    BY <1>0, NextIdOK
  <2> QED BY <1>0, <1>5, <1>6, <2>1, NextIdOK, Sizes DEF IsEmpty
<1>8. Erasable(firstChunkID, chunk)
  BY <1>1, <1>4, <1>5, <1>6 DEF Erasable, IsAllResultsSent, IsFullyErased
<1> QED BY <1>7, <1>8 DEF SweepOK

----------------------------------------------------------------------------
(* The steps of the writers and the raft thread                            *)

Inv ==
    /\ QueueInv /\ WriterOK /\ CallbackOK /\ GoneOK /\ SizeOK /\ SweepOK /\ AwaitsNothing

WriterRecord ==
    [state : {"idle", "refused", "waiting", "done"}, dataSize : PushSizes \cup {0},
     first : Ids \cup {0}, executed : Nat, ok : BOOLEAN]
ChunkRecord ==
    [count : 0..BatchSize, erased : Nat, resultsSent : Nat, invalidated : BOOLEAN]
UpdRecord ==
    [emitter : Emitters \cup {NoEmitter}, onResult : Writers \cup {NoWriter},
     replicatedToEmitter : BOOLEAN, replicas : Nat, approves : Nat, errors : Nat]
StatusRecord ==
    [id : Ids \cup {-1}, sent : BOOLEAN, ok : BOOLEAN, result : BOOLEAN, erase : BOOLEAN,
     sweep : BOOLEAN]
WriterTypes == [Writers -> WriterRecord]

LEMMA Records ==
    Types <=>
      /\ firstChunkID \in ChunkEnds /\ nextChunkID \in ChunkEnds
      /\ firstChunkID <= nextChunkID /\ dataSize \in Int
      /\ dropRecord \in Ids \cup {-1}
      /\ invalidated \in BOOLEAN /\ switches \in 0..MaxSwitches
      /\ chunk \in [ChunkIds -> ChunkRecord] /\ upd \in [Ids -> UpdRecord]
      /\ writer \in WriterTypes
      /\ nextUpdateId \in [Followers -> Nat]
      /\ ptr \in [Followers -> ChunkIds \cup {NoChunk}]
      /\ awaits \in [Followers -> BOOLEAN]
      /\ status \in [Followers -> StatusRecord]
  BY DEF Types, WriterTypes, ChunkRecord, UpdRecord, WriterRecord, StatusRecord

LEMMA RecordsNext ==
    ASSUME firstChunkID' \in ChunkEnds, nextChunkID' \in ChunkEnds,
           firstChunkID' <= nextChunkID', dataSize' \in Int,
           dropRecord' \in Ids \cup {-1},
           invalidated' \in BOOLEAN, switches' \in 0..MaxSwitches,
           chunk' \in [ChunkIds -> ChunkRecord], upd' \in [Ids -> UpdRecord],
           writer' \in WriterTypes,
           nextUpdateId' \in [Followers -> Nat],
           ptr' \in [Followers -> ChunkIds \cup {NoChunk}],
           awaits' \in [Followers -> BOOLEAN],
           status' \in [Followers -> StatusRecord]
    PROVE  Types'
  BY DEF Types, WriterTypes, ChunkRecord, UpdRecord, WriterRecord, StatusRecord

LEMMA WriterTypeOK ==
    ASSUME Types, NEW w \in Writers
    PROVE  /\ writer[w] \in WriterRecord /\ writer[w].executed \in Nat
           /\ writer[w].dataSize \in Nat /\ writer[w].ok \in BOOLEAN
<1>1. writer[w] \in WriterRecord
  BY Records DEF WriterTypes
<1>2. writer[w].executed \in Nat /\ writer[w].dataSize \in PushSizes \cup {0}
      /\ writer[w].ok \in BOOLEAN
  BY <1>1 DEF WriterRecord
<1>3. \A k \in PushSizes \cup {0} : k \in Nat
  BY UpdatesQueueAssumption DEF UpdatesQueueAssumption
<1> QED BY <1>1, <1>2, <1>3

LEMMA WriterSet ==
    ASSUME Types, NEW w \in Writers, NEW r \in WriterRecord, writer' = [writer EXCEPT ![w] = r]
    PROVE  writer' \in WriterTypes
<1>1. writer \in WriterTypes
  BY DEF Types, WriterTypes, WriterRecord
<1> QED BY <1>1 DEF WriterTypes

\* A push keeps all but what is known of the writers.
LEMMA AddStep ==
    ASSUME Inv, NEW emitter \in Emitters \cup {NoEmitter}, NEW w \in Writers \cup {NoWriter},
           NEW from \in Nat, NEW to \in Nat, NEW end \in ChunkEnds, NEW d \in ChunkIds,
           Pushes(emitter, w, from, to, end, d), writer' \in WriterTypes, WriterOK'
    PROVE  Inv'
<1>1. Types /\ QueueOK /\ FreshOK /\ ReaderOK
  BY DEF Inv, QueueInv
<1>2. Types'
  BY <1>1, AddTypes DEF WriterTypes, WriterRecord
<1>3. QueueOK' /\ FreshOK'
  BY <1>1, AddQueue
<1>4. ReaderOK' /\ AwaitsNothing'
  BY <1>1, AddReader
<1>5. CountsOK' /\ ChunkCountsOK'
  BY AddCounts DEF Inv
<1>6. CallbackOK' /\ GoneOK'
  BY AddCallback DEF Inv
<1>7. SizeOK'
  BY <1>1, AddSize DEF Inv
<1>8. SweepOK'
  BY AddSweep DEF Inv
<1> QED BY <1>2, <1>3, <1>4, <1>5, <1>6, <1>7, <1>8 DEF Inv, QueueInv

\* A step of a writer that leaves the queue alone
LEMMA SameQueue ==
    ASSUME Inv, UNCHANGED <<queueVars, chunk, upd, readerVars, status>>, Types', WriterOK'
    PROVE  Inv'
<1>1. UNCHANGED <<firstChunkID, nextChunkID, dataSize, dropRecord, chunk, upd, nextUpdateId,
                  ptr, awaits, status>>
  BY DEF queueVars, readerVars
<1>2. QueueOK' /\ FreshOK' /\ ReaderOK'
  BY <1>1 DEF Inv, QueueInv, QueueOK, FreshOK, ReaderOK, InQueue, Pushed
<1>3. CountsOK' /\ ChunkCountsOK'
  BY <1>1 DEF Inv, QueueInv, CountsOK, ChunkCountsOK, Counted, Handled, WithResult, HasResult,
              Replicas, ResultsDue, ErasuresDue, InQueue
<1>4. CallbackOK' /\ GoneOK'
  BY <1>1 DEF Inv, CallbackOK, GoneOK, InQueue, HasResult, Pushed
<1>5. SizeOK' /\ SweepOK' /\ AwaitsNothing'
  BY <1>1 DEF Inv, SizeOK, SweepOK, AwaitsNothing, GetNextUpdateID, IsEmpty, Back,
              ReadsDropRecord, ChunkToRead, InQueue
<1> QED BY <1>2, <1>3, <1>4, <1>5 DEF Inv, QueueInv

LEMMA PushSizeOK ==
    /\ \A k \in PushSizes : k \in Nat \ {0}
    /\ \A k \in AsyncSizes : k \in Nat \ {0}
    /\ NoWriter \notin Writers /\ NoEmitter \notin Followers /\ Emitters \subseteq Followers
  BY UpdatesQueueAssumption DEF UpdatesQueueAssumption

LEMMA PushAsyncStep ==
    ASSUME Inv, NEW k \in AsyncSizes, PushAsync(k)
    PROVE  Inv'
<1>1. PICK from \in Nat, to \in Nat, end \in ChunkEnds, d \in ChunkIds :
        Added(NoEmitter, NoWriter, from, to, end, d)
  BY AddEffect, PushSizeOK DEF PushAsync, Inv, QueueInv
<1>2. Pushes(NoEmitter, NoWriter, from, to, end, d) /\ writer' = writer
  BY <1>1 DEF PushAsync, Pushes
<1>3. writer' \in WriterTypes
  BY <1>2 DEF WriterTypes, WriterRecord, Inv, QueueInv, Types
<1>4. \A w \in Writers : Pending(w)' = Pending(w)
  <2>1. ASSUME NEW i \in Ids, NEW w \in Writers
        PROVE  upd'[i].onResult = w <=> upd[i].onResult = w
    <3>1. Types /\ QueueOK /\ FreshOK
      BY DEF Inv, QueueInv
    <3>2. \/ upd'[i] = upd[i]
          \/ ~Pushed(i) /\ upd'[i].onResult = NoWriter
      BY <1>1, <3>1, AddedUpdates
    <3> QED BY <3>1, <3>2, PushSizeOK DEF FreshOK
  <2> QED BY <2>1 DEF Pending
<1>5. WriterOK'
  BY <1>2, <1>4 DEF WriterOK, Inv
<1> QED BY <1>2, <1>3, <1>5, AddStep

LEMMA PushAndWaitStep ==
    ASSUME Inv, NEW w \in Writers, NEW k \in PushSizes, NEW emitter \in Emitters \cup {NoEmitter},
           PushAndWait(w, k, emitter)
    PROVE  Inv'
<1>0. Types /\ WriterOK /\ QueueOK /\ FreshOK /\ ChunkCountsOK /\ writer[w].state = "idle"
  BY DEF Inv, QueueInv, PushAndWait
<1>1. CASE invalidated
  <2>1. /\ writer' = [writer EXCEPT ![w].state = "refused"]
        /\ UNCHANGED <<queueVars, chunk, upd, awaits>>
        /\ UNCHANGED <<invalidated, switches, nextUpdateId, ptr, status>>
    BY <1>1 DEF PushAndWait
  <2>2. writer' \in WriterTypes
    <3> DEFINE r == [writer[w] EXCEPT !.state = "refused"]
    <3>1. r \in WriterRecord
      BY <1>0, WriterTypeOK DEF WriterRecord
    <3>2. writer' = [writer EXCEPT ![w] = r]
      BY <2>1
    <3> HIDE DEF r
    <3> QED BY <1>0, <3>1, <3>2, WriterSet
  <2>3. \A v \in Writers : Pending(v)' = Pending(v)
    BY <2>1 DEF Pending
  <2>4. WriterOK'
    BY <1>0, <2>1, <2>3 DEF WriterOK, Types
  <2>5. Types'
    BY <1>0, <2>1, <2>2 DEF Types, WriterTypes, WriterRecord, queueVars
  <2> QED BY <2>1, <2>4, <2>5, SameQueue DEF readerVars
<1>2. CASE ~invalidated
  <2>1. /\ writer' = [writer EXCEPT ![w].state = "waiting", ![w].dataSize = k,
                                        ![w].first = GetNextUpdateID]
        /\ AddDataToQueue(k, emitter, w) /\ HasRoom(k)
        /\ UNCHANGED <<invalidated, switches, nextUpdateId, ptr, status>>
    BY <1>2 DEF PushAndWait
  <2>2. k \in Nat \ {0}
    BY PushSizeOK
  <2>3. PICK from \in Nat, to \in Nat, end \in ChunkEnds, d \in ChunkIds :
          to = from + k /\ Added(emitter, w, from, to, end, d)
    BY <1>0, <2>1, <2>2, AddEffect
  <2>4. Pushes(emitter, w, from, to, end, d)
    BY <2>1, <2>3 DEF Pushes
  <2>5. GetNextUpdateID \in Ids
    BY <2>2, <2>3, Sizes DEF Added
  <2>6. writer' \in WriterTypes
    <3> DEFINE r == [writer[w] EXCEPT !.state = "waiting", !.dataSize = k,
                                      !.first = GetNextUpdateID]
    <3>1. r \in WriterRecord
      BY <1>0, <2>5, WriterTypeOK DEF WriterRecord
    <3>2. writer' = [writer EXCEPT ![w] = r]
      BY <2>1
    <3> HIDE DEF r
    <3> QED BY <1>0, <3>1, <3>2, WriterSet
  <2>7. \A v \in Writers : v # w => Pending(v)' = Pending(v)
    <3>1. ASSUME NEW i \in Ids, NEW v \in Writers, v # w
          PROVE  upd'[i].onResult = v <=> upd[i].onResult = v
      <4>1. \/ upd'[i] = upd[i]
            \/ ~Pushed(i) /\ upd'[i].onResult = w
        <5>1. Added(emitter, w, from, to, end, d) /\ Types /\ QueueOK /\ FreshOK
          BY <1>0, <2>3
        <5>2. from <= i /\ i < to => ~Pushed(i) /\ upd'[i].onResult = w
          BY <5>1, AddedUpdates
        <5>3. ~(from <= i /\ i < to) => upd'[i] = upd[i]
          BY <5>1, AddedUpdates
        <5> QED BY <5>2, <5>3, Zenon
      <4> QED BY <1>0, <3>1, <4>1, PushSizeOK DEF FreshOK
    <3> QED BY <3>1 DEF Pending
  <2>8. Pending(w)' = from..(from + k - 1)
    <3>1. Pending(w) = {}
      BY <1>0 DEF WriterOK
    <3>2. ASSUME NEW i \in Ids PROVE upd'[i].onResult = w <=> from <= i /\ i < to
      <4>1. Added(emitter, w, from, to, end, d) /\ Types /\ QueueOK /\ FreshOK
        BY <1>0, <2>3
      <4>2. from <= i /\ i < to => upd'[i].onResult = w
        BY <4>1, AddedUpdates
      <4>3. ~(from <= i /\ i < to) => upd'[i] = upd[i]
        BY <4>1, AddedUpdates
      <4>4. upd[i].onResult # w
        BY <3>1 DEF Pending
      <4> QED BY <4>2, <4>3, <4>4
    <3>3. ASSUME NEW i PROVE i \in Ids /\ from <= i /\ i < to <=> i \in from..(from + k - 1)
      BY <2>2, <2>3, Sizes DEF Added
    <3> QED BY <3>2, <3>3 DEF Pending
  <2>9. Cardinality(Pending(w)') = k
    <3>1. from \in Int /\ k \in Nat
      BY <2>2
    <3> QED BY <2>8, <3>1, Interval, Zenon
  <2>10. writer[w].executed = 0
    BY <1>0 DEF WriterOK
  <2>11. /\ \A v \in Writers : v # w => writer'[v] = writer[v]
         /\ writer'[w].state = "waiting" /\ writer'[w].dataSize = k /\ writer'[w].executed = 0
    BY <1>0, <2>1, <2>10 DEF Types
  <2>12. WriterOK'
    <3>1. ASSUME NEW v \in Writers
          PROVE  /\ writer'[v].state = "idle" => writer'[v].executed = 0
                 /\ writer'[v].state = "waiting" =>
                      writer'[v].executed + Cardinality(Pending(v)') = writer'[v].dataSize
                 /\ writer'[v].state # "waiting" => Pending(v)' = {}
      <4>1. CASE v = w
        BY <2>2, <2>9, <2>11, <4>1
      <4>2. CASE v # w
        BY <1>0, <2>7, <2>11, <4>2 DEF WriterOK
      <4> QED BY <4>1, <4>2
    <3> QED BY <3>1 DEF WriterOK
  <2> QED BY <2>4, <2>6, <2>12, AddStep
<1> QED BY <1>1, <1>2

LEMMA ReturnStep ==
    ASSUME Inv, NEW w \in Writers, Return(w)
    PROVE  Inv'
<1>0. Types /\ WriterOK
  BY DEF Inv, QueueInv
<1>1. /\ writer[w].state = "waiting" /\ writer[w].executed = writer[w].dataSize
      /\ writer' = [writer EXCEPT ![w].state = "done"]
      /\ UNCHANGED <<queueVars, invalidated, switches, chunk, upd, readerVars, status>>
  BY DEF Return
<1>2. writer' \in WriterTypes
  <2> DEFINE r == [writer[w] EXCEPT !.state = "done"]
  <2>1. r \in WriterRecord
    BY <1>0, WriterTypeOK DEF WriterRecord
  <2>2. writer' = [writer EXCEPT ![w] = r]
    BY <1>1
  <2> HIDE DEF r
  <2> QED BY <1>0, <2>1, <2>2, WriterSet
<1>3. Types'
  BY <1>0, <1>1, <1>2 DEF Types, WriterTypes, WriterRecord, queueVars, readerVars
<1>4. Pending(w) = {}
  <2>1. IsFiniteSet(Pending(w)) /\ Cardinality(Pending(w)) \in Nat
    BY FiniteSets DEF Pending
  <2>2. writer[w].executed \in Nat /\ writer[w].executed + Cardinality(Pending(w)) = writer[w].executed
    BY <1>0, <1>1 DEF WriterOK, Types
  <2>3. Cardinality(Pending(w)) = 0
    BY <2>1, <2>2
  <2> QED BY <2>1, <2>3, FS_EmptySet
<1>5. \A v \in Writers : Pending(v)' = Pending(v)
  BY <1>1 DEF Pending
<1>6. WriterOK'
  BY <1>0, <1>1, <1>4, <1>5 DEF WriterOK, Types
<1> QED BY <1>1, <1>3, <1>6, SameQueue

LEMMA SetWritableStep ==
    ASSUME Inv, SetWritable
    PROVE  Inv'
<1>1. /\ switches < MaxSwitches /\ switches' = switches + 1 /\ invalidated' = FALSE
      /\ UNCHANGED <<queueVars, chunk, upd, writer, readerVars, status>>
  BY DEF SetWritable
<1>2. switches' \in 0..MaxSwitches
  BY <1>1, UpdatesQueueAssumption DEF Inv, QueueInv, Types, UpdatesQueueAssumption
<1>3. Types'
  BY <1>1, <1>2 DEF Inv, QueueInv, Types, queueVars, readerVars
<1>4. WriterOK'
  BY <1>1 DEF Inv, WriterOK, Pending
<1> QED BY <1>1, <1>3, <1>4, SameQueue

\* A role switch calls every callback there is.
LEMMA SetUnwritableStep ==
    ASSUME Inv, SetUnwritable
    PROVE  Inv'
<1> DEFINE ids == {i \in Ids : InQueue(ChunkOf(i)) /\ i < ChunkOf(i) + chunk[ChunkOf(i)].count}
<1>0. /\ Types /\ QueueOK /\ FreshOK /\ ReaderOK /\ CountsOK /\ ChunkCountsOK
      /\ WriterOK /\ CallbackOK /\ GoneOK /\ SizeOK /\ SweepOK /\ AwaitsNothing
  BY DEF Inv, QueueInv
<1>1. /\ switches < MaxSwitches /\ switches' = switches + 1 /\ invalidated' = TRUE
      /\ firstChunkID' = nextChunkID /\ dataSize' = 0
      /\ UNCHANGED <<nextChunkID, dropRecord, nextUpdateId, ptr, awaits, status>>
      /\ chunk' = [c \in ChunkIds |-> [chunk[c] EXCEPT !.invalidated = @ \/ InQueue(c)]]
      /\ upd' = [i \in Ids |-> IF i \in ids THEN [upd[i] EXCEPT !.onResult = NoWriter] ELSE upd[i]]
      /\ writer' = Notified(writer, ids, FALSE)
  BY DEF SetUnwritable, readerVars
<1>2. \A i \in Ids : i \in ids <=> InQueue(ChunkOf(i)) /\ Pushed(i)
  BY DEF Pushed
<1>3. ids \subseteq Ids
  OBVIOUS
<1> HIDE DEF ids
<1>4. \A i \in Ids : upd[i].onResult # NoWriter => i \in ids
  BY <1>0, <1>2 DEF CallbackOK, FreshOK
<1>5. \A i \in Ids : /\ upd'[i].onResult = NoWriter /\ upd'[i].emitter = upd[i].emitter
                     /\ upd'[i].replicatedToEmitter = upd[i].replicatedToEmitter
                     /\ upd'[i].replicas = upd[i].replicas
                     /\ upd'[i].approves = upd[i].approves /\ upd'[i].errors = upd[i].errors
  BY <1>0, <1>1, <1>4 DEF Types
<1>6. \A c \in ChunkIds : /\ chunk'[c].count = chunk[c].count
                          /\ chunk'[c].erased = chunk[c].erased
                          /\ chunk'[c].resultsSent = chunk[c].resultsSent
                          /\ chunk'[c].invalidated <=> chunk[c].invalidated \/ InQueue(c)
                          /\ chunk'[c] \in ChunkRecord
  <2> SUFFICES ASSUME NEW c \in ChunkIds
               PROVE  /\ chunk'[c].count = chunk[c].count /\ chunk'[c].erased = chunk[c].erased
                      /\ chunk'[c].resultsSent = chunk[c].resultsSent
                      /\ chunk'[c].invalidated <=> chunk[c].invalidated \/ InQueue(c)
                      /\ chunk'[c] \in ChunkRecord
    OBVIOUS
  <2> DEFINE b == chunk[c].invalidated \/ InQueue(c)
  <2>1. b \in BOOLEAN
    OBVIOUS
  <2>2. chunk'[c] = [chunk[c] EXCEPT !.invalidated = b]
    BY <1>1
  <2>3. chunk[c] \in ChunkRecord
    BY <1>0, Records
  <2> HIDE DEF b
  <2>4. /\ chunk'[c].count = chunk[c].count /\ chunk'[c].erased = chunk[c].erased
        /\ chunk'[c].resultsSent = chunk[c].resultsSent /\ chunk'[c].invalidated = b
        /\ chunk'[c] \in ChunkRecord
    BY <2>1, <2>2, <2>3 DEF ChunkRecord
  <2> QED BY <2>4 DEF b
<1>7. firstChunkID \in Nat /\ nextChunkID \in Nat /\ firstChunkID <= nextChunkID
  BY <1>0, NextIdOK DEF Types
<1>8. \A c \in ChunkIds : ~InQueue(c)'
  BY <1>1, <1>7, Numbers DEF InQueue
<1>9. \A i \in Ids : Pushed(i)' <=> Pushed(i)
  BY <1>6, ChunkOfOK DEF Pushed
<1>10. writer' \in WriterTypes
  <2>1. ASSUME NEW w \in Writers
        PROVE  [writer[w] EXCEPT !.executed = @ + Cardinality({i \in ids : upd[i].onResult = w}),
                                 !.ok = @ /\ (FALSE \/ Cardinality({i \in ids : upd[i].onResult = w}) = 0)]
               \in WriterRecord
    <3> DEFINE mine == Cardinality({i \in ids : upd[i].onResult = w})
               b == writer[w].ok /\ (FALSE \/ mine = 0)
    <3>1. mine \in Nat
      BY <1>3, FiniteSets
    <3>2. b \in BOOLEAN
      OBVIOUS
    <3> DEFINE n == writer[w].executed + mine
    <3>3. n \in Nat /\ writer[w] \in WriterRecord
      BY <1>0, <3>1, WriterTypeOK
    <3> HIDE DEF mine, b, n
    <3>4. [writer[w] EXCEPT !.executed = n, !.ok = b] \in WriterRecord
      BY <3>2, <3>3 DEF WriterRecord
    <3> QED BY <3>4 DEF mine, b, n
  <2> QED BY <1>1, <2>1 DEF Notified, WriterTypes
<1>11. Types'
  <2>1. chunk' \in [ChunkIds -> ChunkRecord]
    BY <1>1, <1>6
  <2>2. upd' \in [Ids -> UpdRecord]
    <3>1. \A i \in Ids : upd[i] \in UpdRecord
      BY <1>0, Records
    <3>2. \A i \in Ids : [upd[i] EXCEPT !.onResult = NoWriter] \in UpdRecord
      BY <3>1 DEF UpdRecord
    <3> QED BY <1>1, <3>1, <3>2
  <2>3. switches' \in 0..MaxSwitches
    BY <1>0, <1>1, UpdatesQueueAssumption DEF Types, UpdatesQueueAssumption
  <2>4. /\ nextChunkID' \in ChunkEnds /\ firstChunkID' \in ChunkEnds
        /\ dropRecord' \in Ids \cup {-1} /\ nextUpdateId' \in [Followers -> Nat]
        /\ ptr' \in [Followers -> ChunkIds \cup {NoChunk}]
        /\ awaits' \in [Followers -> BOOLEAN] /\ status' \in [Followers -> StatusRecord]
    BY <1>0, <1>1, Records
  <2>5. firstChunkID' <= nextChunkID' /\ dataSize' \in Int /\ invalidated' \in BOOLEAN
    BY <1>1, <1>7
  <2> QED BY <1>10, <2>1, <2>2, <2>3, <2>4, <2>5, RecordsNext
<1>12. QueueOK'
  <2>1. \A c \in ChunkIds : c >= nextChunkID => ~InQueue(c)
    BY <1>7, Numbers DEF InQueue
  <2>2. dropRecord < nextChunkID
    BY <1>0, <1>7, Numbers DEF QueueOK, Types
  <2> QED BY <1>0, <1>1, <1>6, <1>8, <2>1, <2>2 DEF QueueOK
<1>13. FreshOK'
  BY <1>0, <1>5, <1>9 DEF FreshOK
<1>14. ReaderOK'
  BY <1>0, <1>1, <1>6 DEF ReaderOK, Types
<1>15. CountsOK'
  <2>1. \A i \in Ids : Handled(i)' = Handled(i)
    BY <1>1 DEF Handled
  <2>2. \A i \in Ids : Counted(i)' = Counted(i)
    BY <1>5, <2>1 DEF Counted
  <2> QED BY <1>0, <1>5, <2>1, <2>2 DEF CountsOK
<1>16. ChunkCountsOK'
  <2>1. \A c \in ChunkIds : /\ WithResult(c)' = WithResult(c) /\ Replicas(c)' = Replicas(c)
                            /\ ResultsDue(c)' = ResultsDue(c) /\ ErasuresDue(c)' = ErasuresDue(c)
    BY <1>1, <1>5 DEF WithResult, HasResult, Replicas, ResultsDue, ErasuresDue
  <2> QED BY <1>0, <1>6, <1>8, <2>1 DEF ChunkCountsOK
<1>17. WriterOK'
  <2> SUFFICES ASSUME NEW w \in Writers
               PROVE  /\ writer'[w].state = "idle" => writer'[w].executed = 0
                      /\ writer'[w].state = "waiting" =>
                           writer'[w].executed + Cardinality(Pending(w)') = writer'[w].dataSize
                      /\ writer'[w].state # "waiting" => Pending(w)' = {}
    BY DEF WriterOK
  <2>1. Pending(w)' = {}
    BY <1>5, PushSizeOK DEF Pending
  <2>2. {i \in ids : upd[i].onResult = w} = Pending(w)
    BY <1>3, <1>4, PushSizeOK DEF Pending
  <2>3. /\ writer'[w].state = writer[w].state /\ writer'[w].dataSize = writer[w].dataSize
        /\ writer'[w].executed = writer[w].executed + Cardinality(Pending(w))
    BY <1>0, <1>1, <2>2 DEF Notified, Types
  <2>4. Cardinality(Pending(w)) \in Nat /\ writer[w].executed \in Nat /\ writer[w].dataSize \in Nat
    BY <1>0, FiniteSets, WriterTypeOK DEF Pending
  <2>5. Cardinality({}) = 0
    BY FS_EmptySet
  <2>6. writer[w].state = "waiting" =>
          writer[w].executed + Cardinality(Pending(w)) = writer[w].dataSize
    BY <1>0 DEF WriterOK
  <2>7. writer[w].state = "idle" => writer[w].executed = 0 /\ Cardinality(Pending(w)) = 0
    BY <1>0, <2>5 DEF WriterOK
  <2> QED BY <2>1, <2>3, <2>4, <2>5, <2>6, <2>7
<1>18. CallbackOK'
  BY <1>5 DEF CallbackOK
<1>19. GoneOK'
  <2>1. \A c \in ChunkIds : c < nextChunkID /\ ~InQueue(c) => c < firstChunkID
    BY <1>7, Numbers DEF InQueue
  <2> QED BY <1>0, <1>1, <1>6, <1>9, <2>1 DEF GoneOK
<1>20. SizeOK'
  <2>1. ChunksIn(nextChunkID, nextChunkID) = {}
    BY <1>7, Numbers DEF ChunksIn
  <2>2. GetNextUpdateID' = nextChunkID
    BY <1>1 DEF GetNextUpdateID, IsEmpty
  <2>3. Cardinality({}) = 0
    BY FS_EmptySet
  <2> QED BY <1>1, <1>7, <2>1, <2>2, <2>3 DEF SizeOK
<1>21. SweepOK'
  BY <1>1 DEF SweepOK, IsEmpty
<1>22. AwaitsNothing'
  BY <1>0, <1>1 DEF AwaitsNothing, ReadsDropRecord, ChunkToRead, IsEmpty
<1> QED BY <1>11, <1>12, <1>13, <1>14, <1>15, <1>16, <1>17, <1>18, <1>19, <1>20, <1>21, <1>22
        DEF Inv, QueueInv

----------------------------------------------------------------------------
(* The steps of the readers                                                *)

LEMMA StatusTypes ==
    ASSUME Types, NEW f \in Followers
    PROVE  /\ status[f] \in StatusRecord /\ ptr[f] \in ChunkIds \cup {NoChunk}
           /\ nextUpdateId[f] \in Nat /\ NoChunk \notin ChunkIds /\ awaits[f] \in BOOLEAN
<1>1. NoChunk \notin ChunkIds
  BY Numbers DEF NoChunk
<1> QED BY <1>1, Records

\* A reader that only goes on: what it has passed grows, and it has neither a
\* result to send nor a chunk to erase.
LEMMA MoveStep ==
    ASSUME Inv, NEW f \in Followers, status[f] = Idle,
           UNCHANGED <<firstChunkID, nextChunkID, dataSize, dropRecord, invalidated, switches,
                       chunk, upd, writer>>,
           \A g \in Followers : g # f => /\ nextUpdateId'[g] = nextUpdateId[g]
                                         /\ ptr'[g] = ptr[g] /\ status'[g] = status[g],
           nextUpdateId[f] <= nextUpdateId'[f],
           \/ status'[f] = Idle
           \/ status'[f] = [Idle EXCEPT !.id = nextUpdateId[f], !.sent = TRUE],
           Types', ReaderOK', AwaitsNothing'
    PROVE  Inv'
<1>0. /\ Types /\ QueueOK /\ FreshOK /\ ReaderOK /\ CountsOK /\ ChunkCountsOK
      /\ WriterOK /\ CallbackOK /\ GoneOK /\ SizeOK /\ SweepOK
  BY DEF Inv, QueueInv
<1>1. /\ ~status[f].sent /\ ~status[f].result /\ ~status[f].erase /\ ~status[f].sweep
      /\ ~status'[f].result /\ ~status'[f].erase /\ ~status'[f].sweep
      /\ status'[f].sent => status'[f].id = nextUpdateId[f]
  <2>1. ~Idle.sent /\ ~Idle.result /\ ~Idle.erase /\ ~Idle.sweep
    BY DEF Idle
  <2> DEFINE st == [Idle EXCEPT !.id = nextUpdateId[f], !.sent = TRUE]
  <2>2. st.id = nextUpdateId[f] /\ ~st.result /\ ~st.erase /\ ~st.sweep
    BY DEF Idle
  <2> HIDE DEF st
  <2>3. status'[f] = Idle \/ status'[f] = st
    BY DEF st
  <2> QED BY <2>1, <2>2, <2>3
<1>2. QueueOK' /\ FreshOK' /\ WriterOK' /\ SizeOK'
  BY <1>0 DEF QueueOK, FreshOK, WriterOK, SizeOK, InQueue, Pushed, Pending, GetNextUpdateID,
              IsEmpty, Back
<1>3. ASSUME NEW i \in Ids PROVE Handled(i) \subseteq Handled(i)'
  <2>1. ASSUME nextUpdateId[f] > i
        PROVE  nextUpdateId'[f] > i /\ ~(status'[f].sent /\ status'[f].id = i)
    <3>1. nextUpdateId[f] \in Nat /\ nextUpdateId'[f] \in Nat /\ i \in Nat
      BY <1>0, Numbers DEF Types
    <3> QED BY <1>1, <2>1, <3>1
  <2> QED BY <2>1 DEF Handled
<1>4. CountsOK'
  <2> SUFFICES ASSUME NEW i \in Ids
               PROVE  /\ upd[i].approves + upd[i].errors = upd[i].replicas + 1
                      /\ upd[i].replicas <= Cardinality(Counted(i)')
                      /\ upd[i].replicatedToEmitter => upd[i].emitter \in Handled(i)' \cup {NoEmitter}
    BY DEF CountsOK
  <2>1. Counted(i) \subseteq Counted(i)'
    BY <1>3 DEF Counted
  <2>2. /\ IsFiniteSet(Counted(i)') /\ Cardinality(Counted(i)') \in Nat
        /\ Cardinality(Counted(i)) \in Nat
    BY FiniteSets DEF Counted, Handled
  <2>3. Cardinality(Counted(i)) <= Cardinality(Counted(i)')
    BY <2>1, <2>2, FS_Subset
  <2>4. upd[i].replicas \in Nat
    BY <1>0, UpdTypes
  <2> QED BY <1>0, <1>3, <2>2, <2>3, <2>4 DEF CountsOK
<1>5. \A c \in ChunkIds : ResultsDue(c)' = ResultsDue(c) /\ ErasuresDue(c)' = ErasuresDue(c)
  BY <1>1 DEF ResultsDue, ErasuresDue
<1>6. ChunkCountsOK'
  BY <1>0, <1>5 DEF ChunkCountsOK, WithResult, HasResult, Replicas, InQueue
<1>7. CallbackOK' /\ SweepOK'
  BY <1>0, <1>1 DEF CallbackOK, SweepOK, HasResult, InQueue, IsEmpty
<1>8. GoneOK'
  <2>1. \A i \in Ids, g \in Followers : nextUpdateId[g] > i => nextUpdateId'[g] > i
    BY <1>0, Numbers DEF Types
  <2> QED BY <1>0, <2>1 DEF GoneOK, Pushed
<1> QED BY <1>2, <1>4, <1>6, <1>7, <1>8 DEF Inv, QueueInv

LEMMA ApplyUpdateStep ==
    ASSUME Inv, NEW f \in Followers, ApplyUpdate(f)
    PROVE  Inv'
<1>0. Types /\ ReaderOK /\ AwaitsNothing
  BY DEF Inv, QueueInv
<1>1. /\ ptr[f] # NoChunk /\ status[f] = Idle /\ nextUpdateId[f] < ptr[f] + chunk[ptr[f]].count
      /\ nextUpdateId' = [nextUpdateId EXCEPT ![f] = @ + 1]
      /\ status' = [status EXCEPT ![f] = [Idle EXCEPT !.id = nextUpdateId[f], !.sent = TRUE]]
      /\ UNCHANGED <<firstChunkID, nextChunkID, dataSize, dropRecord, invalidated, switches,
                     chunk, upd, writer, ptr, awaits>>
  BY DEF ApplyUpdate, queueVars
<1>2. ptr[f] \in ChunkIds /\ nextUpdateId[f] \in Nat
  BY <1>0, <1>1, StatusTypes
<1>3. /\ ptr[f] \in Nat /\ chunk[ptr[f]].count \in Nat /\ chunk[ptr[f]].count <= BatchSize
  BY <1>0, <1>2, Numbers, ChunkTypes
<1>4. ptr[f] <= nextUpdateId[f] /\ ~awaits[f]
  BY <1>0, <1>1 DEF ReaderOK
<1>5. nextUpdateId[f] \in Ids
  BY <1>1, <1>2, <1>3, <1>4, IdsOfChunk, Sizes
<1>6. /\ status'[f] = [Idle EXCEPT !.id = nextUpdateId[f], !.sent = TRUE]
      /\ nextUpdateId'[f] = nextUpdateId[f] + 1
      /\ \A g \in Followers : g # f => /\ nextUpdateId'[g] = nextUpdateId[g]
                                       /\ ptr'[g] = ptr[g] /\ status'[g] = status[g]
  BY <1>0, <1>1 DEF Types
<1>7. status' \in [Followers -> StatusRecord]
  <2>1. [Idle EXCEPT !.id = nextUpdateId[f], !.sent = TRUE] \in StatusRecord
    BY <1>5 DEF Idle, StatusRecord
  <2> QED BY <1>0, <1>1, <2>1, Records
<1>8. Types'
  <2>1. nextUpdateId' \in [Followers -> Nat]
    BY <1>0, <1>1, <1>2 DEF Types
  <2> QED BY <1>0, <1>1, <1>7, <2>1 DEF Types, StatusRecord
<1>9. ReaderOK'
  <2>1. ASSUME NEW g \in Followers, g # f
        PROVE  /\ nextUpdateId'[g] <= nextChunkID
               /\ ptr[g] # NoChunk =>
                     /\ ptr[g] <= nextUpdateId'[g] /\ ~awaits[g]
                     /\ nextUpdateId'[g] <= ptr[g] + chunk[ptr[g]].count
               /\ \/ status'[g] = Idle
                  \/ /\ ptr[g] # NoChunk /\ ptr[g] <= status'[g].id
                     /\ status'[g].id = nextUpdateId'[g] - 1
               /\ status'[g].sent => ~status'[g].result /\ ~status'[g].erase
               /\ status'[g].sent \/ status'[g].result => ~status'[g].sweep
    BY <1>0, <1>6, <2>1 DEF ReaderOK
  <2>2. /\ nextUpdateId'[f] <= nextChunkID
        /\ ptr[f] <= nextUpdateId'[f] /\ nextUpdateId'[f] <= ptr[f] + chunk[ptr[f]].count
    <3>1. Pushed(nextUpdateId[f])
      <4>1. ChunkOf(nextUpdateId[f]) = ptr[f]
        BY <1>1, <1>2, <1>3, <1>4, IdsOfChunk, Sizes
      <4> QED BY <1>1, <4>1 DEF Pushed
    <3>2. nextUpdateId[f] < GetNextUpdateID /\ GetNextUpdateID <= nextChunkID
          /\ GetNextUpdateID \in Nat /\ nextChunkID \in Nat
      BY <1>5, <3>1, PushedOK, NextIdOK DEF Inv, QueueInv
    <3> QED BY <1>1, <1>2, <1>3, <1>4, <1>6, <3>2
  <2>3. /\ status'[f].id = nextUpdateId[f] /\ status'[f].id = nextUpdateId'[f] - 1
        /\ ~status'[f].result /\ ~status'[f].erase /\ ~status'[f].sweep
    BY <1>2, <1>6 DEF Idle
  <2> QED BY <1>1, <1>4, <2>1, <2>2, <2>3 DEF ReaderOK
<1>10. AwaitsNothing'
  <2>1. ASSUME NEW g \in Followers, awaits[g]
        PROVE  ~ReadsDropRecord(g)' /\ ChunkToRead(g)' = NoChunk
    <3>1. g # f
      BY <1>4, <2>1
    <3>2. ~ReadsDropRecord(g) /\ ChunkToRead(g) = NoChunk
      BY <1>0, <2>1 DEF AwaitsNothing
    <3> QED BY <1>1, <1>6, <3>1, <3>2 DEF ReadsDropRecord, ChunkToRead, IsEmpty, InQueue
  <2> QED BY <1>1, <2>1 DEF AwaitsNothing
<1>11. nextUpdateId[f] <= nextUpdateId'[f]
  BY <1>2, <1>6
<1>12. UNCHANGED <<firstChunkID, nextChunkID, dataSize, dropRecord, invalidated, switches,
                   chunk, upd, writer>>
  BY <1>1
<1>13. status[f] = Idle
  BY <1>1
<1> QED BY <1>6, <1>8, <1>9, <1>10, <1>11, <1>12, <1>13, MoveStep, Zenon

LEMMA LeaveChunkStep ==
    ASSUME Inv, NEW f \in Followers, LeaveChunk(f)
    PROVE  Inv'
<1>0. Types /\ ReaderOK /\ AwaitsNothing
  BY DEF Inv, QueueInv
<1>1. /\ ptr[f] # NoChunk /\ status[f] = Idle /\ ptr' = [ptr EXCEPT ![f] = NoChunk]
      /\ UNCHANGED <<firstChunkID, nextChunkID, dataSize, dropRecord, invalidated, switches,
                     chunk, upd, writer, nextUpdateId, awaits, status>>
  BY DEF LeaveChunk, queueVars
<1>2. ptr'[f] = NoChunk /\ \A g \in Followers : g # f => ptr'[g] = ptr[g]
  BY <1>0, <1>1 DEF Types
<1>3. Types'
  BY <1>0, <1>1 DEF Types
<1>4. ReaderOK'
  BY <1>0, <1>1, <1>2 DEF ReaderOK
<1>5. AwaitsNothing'
  BY <1>0, <1>1 DEF AwaitsNothing, ReadsDropRecord, ChunkToRead, IsEmpty, InQueue
<1>6. \A g \in Followers : g # f => /\ nextUpdateId'[g] = nextUpdateId[g]
                                    /\ ptr'[g] = ptr[g] /\ status'[g] = status[g]
  BY <1>1, <1>2
<1>7. nextUpdateId[f] <= nextUpdateId'[f] /\ status'[f] = Idle
  BY <1>0, <1>1, StatusTypes
<1>8. status[f] = Idle
  BY <1>1
<1>9. UNCHANGED <<firstChunkID, nextChunkID, dataSize, dropRecord, invalidated, switches,
                  chunk, upd, writer>>
  BY <1>1
<1> QED BY <1>3, <1>4, <1>5, <1>6, <1>7, <1>8, <1>9, MoveStep, Zenon

LEMMA ChunkToReadOK ==
    ASSUME Types, QueueOK, NEW f \in Followers, ChunkToRead(f) # NoChunk
    PROVE  /\ ChunkToRead(f) \in ChunkIds /\ InQueue(ChunkToRead(f))
           /\ \/ nextUpdateId[f] < firstChunkID /\ ChunkToRead(f) = firstChunkID
              \/ /\ firstChunkID <= nextUpdateId[f] /\ ChunkToRead(f) <= nextUpdateId[f]
                 /\ nextUpdateId[f] < ChunkToRead(f) + chunk[ChunkToRead(f)].count
<1>0. /\ nextUpdateId[f] \in Nat /\ firstChunkID \in Nat /\ nextChunkID \in Nat
      /\ firstChunkID <= nextChunkID
  BY NextIdOK, StatusTypes DEF Types
<1>1. ~IsEmpty /\ firstChunkID < nextChunkID /\ firstChunkID \in ChunkIds
  <2>1. ~IsEmpty
    BY DEF ChunkToRead
  <2> QED BY <1>0, <2>1, ChunkEndsOK DEF IsEmpty, Types
<1>2. CASE nextUpdateId[f] < firstChunkID
  BY <1>0, <1>1, <1>2 DEF ChunkToRead, InQueue
<1>3. CASE ~(nextUpdateId[f] < firstChunkID)
  <2> DEFINE n == nextUpdateId[f]
             c == ChunkOf(n)
  <2>1. ChunkToRead(f) = c /\ InQueue(c) /\ n < c + chunk[c].count
    BY <1>1, <1>3 DEF ChunkToRead
  <2>2. n \in Nat /\ c \in Nat /\ c <= n /\ n < c + BatchSize
    BY <1>0, Division
  <2>3. c < nextChunkID
    BY <2>1 DEF InQueue
  <2>4. n < nextChunkID
    <3>1. n >= LastEnd => FALSE
      <4>1. SUFFICES ASSUME n >= LastEnd PROVE FALSE
        OBVIOUS
      <4>2. c >= LastEnd
        <5> DEFINE q == n \div BatchSize
        <5>1. q \in Nat /\ c = q * BatchSize
          BY <2>2, Division DEF ChunkOf
        <5> HIDE DEF q, c, n
        <5>2. q < MaxChunks => q * BatchSize + BatchSize <= MaxChunks * BatchSize
          BY <5>1, Multiples, Sizes
        <5>3. ~(q < MaxChunks)
          BY <2>2, <4>1, <5>1, <5>2, Sizes DEF LastEnd
        <5>4. MaxChunks < q => MaxChunks * BatchSize + BatchSize <= q * BatchSize
          BY <5>1, Multiples, Sizes
        <5> QED BY <5>1, <5>3, <5>4, Sizes DEF LastEnd
      <4> QED BY <1>0, <2>2, <2>3, <4>2, NextIdOK, Sizes
    <3>2. n \in Ids
      BY <2>2, <3>1, Sizes
    <3> QED BY <2>1, <3>2, PushedOK
  <2>5. n \in Ids
    BY <1>0, <2>2, <2>4, NextIdOK, Sizes
  <2>6. c \in ChunkIds
    BY <2>5, ChunkOfOK
  <2> QED BY <1>0, <1>3, <2>1, <2>2, <2>6
<1> QED BY <1>2, <1>3

LEMMA ReadStep ==
    ASSUME Inv, NEW f \in Followers, Read(f)
    PROVE  Inv'
<1>0. Types /\ QueueOK /\ ReaderOK /\ AwaitsNothing
  BY DEF Inv, QueueInv
<1>1. /\ ptr[f] = NoChunk /\ ~awaits[f]
      /\ UNCHANGED <<firstChunkID, nextChunkID, dataSize, dropRecord, invalidated, switches,
                     chunk, upd, writer, status>>
  BY DEF Read, queueVars
<1>2. status[f] = Idle
  BY <1>0, <1>1 DEF ReaderOK
<1>3. /\ nextUpdateId[f] \in Nat /\ firstChunkID \in Nat /\ nextChunkID \in Nat
      /\ firstChunkID <= nextChunkID /\ dropRecord \in Int /\ dropRecord < firstChunkID
  BY <1>0, NextIdOK, StatusTypes, Numbers DEF Types, QueueOK
<1>4. \E n \in Nat, c \in ChunkIds \cup {NoChunk}, b \in BOOLEAN :
        /\ nextUpdateId' = [nextUpdateId EXCEPT ![f] = n]
        /\ ptr' = [ptr EXCEPT ![f] = c]
        /\ awaits' = [awaits EXCEPT ![f] = b]
        /\ nextUpdateId[f] <= n /\ n <= nextChunkID
        /\ c # NoChunk => c <= n /\ ~b /\ n <= c + chunk[c].count
        /\ b => n = nextUpdateId[f] /\ ~ReadsDropRecord(f) /\ ChunkToRead(f) = NoChunk
  <2>1. CASE ReadsDropRecord(f)
    <3> DEFINE n == dropRecord + 1
    <3>1. /\ nextUpdateId' = [nextUpdateId EXCEPT ![f] = n]
          /\ ptr' = ptr /\ awaits' = awaits
      BY <2>1 DEF Read
    <3>2. ptr' = [ptr EXCEPT ![f] = NoChunk] /\ awaits' = [awaits EXCEPT ![f] = FALSE]
      BY <1>0, <1>1, <3>1 DEF Types
    <3>3. n \in Nat /\ nextUpdateId[f] <= n /\ n <= nextChunkID
      BY <1>3, <2>1 DEF ReadsDropRecord
    <3> HIDE DEF n
    <3> QED BY <3>1, <3>2, <3>3
  <2>2. CASE ~ReadsDropRecord(f)
    <3> DEFINE c == ChunkToRead(f)
               b == c = NoChunk
               n == IF c > nextUpdateId[f] THEN c ELSE nextUpdateId[f]
    <3>1. /\ ptr' = [ptr EXCEPT ![f] = c]
          /\ awaits' = [awaits EXCEPT ![f] = b]
          /\ nextUpdateId' = [nextUpdateId EXCEPT ![f] = n]
      BY <2>2 DEF Read
    <3>2. b \in BOOLEAN
      OBVIOUS
    <3>3. CASE c = NoChunk
      <4>1. n = nextUpdateId[f] /\ b
        BY <1>3, <3>3 DEF NoChunk
      <4>2. nextUpdateId[f] <= nextChunkID /\ nextUpdateId[f] <= nextUpdateId[f]
        BY <1>0, <1>3 DEF ReaderOK
      <4>3. nextUpdateId' = [nextUpdateId EXCEPT ![f] = nextUpdateId[f]]
        BY <3>1, <4>1
      <4>4. c \in ChunkIds \cup {NoChunk}
        BY <3>3
      <4>5. ChunkToRead(f) = NoChunk
        BY <3>3
      <4> HIDE DEF n, b, c
      <4> QED BY <1>3, <2>2, <3>1, <3>2, <3>3, <4>1, <4>2, <4>3, <4>4, <4>5
    <3>4. CASE c # NoChunk
      <4>1. /\ c \in ChunkIds /\ InQueue(c)
            /\ \/ nextUpdateId[f] < firstChunkID /\ c = firstChunkID
               \/ c <= nextUpdateId[f] /\ nextUpdateId[f] < c + chunk[c].count
        BY <1>0, <3>4, ChunkToReadOK
      <4>2. c \in Nat /\ chunk[c].count \in Nat /\ c < nextChunkID
        BY <1>0, <4>1, Numbers, ChunkTypes DEF InQueue
      <4>3. ~b
        BY <3>4
      <4> HIDE DEF c, b
      <4>4. n \in Nat /\ nextUpdateId[f] <= n /\ c <= n /\ n <= c + chunk[c].count /\ n <= nextChunkID
        <5>1. nextUpdateId[f] <= nextChunkID
          BY <1>0 DEF ReaderOK
        <5> QED BY <1>3, <4>1, <4>2, <5>1
      <4> HIDE DEF n
      <4> QED BY <3>1, <3>2, <4>1, <4>3, <4>4
    <3> QED BY <3>3, <3>4
  <2> QED BY <2>1, <2>2
<1>5. PICK n \in Nat, c \in ChunkIds \cup {NoChunk}, b \in BOOLEAN :
        /\ nextUpdateId' = [nextUpdateId EXCEPT ![f] = n]
        /\ ptr' = [ptr EXCEPT ![f] = c]
        /\ awaits' = [awaits EXCEPT ![f] = b]
        /\ nextUpdateId[f] <= n /\ n <= nextChunkID
        /\ c # NoChunk => c <= n /\ ~b /\ n <= c + chunk[c].count
        /\ b => n = nextUpdateId[f] /\ ~ReadsDropRecord(f) /\ ChunkToRead(f) = NoChunk
  BY <1>4
<1>6. Types'
  BY <1>0, <1>1, <1>5 DEF Types
<1>7. /\ nextUpdateId'[f] = n /\ ptr'[f] = c /\ awaits'[f] = b
      /\ \A g \in Followers : g # f => /\ nextUpdateId'[g] = nextUpdateId[g]
                                       /\ ptr'[g] = ptr[g] /\ awaits'[g] = awaits[g]
  BY <1>0, <1>5 DEF Types
<1>8. ReaderOK'
  <2>1. ~Idle.sent /\ ~Idle.result
    BY DEF Idle
  <2> QED BY <1>0, <1>1, <1>2, <1>5, <1>7, <2>1 DEF ReaderOK
<1>9. AwaitsNothing'
  <2>1. ASSUME NEW g \in Followers, awaits'[g]
        PROVE  nextUpdateId'[g] = nextUpdateId[g] /\ ~ReadsDropRecord(g) /\ ChunkToRead(g) = NoChunk
    BY <1>0, <1>5, <1>7, <2>1 DEF AwaitsNothing
  <2> QED BY <1>1, <2>1 DEF AwaitsNothing, ReadsDropRecord, ChunkToRead, IsEmpty, InQueue
<1>10. \A g \in Followers : g # f => /\ nextUpdateId'[g] = nextUpdateId[g]
                                     /\ ptr'[g] = ptr[g] /\ status'[g] = status[g]
  BY <1>1, <1>7
<1>11. nextUpdateId[f] <= nextUpdateId'[f] /\ status'[f] = Idle
  BY <1>1, <1>2, <1>5, <1>7
<1>12. UNCHANGED <<firstChunkID, nextChunkID, dataSize, dropRecord, invalidated, switches,
                   chunk, upd, writer>>
  BY <1>1
<1> QED BY <1>2, <1>6, <1>8, <1>9, <1>10, <1>11, <1>12, MoveStep, Zenon

\* The end of a reader's work with an update keeps what is still due.
LEMMA DoneOK ==
    ASSUME NEW st \in StatusRecord, ~st.sent
    PROVE  /\ Done(st) \in StatusRecord /\ ~Done(st).sent
           /\ Done(st).result = st.result /\ Done(st).erase = st.erase /\ Done(st).sweep = st.sweep
           /\ Done(st) = Idle \/ (Done(st).id = st.id /\ Done(st).ok = st.ok)
           /\ st.result => Done(st).id = st.id /\ Done(st).ok = st.ok
<1>1. st.result \in BOOLEAN /\ st.erase \in BOOLEAN /\ st.sweep \in BOOLEAN
  BY DEF StatusRecord
<1>2. /\ Idle \in StatusRecord /\ ~Idle.sent
      /\ Idle.result = FALSE /\ Idle.erase = FALSE /\ Idle.sweep = FALSE
  BY DEF Idle, StatusRecord
<1>3. CASE st.result \/ st.erase \/ st.sweep
  BY <1>3 DEF Done
<1>4. CASE ~(st.result \/ st.erase \/ st.sweep)
  <2>1. Done(st) = Idle
    BY <1>4 DEF Done
  <2> QED BY <1>1, <1>2, <1>4, <2>1
<1> QED BY <1>3, <1>4

\* What a reader's own step leaves of the readers: its position stays.
LEMMA StatusStep ==
    ASSUME Types, ReaderOK, NEW f \in Followers, NEW st \in StatusRecord,
           status[f] # Idle, ~st.sent, st.id = status[f].id, st.result => ~st.sweep,
           status' = [status EXCEPT ![f] = Done(st)],
           UNCHANGED <<nextChunkID, nextUpdateId, ptr, awaits>>,
           \A c \in ChunkIds : chunk'[c].count = chunk[c].count
    PROVE  /\ status' \in [Followers -> StatusRecord] /\ ReaderOK'
           /\ \A g \in Followers : g # f => status'[g] = status[g]
           /\ ~status'[f].sent /\ status'[f].result = st.result /\ status'[f].erase = st.erase
           /\ status'[f].sweep = st.sweep
           /\ st.result => status'[f].id = st.id /\ status'[f].ok = st.ok
<1> DEFINE t == Done(st)
<1>1. /\ t \in StatusRecord /\ ~t.sent
      /\ t.result = st.result /\ t.erase = st.erase /\ t.sweep = st.sweep
      /\ t = Idle \/ t.id = st.id
      /\ st.result => t.id = st.id /\ t.ok = st.ok
  BY DoneOK
<1>2. status' = [status EXCEPT ![f] = t]
  OBVIOUS
<1> HIDE DEF t
<1>3. status' \in [Followers -> StatusRecord] /\ status'[f] = t
      /\ \A g \in Followers : g # f => status'[g] = status[g]
  BY <1>1, <1>2, Records
<1>4. ReaderOK'
  <2> SUFFICES ASSUME NEW g \in Followers
               PROVE  /\ nextUpdateId[g] <= nextChunkID
                      /\ ptr[g] # NoChunk =>
                            /\ ptr[g] <= nextUpdateId[g] /\ ~awaits[g]
                            /\ nextUpdateId[g] <= ptr[g] + chunk'[ptr[g]].count
                      /\ \/ status'[g] = Idle
                         \/ /\ ptr[g] # NoChunk /\ ptr[g] <= status'[g].id
                            /\ status'[g].id = nextUpdateId[g] - 1
                      /\ status'[g].sent => ~status'[g].result /\ ~status'[g].erase
                      /\ status'[g].sent \/ status'[g].result => ~status'[g].sweep
    BY DEF ReaderOK
  <2>1. ptr[g] # NoChunk => chunk'[ptr[g]].count = chunk[ptr[g]].count
    BY StatusTypes
  <2>2. CASE g = f
    BY <1>1, <1>3, <2>1, <2>2 DEF ReaderOK
  <2>3. CASE g # f
    BY <1>3, <2>1, <2>3 DEF ReaderOK
  <2> QED BY <2>2, <2>3
<1> QED BY <1>1, <1>3, <1>4

LEMMA UpdSet ==
    ASSUME Types, NEW i \in Ids, NEW r \in UpdRecord, upd' = [upd EXCEPT ![i] = r]
    PROVE  /\ upd' \in [Ids -> UpdRecord] /\ upd'[i] = r
           /\ \A j \in Ids : j # i => upd'[j] = upd[j]
  BY Records

\* What an answer does: the update gets one more replica, and its result or its
\* erasure is due when this answer made it so.
Answers(f, ok, id) ==
    /\ id = status[f].id /\ id \in Ids /\ ptr[f] = ChunkOf(id) /\ Pushed(id)
    /\ nextUpdateId[f] = id + 1 /\ status[f].sent
    /\ UNCHANGED <<firstChunkID, nextChunkID, dataSize, dropRecord, invalidated, switches,
                   chunk, writer, nextUpdateId, ptr, awaits>>
    /\ \A j \in Ids : j # id => upd'[j] = upd[j]
    /\ upd'[id].emitter = upd[id].emitter /\ upd'[id].onResult = upd[id].onResult
    /\ upd'[id].replicatedToEmitter = (upd[id].replicatedToEmitter \/ upd[id].emitter = f)
    /\ upd'[id].approves = IF ok THEN upd[id].approves + 1 ELSE upd[id].approves
    /\ upd'[id].errors = IF ok THEN upd[id].errors ELSE upd[id].errors + 1
    /\ upd'[id].replicas = upd[id].replicas + 1
    /\ ~status[f].result /\ ~status[f].erase /\ ~status[f].sweep
    /\ ~status'[f].sent /\ ~status'[f].sweep
    /\ status'[f].result <=> RequireResult(upd'[id], ok, upd[id].emitter = f)
    /\ status'[f].erase <=> upd'[id].replicas = RequiredReplicas
    /\ status'[f].result => status'[f].id = id /\ status'[f].ok = ok
    /\ \A g \in Followers : g # f => status'[g] = status[g]

LEMMA ReplicatedEffect ==
    ASSUME Types, ReaderOK, NEW f \in Followers, NEW ok \in BOOLEAN, Replicated(f, ok)
    PROVE  Answers(f, ok, status[f].id) /\ Types' /\ ReaderOK'
<1> DEFINE id == status[f].id
           isEmitter == upd[id].emitter = f
           rte == upd[id].replicatedToEmitter \/ isEmitter
           a == IF ok THEN upd[id].approves + 1 ELSE upd[id].approves
           e == IF ok THEN upd[id].errors ELSE upd[id].errors + 1
           n == upd[id].replicas + 1
           r == [upd[id] EXCEPT !.replicatedToEmitter = rte, !.approves = a, !.errors = e,
                                !.replicas = n]
           res == RequireResult(r, ok, isEmitter)
           er == r.replicas = RequiredReplicas
           st == [status[f] EXCEPT !.sent = FALSE, !.ok = ok, !.result = res, !.erase = er]
<1>1. /\ status[f].sent
      /\ upd' = [upd EXCEPT ![id] = r]
      /\ status' = [status EXCEPT ![f] = Done(st)]
      /\ UNCHANGED <<firstChunkID, nextChunkID, dataSize, dropRecord, invalidated, switches,
                     chunk, writer, nextUpdateId, ptr, awaits>>
  BY DEF Replicated, queueVars, readerVars
<1>2. status[f] # Idle
  BY <1>1, BusyNotIdle
<1>3. id \in Ids /\ ptr[f] = ChunkOf(id) /\ Pushed(id) /\ nextUpdateId[f] = id + 1
  BY <1>2, StatusOK
<1>4. ~status[f].result /\ ~status[f].erase /\ ~status[f].sweep
  BY <1>1 DEF ReaderOK
<1>5. rte \in BOOLEAN /\ res \in BOOLEAN /\ er \in BOOLEAN
  BY DEF RequireResult
<1>6. a \in Nat /\ e \in Nat /\ n \in Nat /\ upd[id] \in UpdRecord
  BY <1>3, UpdTypes, Records
<1> HIDE DEF rte, a, e, n
<1>7. /\ r \in UpdRecord /\ r.emitter = upd[id].emitter /\ r.onResult = upd[id].onResult
      /\ r.replicatedToEmitter = rte /\ r.approves = a /\ r.errors = e /\ r.replicas = n
  BY <1>5, <1>6 DEF UpdRecord
<1> HIDE DEF r
<1>8. upd' \in [Ids -> UpdRecord] /\ upd'[id] = r /\ \A j \in Ids : j # id => upd'[j] = upd[j]
  BY <1>1, <1>3, <1>7, UpdSet
<1> HIDE DEF res, er
<1>9. status[f] \in StatusRecord
  BY StatusTypes
<1>10. /\ st \in StatusRecord /\ ~st.sent /\ st.id = status[f].id /\ st.result = res
       /\ st.erase = er /\ st.ok = ok /\ ~st.sweep
  BY <1>4, <1>5, <1>9 DEF StatusRecord
<1> HIDE DEF st
<1>11. /\ status' \in [Followers -> StatusRecord] /\ ReaderOK'
       /\ \A g \in Followers : g # f => status'[g] = status[g]
       /\ ~status'[f].sent /\ status'[f].result = st.result /\ status'[f].erase = st.erase
       /\ status'[f].sweep = st.sweep
       /\ st.result => status'[f].id = st.id /\ status'[f].ok = st.ok
  BY <1>1, <1>2, <1>10, StatusStep
<1>12. Types'
  BY <1>1, <1>8, <1>11 DEF Types, UpdRecord, StatusRecord
<1>13. /\ upd'[id].emitter = upd[id].emitter /\ upd'[id].onResult = upd[id].onResult
       /\ upd'[id].replicatedToEmitter = (upd[id].replicatedToEmitter \/ upd[id].emitter = f)
       /\ upd'[id].approves = IF ok THEN upd[id].approves + 1 ELSE upd[id].approves
       /\ upd'[id].errors = IF ok THEN upd[id].errors ELSE upd[id].errors + 1
       /\ upd'[id].replicas = upd[id].replicas + 1
  BY <1>7, <1>8 DEF rte, a, e, n
<1>14. /\ status'[f].result <=> RequireResult(upd'[id], ok, upd[id].emitter = f)
       /\ status'[f].erase <=> upd'[id].replicas = RequiredReplicas
       /\ status'[f].result => status'[f].id = id /\ status'[f].ok = ok
       /\ ~status'[f].sent /\ ~status'[f].sweep
  BY <1>8, <1>10, <1>11 DEF res, er
<1>15. \A g \in Followers : g # f => status'[g] = status[g]
  BY <1>11
<1>16. Answers(f, ok, id)
  BY <1>1, <1>3, <1>4, <1>8, <1>13, <1>14, <1>15, Zenon DEF Answers
<1> QED BY <1>11, <1>12, <1>16

\* Who has handled which updates after an answer
LEMMA AnswerHandled ==
    ASSUME Types, ReaderOK, CountsOK, NEW f \in Followers, NEW ok \in BOOLEAN, NEW id,
           Answers(f, ok, id)
    PROVE  /\ CountsOK'
           /\ upd[id].replicas < RequiredReplicas
           /\ upd[id].emitter = f => ~upd[id].replicatedToEmitter
<1>1. /\ id = status[f].id /\ id \in Ids /\ nextUpdateId[f] = id + 1 /\ status[f].sent
      /\ \A j \in Ids : j # id => upd'[j] = upd[j]
      /\ ~status'[f].sent /\ nextUpdateId' = nextUpdateId
      /\ \A g \in Followers : g # f => status'[g] = status[g]
  BY DEF Answers
<1>2. id \in Nat /\ f # NoEmitter
  BY <1>1, Numbers, PushSizeOK
<1>3. f \notin Handled(id) /\ Handled(id)' = Handled(id) \cup {f}
  BY <1>1, <1>2 DEF Handled
<1>4. \A j \in Ids : j # id => Handled(j)' = Handled(j)
  BY <1>1 DEF Handled
<1>5. upd[id].emitter = f => ~upd[id].replicatedToEmitter
  BY <1>1, <1>2, <1>3 DEF CountsOK
<1>6. f \notin Counted(id) /\ Counted(id)' = Counted(id) \cup {f}
  <2>1. /\ upd'[id].emitter = upd[id].emitter
        /\ upd'[id].replicatedToEmitter = (upd[id].replicatedToEmitter \/ upd[id].emitter = f)
    BY DEF Answers
  <2>2. f \notin Counted(id)
    BY <1>3 DEF Counted
  <2>3. CASE upd[id].emitter = f
    BY <1>3, <1>5, <2>1, <2>3 DEF Counted
  <2>4. CASE upd[id].emitter # f
    BY <1>3, <2>1, <2>4 DEF Counted
  <2> QED BY <2>2, <2>3, <2>4
<1>7. /\ IsFiniteSet(Counted(id)) /\ Cardinality(Counted(id)) \in Nat
      /\ Cardinality(Counted(id)') = Cardinality(Counted(id)) + 1
  <2>1. IsFiniteSet(Counted(id)) /\ Cardinality(Counted(id)) \in Nat
    BY FiniteSets DEF Counted, Handled
  <2> QED BY <1>6, <2>1, AddOne
<1>8. Cardinality(Counted(id)') <= RequiredReplicas
  <2>1. Counted(id)' \subseteq Followers
    BY DEF Counted, Handled
  <2> QED BY <2>1, FiniteSets, FS_Subset, Nodes
<1>9. upd[id].replicas \in Nat /\ upd[id].approves \in Nat /\ upd[id].errors \in Nat
      /\ upd[id].replicas <= Cardinality(Counted(id))
      /\ upd[id].approves + upd[id].errors = upd[id].replicas + 1
  BY <1>1, UpdTypes DEF CountsOK
<1>10. upd[id].replicas < RequiredReplicas
  BY <1>7, <1>8, <1>9, Nodes
<1>11. /\ upd'[id].approves + upd'[id].errors = upd'[id].replicas + 1
       /\ upd'[id].replicas <= Cardinality(Counted(id)')
  BY <1>7, <1>9 DEF Answers
<1>12. upd'[id].replicatedToEmitter => upd'[id].emitter \in Handled(id)' \cup {NoEmitter}
  BY <1>1, <1>3 DEF Answers, CountsOK
<1>13. \A j \in Ids : j # id => Counted(j)' = Counted(j)
  BY <1>1, <1>4 DEF Counted
<1>14. CountsOK'
  <2>1. ASSUME NEW j \in Ids, j # id
        PROVE  /\ upd'[j].approves + upd'[j].errors = upd'[j].replicas + 1
               /\ upd'[j].replicas <= Cardinality(Counted(j)')
               /\ upd'[j].replicatedToEmitter => upd'[j].emitter \in Handled(j)' \cup {NoEmitter}
    BY <1>1, <1>4, <1>13, <2>1 DEF CountsOK
  <2> QED BY <1>11, <1>12, <2>1 DEF CountsOK
<1> QED BY <1>5, <1>10, <1>14

\* The result of an update is due with the answer that gives it one, and only
\* then.
LEMMA AnswerResult ==
    ASSUME Types, ReaderOK, CountsOK, NEW f \in Followers, NEW ok \in BOOLEAN, NEW id,
           Answers(f, ok, id)
    PROVE  /\ status'[f].result <=> HasResult(id)' /\ ~HasResult(id)
           /\ HasResult(id) => HasResult(id)'
           /\ \A j \in Ids : j # id => (HasResult(j)' <=> HasResult(j))
<1>1. /\ id \in Ids
      /\ \A j \in Ids : j # id => upd'[j] = upd[j]
      /\ status'[f].result <=> RequireResult(upd'[id], ok, upd[id].emitter = f)
      /\ upd'[id].replicatedToEmitter = (upd[id].replicatedToEmitter \/ upd[id].emitter = f)
      /\ upd'[id].approves = IF ok THEN upd[id].approves + 1 ELSE upd[id].approves
      /\ upd'[id].errors = IF ok THEN upd[id].errors ELSE upd[id].errors + 1
  BY DEF Answers
<1> DEFINE a == upd[id].approves
           e == upd[id].errors
           n == upd[id].replicas
           rte == upd[id].replicatedToEmitter
           isEmitter == upd[id].emitter = f
           r == upd'[id]
<1>2. a \in Nat /\ e \in Nat /\ n \in Nat /\ rte \in BOOLEAN /\ isEmitter \in BOOLEAN
  BY <1>1, UpdTypes
<1>3. a + e = n + 1 /\ n < RequiredReplicas /\ (isEmitter => ~rte)
  BY <1>1, AnswerHandled DEF CountsOK
<1>4. /\ r.replicatedToEmitter = (rte \/ isEmitter)
      /\ r.approves = IF ok THEN a + 1 ELSE a
      /\ r.errors = IF ok THEN e ELSE e + 1
  BY <1>1
<1>5. /\ HasResult(id) <=> rte /\ (a >= ConsensusCnt \/ e >= ConsensusCnt)
      /\ HasResult(id)' <=> /\ r.replicatedToEmitter
                            /\ r.approves >= ConsensusCnt \/ r.errors >= ConsensusCnt
  BY DEF HasResult
<1>6. status'[f].result <=> RequireResult(r, ok, isEmitter)
  BY <1>1
<1> HIDE DEF a, e, n, rte, isEmitter, r
<1>7. /\ RequireResult(r, ok, isEmitter) <=> HasResult(id)' /\ ~HasResult(id)
      /\ HasResult(id) => HasResult(id)'
  <2>1. r.approves + r.errors <= NodesCount /\ r.approves \in Nat /\ r.errors \in Nat
    BY <1>2, <1>3, <1>4, Nodes
  <2>2. ~(r.approves >= ConsensusCnt /\ r.errors >= ConsensusCnt)
    BY <2>1, Nodes
  <2>3. ConsensusCnt \in Nat
    BY Nodes
  <2> QED BY <1>2, <1>3, <1>4, <1>5, <2>1, <2>2, <2>3 DEF RequireResult
<1>8. \A j \in Ids : j # id => (HasResult(j)' <=> HasResult(j))
  BY <1>1 DEF HasResult
<1> QED BY <1>6, <1>7, <1>8

LEMMA AnswerChunks ==
    ASSUME Types, ReaderOK, CountsOK, ChunkCountsOK, NEW f \in Followers, NEW ok \in BOOLEAN, NEW id,
           Answers(f, ok, id)
    PROVE  ChunkCountsOK'
<1>1. /\ id \in Ids /\ ptr[f] = ChunkOf(id) /\ ptr' = ptr
      /\ \A j \in Ids : j # id => upd'[j] = upd[j]
      /\ upd'[id].replicas = upd[id].replicas + 1
      /\ status'[f].erase <=> upd'[id].replicas = RequiredReplicas
      /\ \A g \in Followers : g # f => status'[g] = status[g]
      /\ ~status[f].result /\ ~status[f].erase
      /\ chunk' = chunk /\ firstChunkID' = firstChunkID /\ nextChunkID' = nextChunkID
  BY DEF Answers
<1>2. /\ status'[f].result <=> HasResult(id)' /\ ~HasResult(id)
      /\ HasResult(id) => HasResult(id)'
      /\ \A j \in Ids : j # id => (HasResult(j)' <=> HasResult(j))
  BY AnswerResult
<1>3. upd[id].replicas \in Nat /\ upd[id].replicas < RequiredReplicas
  BY <1>1, UpdTypes, AnswerHandled
<1>4. ASSUME NEW c \in ChunkIds
      PROVE  \/ /\ ResultsDue(c)' = ResultsDue(c) /\ WithResult(c)' = WithResult(c)
             \/ /\ Cardinality(ResultsDue(c)') = Cardinality(ResultsDue(c)) + 1
                /\ Cardinality(WithResult(c)') = Cardinality(WithResult(c)) + 1
  <2>1. IsFiniteSet(ResultsDue(c)) /\ IsFiniteSet(WithResult(c))
    BY FiniteSets DEF ResultsDue, WithResult
  <2>2. CASE status'[f].result /\ c = ChunkOf(id)
    <3>1. f \notin ResultsDue(c) /\ ResultsDue(c)' = ResultsDue(c) \cup {f}
      BY <1>1, <2>2 DEF ResultsDue
    <3>2. id \notin WithResult(c) /\ WithResult(c)' = WithResult(c) \cup {id}
      BY <1>1, <1>2, <2>2 DEF WithResult
    <3> QED BY <2>1, <3>1, <3>2, AddOne
  <2>3. CASE ~(status'[f].result /\ c = ChunkOf(id))
    <3>1. ResultsDue(c)' = ResultsDue(c)
      BY <1>1, <2>3 DEF ResultsDue
    <3>2. WithResult(c)' = WithResult(c)
      BY <1>1, <1>2, <2>3 DEF WithResult
    <3> QED BY <3>1, <3>2
  <2> QED BY <2>2, <2>3
<1>5. ASSUME NEW c \in ChunkIds
      PROVE  \/ /\ ErasuresDue(c)' = ErasuresDue(c) /\ Replicas(c)' = Replicas(c)
             \/ /\ Cardinality(ErasuresDue(c)') = Cardinality(ErasuresDue(c)) + 1
                /\ Cardinality(Replicas(c)') = Cardinality(Replicas(c)) + 1
  <2>1. IsFiniteSet(ErasuresDue(c)) /\ IsFiniteSet(Replicas(c))
    BY FiniteSets DEF ErasuresDue, Replicas
  <2>0. upd[id].replicas # RequiredReplicas
    BY <1>3, Nodes
  <2>2. CASE status'[f].erase /\ c = ChunkOf(id)
    <3>1. f \notin ErasuresDue(c) /\ ErasuresDue(c)' = ErasuresDue(c) \cup {f}
      BY <1>1, <2>2 DEF ErasuresDue
    <3>2. id \notin Replicas(c) /\ Replicas(c)' = Replicas(c) \cup {id}
      BY <1>1, <2>0, <2>2 DEF Replicas
    <3> QED BY <2>1, <3>1, <3>2, AddOne
  <2>3. CASE ~(status'[f].erase /\ c = ChunkOf(id))
    <3>1. ErasuresDue(c)' = ErasuresDue(c)
      BY <1>1, <2>3 DEF ErasuresDue
    <3>2. Replicas(c)' = Replicas(c)
      BY <1>1, <2>0, <2>3 DEF Replicas
    <3> QED BY <3>1, <3>2
  <2> QED BY <2>2, <2>3
<1>6. ASSUME NEW c \in ChunkIds
      PROVE  /\ Cardinality(ResultsDue(c)) \in Nat /\ Cardinality(WithResult(c)) \in Nat
             /\ Cardinality(ErasuresDue(c)) \in Nat /\ Cardinality(Replicas(c)) \in Nat
             /\ chunk[c].erased \in Nat /\ chunk[c].resultsSent \in Nat
  BY FiniteSets, ChunkTypes DEF ResultsDue, WithResult, ErasuresDue, Replicas
<1>7. ASSUME NEW c \in ChunkIds
      PROVE  /\ chunk[c].resultsSent + Cardinality(ResultsDue(c)') <= Cardinality(WithResult(c)')
             /\ InQueue(c) =>
                 chunk[c].resultsSent + Cardinality(ResultsDue(c)') = Cardinality(WithResult(c)')
             /\ chunk[c].erased + Cardinality(ErasuresDue(c)') = Cardinality(Replicas(c)')
  <2>1. /\ chunk[c].resultsSent + Cardinality(ResultsDue(c)) <= Cardinality(WithResult(c))
        /\ InQueue(c) =>
             chunk[c].resultsSent + Cardinality(ResultsDue(c)) = Cardinality(WithResult(c))
        /\ chunk[c].erased + Cardinality(ErasuresDue(c)) = Cardinality(Replicas(c))
    BY DEF ChunkCountsOK
  <2>2. /\ chunk[c].resultsSent + Cardinality(ResultsDue(c)') <= Cardinality(WithResult(c)')
        /\ InQueue(c) =>
             chunk[c].resultsSent + Cardinality(ResultsDue(c)') = Cardinality(WithResult(c)')
    BY <1>4, <1>6, <2>1
  <2>3. chunk[c].erased + Cardinality(ErasuresDue(c)') = Cardinality(Replicas(c)')
    BY <1>5, <1>6, <2>1
  <2> QED BY <2>2, <2>3
<1> QED BY <1>1, <1>7 DEF ChunkCountsOK, InQueue

LEMMA ReplicatedStep ==
    ASSUME Inv, NEW f \in Followers, NEW ok \in BOOLEAN, Replicated(f, ok)
    PROVE  Inv'
<1>0. /\ Types /\ QueueOK /\ FreshOK /\ ReaderOK /\ CountsOK /\ ChunkCountsOK
      /\ WriterOK /\ CallbackOK /\ GoneOK /\ SizeOK /\ SweepOK /\ AwaitsNothing
  BY DEF Inv, QueueInv
<1>1. PICK id : Answers(f, ok, id) /\ Types' /\ ReaderOK'
  BY <1>0, ReplicatedEffect
<1>2. /\ id = status[f].id /\ id \in Ids /\ ptr[f] = ChunkOf(id) /\ Pushed(id)
      /\ UNCHANGED <<firstChunkID, nextChunkID, dataSize, dropRecord, chunk, writer,
                     nextUpdateId, ptr, awaits>>
      /\ \A j \in Ids : j # id => upd'[j] = upd[j]
      /\ upd'[id].onResult = upd[id].onResult
      /\ ~status[f].result /\ ~status[f].sweep
      /\ status'[f].result => status'[f].id = id
      /\ \A g \in Followers : g # f => status'[g] = status[g]
  BY <1>1 DEF Answers
<1>3. QueueOK' /\ SizeOK' /\ GoneOK' /\ AwaitsNothing'
  BY <1>0, <1>2 DEF QueueOK, SizeOK, GoneOK, AwaitsNothing, InQueue, Pushed, GetNextUpdateID,
                    IsEmpty, Back, ReadsDropRecord, ChunkToRead
<1>4. FreshOK'
  BY <1>0, <1>2 DEF FreshOK, Pushed
<1>5. CountsOK' /\ ChunkCountsOK'
  BY <1>0, <1>1, AnswerHandled, AnswerChunks
<1>6. WriterOK'
  <2>1. \A w \in Writers : Pending(w)' = Pending(w)
    BY <1>2 DEF Pending
  <2> QED BY <1>0, <1>2, <2>1 DEF WriterOK
<1>7. CallbackOK'
  <2>1. ASSUME NEW i \in Ids, HasResult(i)', upd'[i].onResult # NoWriter
        PROVE  \E g \in Followers : status'[g].result /\ status'[g].id = i
    <3>1. upd[i].onResult # NoWriter
      BY <1>2, <2>1
    <3>2. CASE HasResult(i)
      <4>1. PICK g \in Followers : status[g].result /\ status[g].id = i
        BY <1>0, <3>1, <3>2 DEF CallbackOK
      <4>2. g # f
        BY <1>2, <4>1
      <4> QED BY <1>2, <4>1, <4>2
    <3>3. CASE ~HasResult(i)
      <4>1. i = id /\ status'[f].result
        BY <1>0, <1>1, <2>1, <3>3, AnswerResult
      <4> QED BY <1>2, <4>1
    <3> QED BY <3>2, <3>3
  <2>2. \A i \in Ids : upd'[i].onResult = upd[i].onResult
    BY <1>2
  <2> QED BY <1>0, <1>2, <2>1, <2>2 DEF CallbackOK, InQueue
<1>8. SweepOK'
  BY <1>0, <1>2 DEF SweepOK, IsEmpty
<1> QED BY <1>1, <1>3, <1>4, <1>5, <1>6, <1>7, <1>8 DEF Inv, QueueInv

\* A chunk that is fully erased is full, and all readers are behind it.
LEMMA ErasedOK ==
    ASSUME QueueInv, NEW c \in ChunkIds, chunk[c].erased = BatchSize
    PROVE  /\ chunk[c].count = BatchSize
           /\ \A i \in Ids, g \in Followers : ChunkOf(i) = c => nextUpdateId[g] > i
           /\ \A g \in Followers : nextUpdateId[g] >= c + BatchSize
<1>0. Types /\ QueueOK /\ FreshOK /\ ReaderOK /\ CountsOK /\ ChunkCountsOK
  BY DEF QueueInv
<1>1. chunk[c].count \in Nat /\ chunk[c].count <= BatchSize /\ chunk[c].erased <= chunk[c].count
  BY <1>0, ChunkTypes, SentBelowCount
<1>2. chunk[c].count = BatchSize
  BY <1>1, Sizes
<1>3. Cardinality(ErasuresDue(c)) \in Nat
  BY FiniteSets DEF ErasuresDue
<1>4. chunk[c].erased + Cardinality(ErasuresDue(c)) = Cardinality(Replicas(c))
  BY <1>0 DEF ChunkCountsOK
<1>5. /\ Cardinality(Replicas(c)) \in Nat /\ Cardinality(Replicas(c)) <= chunk[c].count
      /\ Cardinality(Replicas(c)) = chunk[c].count => Replicas(c) = c..(c + chunk[c].count - 1)
  BY <1>0, ResultsInChunk
<1>6. Replicas(c) = c..(c + BatchSize - 1)
  BY <1>2, <1>3, <1>4, <1>5, Sizes
<1>7. ASSUME NEW i \in Ids, NEW g \in Followers, ChunkOf(i) = c PROVE nextUpdateId[g] > i
  <2>1. i \in Nat /\ c \in Nat /\ c <= i /\ i < c + BatchSize
    BY <1>7, ChunkOfOK, Numbers
  <2>2. upd[i].replicas = RequiredReplicas
    BY <1>6, <2>1, Sizes DEF Replicas
  <2>3. Counted(i) \subseteq Followers /\ Cardinality(Counted(i)) \in Nat
    BY FiniteSets DEF Counted, Handled
  <2>4. Cardinality(Counted(i)) <= Cardinality(Followers)
        /\ (Cardinality(Counted(i)) = Cardinality(Followers) => Counted(i) = Followers)
    BY <2>3, FiniteSets, FS_Subset
  <2>5. Counted(i) = Followers
    BY <1>0, <2>2, <2>3, <2>4, Nodes DEF CountsOK
  <2> QED BY <2>5 DEF Counted, Handled
<1>8. ASSUME NEW g \in Followers PROVE nextUpdateId[g] >= c + BatchSize
  <2> DEFINE i == c + BatchSize - 1
  <2>1. c \in Nat /\ i \in Int /\ c <= i /\ i < c + BatchSize
    BY Numbers, Sizes
  <2>2. i \in Ids /\ ChunkOf(i) = c
    BY <2>1, IdsOfChunk
  <2>3. nextUpdateId[g] > i /\ nextUpdateId[g] \in Nat
    BY <1>0, <1>7, <2>2, StatusTypes
  <2> QED BY <2>1, <2>3, Sizes
<1> QED BY <1>2, <1>7, <1>8

\* One turn of eraseReplicated with the chunks as they are after the step
Erases ==
    \/ /\ ~IsEmpty /\ Erasable(firstChunkID, chunk')
       /\ firstChunkID' = firstChunkID + BatchSize
       /\ dataSize' = dataSize - (1 + chunk'[firstChunkID].count)
    \/ /\ IsEmpty \/ ~Erasable(firstChunkID, chunk')
       /\ UNCHANGED <<firstChunkID, dataSize>>

LEMMA EraseEffect ==
    ASSUME Inv, Erases, UNCHANGED <<nextChunkID, dropRecord, nextUpdateId, awaits>>,
           \A c \in ChunkIds : /\ chunk'[c].count = chunk[c].count
                               /\ chunk'[c].erased = chunk[c].erased
                               /\ chunk'[c].invalidated = chunk[c].invalidated
    PROVE  /\ firstChunkID' \in ChunkEnds /\ firstChunkID' <= nextChunkID /\ dataSize' \in Int
           /\ QueueOK' /\ GoneOK' /\ SizeOK' /\ AwaitsNothing'
           /\ \A c \in ChunkIds : InQueue(c)' => InQueue(c)
           /\ firstChunkID' = firstChunkID => IsEmpty' \/ ~Erasable(firstChunkID', chunk')
           /\ \A c \in ChunkIds : InQueue(c) /\ ~InQueue(c)' =>
                 /\ chunk'[c].resultsSent = chunk[c].count
<1>0. Types /\ QueueOK /\ GoneOK /\ SizeOK /\ AwaitsNothing /\ QueueInv
  BY DEF Inv, QueueInv
<1>1. /\ firstChunkID \in Nat /\ nextChunkID \in Nat /\ firstChunkID <= nextChunkID
      /\ firstChunkID \in ChunkEnds /\ nextChunkID \in ChunkEnds /\ dataSize \in Int
  BY <1>0, NextIdOK DEF Types
<1>2. CASE UNCHANGED <<firstChunkID, dataSize>> /\ (IsEmpty \/ ~Erasable(firstChunkID, chunk'))
  <2>1. Back = Back' /\ IsEmpty' = IsEmpty
    BY <1>2 DEF Back, IsEmpty
  <2>2. GetNextUpdateID' = GetNextUpdateID
    <3>1. ~IsEmpty => Back \in ChunkIds
      BY <1>0, NextIdOK
    <3> QED BY <2>1, <3>1 DEF GetNextUpdateID
  <2>3. QueueOK' /\ SizeOK'
    BY <1>0, <1>2, <2>2 DEF QueueOK, SizeOK, InQueue
  <2>4. GoneOK'
    <3>1. \A i \in Ids : Pushed(i)' <=> Pushed(i)
      BY ChunkOfOK DEF Pushed
    <3> QED BY <1>0, <1>2, <3>1 DEF GoneOK
  <2>5. AwaitsNothing'
    <3>1. ASSUME NEW f \in Followers, awaits[f]
          PROVE  ~ReadsDropRecord(f)' /\ ChunkToRead(f)' = NoChunk
      <4>1. ~ReadsDropRecord(f) /\ ChunkToRead(f) = NoChunk
        BY <1>0, <3>1 DEF AwaitsNothing
      <4>2. ChunkToRead(f)' # NoChunk => ChunkToRead(f)' = ChunkToRead(f)
        <5> DEFINE c == ChunkOf(nextUpdateId[f])
        <5>1. nextUpdateId[f] \in Nat /\ nextUpdateId[f] <= nextChunkID
          BY <1>0, StatusTypes DEF QueueInv, ReaderOK
        <5>2. CASE nextUpdateId[f] = LastEnd
          <6>1. c = LastEnd
            BY <5>2, Sizes DEF ChunkOf, LastEnd
          <6>2. ~(c < nextChunkID)
            BY <1>0, <1>1, <6>1, NextIdOK, Sizes
          <6> QED BY <1>2, <2>1, <6>2 DEF ChunkToRead, InQueue
        <5>3. CASE nextUpdateId[f] # LastEnd
          <6>1. nextUpdateId[f] \in Ids
            BY <1>0, <1>1, <5>1, <5>3, NextIdOK, Sizes
          <6>2. chunk'[c].count = chunk[c].count
            BY <6>1, ChunkOfOK
          <6> QED BY <1>2, <2>1, <6>2 DEF ChunkToRead, InQueue
        <5> QED BY <5>2, <5>3
      <4> QED BY <4>1, <4>2 DEF ReadsDropRecord
    <3> QED BY <3>1 DEF AwaitsNothing
  <2> QED BY <1>1, <1>2, <2>1, <2>3, <2>4, <2>5 DEF InQueue
<1>3. CASE /\ ~IsEmpty /\ Erasable(firstChunkID, chunk')
           /\ firstChunkID' = firstChunkID + BatchSize
           /\ dataSize' = dataSize - (1 + chunk'[firstChunkID].count)
  <2> DEFINE a == firstChunkID
             b == firstChunkID + BatchSize
  <2>1. a < nextChunkID /\ a \in ChunkIds /\ b <= nextChunkID
    BY <1>1, <1>3, ChunkEndsOK DEF IsEmpty
  <2>2. b \in ChunkEnds /\ b \in Nat /\ a < b
    BY <1>1, <2>1, ChunkEndsOK, Sizes
  <2>3. chunk[a].erased = BatchSize /\ chunk'[a].resultsSent = chunk[a].count
    BY <1>3, <2>1 DEF Erasable, IsFullyErased, IsAllResultsSent
  <2>4. /\ chunk[a].count = BatchSize /\ chunk'[a].count = BatchSize
        /\ \A i \in Ids, g \in Followers : ChunkOf(i) = a => nextUpdateId[g] > i
        /\ \A g \in Followers : nextUpdateId[g] >= b
    BY <1>0, <2>1, <2>3, ErasedOK
  <2>5. \A c \in ChunkIds : /\ InQueue(c)' => InQueue(c)
                            /\ InQueue(c) /\ ~InQueue(c)' => c = a
                            /\ c < b => c = a \/ c < a
    <3>1. SUFFICES ASSUME NEW c \in ChunkIds
                   PROVE  /\ b <= c => a <= c
                          /\ a <= c /\ ~(b <= c) => c = a
                          /\ c < b => c = a \/ c < a
      BY <1>3 DEF InQueue
    <3>2. c \in Nat /\ c \in ChunkEnds
      BY Numbers
    <3>3. a < c => b <= c
      BY <1>1, <3>2, ChunkEndsOK
    <3> QED BY <1>1, <2>2, <3>2, <3>3
  <2>6. QueueOK'
    <3>1. dropRecord < b
      BY <1>0, <1>1, <2>2, Numbers DEF QueueOK, Types
    <3> QED BY <1>0, <1>3, <2>5, <3>1 DEF QueueOK
  <2>7. GoneOK'
    <3>1. ASSUME NEW i \in Ids, Pushed(i)' PROVE Pushed(i)
      BY <3>1, ChunkOfOK DEF Pushed
    <3> QED BY <1>0, <1>3, <2>4, <2>5, <3>1 DEF GoneOK
  <2>8. SizeOK'
    <3>1. GetNextUpdateID' = GetNextUpdateID
      <4>1. Back \in ChunkIds /\ Back' = Back
        BY <1>0, <1>3, NextIdOK DEF Back
      <4>2. GetNextUpdateID = Back + chunk[Back].count
        BY <1>3 DEF GetNextUpdateID
      <4>3. CASE b = nextChunkID
        <5>1. Back = a
          BY <1>1, <4>3, Sizes DEF Back
        <5>2. GetNextUpdateID' = nextChunkID
          BY <1>3, <4>3 DEF GetNextUpdateID, IsEmpty
        <5> QED BY <2>4, <4>2, <4>3, <5>1, <5>2
      <4>4. CASE b # nextChunkID
        <5>1. GetNextUpdateID' = Back + chunk'[Back].count
          BY <1>3, <4>1, <4>4 DEF GetNextUpdateID, IsEmpty
        <5> QED BY <4>1, <4>2, <5>1
      <4> QED BY <4>3, <4>4
    <3>2. Cardinality(ChunksIn(a, nextChunkID)) = Cardinality(ChunksIn(b, nextChunkID)) + 1
          /\ Cardinality(ChunksIn(b, nextChunkID)) \in Nat
      <4>1. a \notin ChunksIn(b, nextChunkID)
        BY <1>1, <2>2 DEF ChunksIn
      <4>2. ChunksIn(a, nextChunkID) = ChunksIn(b, nextChunkID) \cup {a}
        <5>1. ASSUME NEW c \in ChunkIds PROVE a <= c <=> b <= c \/ c = a
          <6>1. c \in Nat /\ (c < b => c = a \/ c < a)
            BY <2>5, Numbers
          <6> QED BY <1>1, <2>2, <6>1
        <5> QED BY <2>1, <5>1 DEF ChunksIn
      <4>3. IsFiniteSet(ChunksIn(b, nextChunkID)) /\ Cardinality(ChunksIn(b, nextChunkID)) \in Nat
        BY FiniteSets DEF ChunksIn
      <4> QED BY <4>1, <4>2, <4>3, AddOne
    <3>3. dataSize' = dataSize - (1 + BatchSize)
      BY <1>3, <2>4
    <3>4. dataSize = Cardinality(ChunksIn(a, nextChunkID)) + GetNextUpdateID - a
      BY <1>0 DEF SizeOK
    <3>5. dataSize' = Cardinality(ChunksIn(b, nextChunkID)) + GetNextUpdateID - b
      <4>1. GetNextUpdateID \in Nat
        BY <1>0, NextIdOK
      <4> QED BY <1>1, <3>2, <3>3, <3>4, <4>1, Sizes
    <3> QED BY <1>3, <3>1, <3>5 DEF SizeOK
  <2>9. AwaitsNothing'
    <3>1. ASSUME NEW f \in Followers, awaits[f]
          PROVE  ~ReadsDropRecord(f)' /\ ChunkToRead(f)' = NoChunk
      <4> DEFINE n == nextUpdateId[f]
                 c == ChunkOf(n)
      <4>1. ~ReadsDropRecord(f) /\ ChunkToRead(f) = NoChunk
        BY <1>0, <3>1 DEF AwaitsNothing
      <4>2. n \in Nat /\ n >= b /\ n <= nextChunkID
        BY <1>0, <2>4, StatusTypes DEF QueueInv, ReaderOK
      <4>3. ~(InQueue(c) /\ n < c + chunk[c].count)
        <5>1. ~(n < firstChunkID)
          BY <1>1, <2>2, <4>2
        <5>2. c # NoChunk
          BY <4>2, Division DEF NoChunk
        <5> QED BY <1>3, <4>1, <5>1, <5>2 DEF ChunkToRead
      <4>4. ~(InQueue(c)' /\ n < c + chunk'[c].count)
        <5>1. CASE n \in Ids
          <6>1. c \in ChunkIds
            BY <5>1, ChunkOfOK
          <6> QED BY <2>5, <4>3, <6>1
        <5>2. CASE n \notin Ids
          <6>1. n = LastEnd
            BY <1>0, <1>1, <4>2, <5>2, NextIdOK, Sizes
          <6>2. c = LastEnd
            BY <6>1, Sizes DEF ChunkOf, LastEnd
          <6>3. ~(c < nextChunkID)
            BY <1>0, <1>1, <6>2, NextIdOK, Sizes
          <6> QED BY <6>3 DEF InQueue
        <5> QED BY <5>1, <5>2
      <4>5. ~(n < firstChunkID')
        BY <1>3, <2>2, <4>2
      <4> QED BY <4>1, <4>4, <4>5 DEF ChunkToRead, ReadsDropRecord
    <3> QED BY <3>1 DEF AwaitsNothing
  <2>10. dataSize' \in Int
    BY <1>1, <1>3, <2>4, Sizes
  <2>11. firstChunkID' # firstChunkID
    BY <1>1, <1>3, <2>2
  <2> QED BY <1>3, <2>1, <2>2, <2>3, <2>5, <2>6, <2>7, <2>8, <2>9, <2>10, <2>11
<1> QED BY <1>2, <1>3 DEF Erases

LEMMA RemoveOne ==
    ASSUME NEW S, IsFiniteSet(S), NEW T, NEW x, x \in S, T = S \ {x}
    PROVE  IsFiniteSet(T) /\ Cardinality(T) \in Nat /\ Cardinality(S) = Cardinality(T) + 1
<1>1. IsFiniteSet(T)
  BY FS_Subset
<1>2. x \notin T /\ S = T \cup {x}
  OBVIOUS
<1> QED BY <1>1, <1>2, AddOne

\* Nobody has handled more or less after a step that changes what one reader
\* still has to do.
LEMMA SameCounts ==
    ASSUME CountsOK, NEW f \in Followers, ~status[f].sent, ~status'[f].sent,
           \A g \in Followers : g # f => status'[g] = status[g],
           nextUpdateId' = nextUpdateId,
           \A i \in Ids : /\ upd'[i].emitter = upd[i].emitter
                          /\ upd'[i].replicatedToEmitter = upd[i].replicatedToEmitter
                          /\ upd'[i].replicas = upd[i].replicas
                          /\ upd'[i].approves = upd[i].approves /\ upd'[i].errors = upd[i].errors
    PROVE  /\ CountsOK'
           /\ \A c \in ChunkIds : WithResult(c)' = WithResult(c) /\ Replicas(c)' = Replicas(c)
           /\ \A i \in Ids : HasResult(i)' <=> HasResult(i)
<1>1. \A i \in Ids : Handled(i)' = Handled(i)
  BY DEF Handled
<1>2. \A i \in Ids : Counted(i)' = Counted(i)
  BY <1>1 DEF Counted
<1>3. CountsOK'
  BY <1>1, <1>2 DEF CountsOK
<1>4. \A i \in Ids : HasResult(i)' <=> HasResult(i)
  BY DEF HasResult
<1> QED BY <1>3, <1>4 DEF WithResult, Replicas

LEMMA SweepStep ==
    ASSUME Inv, NEW f \in Followers, Sweep(f)
    PROVE  Inv'
<1>0. /\ Types /\ QueueOK /\ FreshOK /\ ReaderOK /\ CountsOK /\ ChunkCountsOK
      /\ WriterOK /\ CallbackOK /\ GoneOK /\ SizeOK /\ SweepOK /\ AwaitsNothing /\ QueueInv
  BY DEF Inv, QueueInv
<1> DEFINE b == firstChunkID' # firstChunkID
           st == [status[f] EXCEPT !.sweep = b]
<1>1. /\ status[f].sweep /\ status' = [status EXCEPT ![f] = Done(st)]
      /\ UNCHANGED <<nextChunkID, dropRecord, invalidated, switches, chunk, upd, writer,
                     nextUpdateId, ptr, awaits>>
  BY DEF Sweep, readerVars
<1>2. Erases
  BY <1>1 DEF Sweep, Erases, EraseReplicated, TotalSizeBytes
<1>3. /\ firstChunkID' \in ChunkEnds /\ firstChunkID' <= nextChunkID /\ dataSize' \in Int
      /\ QueueOK' /\ GoneOK' /\ SizeOK' /\ AwaitsNothing'
      /\ \A c \in ChunkIds : InQueue(c)' => InQueue(c)
      /\ firstChunkID' = firstChunkID => IsEmpty' \/ ~Erasable(firstChunkID', chunk')
      /\ \A c \in ChunkIds : InQueue(c) /\ ~InQueue(c)' => chunk[c].resultsSent = chunk[c].count
  BY <1>1, <1>2, EraseEffect
<1>4. status[f] # Idle /\ ~status[f].sent /\ ~status[f].result /\ status[f] \in StatusRecord
  BY <1>0, <1>1, BusyNotIdle, StatusTypes DEF ReaderOK
<1>5. b \in BOOLEAN
  OBVIOUS
<1> HIDE DEF b
<1>6. /\ st \in StatusRecord /\ ~st.sent /\ st.id = status[f].id /\ ~st.result
      /\ st.erase = status[f].erase /\ st.sweep = b
  BY <1>4, <1>5 DEF StatusRecord
<1> HIDE DEF st
<1>7. /\ status' \in [Followers -> StatusRecord] /\ ReaderOK'
      /\ \A g \in Followers : g # f => status'[g] = status[g]
      /\ ~status'[f].sent /\ status'[f].result = st.result /\ status'[f].erase = st.erase
      /\ status'[f].sweep = st.sweep
  BY <1>0, <1>1, <1>4, <1>6, StatusStep
<1>8. Types'
  BY <1>0, <1>1, <1>3, <1>7 DEF Types, StatusRecord
<1>9. FreshOK' /\ WriterOK'
  BY <1>0, <1>1 DEF FreshOK, WriterOK, Pending, Pushed
<1>10. /\ CountsOK'
       /\ \A c \in ChunkIds : WithResult(c)' = WithResult(c) /\ Replicas(c)' = Replicas(c)
       /\ \A i \in Ids : HasResult(i)' <=> HasResult(i)
  BY <1>0, <1>1, <1>4, <1>7, SameCounts
<1>11. \A c \in ChunkIds : ResultsDue(c)' = ResultsDue(c) /\ ErasuresDue(c)' = ErasuresDue(c)
  BY <1>1, <1>4, <1>6, <1>7 DEF ResultsDue, ErasuresDue
<1>12. ChunkCountsOK'
  BY <1>0, <1>1, <1>3, <1>10, <1>11 DEF ChunkCountsOK
<1>13. CallbackOK'
  <2>1. ASSUME NEW i \in Ids, ~InQueue(ChunkOf(i))' PROVE upd[i].onResult = NoWriter
    <3>1. ChunkOf(i) \in ChunkIds
      BY ChunkOfOK
    <3>2. CASE InQueue(ChunkOf(i))
      BY <1>0, <1>3, <2>1, <3>1, <3>2, AllSentOK
    <3>3. CASE ~InQueue(ChunkOf(i))
      BY <1>0, <3>3 DEF CallbackOK
    <3> QED BY <3>2, <3>3
  <2>2. ASSUME NEW i \in Ids, HasResult(i), upd[i].onResult # NoWriter
        PROVE  \E g \in Followers : status'[g].result /\ status'[g].id = i
    <3>1. PICK g \in Followers : status[g].result /\ status[g].id = i
      BY <1>0, <2>2 DEF CallbackOK
    <3> QED BY <1>4, <1>7, <3>1
  <2> QED BY <1>1, <1>10, <2>1, <2>2 DEF CallbackOK
<1>14. SweepOK'
  <2>1. CASE firstChunkID' = firstChunkID
    BY <1>3, <2>1 DEF SweepOK
  <2>2. CASE firstChunkID' # firstChunkID
    BY <1>6, <1>7, <2>2 DEF SweepOK, b
  <2> QED BY <2>1, <2>2
<1> QED BY <1>3, <1>7, <1>8, <1>9, <1>10, <1>12, <1>13, <1>14 DEF Inv, QueueInv

LEMMA CountErasedStep ==
    ASSUME Inv, NEW f \in Followers, CountErased(f)
    PROVE  Inv'
<1>0. /\ Types /\ QueueOK /\ FreshOK /\ ReaderOK /\ CountsOK /\ ChunkCountsOK
      /\ WriterOK /\ CallbackOK /\ GoneOK /\ SizeOK /\ SweepOK /\ AwaitsNothing
  BY DEF Inv, QueueInv
<1> DEFINE d == ChunkOf(status[f].id)
           n == chunk[d].erased + 1
           ch == [chunk EXCEPT ![d].erased = @ + 1]
           b == IsFullyErased(d, ch)
           st == [status[f] EXCEPT !.erase = FALSE, !.sweep = b]
<1>1. /\ status[f].erase /\ ~status[f].result /\ ~status[f].sweep
      /\ chunk' = ch /\ status' = [status EXCEPT ![f] = Done(st)]
      /\ UNCHANGED <<firstChunkID, nextChunkID, dataSize, dropRecord, invalidated, switches,
                     upd, writer, nextUpdateId, ptr, awaits>>
  BY DEF CountErased, readerVars, queueVars
<1>2. status[f] # Idle /\ ~status[f].sent /\ status[f] \in StatusRecord
  BY <1>0, <1>1, BusyNotIdle, StatusTypes DEF ReaderOK
<1>3. d \in ChunkIds /\ ptr[f] = d
  BY <1>0, <1>2, StatusOK
<1>4. n \in Nat /\ chunk[d] \in ChunkRecord
  BY <1>0, <1>3, ChunkTypes, Records
<1>5. /\ chunk' \in [ChunkIds -> ChunkRecord] /\ chunk'[d].erased = n
      /\ \A c \in ChunkIds : c # d => chunk'[c] = chunk[c]
      /\ chunk'[d].count = chunk[d].count /\ chunk'[d].resultsSent = chunk[d].resultsSent
      /\ chunk'[d].invalidated = chunk[d].invalidated
  <2> DEFINE r == [chunk[d] EXCEPT !.erased = n]
  <2>1. /\ r \in ChunkRecord /\ r.erased = n /\ r.count = chunk[d].count
        /\ r.resultsSent = chunk[d].resultsSent /\ r.invalidated = chunk[d].invalidated
    <3> HIDE DEF n
    <3> QED BY <1>4 DEF ChunkRecord
  <2>2. chunk' = [chunk EXCEPT ![d] = r]
    BY <1>1
  <2> HIDE DEF r
  <2> QED BY <1>0, <1>3, <2>1, <2>2, Records
<1>6. b \in BOOLEAN /\ (b <=> chunk'[d].erased = BatchSize)
  BY <1>1 DEF IsFullyErased
<1> HIDE DEF b, ch, n
<1>7. /\ st \in StatusRecord /\ ~st.sent /\ st.id = status[f].id /\ ~st.result
      /\ ~st.erase /\ st.sweep = b
  BY <1>1, <1>2, <1>6 DEF StatusRecord
<1> HIDE DEF st
<1>8. \A c \in ChunkIds : /\ chunk'[c].count = chunk[c].count
                          /\ chunk'[c].resultsSent = chunk[c].resultsSent
                          /\ chunk'[c].invalidated = chunk[c].invalidated
  BY <1>5
<1>9. /\ status' \in [Followers -> StatusRecord] /\ ReaderOK'
      /\ \A g \in Followers : g # f => status'[g] = status[g]
      /\ ~status'[f].sent /\ status'[f].result = st.result /\ status'[f].erase = st.erase
      /\ status'[f].sweep = st.sweep
  BY <1>0, <1>1, <1>2, <1>7, <1>8, StatusStep
<1>10. Types'
  BY <1>0, <1>1, <1>5, <1>9 DEF Types, StatusRecord, ChunkRecord
<1>11. QueueOK' /\ WriterOK'
  BY <1>0, <1>1, <1>8 DEF QueueOK, InQueue, WriterOK, Pending
<1>12. \A i \in Ids : Pushed(i)' <=> Pushed(i)
  BY <1>8, ChunkOfOK DEF Pushed
<1>13. FreshOK' /\ GoneOK'
  BY <1>0, <1>1, <1>8, <1>12 DEF FreshOK, GoneOK
<1>14. /\ CountsOK'
       /\ \A c \in ChunkIds : WithResult(c)' = WithResult(c) /\ Replicas(c)' = Replicas(c)
       /\ \A i \in Ids : HasResult(i)' <=> HasResult(i)
  BY <1>0, <1>1, <1>2, <1>9, SameCounts
<1>15. \A c \in ChunkIds : ResultsDue(c)' = ResultsDue(c)
  BY <1>1, <1>7, <1>9 DEF ResultsDue
<1>16. \A c \in ChunkIds : c # d => ErasuresDue(c)' = ErasuresDue(c)
  BY <1>1, <1>3, <1>9 DEF ErasuresDue
<1>17. ASSUME NEW c \in ChunkIds, c = d
       PROVE  /\ Cardinality(ErasuresDue(c)) = Cardinality(ErasuresDue(c)') + 1
              /\ Cardinality(ErasuresDue(c)') \in Nat
  <2>1. f \in ErasuresDue(c) /\ ErasuresDue(c)' = ErasuresDue(c) \ {f}
    BY <1>1, <1>3, <1>7, <1>9, <1>17 DEF ErasuresDue
  <2>2. IsFiniteSet(ErasuresDue(c))
    BY FiniteSets DEF ErasuresDue
  <2> QED BY <2>1, <2>2, RemoveOne
<1>18. ChunkCountsOK'
  <2>1. \A c \in ChunkIds : InQueue(c)' <=> InQueue(c)
    BY <1>1 DEF InQueue
  <2>2. ASSUME NEW c \in ChunkIds
        PROVE  chunk'[c].erased + Cardinality(ErasuresDue(c)') = Cardinality(Replicas(c))
    <3>1. CASE c = d
      <4>1. chunk[c].erased + Cardinality(ErasuresDue(c)) = Cardinality(Replicas(c))
            /\ chunk[c].erased \in Nat /\ Cardinality(Replicas(c)) \in Nat
        BY <1>0, ChunkTypes, FiniteSets DEF ChunkCountsOK, Replicas
      <4> QED BY <1>5, <1>17, <3>1, <4>1 DEF n
    <3>2. CASE c # d
      BY <1>0, <1>5, <1>16, <3>2 DEF ChunkCountsOK
    <3> QED BY <3>1, <3>2
  <2> QED BY <1>0, <1>8, <1>14, <1>15, <2>1, <2>2 DEF ChunkCountsOK
<1>19. CallbackOK'
  <2>1. ASSUME NEW i \in Ids, HasResult(i), upd[i].onResult # NoWriter
        PROVE  \E g \in Followers : status'[g].result /\ status'[g].id = i
    <3>1. PICK g \in Followers : status[g].result /\ status[g].id = i
      BY <1>0, <2>1 DEF CallbackOK
    <3> QED BY <1>1, <1>9, <3>1
  <2> QED BY <1>0, <1>1, <1>14, <2>1 DEF CallbackOK, InQueue
<1>20. SizeOK'
  <2>1. GetNextUpdateID' = GetNextUpdateID
    <3>1. ~IsEmpty => Back \in ChunkIds
      BY <1>0, NextIdOK
    <3> QED BY <1>1, <1>8, <3>1 DEF GetNextUpdateID, IsEmpty, Back
  <2> QED BY <1>0, <1>1, <2>1 DEF SizeOK
<1>21. SweepOK'
  <2>1. SUFFICES ASSUME ~IsEmpty, Erasable(firstChunkID, chunk')
                 PROVE  \E g \in Followers : status'[g].sweep
    BY <1>1 DEF SweepOK, IsEmpty
  <2>2. CASE firstChunkID = d
    BY <1>6, <1>7, <1>9, <2>1, <2>2 DEF Erasable, IsFullyErased
  <2>3. CASE firstChunkID # d
    <3>1. firstChunkID \in ChunkIds
      BY <1>0, <2>1, ChunkEndsOK, NextIdOK DEF IsEmpty, Types
    <3>2. Erasable(firstChunkID, chunk)
      BY <1>5, <2>1, <2>3, <3>1 DEF Erasable, IsAllResultsSent, IsFullyErased
    <3>3. PICK g \in Followers : status[g].sweep
      BY <1>0, <2>1, <3>2 DEF SweepOK
    <3> QED BY <1>1, <1>9, <3>3
  <2> QED BY <2>2, <2>3
<1>22. AwaitsNothing'
  <2>1. ASSUME NEW g \in Followers, awaits[g]
        PROVE  ~ReadsDropRecord(g)' /\ ChunkToRead(g)' = NoChunk
    <3> DEFINE c == ChunkOf(nextUpdateId[g])
    <3>1. ~ReadsDropRecord(g) /\ ChunkToRead(g) = NoChunk
      BY <1>0, <2>1 DEF AwaitsNothing
    <3>2. chunk'[c].count = chunk[c].count \/ c \notin ChunkIds
      BY <1>8
    <3>3. c \notin ChunkIds => chunk'[c] = chunk[c]
      BY <1>0, <1>1, <1>3 DEF ch, Types
    <3>4. chunk'[c].count = chunk[c].count
      BY <3>2, <3>3
    <3> QED BY <1>1, <3>1, <3>4 DEF ReadsDropRecord, ChunkToRead, IsEmpty, InQueue
  <2> QED BY <1>1, <2>1 DEF AwaitsNothing
<1> QED BY <1>9, <1>10, <1>11, <1>13, <1>14, <1>18, <1>19, <1>20, <1>21, <1>22 DEF Inv, QueueInv

\* The callback of one update
LEMMA NotifyOne ==
    ASSUME Types, WriterOK, NEW id \in Ids, NEW ok \in BOOLEAN,
           writer' = Notified(writer, {id}, ok), upd' = [upd EXCEPT ![id].onResult = NoWriter]
    PROVE  writer' \in WriterTypes /\ WriterOK'
<1>1. \A i \in Ids : upd'[i].onResult = IF i = id THEN NoWriter ELSE upd[i].onResult
  BY Records DEF UpdRecord
<1>2. ASSUME NEW w \in Writers
      PROVE  /\ writer'[w] \in WriterRecord
             /\ writer'[w].state = writer[w].state /\ writer'[w].dataSize = writer[w].dataSize
             /\ \/ /\ id \in Pending(w) /\ Pending(w)' = Pending(w) \ {id}
                   /\ writer'[w].executed = writer[w].executed + 1
                \/ /\ Pending(w)' = Pending(w)
                   /\ writer'[w].executed = writer[w].executed
  <2> DEFINE S == {i \in {id} : upd[i].onResult = w}
             mine == Cardinality(S)
             n == writer[w].executed + mine
             b == writer[w].ok /\ (ok \/ mine = 0)
  <2>1. writer'[w] = [writer[w] EXCEPT !.executed = n, !.ok = b]
    BY DEF Notified
  <2>2. \/ upd[id].onResult = w /\ mine = 1
        \/ upd[id].onResult # w /\ mine = 0
    <3>1. CASE upd[id].onResult = w
      <4>1. S = {id}
        BY <3>1
      <4>2. Cardinality({id}) = 1
        BY FS_Singleton
      <4> QED BY <3>1, <4>1, <4>2
    <3>2. CASE upd[id].onResult # w
      <4>1. S = {}
        BY <3>2
      <4> QED BY <3>2, <4>1, FS_EmptySet
    <3> QED BY <3>1, <3>2
  <2>3. writer[w] \in WriterRecord /\ writer[w].executed \in Nat
    BY WriterTypeOK
  <2>4. b \in BOOLEAN
    OBVIOUS
  <2> HIDE DEF mine, b
  <2>5. n \in Nat
    BY <2>2, <2>3
  <2> HIDE DEF n
  <2>6. /\ writer'[w] \in WriterRecord /\ writer'[w].executed = n
        /\ writer'[w].state = writer[w].state /\ writer'[w].dataSize = writer[w].dataSize
    BY <2>1, <2>3, <2>4, <2>5 DEF WriterRecord
  <2>7. w # NoWriter
    BY PushSizeOK
  <2>8. CASE upd[id].onResult = w
    <3>1. id \in Pending(w) /\ Pending(w)' = Pending(w) \ {id}
      BY <1>1, <2>7, <2>8 DEF Pending
    <3> QED BY <2>2, <2>3, <2>6, <2>8, <3>1 DEF n
  <2>9. CASE upd[id].onResult # w
    <3>1. Pending(w)' = Pending(w)
      BY <1>1, <2>7, <2>9 DEF Pending
    <3> QED BY <2>2, <2>3, <2>6, <2>9, <3>1 DEF n
  <2> QED BY <2>8, <2>9
<1>3. writer' \in WriterTypes
  <2>1. writer' = [w \in Writers |-> writer'[w]]
    BY DEF Notified
  <2> QED BY <1>2, <2>1 DEF WriterTypes
<1>4. WriterOK'
  <2> SUFFICES ASSUME NEW w \in Writers
               PROVE  /\ writer'[w].state = "idle" => writer'[w].executed = 0
                      /\ writer'[w].state = "waiting" =>
                           writer'[w].executed + Cardinality(Pending(w)') = writer'[w].dataSize
                      /\ writer'[w].state # "waiting" => Pending(w)' = {}
    BY DEF WriterOK
  <2>1. /\ writer[w].state = "idle" => writer[w].executed = 0
        /\ writer[w].state = "waiting" =>
             writer[w].executed + Cardinality(Pending(w)) = writer[w].dataSize
        /\ writer[w].state # "waiting" => Pending(w) = {}
    BY DEF WriterOK
  <2>2. CASE /\ id \in Pending(w) /\ Pending(w)' = Pending(w) \ {id}
             /\ writer'[w].executed = writer[w].executed + 1
    <3>1. IsFiniteSet(Pending(w))
      BY FiniteSets DEF Pending
    <3>2. Cardinality(Pending(w)') \in Nat /\ Cardinality(Pending(w)) = Cardinality(Pending(w)') + 1
      BY <2>2, <3>1, RemoveOne
    <3>3. writer[w].state = "waiting" /\ writer[w].executed \in Nat /\ writer[w].dataSize \in Nat
      BY <2>1, <2>2, WriterTypeOK
    <3>4. writer[w].executed + Cardinality(Pending(w)) = writer[w].dataSize
      BY <2>1, <3>3
    <3>5. writer'[w].executed + Cardinality(Pending(w)') = writer[w].dataSize
      BY <2>2, <3>2, <3>3, <3>4
    <3>6. writer'[w].state = "waiting" /\ writer'[w].dataSize = writer[w].dataSize
      BY <1>2, <3>3
    <3> QED BY <3>5, <3>6
  <2>3. CASE Pending(w)' = Pending(w) /\ writer'[w].executed = writer[w].executed
    BY <1>2, <2>1, <2>3
  <2> QED BY <1>2, <2>2, <2>3
<1> QED BY <1>3, <1>4

\* When the last result of a chunk is sent, nobody waits for another one.
LEMMA LastResult ==
    ASSUME QueueInv, CallbackOK, NEW f \in Followers, status[f].result,
           NEW c \in ChunkIds, c = ptr[f], chunk[c].resultsSent + 1 = chunk[c].count
    PROVE  \A i \in Ids : ChunkOf(i) = c /\ i # status[f].id => upd[i].onResult = NoWriter
<1>0. Types /\ QueueOK /\ FreshOK /\ ReaderOK /\ ChunkCountsOK
  BY DEF QueueInv
<1>1. chunk[c].resultsSent + Cardinality(ResultsDue(c)) <= Cardinality(WithResult(c))
  BY <1>0 DEF ChunkCountsOK
<1>2. /\ Cardinality(WithResult(c)) \in Nat /\ Cardinality(WithResult(c)) <= chunk[c].count
      /\ Cardinality(WithResult(c)) = chunk[c].count => WithResult(c) = c..(c + chunk[c].count - 1)
  BY <1>0, ResultsInChunk
<1>3. f \in ResultsDue(c) /\ IsFiniteSet(ResultsDue(c))
  BY FiniteSets DEF ResultsDue
<1> DEFINE T == ResultsDue(c) \ {f}
<1>4. IsFiniteSet(T) /\ Cardinality(T) \in Nat /\ Cardinality(ResultsDue(c)) = Cardinality(T) + 1
  BY <1>3, RemoveOne
<1>5. chunk[c].count \in Nat /\ c \in Nat /\ chunk[c].resultsSent \in Nat
  BY <1>0, ChunkTypes, Numbers
<1> HIDE DEF T
<1>6. Cardinality(T) = 0 /\ Cardinality(WithResult(c)) = chunk[c].count
  BY <1>1, <1>2, <1>4, <1>5
<1>7. T = {}
  BY <1>4, <1>6, FS_EmptySet
<1>8. SUFFICES ASSUME NEW i \in Ids, ChunkOf(i) = c, i # status[f].id, upd[i].onResult # NoWriter
               PROVE  FALSE
  OBVIOUS
<1>9. Pushed(i)
  BY <1>0, <1>8 DEF FreshOK
<1>10. c <= i /\ i < c + chunk[c].count /\ i \in Nat
  BY <1>8, <1>9, ChunkOfOK, Numbers DEF Pushed
<1>11. HasResult(i)
  BY <1>2, <1>5, <1>6, <1>10 DEF WithResult
<1>12. PICK g \in Followers : status[g].result /\ status[g].id = i
  BY <1>8, <1>11 DEF CallbackOK
<1>13. ptr[g] = c
  BY <1>0, <1>8, <1>12, StatusOK, BusyNotIdle
<1>14. g # f
  BY <1>8, <1>12
<1> QED BY <1>7, <1>12, <1>13, <1>14 DEF ResultsDue, T

LEMMA SendResultStep ==
    ASSUME Inv, NEW f \in Followers, SendResult(f)
    PROVE  Inv'
<1>0. /\ Types /\ QueueOK /\ FreshOK /\ ReaderOK /\ CountsOK /\ ChunkCountsOK
      /\ WriterOK /\ CallbackOK /\ GoneOK /\ SizeOK /\ SweepOK /\ AwaitsNothing /\ QueueInv
  BY DEF Inv, QueueInv
<1>1. status[f].result
  BY DEF SendResult
<1>2. status[f] # Idle /\ ~status[f].sent /\ ~status[f].sweep /\ status[f] \in StatusRecord
  BY <1>0, <1>1, BusyNotIdle, StatusTypes DEF ReaderOK
<1>3. PICK id \in Ids, d \in ChunkIds : id = status[f].id /\ d = ChunkOf(id) /\ ptr[f] = d
  BY <1>0, <1>2, StatusOK
<1>4. status[f].ok \in BOOLEAN
  BY <1>2 DEF StatusRecord
<1> DEFINE b == firstChunkID' # firstChunkID
           st == [status[f] EXCEPT !.result = FALSE, !.sweep = b]
           ch == [chunk EXCEPT ![d].resultsSent = @ + 1]
           n == chunk[d].resultsSent + 1
<1>5. /\ status' = [status EXCEPT ![f] = Done(st)]
      /\ UNCHANGED <<nextChunkID, dropRecord, invalidated, switches, nextUpdateId, ptr, awaits>>
  BY DEF SendResult, readerVars
<1>6. \/ /\ InQueue(d) /\ chunk' = ch /\ writer' = Notified(writer, {id}, status[f].ok)
         /\ upd' = [upd EXCEPT ![id].onResult = NoWriter] /\ Erases
      \/ ~InQueue(d) /\ UNCHANGED <<chunk, writer, upd, firstChunkID, dataSize>>
  BY <1>3 DEF SendResult, EraseAfterResult, EraseReplicated, Erases, TotalSizeBytes
<1>7. b \in BOOLEAN
  OBVIOUS
<1> HIDE DEF b
<1>8. /\ st \in StatusRecord /\ ~st.sent /\ st.id = status[f].id /\ ~st.result
      /\ st.erase = status[f].erase /\ st.sweep = b
  BY <1>2, <1>7 DEF StatusRecord
<1> HIDE DEF st
<1>9. n \in Nat /\ chunk[d] \in ChunkRecord
  BY <1>0, <1>3, ChunkTypes, Records
<1>10. /\ ch \in [ChunkIds -> ChunkRecord] /\ ch[d].resultsSent = n
       /\ \A c \in ChunkIds : c # d => ch[c] = chunk[c]
       /\ ch[d].count = chunk[d].count /\ ch[d].erased = chunk[d].erased
       /\ ch[d].invalidated = chunk[d].invalidated
  <2> DEFINE r == [chunk[d] EXCEPT !.resultsSent = n]
  <2>1. /\ r \in ChunkRecord /\ r.resultsSent = n /\ r.count = chunk[d].count
        /\ r.erased = chunk[d].erased /\ r.invalidated = chunk[d].invalidated
    <3> HIDE DEF n
    <3> QED BY <1>9 DEF ChunkRecord
  <2>2. ch = [chunk EXCEPT ![d] = r]
    OBVIOUS
  <2> HIDE DEF r, ch
  <2> QED BY <1>0, <1>3, <2>1, <2>2, Records
<1> HIDE DEF ch, n
<1>11. /\ chunk' \in [ChunkIds -> ChunkRecord]
       /\ \A c \in ChunkIds : /\ chunk'[c].count = chunk[c].count
                              /\ chunk'[c].erased = chunk[c].erased
                              /\ chunk'[c].invalidated = chunk[c].invalidated
                              /\ c # d => chunk'[c] = chunk[c]
  BY <1>0, <1>6, <1>10, Records
<1>12. /\ upd' \in [Ids -> UpdRecord]
       /\ \A i \in Ids : /\ upd'[i].emitter = upd[i].emitter
                         /\ upd'[i].replicatedToEmitter = upd[i].replicatedToEmitter
                         /\ upd'[i].replicas = upd[i].replicas
                         /\ upd'[i].approves = upd[i].approves /\ upd'[i].errors = upd[i].errors
                         /\ i # id => upd'[i] = upd[i]
                         /\ upd'[i].onResult = upd[i].onResult \/ upd'[i].onResult = NoWriter
                         /\ InQueue(d) => upd'[id].onResult = NoWriter
  <2>1. CASE upd' = upd /\ ~InQueue(d)
    BY <1>0, <2>1, Records
  <2>2. CASE upd' = [upd EXCEPT ![id].onResult = NoWriter]
    <3> DEFINE r == [upd[id] EXCEPT !.onResult = NoWriter]
    <3>1. upd[id] \in UpdRecord
      BY <1>0, Records
    <3>2. /\ r \in UpdRecord /\ r.onResult = NoWriter /\ r.emitter = upd[id].emitter
          /\ r.replicatedToEmitter = upd[id].replicatedToEmitter /\ r.replicas = upd[id].replicas
          /\ r.approves = upd[id].approves /\ r.errors = upd[id].errors
      BY <3>1 DEF UpdRecord
    <3>3. upd' = [upd EXCEPT ![id] = r]
      BY <2>2
    <3> HIDE DEF r
    <3>4. /\ upd' \in [Ids -> UpdRecord] /\ upd'[id] = r
          /\ \A j \in Ids : j # id => upd'[j] = upd[j]
      BY <1>0, <3>2, <3>3, UpdSet
    <3> QED BY <3>2, <3>4
  <2> QED BY <1>6, <2>1, <2>2
<1>13. writer' \in WriterTypes /\ WriterOK'
  <2>1. CASE writer' = writer /\ upd' = upd
    BY <1>0, <2>1, Records DEF WriterOK, Pending
  <2>2. CASE /\ writer' = Notified(writer, {id}, status[f].ok)
             /\ upd' = [upd EXCEPT ![id].onResult = NoWriter]
    BY <1>0, <1>4, <2>2, NotifyOne
  <2> QED BY <1>6, <2>1, <2>2
<1>14. /\ firstChunkID' \in ChunkEnds /\ firstChunkID' <= nextChunkID /\ dataSize' \in Int
       /\ QueueOK' /\ GoneOK' /\ SizeOK' /\ AwaitsNothing'
       /\ \A c \in ChunkIds : InQueue(c)' => InQueue(c)
       /\ InQueue(d) /\ firstChunkID' = firstChunkID => IsEmpty' \/ ~Erasable(firstChunkID', chunk')
       /\ \A c \in ChunkIds : InQueue(c) /\ ~InQueue(c)' => chunk'[c].resultsSent = chunk[c].count
  <2>1. CASE Erases
    BY <1>5, <1>11, <2>1, EraseEffect
  <2>2. CASE ~InQueue(d) /\ UNCHANGED <<chunk, writer, upd, firstChunkID, dataSize>>
    <3>1. /\ firstChunkID \in ChunkEnds /\ firstChunkID <= nextChunkID /\ dataSize \in Int
      BY <1>0, Records
    <3>2. QueueOK' /\ GoneOK' /\ SizeOK' /\ AwaitsNothing'
      BY <1>0, <1>5, <2>2 DEF QueueOK, SizeOK, GoneOK, AwaitsNothing, InQueue, Pushed,
                              GetNextUpdateID, IsEmpty, Back, ReadsDropRecord, ChunkToRead
    <3>3. \A c \in ChunkIds : InQueue(c)' <=> InQueue(c)
      BY <1>5, <2>2 DEF InQueue
    <3> QED BY <2>2, <3>1, <3>2, <3>3
  <2> QED BY <1>6, <2>1, <2>2
<1>15. /\ status' \in [Followers -> StatusRecord] /\ ReaderOK'
       /\ \A g \in Followers : g # f => status'[g] = status[g]
       /\ ~status'[f].sent /\ status'[f].result = st.result /\ status'[f].erase = st.erase
       /\ status'[f].sweep = st.sweep
  BY <1>0, <1>2, <1>5, <1>8, <1>11, StatusStep
<1>16. Types'
  <2>1. /\ nextChunkID' \in ChunkEnds /\ dropRecord' \in Ids \cup {-1}
        /\ invalidated' \in BOOLEAN /\ switches' \in 0..MaxSwitches
        /\ nextUpdateId' \in [Followers -> Nat]
        /\ ptr' \in [Followers -> ChunkIds \cup {NoChunk}] /\ awaits' \in [Followers -> BOOLEAN]
    BY <1>0, <1>5, Records
  <2>2. firstChunkID' <= nextChunkID'
    BY <1>5, <1>14
  <2> QED BY <1>11, <1>12, <1>13, <1>14, <1>15, <2>1, <2>2, RecordsNext
<1>17. FreshOK'
  <2>1. \A i \in Ids : Pushed(i)' <=> Pushed(i)
    BY <1>11, ChunkOfOK DEF Pushed
  <2> QED BY <1>0, <1>12, <2>1 DEF FreshOK
<1>18. /\ CountsOK'
       /\ \A c \in ChunkIds : WithResult(c)' = WithResult(c) /\ Replicas(c)' = Replicas(c)
       /\ \A i \in Ids : HasResult(i)' <=> HasResult(i)
  BY <1>0, <1>2, <1>5, <1>12, <1>15, SameCounts
<1>19. ChunkCountsOK'
  <2>1. \A c \in ChunkIds : /\ ErasuresDue(c)' = ErasuresDue(c)
                            /\ c # d => ResultsDue(c)' = ResultsDue(c)
    BY <1>3, <1>5, <1>8, <1>15 DEF ErasuresDue, ResultsDue
  <2>2. Cardinality(ResultsDue(d)) = Cardinality(ResultsDue(d)') + 1
        /\ Cardinality(ResultsDue(d)') \in Nat
    <3>1. f \in ResultsDue(d) /\ ResultsDue(d)' = ResultsDue(d) \ {f}
      BY <1>1, <1>3, <1>5, <1>8, <1>15 DEF ResultsDue
    <3>2. IsFiniteSet(ResultsDue(d))
      BY FiniteSets DEF ResultsDue
    <3> QED BY <3>1, <3>2, RemoveOne
  <2>3. /\ chunk'[d].resultsSent = chunk[d].resultsSent
           \/ chunk'[d].resultsSent = chunk[d].resultsSent + 1
        /\ InQueue(d) => chunk'[d].resultsSent = chunk[d].resultsSent + 1
    BY <1>6, <1>10 DEF n
  <2>4. /\ chunk[d].resultsSent + Cardinality(ResultsDue(d)) <= Cardinality(WithResult(d))
        /\ InQueue(d) =>
             chunk[d].resultsSent + Cardinality(ResultsDue(d)) = Cardinality(WithResult(d))
        /\ chunk[d].resultsSent \in Nat /\ Cardinality(WithResult(d)) \in Nat
    BY <1>0, ChunkTypes, FiniteSets DEF ChunkCountsOK, WithResult
  <2>5. /\ chunk'[d].resultsSent + Cardinality(ResultsDue(d)') <= Cardinality(WithResult(d))
        /\ InQueue(d) =>
             chunk'[d].resultsSent + Cardinality(ResultsDue(d)') = Cardinality(WithResult(d))
    BY <2>2, <2>3, <2>4
  <2>6. ASSUME NEW c \in ChunkIds
        PROVE  /\ chunk'[c].resultsSent + Cardinality(ResultsDue(c)') <= Cardinality(WithResult(c))
               /\ InQueue(c)' =>
                    chunk'[c].resultsSent + Cardinality(ResultsDue(c)') = Cardinality(WithResult(c))
               /\ chunk'[c].erased + Cardinality(ErasuresDue(c)') = Cardinality(Replicas(c))
    <3>1. chunk'[c].erased + Cardinality(ErasuresDue(c)') = Cardinality(Replicas(c))
      BY <1>0, <1>11, <2>1 DEF ChunkCountsOK
    <3>2. CASE c = d
      BY <1>14, <2>5, <3>1, <3>2
    <3>3. CASE c # d
      BY <1>0, <1>11, <1>14, <2>1, <3>1, <3>3 DEF ChunkCountsOK
    <3> QED BY <3>2, <3>3
  <2> QED BY <1>18, <2>6 DEF ChunkCountsOK
<1>20. CallbackOK'
  <2>1. ASSUME NEW i \in Ids, ~InQueue(ChunkOf(i))' PROVE upd'[i].onResult = NoWriter
    <3> DEFINE c == ChunkOf(i)
    <3>1. c \in ChunkIds
      BY ChunkOfOK
    <3>2. CASE InQueue(c)
      <4>1. chunk'[c].resultsSent = chunk[c].count
        BY <1>14, <2>1, <3>1, <3>2
      <4>2. CASE c # d
        <5>1. chunk[c].resultsSent = chunk[c].count
          BY <1>11, <3>1, <4>1, <4>2
        <5>2. upd[i].onResult = NoWriter
          BY <1>0, <3>1, <5>1, AllSentOK
        <5> QED BY <1>12, <5>2
      <4>3. CASE c = d
        <5>1. chunk[d].resultsSent + 1 = chunk[d].count
          BY <1>6, <1>10, <3>2, <4>1, <4>3 DEF n
        <5>2. i # id => upd[i].onResult = NoWriter
          BY <1>0, <1>1, <1>3, <4>3, <5>1, LastResult
        <5> QED BY <1>12, <3>2, <4>3, <5>2
      <4> QED BY <4>2, <4>3
    <3>3. CASE ~InQueue(c)
      BY <1>0, <1>12, <3>3 DEF CallbackOK
    <3> QED BY <3>2, <3>3
  <2>2. ASSUME NEW i \in Ids, HasResult(i), upd'[i].onResult # NoWriter
        PROVE  \E g \in Followers : status'[g].result /\ status'[g].id = i
    <3>1. upd[i].onResult # NoWriter
      BY <1>12, <2>2
    <3>2. PICK g \in Followers : status[g].result /\ status[g].id = i
      BY <1>0, <2>2, <3>1 DEF CallbackOK
    <3>3. i # id
      <4>1. SUFFICES ASSUME i = id PROVE FALSE
        OBVIOUS
      <4>2. ~InQueue(d)
        BY <1>12, <2>2, <4>1
      <4> QED BY <1>0, <1>3, <3>1, <4>1, <4>2 DEF CallbackOK
    <3>4. g # f
      BY <1>3, <3>2, <3>3
    <3> QED BY <1>15, <3>2, <3>4
  <2> QED BY <1>18, <2>1, <2>2 DEF CallbackOK
<1>21. SweepOK'
  <2>1. CASE firstChunkID' # firstChunkID
    BY <1>8, <1>15, <2>1 DEF SweepOK, b
  <2>2. CASE InQueue(d) /\ firstChunkID' = firstChunkID
    BY <1>14, <2>2 DEF SweepOK
  <2>3. CASE ~InQueue(d)
    <3>1. UNCHANGED <<chunk, firstChunkID, nextChunkID>>
      BY <1>5, <1>6, <2>3
    <3>2. \A g \in Followers : status[g].sweep => status'[g].sweep
      BY <1>2, <1>15
    <3> QED BY <1>0, <3>1, <3>2 DEF SweepOK, IsEmpty
  <2> QED BY <2>1, <2>2, <2>3
<1> QED BY <1>13, <1>14, <1>15, <1>16, <1>17, <1>18, <1>19, <1>20, <1>21 DEF Inv, QueueInv

----------------------------------------------------------------------------
(* The invariant                                                           *)

LEMMA InitInv == Init => Inv
<1> SUFFICES ASSUME Init PROVE Inv
  OBVIOUS
<1>1. /\ firstChunkID = 0 /\ nextChunkID = 0 /\ dataSize = 0 /\ dropRecord = -1
      /\ invalidated = FALSE /\ switches = 0
      /\ chunk = [c \in ChunkIds |-> [count |-> 0, erased |-> 0, resultsSent |-> 0,
                                      invalidated |-> FALSE]]
      /\ upd = [i \in Ids |-> [emitter |-> NoEmitter, onResult |-> NoWriter,
                               replicatedToEmitter |-> FALSE, replicas |-> 0,
                               approves |-> 1, errors |-> 0]]
      /\ writer = [w \in Writers |-> [state |-> "idle", dataSize |-> 0, first |-> 0,
                                      executed |-> 0, ok |-> TRUE]]
      /\ nextUpdateId = [f \in Followers |-> 0]
      /\ ptr = [f \in Followers |-> NoChunk]
      /\ awaits = [f \in Followers |-> FALSE]
      /\ status = [f \in Followers |-> Idle]
  BY DEF Init
<1>2. /\ 0 \in ChunkEnds /\ 0 \in 0..BatchSize /\ 0 \in 0..MaxSwitches /\ 0 \in Ids
      /\ \A c \in ChunkIds : c \in Nat
  BY ChunkEndsOK, Numbers, Sizes, UpdatesQueueAssumption DEF UpdatesQueueAssumption
<1>3. Types
  <2>1. chunk \in [ChunkIds -> ChunkRecord]
    BY <1>1, <1>2 DEF ChunkRecord
  <2>2. upd \in [Ids -> UpdRecord]
    BY <1>1 DEF UpdRecord
  <2>3. writer \in WriterTypes
    BY <1>1 DEF WriterTypes, WriterRecord
  <2>4. status \in [Followers -> StatusRecord]
    BY <1>1 DEF StatusRecord, Idle
  <2>5. ptr \in [Followers -> ChunkIds \cup {NoChunk}]
    BY <1>1
  <2>6. nextUpdateId \in [Followers -> Nat] /\ awaits \in [Followers -> BOOLEAN]
    BY <1>1
  <2>7. /\ firstChunkID \in ChunkEnds /\ nextChunkID \in ChunkEnds
        /\ firstChunkID <= nextChunkID /\ dataSize \in Int /\ dropRecord \in Ids \cup {-1}
        /\ switches \in 0..MaxSwitches
    <3>1. /\ firstChunkID = 0 /\ nextChunkID = 0 /\ dataSize = 0 /\ dropRecord = -1
          /\ switches = 0
      BY DEF Init
    <3> QED BY <1>2, <3>1
  <2>8. invalidated \in BOOLEAN
    BY DEF Init
  <2> QED BY <2>1, <2>2, <2>3, <2>4, <2>5, <2>6, <2>7, <2>8, Records
<1>4. \A c \in ChunkIds : ~InQueue(c)
  BY <1>1, <1>2 DEF InQueue
<1>5. QueueOK
  BY <1>1, <1>4 DEF QueueOK
<1>6. FreshOK
  BY <1>1 DEF FreshOK
<1>7. \A f \in Followers : /\ ~status[f].sent /\ ~status[f].result /\ ~status[f].erase
                           /\ status[f] = Idle
  BY <1>1 DEF Idle
<1>8. ReaderOK
  BY <1>1, <1>7 DEF ReaderOK
<1>9. CountsOK
  <2>1. \A i \in Ids : Cardinality(Counted(i)) \in Nat
    BY FiniteSets DEF Counted, Handled
  <2> QED BY <1>1, <2>1 DEF CountsOK
<1>10. ChunkCountsOK
  <2>1. \A c \in ChunkIds : /\ ResultsDue(c) = {} /\ ErasuresDue(c) = {}
                            /\ WithResult(c) = {} /\ Replicas(c) = {}
    <3>1. \A i \in Ids : ~HasResult(i) /\ upd[i].replicas # RequiredReplicas
      BY <1>1, Nodes DEF HasResult
    <3> QED BY <1>7, <3>1 DEF ResultsDue, ErasuresDue, WithResult, Replicas
  <2>2. Cardinality({}) = 0
    BY FS_EmptySet
  <2>3. \A c \in ChunkIds : chunk[c].resultsSent = 0 /\ chunk[c].erased = 0
    BY <1>1
  <2> QED BY <2>1, <2>2, <2>3 DEF ChunkCountsOK
<1>11. WriterOK
  <2>1. \A w \in Writers : Pending(w) = {}
    BY <1>1, PushSizeOK DEF Pending
  <2> QED BY <1>1, <2>1 DEF WriterOK
<1>12. CallbackOK
  BY <1>1 DEF CallbackOK
<1>13. GoneOK
  BY <1>1, <1>2 DEF GoneOK
<1>14. SizeOK
  <2>1. ChunksIn(0, 0) = {}
    BY <1>2 DEF ChunksIn
  <2>2. Cardinality({}) = 0
    BY FS_EmptySet
  <2>3. GetNextUpdateID = 0
    BY <1>1 DEF GetNextUpdateID, IsEmpty
  <2>4. firstChunkID = 0 /\ nextChunkID = 0 /\ dataSize = 0
    BY <1>1
  <2> QED BY <2>1, <2>2, <2>3, <2>4 DEF SizeOK
<1>15. SweepOK /\ AwaitsNothing
  BY <1>1 DEF SweepOK, AwaitsNothing, IsEmpty
<1> QED BY <1>3, <1>5, <1>6, <1>8, <1>9, <1>10, <1>11, <1>12, <1>13, <1>14, <1>15
        DEF Inv, QueueInv

LEMMA StepInv == Inv /\ [Next]_vars => Inv'
<1> SUFFICES ASSUME Inv, [Next]_vars PROVE Inv'
  OBVIOUS
<1>1. CASE Push
  BY <1>1, PushAndWaitStep, PushAsyncStep DEF Push
<1>2. CASE \E w \in Writers : Return(w)
  BY <1>2, ReturnStep
<1>3. CASE SetUnwritable
  BY <1>3, SetUnwritableStep
<1>4. CASE SetWritable
  BY <1>4, SetWritableStep
<1>5. ASSUME NEW f \in Followers, Reader(f) PROVE Inv'
  BY <1>5, ReadStep, LeaveChunkStep, ApplyUpdateStep, ReplicatedStep, SendResultStep,
     CountErasedStep, SweepStep DEF Reader
<1>6. CASE UNCHANGED vars
  <2>1. UNCHANGED <<queueVars, chunk, upd, readerVars, status>>
        /\ UNCHANGED <<invalidated, switches, writer>>
    BY <1>6 DEF vars
  <2>2. Types'
    BY <2>1 DEF Inv, QueueInv, Types, queueVars, readerVars
  <2>3. WriterOK'
    BY <2>1 DEF Inv, WriterOK, Pending
  <2> QED BY <2>1, <2>2, <2>3, SameQueue
<1> QED BY <1>1, <1>2, <1>3, <1>4, <1>5, <1>6 DEF Next

\* The queue, the counters of its chunks and updates, the callbacks and the
\* readers always agree, as Inv says.
THEOREM QueueInvariant == Spec => []Inv
  BY InitInv, StepInv, PTL DEF Spec

----------------------------------------------------------------------------
(* What follows from it                                                    *)

\* A result never reaches a PushAndWait that has returned, and no chunk sends
\* more results than it has updates: onResult_ is reset by whoever calls it.
THEOREM CallbackAlive == Spec => []CallbackIsAlive
<1>1. ASSUME Inv PROVE CallbackIsAlive
  <2>0. Types /\ QueueOK /\ FreshOK /\ ChunkCountsOK /\ WriterOK
    BY <1>1 DEF Inv, QueueInv
  <2>1. ASSUME NEW i \in Ids, upd[i].onResult # NoWriter
        PROVE  /\ writer[upd[i].onResult].state = "waiting"
               /\ writer[upd[i].onResult].executed < writer[upd[i].onResult].dataSize
    <3>1. PICK w \in Writers : w = upd[i].onResult
      BY <2>0, <2>1, UpdTypes
    <3>2. i \in Pending(w)
      BY <3>1 DEF Pending
    <3>3. writer[w].state = "waiting"
      BY <2>0, <3>2 DEF WriterOK
    <3>4. writer[w].executed + Cardinality(Pending(w)) = writer[w].dataSize
      BY <2>0, <3>3 DEF WriterOK
    <3>5. IsFiniteSet(Pending(w)) /\ Cardinality(Pending(w)) \in Nat
      BY FiniteSets DEF Pending
    <3>6. Cardinality(Pending(w)) # 0
      BY <3>2, <3>5, FS_EmptySet
    <3>7. writer[w].executed \in Nat /\ writer[w].dataSize \in Nat
      BY <2>0, WriterTypeOK
    <3>8. writer[w].executed < writer[w].dataSize
      BY <3>4, <3>5, <3>6, <3>7
    <3> QED BY <3>1, <3>3, <3>8
  <2>2. \A c \in ChunkIds : chunk[c].resultsSent <= chunk[c].count
    BY <2>0, SentBelowCount
  <2> QED BY <2>1, <2>2 DEF CallbackIsAlive
<1> QED BY <1>1, QueueInvariant, PTL

\* A reader is asleep only when Read would give it nothing: no push is lost on
\* it between its look at the queue and its wait.
THEOREM AwaitsNone == Spec => []AwaitsNothing
<1>1. Inv => AwaitsNothing
  BY DEF Inv
<1> QED BY <1>1, QueueInvariant, PTL

\* dataSize_ is the size of what is in the queue, whichever of a push, a drop,
\* an erasure and a role switch changed it last.
THEOREM SizeExact == Spec => []DataSizeExact
<1>1. ASSUME Inv PROVE DataSizeExact
  <2>0. Types /\ QueueOK /\ SizeOK
    BY <1>1 DEF Inv, QueueInv
  <2> DEFINE a == firstChunkID
             n == GetNextUpdateID - firstChunkID
             S == {i \in Ids : InQueue(ChunkOf(i)) /\ Pushed(i)}
  <2>1. a \in Nat /\ GetNextUpdateID \in Nat /\ a <= GetNextUpdateID /\ GetNextUpdateID <= LastEnd
        /\ GetNextUpdateID <= nextChunkID /\ nextChunkID \in Nat
    BY <2>0, NextIdOK, Sizes
  <2>2. n \in Nat /\ a + n - 1 = GetNextUpdateID - 1
    BY <2>1
  <2>3. S = a..(GetNextUpdateID - 1)
    <3>1. ASSUME NEW i \in S PROVE i \in a..(GetNextUpdateID - 1)
      <4>1. i \in Ids /\ i \in Nat /\ a <= i /\ i < GetNextUpdateID
        BY <2>0, <3>1, PushedOK, Numbers
      <4> QED BY <2>1, <4>1
    <3>2. ASSUME NEW i \in a..(GetNextUpdateID - 1) PROVE i \in S
      <4>1. i \in Ids /\ a <= i /\ i < GetNextUpdateID /\ i < nextChunkID
        BY <2>1, <3>2, Sizes
      <4> QED BY <2>0, <4>1, PushedOK
    <3> HIDE DEF S
    <3> QED BY <3>1, <3>2
  <2>4. S = a..(a + n - 1) /\ a \in Int
    BY <2>1, <2>2, <2>3
  <2> HIDE DEF S, n
  <2>5. Cardinality(S) = n
    BY <2>2, <2>4, Interval, Zenon
  <2>6. Cardinality(ChunksIn(firstChunkID, nextChunkID)) \in Nat
    BY FiniteSets DEF ChunksIn
  <2>7. dataSize = Cardinality(ChunksIn(firstChunkID, nextChunkID)) + Cardinality(S)
    BY <2>0, <2>1, <2>5, <2>6 DEF SizeOK, n
  <2> QED BY <2>7 DEF DataSizeExact, S
<1> QED BY <1>1, QueueInvariant, PTL

\* A reader goes on by one update that it sends, jumps behind the drop record
\* it reads, or passes over what a role switch or a drop invalidated.
THEOREM SkipsNothing == Spec => NoSilentSkip
<1> DEFINE Skip(f) ==
             LET from == nextUpdateId[f]
                 to == nextUpdateId'[f]
             IN \/ to = from
                \/ to = from + 1 /\ status'[f].sent /\ status'[f].id = from
                \/ to = dropRecord + 1 /\ ptr'[f] = NoChunk
                \/ to > from /\ \A i \in from..(to - 1) :
                      i > dropRecord /\ (Pushed(i) => chunk[ChunkOf(i)].invalidated)
<1>1. ASSUME Inv, [Next]_vars PROVE \A f \in Followers : Skip(f)
  <2>0. Types /\ QueueOK /\ GoneOK
    BY <1>1 DEF Inv, QueueInv
  <2>1. CASE UNCHANGED nextUpdateId
    BY <2>1
  <2>2. ASSUME NEW g \in Followers, ApplyUpdate(g), NEW f \in Followers PROVE Skip(f)
    <3>1. /\ nextUpdateId' = [nextUpdateId EXCEPT ![g] = @ + 1]
          /\ status' = [status EXCEPT ![g] = [Idle EXCEPT !.id = nextUpdateId[g], !.sent = TRUE]]
      BY <2>2 DEF ApplyUpdate
    <3>2. CASE f = g
      <4>1. /\ nextUpdateId'[f] = nextUpdateId[f] + 1
            /\ status'[f] = [Idle EXCEPT !.id = nextUpdateId[f], !.sent = TRUE]
        BY <2>0, <3>1, <3>2 DEF Types
      <4>2. status'[f].sent /\ status'[f].id = nextUpdateId[f]
        BY <4>1 DEF Idle
      <4> QED BY <4>1, <4>2
    <3>3. CASE f # g
      BY <2>0, <3>1, <3>3 DEF Types
    <3> QED BY <3>2, <3>3
  <2>3. ASSUME NEW g \in Followers, Read(g), NEW f \in Followers PROVE Skip(f)
    <3>1. CASE f # g
      <4>1. nextUpdateId'[f] = nextUpdateId[f]
        BY <2>0, <2>3, <3>1 DEF Types, Read
      <4> QED BY <4>1
    <3>2. CASE f = g /\ ReadsDropRecord(f)
      <4>1. nextUpdateId'[f] = dropRecord + 1 /\ ptr'[f] = NoChunk
        BY <2>0, <2>3, <3>2 DEF Read, Types
      <4> QED BY <4>1
    <3>3. CASE f = g /\ ~ReadsDropRecord(f)
      <4> DEFINE c == ChunkToRead(f)
                 n == nextUpdateId[f]
      <4>1. nextUpdateId'[f] = IF c > n THEN c ELSE n
        BY <2>0, <2>3, <3>3 DEF Read, Types
      <4>2. n \in Nat /\ firstChunkID \in Nat /\ dropRecord \in Int
        BY <2>0, StatusTypes, NextIdOK, Numbers DEF Types
      <4>3. CASE ~(c > n)
        BY <4>1, <4>3
      <4>4. CASE c > n
        <5>1. c # NoChunk
          BY <4>2, <4>4 DEF NoChunk
        <5>2. c \in ChunkIds /\ (c = firstChunkID \/ c <= n)
          BY <2>0, <5>1, ChunkToReadOK
        <5>3. c \in Nat /\ c = firstChunkID /\ n < firstChunkID
          BY <4>2, <4>4, <5>2, Numbers
        <5>4. nextUpdateId'[f] = firstChunkID
          BY <4>1, <4>4, <5>3
        <5>5. ASSUME NEW i \in n..(firstChunkID - 1)
              PROVE  i > dropRecord /\ (Pushed(i) => chunk[ChunkOf(i)].invalidated)
          <6>1. i \in Nat /\ n <= i /\ i < firstChunkID /\ i \in Ids
            BY <2>0, <4>2, <5>2, <5>3, Numbers, Sizes
          <6>2. i > dropRecord
            BY <3>3, <4>2, <6>1 DEF ReadsDropRecord
          <6>3. ASSUME Pushed(i), ~chunk[ChunkOf(i)].invalidated PROVE FALSE
            <7>1. ChunkOf(i) \in ChunkIds /\ ChunkOf(i) <= i /\ ChunkOf(i) \in Nat
              BY <6>1, ChunkOfOK, Numbers
            <7>2. ChunkOf(i) < firstChunkID
              BY <4>2, <6>1, <7>1
            <7>3. nextUpdateId[f] > i
              BY <2>0, <6>1, <6>3, <7>1, <7>2 DEF GoneOK
            <7> QED BY <4>2, <6>1, <7>3
          <6> QED BY <6>2, <6>3
        <5> HIDE DEF c
        <5> QED BY <4>2, <5>3, <5>4, <5>5
      <4> QED BY <4>3, <4>4
    <3> QED BY <3>1, <3>2, <3>3
  <2>4. CASE Push
    BY <2>1, <2>4 DEF Push, PushAndWait, PushAsync
  <2>5. CASE \E w \in Writers : Return(w)
    BY <2>1, <2>5 DEF Return, readerVars
  <2>6. CASE SetUnwritable \/ SetWritable
    BY <2>1, <2>6 DEF SetUnwritable, SetWritable, readerVars
  <2>7. ASSUME NEW g \in Followers, Reader(g) PROVE \A f \in Followers : Skip(f)
    <3>1. CASE Read(g) \/ ApplyUpdate(g)
      BY <2>2, <2>3, <3>1
    <3>2. CASE LeaveChunk(g)
      BY <2>1, <3>2 DEF LeaveChunk
    <3>3. CASE \E ok \in BOOLEAN : Replicated(g, ok)
      BY <2>1, <3>3 DEF Replicated, readerVars
    <3>4. CASE SendResult(g) \/ CountErased(g) \/ Sweep(g)
      BY <2>1, <3>4 DEF SendResult, CountErased, Sweep, readerVars
    <3> QED BY <2>7, <3>1, <3>2, <3>3, <3>4 DEF Reader
  <2>8. CASE UNCHANGED vars
    BY <2>1, <2>8 DEF vars, readerVars
  <2> QED BY <1>1, <2>4, <2>5, <2>6, <2>7, <2>8 DEF Next
<1>2. ASSUME Inv, [Next]_vars
      PROVE  [\A f \in Followers :
               LET from == nextUpdateId[f]
                   to == nextUpdateId'[f]
               IN \/ to = from
                  \/ to = from + 1 /\ status'[f].sent /\ status'[f].id = from
                  \/ to = dropRecord + 1 /\ ptr'[f] = NoChunk
                  \/ to > from /\ \A i \in from..(to - 1) :
                        i > dropRecord /\ (Pushed(i) => chunk[ChunkOf(i)].invalidated)]_vars
  BY <1>1, <1>2
<1> QED BY <1>2, QueueInvariant, PTL DEF Spec, NoSilentSkip

----------------------------------------------------------------------------
(* How an update changes: it is pushed once, and then only counts up.      *)

Grows(i) ==
    /\ Pushed(i) => /\ Pushed(i)' /\ upd'[i].emitter = upd[i].emitter
                    /\ upd[i].replicatedToEmitter => upd'[i].replicatedToEmitter
                    /\ upd[i].approves <= upd'[i].approves
    /\ ~Pushed(i) /\ Pushed(i)' =>
          upd'[i].approves = 1 /\ (upd'[i].replicatedToEmitter <=> upd'[i].emitter = NoEmitter)

LEMMA SameGrows ==
    ASSUME Types, NEW i \in Ids, Pushed(i)' <=> Pushed(i), upd'[i].emitter = upd[i].emitter,
           upd'[i].replicatedToEmitter = upd[i].replicatedToEmitter,
           upd'[i].approves = upd[i].approves
    PROVE  Grows(i)
  BY UpdTypes DEF Grows

LEMMA AddGrows ==
    ASSUME Types, QueueOK, FreshOK, ChunkCountsOK, NEW k \in Nat \ {0}, NEW emitter, NEW w,
           HasRoom(k), AddDataToQueue(k, emitter, w), NEW i \in Ids
    PROVE  /\ Grows(i)
           /\ Pushed(i) => upd'[i] = upd[i]
           /\ ~(GetNextUpdateID <= i /\ i < GetNextUpdateID + k) => upd'[i] = upd[i]
           /\ GetNextUpdateID <= i /\ i < GetNextUpdateID + k => Pushed(i)' /\ upd'[i].onResult = w
<1>1. PICK from \in Nat, to \in Nat, end \in ChunkEnds, d \in ChunkIds :
        to = from + k /\ Added(emitter, w, from, to, end, d)
  BY AddEffect
<1>2. Added(emitter, w, from, to, end, d) /\ from = GetNextUpdateID
  BY <1>1 DEF Added
<1>3. /\ from <= i /\ i < to =>
           /\ ~Pushed(i) /\ Pushed(i)' /\ upd'[i].emitter = emitter /\ upd'[i].onResult = w
           /\ upd'[i].replicatedToEmitter <=> emitter = NoEmitter
           /\ upd'[i].approves = 1
      /\ ~(from <= i /\ i < to) => upd'[i] = upd[i] /\ (Pushed(i)' <=> Pushed(i))
  BY <1>2, AddedUpdates
<1>4. upd[i].approves \in Nat
  BY UpdTypes
<1> QED BY <1>1, <1>2, <1>3, <1>4 DEF Grows

LEMMA UpdatesGrow ==
    ASSUME Inv, [Next]_vars, NEW i \in Ids
    PROVE  Grows(i)
<1>0. Types /\ QueueOK /\ FreshOK /\ ReaderOK /\ CountsOK /\ ChunkCountsOK
  BY DEF Inv, QueueInv
<1>1. CASE UNCHANGED <<chunk, upd>>
  BY <1>0, <1>1, SameGrows DEF Pushed
<1>2. ChunkOf(i) \in ChunkIds
  BY ChunkOfOK
<1>3. CASE Push
  <2>1. ASSUME NEW w \in Writers, NEW k \in PushSizes, NEW e \in Emitters \cup {NoEmitter},
               PushAndWait(w, k, e)
        PROVE  Grows(i)
    <3>1. CASE invalidated
      BY <1>1, <2>1, <3>1 DEF PushAndWait
    <3>2. CASE ~invalidated
      BY <1>0, <2>1, <3>2, PushSizeOK, AddGrows DEF PushAndWait
    <3> QED BY <3>1, <3>2
  <2>2. ASSUME NEW k \in AsyncSizes, PushAsync(k) PROVE Grows(i)
    BY <1>0, <2>2, PushSizeOK, AddGrows DEF PushAsync
  <2> QED BY <1>3, <2>1, <2>2 DEF Push
<1>4. CASE \E w \in Writers : Return(w)
  BY <1>1, <1>4 DEF Return
<1>5. CASE SetUnwritable
  <2>1. chunk'[ChunkOf(i)].count = chunk[ChunkOf(i)].count
    BY <1>0, <1>2, <1>5, Records DEF SetUnwritable, ChunkRecord
  <2>2. /\ upd'[i].emitter = upd[i].emitter /\ upd'[i].approves = upd[i].approves
        /\ upd'[i].replicatedToEmitter = upd[i].replicatedToEmitter
    <3>1. upd'[i] = upd[i] \/ upd'[i] = [upd[i] EXCEPT !.onResult = NoWriter]
      BY <1>5 DEF SetUnwritable
    <3>2. upd[i] \in UpdRecord
      BY <1>0, Records
    <3> QED BY <3>1, <3>2 DEF UpdRecord
  <2>3. Pushed(i)' <=> Pushed(i)
    BY <2>1 DEF Pushed
  <2> QED BY <1>0, <2>2, <2>3, SameGrows
<1>6. CASE SetWritable
  BY <1>1, <1>6 DEF SetWritable
<1>7. ASSUME NEW f \in Followers, Reader(f) PROVE Grows(i)
  <2>1. CASE Read(f) \/ LeaveChunk(f) \/ ApplyUpdate(f) \/ Sweep(f)
    BY <1>1, <2>1 DEF Read, LeaveChunk, ApplyUpdate, Sweep
  <2>2. ASSUME NEW ok \in BOOLEAN, Replicated(f, ok) PROVE Grows(i)
    <3>1. PICK id : Answers(f, ok, id)
      BY <1>0, <2>2, ReplicatedEffect
    <3>2. Pushed(i)' <=> Pushed(i)
      BY <3>1 DEF Answers, Pushed
    <3>3. CASE i # id
      BY <1>0, <3>1, <3>2, <3>3, SameGrows DEF Answers
    <3>4. CASE i = id
      BY <1>0, <3>1, <3>2, <3>4, UpdTypes DEF Answers, Grows
    <3> QED BY <3>3, <3>4
  <2>3. CASE SendResult(f)
    <3>1. chunk'[ChunkOf(i)].count = chunk[ChunkOf(i)].count
      BY <1>0, <1>2, <2>3, Records DEF SendResult, ChunkRecord
    <3>2. /\ upd'[i].emitter = upd[i].emitter /\ upd'[i].approves = upd[i].approves
          /\ upd'[i].replicatedToEmitter = upd[i].replicatedToEmitter
      <4>1. upd \in [Ids -> UpdRecord]
        BY <1>0, Records
      <4>2. upd' = upd \/ upd' = [upd EXCEPT ![status[f].id].onResult = NoWriter]
        BY <2>3 DEF SendResult
      <4>3. upd'[i] = upd[i] \/ upd'[i] = [upd[i] EXCEPT !.onResult = NoWriter]
        BY <4>1, <4>2
      <4>4. upd[i] \in UpdRecord
        BY <4>1
      <4> QED BY <4>3, <4>4 DEF UpdRecord
    <3>3. Pushed(i)' <=> Pushed(i)
      BY <3>1 DEF Pushed
    <3> QED BY <1>0, <3>2, <3>3, SameGrows
  <2>4. CASE CountErased(f)
    <3>1. chunk'[ChunkOf(i)].count = chunk[ChunkOf(i)].count /\ upd' = upd
      BY <1>0, <1>2, <2>4, Records DEF CountErased, ChunkRecord
    <3>2. Pushed(i)' <=> Pushed(i)
      BY <3>1 DEF Pushed
    <3> QED BY <1>0, <3>1, <3>2, SameGrows
  <2> QED BY <1>7, <2>1, <2>2, <2>3, <2>4 DEF Reader
<1>8. CASE UNCHANGED vars
  BY <1>1, <1>8 DEF vars
<1> QED BY <1>3, <1>4, <1>5, <1>6, <1>7, <1>8 DEF Next

\* A write of no follower has nothing to wait for but the consensus, and the
\* leader itself approves every update.
EmitterOK ==
    \A i \in Ids : /\ upd[i].approves >= 1
                   /\ Pushed(i) /\ upd[i].emitter = NoEmitter => upd[i].replicatedToEmitter

LEMMA EmitterInvariant == Spec => []EmitterOK
<1>1. Init => EmitterOK
  <2> SUFFICES ASSUME Init, NEW i \in Ids PROVE upd[i].approves >= 1 /\ ~Pushed(i)
    BY DEF EmitterOK
  <2>1. ChunkOf(i) \in ChunkIds /\ ChunkOf(i) <= i /\ i \in Nat /\ ChunkOf(i) \in Nat
    BY ChunkOfOK, Numbers
  <2>2. upd[i].approves = 1 /\ chunk[ChunkOf(i)].count = 0
    BY <2>1 DEF Init
  <2> QED BY <2>1, <2>2 DEF Pushed
<1>2. ASSUME Inv, Inv', EmitterOK, [Next]_vars PROVE EmitterOK'
  <2> SUFFICES ASSUME NEW i \in Ids
               PROVE  /\ upd'[i].approves >= 1
                      /\ Pushed(i)' /\ upd'[i].emitter = NoEmitter => upd'[i].replicatedToEmitter
    BY DEF EmitterOK
  <2>1. Grows(i)
    BY <1>2, UpdatesGrow
  <2>2. upd[i].approves \in Nat /\ upd'[i].approves \in Nat
    BY <1>2, UpdTypes DEF Inv, QueueInv, Types
  <2>3. ~Pushed(i)' => upd'[i].approves = 1
    BY <1>2 DEF Inv, QueueInv, FreshOK
  <2> QED BY <1>2, <2>1, <2>2, <2>3 DEF Grows, EmitterOK
<1> QED BY <1>1, <1>2, QueueInvariant, PTL DEF Spec

----------------------------------------------------------------------------
(* When all followers have answered and the votes are not split, there is a  *)
(* result.                                                                 *)

LEMMA AllAnswered ==
    ASSUME Inv, EmitterOK, NEW i \in Ids, upd[i].replicas >= RequiredReplicas, IsDecided(i)
    PROVE  HasResult(i) /\ upd[i].replicas = RequiredReplicas /\ Pushed(i)
<1>0. Types /\ FreshOK /\ CountsOK
  BY DEF Inv, QueueInv
<1>1. /\ upd[i].replicas \in Nat /\ upd[i].approves \in Nat /\ upd[i].errors \in Nat
      /\ upd[i].approves + upd[i].errors = upd[i].replicas + 1
      /\ upd[i].replicas <= Cardinality(Counted(i))
  BY <1>0, UpdTypes DEF CountsOK
<1>2. /\ Counted(i) \subseteq Followers /\ Cardinality(Counted(i)) \in Nat
      /\ Cardinality(Counted(i)) <= Cardinality(Followers)
      /\ Cardinality(Counted(i)) = Cardinality(Followers) => Counted(i) = Followers
  <2>1. Counted(i) \subseteq Followers /\ Cardinality(Counted(i)) \in Nat
    BY FiniteSets DEF Counted, Handled
  <2> QED BY <2>1, FiniteSets, FS_Subset
<1>3. upd[i].replicas = RequiredReplicas /\ Counted(i) = Followers
  BY <1>1, <1>2, Nodes
<1>4. Pushed(i)
  BY <1>0, <1>3, Nodes DEF FreshOK
<1>5. upd[i].replicatedToEmitter
  <2>1. SUFFICES ASSUME ~upd[i].replicatedToEmitter PROVE FALSE
    OBVIOUS
  <2>2. upd[i].emitter \in Followers
    BY <1>0, <1>4, <2>1, UpdTypes, PushSizeOK DEF EmitterOK
  <2>3. upd[i].emitter \notin Counted(i)
    BY <2>1 DEF Counted
  <2> QED BY <1>3, <2>2, <2>3
<1> QED BY <1>3, <1>4, <1>5 DEF HasResult, IsDecided

\* With an odd number of nodes the votes cannot be split once all followers have
\* answered.
LEMMA OddDecides ==
    ASSUME NodesCount % 2 = 1, Inv, NEW i \in Ids, upd[i].replicas = RequiredReplicas
    PROVE  IsDecided(i)
<1>1. /\ upd[i].replicas \in Nat /\ upd[i].approves \in Nat /\ upd[i].errors \in Nat
      /\ upd[i].approves + upd[i].errors = upd[i].replicas + 1
  BY UpdTypes DEF Inv, QueueInv, CountsOK
<1>2. NodesCount \in Nat /\ ConsensusCnt = NodesCount \div 2 + 1
  BY Nodes DEF ConsensusCnt
<1>3. upd[i].approves + upd[i].errors = NodesCount
  BY <1>1, Nodes
<1>4. 2 * (NodesCount \div 2) + 1 = NodesCount
  BY <1>2
<1> QED BY <1>1, <1>2, <1>3, <1>4 DEF IsDecided

\* In a cluster of any size a writer does not wait for an update that every
\* follower has answered, if the approves or the errors reached the consensus.
THEOREM HandledResult == Spec => []HandledHasResult
<1>1. ASSUME Inv, EmitterOK PROVE HandledHasResult
  <2> SUFFICES ASSUME NEW i \in Ids, upd[i].replicas = RequiredReplicas, IsDecided(i), Quiet
               PROVE  upd[i].onResult = NoWriter
    BY DEF HandledHasResult
  <2>1. HasResult(i)
    BY <1>1, AllAnswered, Nodes
  <2>2. \A f \in Followers : ~status[f].result
    BY DEF Quiet, Idle
  <2> QED BY <1>1, <2>1, <2>2 DEF Inv, CallbackOK
<1> QED BY <1>1, QueueInvariant, EmitterInvariant, PTL

\* With an odd number of nodes it does not wait for any update that every
\* follower has answered.  (With an even number the votes may be split, and it
\* waits until the role changes.)
THEOREM OddHandledResult ==
    ASSUME NodesCount % 2 = 1
    PROVE  Spec => [](\A i \in Ids : upd[i].replicas = RequiredReplicas /\ Quiet
                                     => upd[i].onResult = NoWriter)
<1>1. ASSUME Inv, HandledHasResult
      PROVE  \A i \in Ids : upd[i].replicas = RequiredReplicas /\ Quiet
                            => upd[i].onResult = NoWriter
  BY <1>1, OddDecides DEF HandledHasResult
<1> QED BY <1>1, QueueInvariant, HandledResult, PTL

\* The first chunk of the queue is there for a follower that has not answered
\* yet or for split votes: the last result or the last replica erases it.
THEOREM NothingLeft == Spec => []NothingIsLeft
<1>1. ASSUME Inv, EmitterOK PROVE NothingIsLeft
  <2> DEFINE c == firstChunkID
             S == c..(c + BatchSize - 1)
  <2>0. SUFFICES ASSUME Quiet, ~IsEmpty,
                        \A i \in S : ~(upd[i].replicas < RequiredReplicas) /\ IsDecided(i)
                 PROVE  FALSE
    BY DEF NothingIsLeft
  <2>1. Types /\ QueueOK /\ FreshOK /\ ReaderOK /\ CountsOK /\ ChunkCountsOK /\ SweepOK
    BY <1>1 DEF Inv, QueueInv
  <2>2. c \in Nat /\ c \in ChunkIds /\ InQueue(c)
    <3>0. firstChunkID <= nextChunkID /\ firstChunkID # nextChunkID
      BY <2>0, <2>1 DEF IsEmpty, Types
    <3>1. c \in Nat /\ nextChunkID \in Nat /\ c < nextChunkID
      BY <2>1, <3>0, NextIdOK
    <3>2. c \in ChunkEnds /\ nextChunkID \in ChunkEnds
      BY <2>1 DEF Types
    <3> QED BY <3>1, <3>2, ChunkEndsOK DEF InQueue
  <2>3. ASSUME NEW i \in S
        PROVE  i \in Ids /\ ChunkOf(i) = c /\ HasResult(i) /\ upd[i].replicas = RequiredReplicas
    <3>1. i \in Int /\ c <= i /\ i < c + BatchSize
      BY <2>2, <2>3, Sizes
    <3>2. i \in Ids /\ ChunkOf(i) = c
      BY <2>2, <3>1, IdsOfChunk
    <3>3. upd[i].replicas >= RequiredReplicas
      BY <2>0, <2>1, <2>3, <3>2, UpdTypes, Nodes
    <3> QED BY <1>1, <2>0, <3>2, <3>3, AllAnswered
  <2>4. S \subseteq WithResult(c) /\ S \subseteq Replicas(c)
    BY <2>3 DEF WithResult, Replicas
  <2>5. Cardinality(S) = BatchSize
    BY <2>2, Sizes, Interval
  <2>6. /\ Cardinality(WithResult(c)) \in Nat /\ Cardinality(WithResult(c)) <= chunk[c].count
        /\ Cardinality(Replicas(c)) \in Nat /\ Cardinality(Replicas(c)) <= chunk[c].count
        /\ chunk[c].count \in Nat /\ chunk[c].count <= BatchSize
    BY <2>1, <2>2, ResultsInChunk, ChunkTypes
  <2>7. IsFiniteSet(WithResult(c)) /\ IsFiniteSet(Replicas(c))
    BY FiniteSets DEF WithResult, Replicas
  <2> HIDE DEF S
  <2>8. BatchSize <= Cardinality(WithResult(c)) /\ BatchSize <= Cardinality(Replicas(c))
    BY <2>4, <2>5, <2>7, FS_Subset
  <2>9. /\ Cardinality(WithResult(c)) = BatchSize /\ Cardinality(Replicas(c)) = BatchSize
        /\ chunk[c].count = BatchSize
    BY <2>6, <2>8, Sizes
  <2>10. \A f \in Followers : ~status[f].result /\ ~status[f].erase /\ ~status[f].sweep
    BY <2>0 DEF Quiet, Idle
  <2>11. Cardinality(ResultsDue(c)) = 0 /\ Cardinality(ErasuresDue(c)) = 0
    <3>1. ResultsDue(c) = {} /\ ErasuresDue(c) = {}
      BY <2>10 DEF ResultsDue, ErasuresDue
    <3> QED BY <3>1, FS_EmptySet
  <2>12. chunk[c].resultsSent \in Nat /\ chunk[c].erased \in Nat
    BY <2>1, <2>2, ChunkTypes
  <2>13. chunk[c].resultsSent = BatchSize /\ chunk[c].erased = BatchSize
    <3>1. /\ chunk[c].resultsSent + Cardinality(ResultsDue(c)) = Cardinality(WithResult(c))
          /\ chunk[c].erased + Cardinality(ErasuresDue(c)) = Cardinality(Replicas(c))
      BY <2>1, <2>2 DEF ChunkCountsOK
    <3> QED BY <2>9, <2>11, <2>12, <3>1
  <2>14. Erasable(c, chunk)
    BY <2>9, <2>13 DEF Erasable, IsAllResultsSent, IsFullyErased
  <2> QED BY <2>0, <2>1, <2>10, <2>14 DEF SweepOK
<1> QED BY <1>1, QueueInvariant, EmitterInvariant, PTL

----------------------------------------------------------------------------
(* With up to four nodes, success means the consensus.                     *)

LEMMA AckedStays ==
    ASSUME Inv, Inv', [Next]_vars, NEW i \in Ids, Pushed(i), IsAcked(i)
    PROVE  IsAcked(i)'
<1>1. Grows(i)
  BY UpdatesGrow
<1>2. upd[i].approves \in Nat /\ upd'[i].approves \in Nat /\ ConsensusCnt \in Nat
  BY UpdTypes, Nodes DEF Inv, QueueInv, Types
<1> QED BY <1>1, <1>2 DEF Grows, IsAcked

AckedOrTold(w, i) ==
    i \in Ids /\ Pushed(i) /\ (IsAcked(i) \/ upd[i].onResult = w \/ ~writer[w].ok)

\* A writer that goes on waiting: a callback is lost only with the consensus or
\* with the error.
LEMMA WriterGoesOn ==
    ASSUME Inv, Inv', AckOK, [Next]_vars, NEW w \in Writers,
           writer[w].state \in {"waiting", "done"},
           writer'[w].first = writer[w].first, writer'[w].dataSize = writer[w].dataSize,
           writer'[w].ok => writer[w].ok,
           \A i \in Ids : upd[i].onResult = w =>
               upd'[i].onResult = w \/ IsAcked(i)' \/ ~writer'[w].ok
    PROVE  \A i \in UpdatesOf(w)' : AckedOrTold(w, i)'
<1>1. UpdatesOf(w)' = UpdatesOf(w)
  BY DEF UpdatesOf
<1>2. SUFFICES ASSUME NEW i \in UpdatesOf(w) PROVE AckedOrTold(w, i)'
  BY <1>1
<1>3. i \in Ids /\ Pushed(i) /\ (IsAcked(i) \/ upd[i].onResult = w \/ ~writer[w].ok)
  BY DEF AckOK
<1>4. Pushed(i)'
  BY <1>3, UpdatesGrow DEF Grows
<1>5. IsAcked(i) => IsAcked(i)'
  BY <1>3, AckedStays
<1> QED BY <1>3, <1>4, <1>5 DEF AckedOrTold

LEMMA PushAck ==
    ASSUME Inv, Inv', AckOK, [Next]_vars, Push, NEW v \in Writers,
           writer'[v].state \in {"waiting", "done"}
    PROVE  \A i \in UpdatesOf(v)' : AckedOrTold(v, i)'
<1>0. Types /\ QueueOK /\ FreshOK /\ ChunkCountsOK
  BY DEF Inv, QueueInv
<1>1. ASSUME NEW w, NEW k \in Nat \ {0}, NEW emitter, HasRoom(k), AddDataToQueue(k, emitter, w),
             writer'[v] = writer[v]
      PROVE  \A i \in UpdatesOf(v)' : AckedOrTold(v, i)'
  <2>1. \A i \in Ids : upd[i].onResult = v => Pushed(i)
    BY <1>0, PushSizeOK DEF FreshOK
  <2>2. \A i \in Ids : upd[i].onResult = v => upd'[i].onResult = v
    BY <1>0, <1>1, <2>1, AddGrows
  <2> QED BY <1>1, <2>2, WriterGoesOn
<1>2. ASSUME NEW k \in AsyncSizes, PushAsync(k) PROVE \A i \in UpdatesOf(v)' : AckedOrTold(v, i)'
  <2>1. k \in Nat \ {0} /\ HasRoom(k) /\ AddDataToQueue(k, NoEmitter, NoWriter) /\ writer' = writer
    BY <1>2, PushSizeOK DEF PushAsync
  <2> QED BY <1>1, <2>1
<1>3. ASSUME NEW w \in Writers, NEW k \in PushSizes, NEW e \in Emitters \cup {NoEmitter},
             PushAndWait(w, k, e)
      PROVE  \A i \in UpdatesOf(v)' : AckedOrTold(v, i)'
  <2>1. CASE invalidated
    <3>1. /\ writer' = [writer EXCEPT ![w].state = "refused"] /\ upd' = upd
      BY <1>3, <2>1 DEF PushAndWait
    <3>2. v # w
      BY <1>0, <3>1, Records DEF WriterTypes, WriterRecord
    <3>3. writer'[v] = writer[v]
      BY <1>0, <3>1, <3>2, Records DEF WriterTypes
    <3> QED BY <3>1, <3>3, WriterGoesOn
  <2>2. CASE ~invalidated
    <3>1. /\ writer' = [writer EXCEPT ![w].state = "waiting", ![w].dataSize = k,
                                       ![w].first = GetNextUpdateID]
          /\ AddDataToQueue(k, e, w) /\ HasRoom(k)
      BY <1>3, <2>2 DEF PushAndWait
    <3>2. k \in Nat \ {0}
      BY PushSizeOK
    <3>3. CASE v # w
      <4>1. writer'[v] = writer[v]
        BY <1>0, <3>1, <3>3, Records DEF WriterTypes
      <4> QED BY <1>1, <3>1, <3>2, <4>1
    <3>4. CASE v = w
      <4>1. writer'[v].first = GetNextUpdateID /\ writer'[v].dataSize = k
        <5>1. writer[w] \in WriterRecord /\ writer \in [Writers -> WriterRecord]
          BY <1>0, Records DEF WriterTypes
        <5> QED BY <3>1, <3>4, <5>1 DEF WriterRecord
      <4>2. UpdatesOf(v)' = GetNextUpdateID..(GetNextUpdateID + k - 1)
        BY <4>1 DEF UpdatesOf
      <4>3. GetNextUpdateID \in Nat /\ GetNextUpdateID + k <= LastEnd
        BY <1>0, <3>1, NextIdOK DEF HasRoom, LastEnd
      <4>4. ASSUME NEW i \in GetNextUpdateID..(GetNextUpdateID + k - 1)
            PROVE  i \in Ids /\ Pushed(i)' /\ upd'[i].onResult = v
        <5>1. i \in Ids /\ GetNextUpdateID <= i /\ i < GetNextUpdateID + k
          BY <3>2, <4>3, <4>4, Sizes
        <5> QED BY <1>0, <3>1, <3>2, <3>4, <5>1, AddGrows
      <4> QED BY <4>2, <4>4 DEF AckedOrTold
    <3> QED BY <3>3, <3>4
  <2> QED BY <2>1, <2>2
<1> QED BY <1>2, <1>3 DEF Push

LEMMA ErrorAck ==
    ASSUME Inv, Inv', AckOK, [Next]_vars, SetUnwritable, NEW w \in Writers,
           writer'[w].state \in {"waiting", "done"}
    PROVE  \A i \in UpdatesOf(w)' : AckedOrTold(w, i)'
<1> DEFINE ids == {i \in Ids : InQueue(ChunkOf(i)) /\ i < ChunkOf(i) + chunk[ChunkOf(i)].count}
           S == {i \in ids : upd[i].onResult = w}
           mine == Cardinality(S)
           n == writer[w].executed + mine
           b == writer[w].ok /\ (FALSE \/ mine = 0)
<1>1. /\ writer' = Notified(writer, ids, FALSE)
      /\ upd' = [i \in Ids |-> IF i \in ids THEN [upd[i] EXCEPT !.onResult = NoWriter] ELSE upd[i]]
  BY DEF SetUnwritable
<1>2. writer'[w] = [writer[w] EXCEPT !.executed = n, !.ok = b]
  BY <1>1 DEF Notified
<1>3. IsFiniteSet(S)
  BY FiniteSets
<1>4. b => writer[w].ok /\ S = {}
  BY <1>3, FS_EmptySet
<1>5. writer[w] \in WriterRecord
  BY WriterTypeOK DEF Inv, QueueInv
<1>6. \A i \in Ids : i \notin ids => upd'[i] = upd[i]
  BY <1>1
<1> HIDE DEF n, b, ids
<1>7. /\ writer'[w].state = writer[w].state /\ writer'[w].first = writer[w].first
      /\ writer'[w].dataSize = writer[w].dataSize /\ writer'[w].ok = b
  BY <1>2, <1>5 DEF WriterRecord
<1>8. \A i \in Ids : upd[i].onResult = w => upd'[i].onResult = w \/ ~writer'[w].ok
  BY <1>4, <1>6, <1>7
<1> QED BY <1>4, <1>7, <1>8, WriterGoesOn

LEMMA ResultAck ==
    ASSUME Inv, Inv', AckOK, [Next]_vars, NEW f \in Followers, SendResult(f), NEW w \in Writers,
           writer'[w].state \in {"waiting", "done"}
    PROVE  \A i \in UpdatesOf(w)' : AckedOrTold(w, i)'
<1>0. Types /\ ReaderOK
  BY DEF Inv, QueueInv
<1>1. status[f].result /\ status[f] # Idle
  BY BusyNotIdle DEF SendResult
<1>2. PICK id \in Ids : id = status[f].id /\ Pushed(id)
  BY <1>0, <1>1, StatusOK
<1>3. \/ upd' = upd /\ writer' = writer
      \/ /\ upd' = [upd EXCEPT ![id].onResult = NoWriter]
         /\ writer' = Notified(writer, {id}, status[f].ok)
  BY <1>2 DEF SendResult
<1>4. CASE upd' = upd /\ writer' = writer
  BY <1>4, WriterGoesOn
<1>5. CASE /\ upd' = [upd EXCEPT ![id].onResult = NoWriter]
           /\ writer' = Notified(writer, {id}, status[f].ok)
  <2> DEFINE S == {i \in {id} : upd[i].onResult = w}
             mine == Cardinality(S)
             n == writer[w].executed + mine
             b == writer[w].ok /\ (status[f].ok \/ mine = 0)
  <2>1. writer'[w] = [writer[w] EXCEPT !.executed = n, !.ok = b]
    BY <1>5 DEF Notified
  <2>2. upd[id].onResult = w => mine = 1
    <3>1. upd[id].onResult = w => S = {id}
      OBVIOUS
    <3>2. Cardinality({id}) = 1
      BY FS_Singleton
    <3> QED BY <3>1, <3>2
  <2>3. b /\ upd[id].onResult = w => status[f].ok
    BY <2>2
  <2>4. b => writer[w].ok
    OBVIOUS
  <2>5. writer[w] \in WriterRecord
    BY <1>0, WriterTypeOK
  <2> HIDE DEF n, b
  <2>6. /\ writer'[w].state = writer[w].state /\ writer'[w].first = writer[w].first
        /\ writer'[w].dataSize = writer[w].dataSize /\ writer'[w].ok = b
    BY <2>1, <2>5 DEF WriterRecord
  <2>7. \A i \in Ids : i # id => upd'[i] = upd[i]
    BY <1>0, <1>5, Records
  <2>8. status[f].ok => IsAcked(id)'
    BY <1>1, <1>2, AckedStays DEF AckOK
  <2>9. \A i \in Ids : upd[i].onResult = w =>
            upd'[i].onResult = w \/ IsAcked(i)' \/ ~writer'[w].ok
    BY <2>3, <2>6, <2>7, <2>8
  <2> QED BY <2>4, <2>6, <2>9, WriterGoesOn
<1> QED BY <1>3, <1>4, <1>5

\* A reader reports success only of what has the consensus.  The emitter's own
\* answer may complete a result of errors: with up to four nodes there are
\* then too few of them.
LEMMA ReaderAck ==
    ASSUME Cardinality(Followers) <= 3, Inv, Inv', EmitterOK, AckOK, [Next]_vars,
           NEW g \in Followers, status'[g].result, status'[g].ok
    PROVE  IsAcked(status[g].id)'
<1>0. Types /\ ReaderOK /\ CountsOK
  BY DEF Inv, QueueInv
<1>1. CASE status'[g] = status[g]
  <2>1. IsAcked(status[g].id) /\ status[g] # Idle
    BY <1>1, BusyNotIdle DEF AckOK
  <2>2. PICK i \in Ids : i = status[g].id /\ Pushed(i)
    BY <1>0, <2>1, StatusOK
  <2>3. IsAcked(i)'
    BY <2>1, <2>2, AckedStays
  <2> QED BY <1>1, <2>2, <2>3 DEF IsAcked
<1>2. CASE Push
  BY <1>1, <1>2 DEF Push, PushAndWait, PushAsync
<1>3. CASE \E w \in Writers : Return(w)
  BY <1>1, <1>3 DEF Return
<1>4. CASE SetUnwritable \/ SetWritable
  BY <1>1, <1>4 DEF SetUnwritable, SetWritable
<1>5. ASSUME NEW f \in Followers, Reader(f) PROVE IsAcked(status[g].id)'
  <2>1. CASE Read(f) \/ LeaveChunk(f)
    BY <1>1, <2>1 DEF Read, LeaveChunk
  <2>2. CASE g # f /\ ~\E ok \in BOOLEAN : Replicated(f, ok)
    <3>1. status'[g] = status[g]
      BY <1>0, <1>5, <2>1, <2>2
         DEF Reader, Read, LeaveChunk, ApplyUpdate, SendResult, CountErased, Sweep, Types
    <3> QED BY <1>1, <3>1
  <2>3. ~Idle.result
    BY DEF Idle
  <2>4. status[f] \in StatusRecord
    BY <1>0, StatusTypes
  <2>5. CASE ApplyUpdate(f) /\ g = f
    <3>1. status'[f] = [Idle EXCEPT !.id = nextUpdateId[f], !.sent = TRUE]
      BY <1>0, <2>5 DEF ApplyUpdate, Types
    <3>2. ~status'[f].result
      BY <3>1 DEF Idle
    <3> QED BY <2>5, <3>2
  <2>6. CASE SendResult(f) /\ g = f
    <3> DEFINE b == firstChunkID' # firstChunkID
               st == [status[f] EXCEPT !.result = FALSE, !.sweep = b]
    <3>1. status'[f] = Done(st)
      BY <1>0, <2>6 DEF SendResult, Types
    <3> HIDE DEF b
    <3>2. ~st.result
      BY <2>4 DEF StatusRecord
    <3> HIDE DEF st
    <3> QED BY <2>3, <2>6, <3>1, <3>2 DEF Done
  <2>7. CASE CountErased(f) /\ g = f
    <3> DEFINE c == ChunkOf(status[f].id)
               b == IsFullyErased(c, [chunk EXCEPT ![c].erased = @ + 1])
               st == [status[f] EXCEPT !.erase = FALSE, !.sweep = b]
    <3>1. status'[f] = Done(st) /\ ~status[f].result
      BY <1>0, <2>7 DEF CountErased, Types
    <3> HIDE DEF b
    <3>2. ~st.result
      BY <2>4, <3>1 DEF StatusRecord
    <3> HIDE DEF st
    <3> QED BY <2>3, <2>7, <3>1, <3>2 DEF Done
  <2>8. CASE Sweep(f) /\ g = f
    <3> DEFINE b == firstChunkID' # firstChunkID
               st == [status[f] EXCEPT !.sweep = b]
    <3>1. status'[f] = Done(st) /\ status[f].sweep
      BY <1>0, <2>8 DEF Sweep, Types
    <3>2. ~status[f].result
      BY <1>0, <3>1 DEF ReaderOK
    <3> HIDE DEF b
    <3>3. ~st.result
      BY <2>4, <3>2 DEF StatusRecord
    <3> HIDE DEF st
    <3> QED BY <2>3, <2>8, <3>1, <3>3 DEF Done
  <2>9. ASSUME NEW ok \in BOOLEAN, Replicated(f, ok) PROVE IsAcked(status[g].id)'
    <3>1. PICK id : Answers(f, ok, id)
      BY <1>0, <2>9, ReplicatedEffect
    <3>2. CASE g # f
      BY <1>1, <3>1, <3>2 DEF Answers
    <3>3. CASE g = f
      <4>1. /\ id \in Ids /\ status'[f].id = id /\ ok
            /\ RequireResult(upd'[id], ok, upd[id].emitter = f)
            /\ upd'[id].replicatedToEmitter = (upd[id].replicatedToEmitter \/ upd[id].emitter = f)
            /\ upd'[id].approves = upd[id].approves + 1 /\ upd'[id].errors = upd[id].errors
        BY <3>1, <3>3 DEF Answers
      <4>2. upd[id].approves \in Nat /\ upd[id].errors \in Nat /\ upd[id].replicas \in Nat
            /\ upd[id].approves >= 1
        BY <1>0, <4>1, UpdTypes DEF EmitterOK
      <4>3. upd[id].replicas < RequiredReplicas
            /\ upd[id].approves + upd[id].errors = upd[id].replicas + 1
        BY <1>0, <3>1, <4>1, AnswerHandled DEF CountsOK
      <4>4. upd'[id].approves >= 2 /\ upd'[id].approves + upd'[id].errors <= NodesCount
        BY <4>1, <4>2, <4>3, Nodes
      <4>5. (NodesCount = 3 /\ ConsensusCnt = 2) \/ (NodesCount = 4 /\ ConsensusCnt = 3)
        <5>1. NodesCount \in Nat /\ NodesCount >= 3 /\ NodesCount <= 4
          BY Nodes
        <5>2. NodesCount = 3 \/ NodesCount = 4
          BY <5>1
        <5>3. 3 \div 2 = 1 /\ 4 \div 2 = 2
          OBVIOUS
        <5> QED BY <5>2, <5>3 DEF ConsensusCnt
      <4>6. upd'[id].replicatedToEmitter
        BY <4>1 DEF RequireResult
      <4>7. upd'[id].approves >= ConsensusCnt
        BY <4>1, <4>2, <4>4, <4>5 DEF RequireResult
      <4> QED BY <3>3, <4>1, <4>6, <4>7 DEF IsAcked
    <3> QED BY <3>2, <3>3
  <2> QED BY <1>5, <2>1, <2>2, <2>5, <2>6, <2>7, <2>8, <2>9 DEF Reader
<1>6. CASE UNCHANGED vars
  BY <1>1, <1>6 DEF vars
<1> QED BY <1>2, <1>3, <1>4, <1>5, <1>6 DEF Next

LEMMA AckStep ==
    ASSUME Cardinality(Followers) <= 3, Inv, Inv', EmitterOK, AckOK, [Next]_vars
    PROVE  AckOK'
<1>1. ASSUME NEW w \in Writers, writer'[w].state \in {"waiting", "done"}
      PROVE  \A i \in UpdatesOf(w)' : AckedOrTold(w, i)'
  <2>0. Types /\ ReaderOK
    BY DEF Inv, QueueInv
  <2>1. CASE UNCHANGED <<writer, upd>>
    BY <1>1, <2>1, WriterGoesOn
  <2>2. CASE Push
    BY <1>1, <2>2, PushAck
  <2>3. ASSUME NEW v \in Writers, Return(v)
        PROVE  \A i \in UpdatesOf(w)' : AckedOrTold(w, i)'
    <3>1. /\ writer[v].state = "waiting" /\ writer' = [writer EXCEPT ![v].state = "done"]
          /\ upd' = upd
      BY <2>3 DEF Return
    <3>2. /\ writer'[w].first = writer[w].first /\ writer'[w].dataSize = writer[w].dataSize
          /\ writer'[w].ok = writer[w].ok /\ writer[w].state \in {"waiting", "done"}
      <4>1. writer[v] \in WriterRecord /\ writer \in [Writers -> WriterRecord]
        BY <2>0, Records DEF WriterTypes
      <4>2. CASE w = v
        BY <3>1, <4>1, <4>2 DEF WriterRecord
      <4>3. CASE w # v
        <5>1. writer'[w] = writer[w]
          BY <3>1, <4>1, <4>3
        <5> QED BY <1>1, <5>1
      <4> QED BY <4>2, <4>3
    <3> QED BY <3>1, <3>2, WriterGoesOn
  <2>4. CASE SetUnwritable
    BY <1>1, <2>4, ErrorAck
  <2>5. CASE SetWritable
    BY <2>1, <2>5 DEF SetWritable
  <2>6. ASSUME NEW f \in Followers, Reader(f)
        PROVE  \A i \in UpdatesOf(w)' : AckedOrTold(w, i)'
    <3>1. CASE SendResult(f)
      BY <1>1, <3>1, ResultAck
    <3>2. ASSUME NEW ok \in BOOLEAN, Replicated(f, ok)
          PROVE  \A i \in UpdatesOf(w)' : AckedOrTold(w, i)'
      <4>1. PICK id : Answers(f, ok, id)
        BY <2>0, <3>2, ReplicatedEffect
      <4>2. writer' = writer /\ \A i \in Ids : upd'[i].onResult = upd[i].onResult
        BY <4>1 DEF Answers
      <4> QED BY <1>1, <4>2, WriterGoesOn
    <3>3. CASE Read(f) \/ LeaveChunk(f) \/ ApplyUpdate(f) \/ CountErased(f) \/ Sweep(f)
      BY <2>1, <3>3 DEF Read, LeaveChunk, ApplyUpdate, CountErased, Sweep
    <3> QED BY <2>6, <3>1, <3>2, <3>3 DEF Reader
  <2>7. CASE UNCHANGED vars
    BY <2>1, <2>7 DEF vars
  <2> QED BY <2>2, <2>3, <2>4, <2>5, <2>6, <2>7 DEF Next
<1>2. \A f \in Followers : status'[f].result /\ status'[f].ok => IsAcked(status[f].id)'
  BY ReaderAck
<1> QED BY <1>1, <1>2 DEF AckOK, AckedOrTold

\* In a cluster of up to four nodes a writer that is told of success has
\* written to a majority, and to the node the write came from.  With five
\* nodes the emitter's answer may report a consensus of errors as success
\* (updatesqueue.h:76).
THEOREM AckedConsensus ==
    ASSUME Cardinality(Followers) <= 3
    PROVE  Spec => []AckedHasConsensus
<1>1. Init => AckOK
  BY DEF Init, AckOK, Idle
<1>2. Inv /\ Inv' /\ EmitterOK /\ AckOK /\ [Next]_vars => AckOK'
  BY AckStep
<1>3. ASSUME Inv, AckOK PROVE AckedHasConsensus
  <2> SUFFICES ASSUME NEW w \in Writers, writer[w].state = "done", writer[w].ok,
                      NEW i \in UpdatesOf(w)
               PROVE  IsAcked(i)
    BY DEF AckedHasConsensus, IsAcked
  <2>1. i \in Ids /\ (IsAcked(i) \/ upd[i].onResult = w)
    BY <1>3 DEF AckOK
  <2>2. Pending(w) = {}
    BY <1>3 DEF Inv, WriterOK
  <2> QED BY <2>1, <2>2 DEF Pending
<1> QED BY <1>1, <1>2, <1>3, QueueInvariant, EmitterInvariant, PTL DEF Spec

----------------------------------------------------------------------------
(* The bounds of the counters                                              *)

LEMMA ChunksBound == Cardinality(ChunkIds) <= MaxChunks
<1> DEFINE S == 0..(MaxChunks - 1)
           g == [a \in S |-> a * BatchSize]
<1>1. IsFiniteSet(S) /\ Cardinality(S) = MaxChunks
  <2>1. 0 \in Int /\ MaxChunks \in Nat /\ 0 + MaxChunks - 1 = MaxChunks - 1
    BY Sizes
  <2>2. IsFiniteSet(0..(0 + MaxChunks - 1)) /\ Cardinality(0..(0 + MaxChunks - 1)) = MaxChunks
    BY <2>1, Interval, Zenon
  <2> QED BY <2>1, <2>2
<1>2. g \in Surjection(S, ChunkIds)
  BY DEF Surjection, ChunkIds
<1> HIDE DEF g, S
<1>3. Cardinality(ChunkIds) <= Cardinality(S)
  BY <1>1, <1>2, FS_Surjection
<1> QED BY <1>1, <1>3

LEMMA SizeBound ==
    ASSUME Inv
    PROVE  dataSize \in 0..(MaxChunks * (BatchSize + 1))
<1> DEFINE n == Cardinality(ChunksIn(firstChunkID, nextChunkID))
<1>0. Types /\ QueueOK /\ SizeOK
  BY DEF Inv, QueueInv
<1>1. n \in Nat /\ n <= MaxChunks
  <2>1. ChunksIn(firstChunkID, nextChunkID) \subseteq ChunkIds
    BY DEF ChunksIn
  <2>2. n \in Nat /\ n <= Cardinality(ChunkIds) /\ Cardinality(ChunkIds) \in Nat
    BY <2>1, FiniteSets, FS_Subset
  <2> QED BY <2>2, ChunksBound, Sizes
<1>2. dataSize = n + GetNextUpdateID - firstChunkID
  BY <1>0 DEF SizeOK
<1> HIDE DEF n
<1>3. /\ GetNextUpdateID \in Nat /\ firstChunkID \in Nat
      /\ firstChunkID <= GetNextUpdateID /\ GetNextUpdateID <= LastEnd
  BY <1>0, NextIdOK, Sizes
<1>4. MaxChunks * (BatchSize + 1) = LastEnd + MaxChunks
  BY Sizes DEF LastEnd
<1> QED BY <1>1, <1>2, <1>3, <1>4, Sizes

LEMMA CountersBound ==
    ASSUME Inv, EmitterOK, NEW i \in Ids
    PROVE  /\ upd[i].replicas \in 0..RequiredReplicas
           /\ upd[i].approves \in 1..NodesCount /\ upd[i].errors \in 0..RequiredReplicas
<1>0. Types /\ CountsOK
  BY DEF Inv, QueueInv
<1>1. Cardinality(Counted(i)) \in Nat /\ Cardinality(Counted(i)) <= RequiredReplicas
  <2>1. Counted(i) \subseteq Followers
    BY DEF Counted, Handled
  <2> QED BY <2>1, FiniteSets, FS_Subset, Nodes
<1>2. upd[i].replicas \in Nat /\ upd[i].approves \in Nat /\ upd[i].errors \in Nat
  BY <1>0, UpdTypes
<1>3. /\ upd[i].approves >= 1 /\ upd[i].replicas <= Cardinality(Counted(i))
      /\ upd[i].approves + upd[i].errors = upd[i].replicas + 1
  BY <1>0 DEF EmitterOK, CountsOK
<1> QED BY <1>1, <1>2, <1>3, Nodes

\* The type invariant: no counter of the queue, of a chunk or of an update runs
\* out of its bounds, with any number of readers counting without the mutex.
THEOREM TypeCorrect == Spec => []TypeOK
<1>1. ASSUME Inv, EmitterOK PROVE TypeOK
  <2>0. Types /\ QueueOK /\ FreshOK /\ ReaderOK /\ ChunkCountsOK
    BY <1>1 DEF Inv, QueueInv
  <2>1. chunk \in [ChunkIds -> [count : 0..BatchSize, erased : 0..BatchSize,
                                resultsSent : 0..BatchSize, invalidated : BOOLEAN]]
    <3> DEFINE R == [count : 0..BatchSize, erased : 0..BatchSize,
                     resultsSent : 0..BatchSize, invalidated : BOOLEAN]
    <3>1. ASSUME NEW c \in ChunkIds PROVE chunk[c] \in R
      <4>1. chunk[c] \in ChunkRecord
        BY <2>0, Records
      <4>2. chunk[c].erased \in 0..BatchSize /\ chunk[c].resultsSent \in 0..BatchSize
        BY <2>0, ChunkTypes, SentBelowCount, Sizes
      <4> QED BY <4>1, <4>2 DEF ChunkRecord
    <3>2. chunk \in [ChunkIds -> ChunkRecord]
      BY <2>0, Records
    <3> HIDE DEF R
    <3>3. chunk \in [ChunkIds -> R]
      BY <3>1, <3>2
    <3> QED BY <3>3 DEF R
  <2>2. upd \in [Ids -> [emitter : Emitters \cup {NoEmitter},
                         onResult : Writers \cup {NoWriter},
                         replicatedToEmitter : BOOLEAN,
                         replicas : 0..RequiredReplicas,
                         approves : 1..NodesCount, errors : 0..RequiredReplicas]]
    <3> DEFINE R == [emitter : Emitters \cup {NoEmitter}, onResult : Writers \cup {NoWriter},
                     replicatedToEmitter : BOOLEAN, replicas : 0..RequiredReplicas,
                     approves : 1..NodesCount, errors : 0..RequiredReplicas]
    <3>1. ASSUME NEW i \in Ids PROVE upd[i] \in R
      <4>1. upd[i] \in UpdRecord
        BY <2>0, Records
      <4>2. /\ upd[i].replicas \in 0..RequiredReplicas
            /\ upd[i].approves \in 1..NodesCount /\ upd[i].errors \in 0..RequiredReplicas
        BY <1>1, CountersBound
      <4> QED BY <4>1, <4>2 DEF UpdRecord
    <3>2. upd \in [Ids -> UpdRecord]
      BY <2>0, Records
    <3> HIDE DEF R
    <3>3. upd \in [Ids -> R]
      BY <3>1, <3>2
    <3> QED BY <3>3 DEF R
  <2>3. nextUpdateId \in [Followers -> 0..(MaxChunks * BatchSize)]
    <3>1. ASSUME NEW f \in Followers PROVE nextUpdateId[f] \in 0..LastEnd
      <4>1. nextUpdateId[f] \in Nat /\ nextUpdateId[f] <= nextChunkID
        BY <2>0, Records DEF ReaderOK
      <4> QED BY <2>0, <4>1, NextIdOK, Sizes
    <3>2. nextUpdateId \in [Followers -> Nat]
      BY <2>0, Records
    <3> QED BY <3>1, <3>2 DEF LastEnd
  <2>4. dataSize \in 0..(MaxChunks * (BatchSize + 1))
    BY <1>1, SizeBound
  <2>5. writer \in [Writers -> [state : {"idle", "refused", "waiting", "done"},
                                dataSize : PushSizes \cup {0}, first : Ids \cup {0},
                                executed : Nat, ok : BOOLEAN]]
    BY <2>0 DEF Types
  <2>6. status \in [Followers -> [id : Ids \cup {-1}, sent : BOOLEAN, ok : BOOLEAN,
                                  result : BOOLEAN, erase : BOOLEAN, sweep : BOOLEAN]]
    BY <2>0 DEF Types
  <2>7. /\ {firstChunkID, nextChunkID} \subseteq ChunkIds \cup {MaxChunks * BatchSize}
        /\ firstChunkID <= nextChunkID /\ dropRecord \in Ids \cup {-1}
        /\ invalidated \in BOOLEAN /\ switches \in 0..MaxSwitches
        /\ ptr \in [Followers -> ChunkIds \cup {NoChunk}] /\ awaits \in [Followers -> BOOLEAN]
    BY <2>0, Records DEF ChunkEnds, LastEnd
  <2> QED BY <2>1, <2>2, <2>3, <2>4, <2>5, <2>6, <2>7, Zenon DEF TypeOK
<1> QED BY <1>1, QueueInvariant, EmitterInvariant, PTL
=============================================================================
