------------------------- MODULE AsyncStorageProofs -------------------------
(***************************************************************************)
(* Proofs about AsyncStorage for every set of keys, every chunk size and   *)
(* every number of writes, failures, copies and advices.                   *)
(***************************************************************************)
EXTENDS AsyncStorage, FiniteSetTheorems, NaturalsInduction, WellFoundedInduction, TLAPS

Op == [key : Keys, val : Nat]
ChunkRecord == [id : Nat, ops : Seq(Op)]
ProxyRecord == [id : Nat, key : Keys, val : Nat]
Storage == [cur : ChunkRecord, finished : Seq(ChunkRecord), batchIdCounter : Nat,
            total : Nat, proxy : SUBSET ProxyRecord]

(* The last element of a set of positions                                  *)

LEMMA LeastOf ==
    ASSUME NEW S \in SUBSET Nat, S # {}
    PROVE  \E x \in S : \A y \in S : x <= y
<1>1. PICK x \in S : \A y \in S : ~ (<<y, x>> \in OpToRel(<, Nat))
  BY NatLessThanWellFounded, WFMin, Zenon
<1>2. \A y \in S : ~ (y < x)
  BY <1>1, Zenon DEF OpToRel
<1> QED BY <1>2

LEMMA GreatestOf ==
    ASSUME NEW n \in Nat, NEW S \in SUBSET (1..n), S # {}
    PROVE  /\ Max(S) \in S /\ Max(S) \in 1..n
           /\ \A y \in S : y <= Max(S)
<1> DEFINE B == {m \in Nat : \A y \in S : y <= m}
<1>1. B \in SUBSET Nat /\ n \in B
  OBVIOUS
<1> HIDE DEF B
<1>2. PICK m \in B : \A b \in B : m <= b
  BY <1>1, LeastOf, Zenon
<1> USE DEF B
<1>3. m \in Nat /\ \A y \in S : y <= m /\ y \in Nat /\ y >= 1
  BY <1>2
<1>4. m \in S
  <2>1. SUFFICES ASSUME m \notin S PROVE FALSE
    OBVIOUS
  <2>2. m - 1 \in Nat
    <3>1. PICK y \in S : TRUE
      OBVIOUS
    <3> QED BY <1>3, <3>1
  <2>3. \A y \in S : y <= m - 1
    BY <1>3, <2>1
  <2> QED BY <1>2, <1>3, <2>2, <2>3
<1>5. \E x \in S : \A y \in S : x >= y
  BY <1>3, <1>4
<1>6. Max(S) \in S /\ \A y \in S : Max(S) >= y
  BY <1>5, Zenon DEF Max
<1> QED BY <1>6

-----------------------------------------------------------------------------
(* What operations and chunks leave of a key                               *)

\* The last operation of a key, and the last chunk with one
IsLastOp(ops, k, i) ==
    /\ i \in 1..Len(ops) /\ ops[i].key = k
    /\ \A j \in 1..Len(ops) : ops[j].key = k => j <= i

IsLastChunk(s, k, i) ==
    /\ i \in 1..Len(s) /\ HasKey(s[i].ops, k)
    /\ \A j \in 1..Len(s) : HasKey(s[j].ops, k) => j <= i

LEMMA AfterNone ==
    ASSUME NEW ops, NEW k, NEW b, ~HasKey(ops, k)
    PROVE  After(ops, k, b) = b
  BY DEF HasKey, After

LEMMA AfterLast ==
    ASSUME NEW ops \in Seq(Op), NEW k, NEW b, NEW i, IsLastOp(ops, k, i)
    PROVE  After(ops, k, b) = ops[i].val
<1> DEFINE is == {j \in DOMAIN ops : ops[j].key = k}
<1>1. Len(ops) \in Nat /\ DOMAIN ops = 1..Len(ops)
  OBVIOUS
<1>2. is \in SUBSET (1..Len(ops)) /\ is # {} /\ i \in is /\ i \in 1..Len(ops)
  BY <1>1 DEF IsLastOp
<1>3. \A j \in is : j <= i
  BY <1>1 DEF IsLastOp
<1>4. After(ops, k, b) = ops[Max(is)].val
  BY <1>2 DEF After
<1> HIDE DEF is
<1>5. Max(is) \in is /\ Max(is) \in 1..Len(ops) /\ i <= Max(is)
  BY <1>1, <1>2, GreatestOf
<1>6. Max(is) = i
  BY <1>2, <1>3, <1>5
<1> QED BY <1>4, <1>6

LEMMA LastOp ==
    ASSUME NEW ops \in Seq(Op), NEW k, HasKey(ops, k)
    PROVE  \E i \in 1..Len(ops) : IsLastOp(ops, k, i)
<1> DEFINE is == {j \in 1..Len(ops) : ops[j].key = k}
<1>1. Len(ops) \in Nat /\ DOMAIN ops = 1..Len(ops)
  OBVIOUS
<1>2. is \in SUBSET (1..Len(ops)) /\ is # {}
  BY <1>1 DEF HasKey
<1> HIDE DEF is
<1>3. Max(is) \in is /\ \A j \in is : j <= Max(is)
  BY <1>1, <1>2, GreatestOf
<1> QED BY <1>3 DEF is, IsLastOp

\* Writing a chunk again changes nothing, and what it leaves does not depend on
\* what was there.
LEMMA AfterHas ==
    ASSUME NEW ops \in Seq(Op), NEW k, NEW b, NEW c, HasKey(ops, k)
    PROVE  After(ops, k, b) = After(ops, k, c)
<1>1. PICK i \in 1..Len(ops) : IsLastOp(ops, k, i)
  BY LastOp
<1>2. After(ops, k, b) = ops[i].val
  BY <1>1, AfterLast
<1>3. After(ops, k, c) = ops[i].val
  BY <1>1, AfterLast
<1> QED BY <1>2, <1>3

LEMMA AfterTwice ==
    ASSUME NEW ops \in Seq(Op), NEW k, NEW b
    PROVE  After(ops, k, After(ops, k, b)) = After(ops, k, b)
  BY AfterHas, AfterNone

LEMMA AfterEmpty ==
    ASSUME NEW k, NEW b
    PROVE  After(<<>>, k, b) = b /\ ~HasKey(<<>>, k)
  BY AfterNone DEF HasKey

LEMMA AfterType ==
    ASSUME NEW ops \in Seq(Op), NEW k, NEW b \in Nat
    PROVE  After(ops, k, b) \in Nat
<1>1. CASE HasKey(ops, k)
  <2>1. PICK i \in 1..Len(ops) : IsLastOp(ops, k, i)
    BY <1>1, LastOp
  <2>2. After(ops, k, b) = ops[i].val
    BY <2>1, AfterLast, Zenon
  <2>3. ops[i] \in Op
    OBVIOUS
  <2> QED BY <2>2, <2>3 DEF Op
<1>2. CASE ~HasKey(ops, k)
  BY <1>2, AfterNone
<1> QED BY <1>1, <1>2

LEMMA AfterAppend ==
    ASSUME NEW ops \in Seq(Op), NEW op \in Op, NEW k, NEW b
    PROVE  /\ Append(ops, op) \in Seq(Op) /\ Len(Append(ops, op)) = Len(ops) + 1
           /\ HasKey(Append(ops, op), k) <=> HasKey(ops, k) \/ op.key = k
           /\ After(Append(ops, op), k, b) = IF op.key = k THEN op.val ELSE After(ops, k, b)
<1> DEFINE new == Append(ops, op)
           n == Len(ops)
<1>1. /\ n \in Nat /\ new \in Seq(Op) /\ Len(new) = n + 1 /\ new[n + 1] = op
      /\ \A j \in 1..n : new[j] = ops[j]
      /\ DOMAIN new = 1..(n + 1) /\ DOMAIN ops = 1..n
  OBVIOUS
<1> HIDE DEF new, n
<1>2. HasKey(new, k) <=> HasKey(ops, k) \/ op.key = k
  BY <1>1 DEF HasKey
<1>3. CASE op.key = k
  <2>1. IsLastOp(new, k, n + 1)
    BY <1>1, <1>3 DEF IsLastOp
  <2>2. After(new, k, b) = new[n + 1].val
    BY <1>1, <2>1, AfterLast, Zenon
  <2> QED BY <1>1, <1>2, <1>3, <2>2 DEF new, n
<1>4. CASE op.key # k /\ HasKey(ops, k)
  <2>1. PICK i \in 1..n : IsLastOp(ops, k, i)
    BY <1>4, LastOp DEF n
  <2>2. IsLastOp(new, k, i) /\ new[i] = ops[i]
    BY <1>1, <1>4, <2>1 DEF IsLastOp, n
  <2>3. After(new, k, b) = new[i].val
    BY <1>1, <2>2, AfterLast, Zenon
  <2>4. After(ops, k, b) = ops[i].val
    BY <2>1, AfterLast, Zenon
  <2> QED BY <1>1, <1>2, <1>4, <2>2, <2>3, <2>4 DEF new, n
<1>5. CASE op.key # k /\ ~HasKey(ops, k)
  <2>1. After(new, k, b) = b /\ After(ops, k, b) = b
    BY <1>2, <1>5, AfterNone
  <2> QED BY <1>1, <1>2, <1>5, <2>1 DEF new, n
<1> QED BY <1>3, <1>4, <1>5

NoneHas(s, k) == \A i \in 1..Len(s) : ~HasKey(s[i].ops, k)

LEMMA AllNone ==
    ASSUME NEW s \in Seq(ChunkRecord), NEW k, NEW b, NoneHas(s, k)
    PROVE  AfterAll(s, k, b) = b
<1>1. DOMAIN s = 1..Len(s)
  OBVIOUS
<1> QED BY <1>1 DEF AfterAll, NoneHas

LEMMA AllLast ==
    ASSUME NEW s \in Seq(ChunkRecord), NEW k, NEW b, NEW i, IsLastChunk(s, k, i)
    PROVE  AfterAll(s, k, b) = After(s[i].ops, k, b)
<1> DEFINE is == {j \in DOMAIN s : HasKey(s[j].ops, k)}
<1>1. Len(s) \in Nat /\ DOMAIN s = 1..Len(s)
  OBVIOUS
<1>2. is \in SUBSET (1..Len(s)) /\ is # {} /\ i \in is /\ i \in 1..Len(s)
  BY <1>1 DEF IsLastChunk
<1>3. \A j \in is : j <= i
  BY <1>1 DEF IsLastChunk
<1>4. AfterAll(s, k, b) = After(s[Max(is)].ops, k, b)
  BY <1>2 DEF AfterAll
<1> HIDE DEF is
<1>5. Max(is) \in is /\ Max(is) \in 1..Len(s) /\ i <= Max(is)
  BY <1>1, <1>2, GreatestOf
<1>6. Max(is) = i
  BY <1>2, <1>3, <1>5
<1> QED BY <1>4, <1>6

LEMMA LastChunk ==
    ASSUME NEW s \in Seq(ChunkRecord), NEW k, ~NoneHas(s, k)
    PROVE  \E i \in 1..Len(s) : IsLastChunk(s, k, i)
<1> DEFINE is == {j \in 1..Len(s) : HasKey(s[j].ops, k)}
<1>1. Len(s) \in Nat
  OBVIOUS
<1>2. is \in SUBSET (1..Len(s)) /\ is # {}
  BY DEF NoneHas
<1> HIDE DEF is
<1>3. Max(is) \in is /\ \A j \in is : j <= Max(is)
  BY <1>1, <1>2, GreatestOf
<1> QED BY <1>3 DEF is, IsLastChunk

LEMMA ConcatParts ==
    ASSUME NEW s \in Seq(ChunkRecord), NEW t \in Seq(ChunkRecord)
    PROVE  /\ Len(s) \in Nat /\ Len(t) \in Nat
           /\ s \o t \in Seq(ChunkRecord) /\ Len(s \o t) = Len(s) + Len(t)
           /\ \A i \in 1..Len(s) : i \in 1..Len(s \o t) /\ (s \o t)[i] = s[i]
           /\ \A i \in 1..Len(t) :
                 Len(s) + i \in 1..Len(s \o t) /\ (s \o t)[Len(s) + i] = t[i]
           /\ \A i \in 1..Len(s \o t) : i \in 1..Len(s) \/ i - Len(s) \in 1..Len(t)
           /\ \A i \in 1..Len(s \o t) : i \notin 1..Len(s) => (s \o t)[i] = t[i - Len(s)]
  OBVIOUS

\* Chunks are written one after the other.
LEMMA AllConcat ==
    ASSUME NEW s \in Seq(ChunkRecord), NEW t \in Seq(ChunkRecord), NEW k, NEW b
    PROVE  AfterAll(s \o t, k, b) = AfterAll(t, k, AfterAll(s, k, b))
<1> DEFINE u == s \o t
           m == Len(s)
           n == Len(t)
<1>1. /\ m \in Nat /\ n \in Nat /\ u \in Seq(ChunkRecord) /\ Len(u) = m + n
      /\ \A i \in 1..m : i \in 1..Len(u) /\ u[i] = s[i]
      /\ \A i \in 1..n : m + i \in 1..Len(u) /\ u[m + i] = t[i]
      /\ \A i \in 1..Len(u) : i \in 1..m \/ i - m \in 1..n
      /\ \A i \in 1..Len(u) : i \notin 1..m => u[i] = t[i - m]
  BY ConcatParts
<1>0. u \in Seq(ChunkRecord)
  BY <1>1
<1> HIDE DEF u, m, n
<1>2. CASE ~NoneHas(t, k)
  <2>1. PICK i \in 1..n : IsLastChunk(t, k, i)
    BY <1>2, LastChunk DEF n
  <2>2. IsLastChunk(u, k, m + i)
    <3>1. HasKey(u[m + i].ops, k) /\ m + i \in 1..Len(u)
      BY <1>1, <2>1 DEF IsLastChunk, n
    <3>2. ASSUME NEW j \in 1..Len(u), HasKey(u[j].ops, k) PROVE j <= m + i
      <4>1. CASE j \in 1..m
        BY <1>1, <4>1
      <4>2. CASE j \notin 1..m
        <5>1. j - m \in 1..n /\ HasKey(t[j - m].ops, k)
          BY <1>1, <3>2, <4>2
        <5>2. j - m <= i
          BY <2>1, <5>1 DEF IsLastChunk, n
        <5> QED BY <1>1, <5>2
      <4> QED BY <4>1, <4>2
    <3> QED BY <3>1, <3>2 DEF IsLastChunk
  <2>3. AfterAll(u, k, b) = After(u[m + i].ops, k, b)
    BY <1>0, <2>2, AllLast
  <2>4. AfterAll(t, k, AfterAll(s, k, b)) = After(t[i].ops, k, AfterAll(s, k, b))
    BY <2>1, AllLast
  <2>5. t[i] \in ChunkRecord
    BY DEF n
  <2>6. t[i].ops \in Seq(Op) /\ HasKey(t[i].ops, k) /\ u[m + i] = t[i]
    BY <1>1, <2>1, <2>5 DEF ChunkRecord, IsLastChunk
  <2>7. After(t[i].ops, k, b) = After(t[i].ops, k, AfterAll(s, k, b))
    BY <2>6, AfterHas, Zenon
  <2> QED BY <2>3, <2>4, <2>6, <2>7 DEF u
<1>3. CASE NoneHas(t, k) /\ ~NoneHas(s, k)
  <2>1. PICK i \in 1..m : IsLastChunk(s, k, i)
    BY <1>3, LastChunk DEF m
  <2>2. IsLastChunk(u, k, i)
    <3>1. HasKey(u[i].ops, k) /\ i \in 1..Len(u)
      BY <1>1, <2>1 DEF IsLastChunk, m
    <3>2. ASSUME NEW j \in 1..Len(u), HasKey(u[j].ops, k) PROVE j <= i
      <4>1. CASE j \in 1..m
        BY <1>1, <2>1, <3>2, <4>1 DEF IsLastChunk, m
      <4>2. CASE j \notin 1..m
        BY <1>1, <1>3, <3>2, <4>2 DEF NoneHas, n
      <4> QED BY <4>1, <4>2
    <3> QED BY <3>1, <3>2 DEF IsLastChunk
  <2>3. AfterAll(u, k, b) = After(u[i].ops, k, b)
    BY <1>0, <2>2, AllLast
  <2>4. AfterAll(s, k, b) = After(s[i].ops, k, b)
    BY <2>1, AllLast
  <2>5. AfterAll(t, k, AfterAll(s, k, b)) = AfterAll(s, k, b)
    BY <1>3, AllNone, Zenon
  <2>6. u[i] = s[i]
    BY <1>1
  <2> QED BY <2>3, <2>4, <2>5, <2>6 DEF u
<1>4. CASE NoneHas(t, k) /\ NoneHas(s, k)
  <2>1. NoneHas(u, k)
    <3> SUFFICES ASSUME NEW i \in 1..Len(u) PROVE ~HasKey(u[i].ops, k)
      BY DEF NoneHas
    <3>1. CASE i \in 1..m
      BY <1>1, <1>4, <3>1 DEF NoneHas, m
    <3>2. CASE i \notin 1..m
      BY <1>1, <1>4, <3>2 DEF NoneHas, n
    <3> QED BY <3>1, <3>2
  <2>2. AfterAll(u, k, b) = b
    BY <1>0, <2>1, AllNone
  <2>3. AfterAll(s, k, b) = b
    BY <1>4, AllNone, Zenon
  <2>4. AfterAll(t, k, b) = b
    BY <1>4, AllNone, Zenon
  <2> QED BY <2>2, <2>3, <2>4 DEF u
<1> QED BY <1>2, <1>3, <1>4

LEMMA AllOne ==
    ASSUME NEW c \in ChunkRecord, NEW k, NEW b
    PROVE  AfterAll(<<c>>, k, b) = After(c.ops, k, b)
<1> DEFINE s == <<c>>
<1>1. s \in Seq(ChunkRecord) /\ Len(s) = 1 /\ s[1] = c
  OBVIOUS
<1> HIDE DEF s
<1>2. CASE HasKey(c.ops, k)
  <2>1. IsLastChunk(s, k, 1)
    BY <1>1, <1>2 DEF IsLastChunk
  <2>2. AfterAll(s, k, b) = After(s[1].ops, k, b)
    BY <1>1, <2>1, AllLast, Zenon
  <2> QED BY <1>1, <2>2 DEF s
<1>3. CASE ~HasKey(c.ops, k)
  <2>1. NoneHas(s, k)
    BY <1>1, <1>3 DEF NoneHas
  <2>2. AfterAll(s, k, b) = b
    BY <1>1, <2>1, AllNone, Zenon
  <2>3. After(c.ops, k, b) = b
    BY <1>3, AfterNone, Zenon
  <2> QED BY <2>2, <2>3 DEF s
<1> QED BY <1>2, <1>3

\* The ways the chunks of a storage are put together
LEMMA AllEmpty ==
    ASSUME NEW k, NEW b
    PROVE  AfterAll(<<>>, k, b) = b
<1>1. <<>> \in Seq(ChunkRecord) /\ NoneHas(<<>>, k)
  BY DEF NoneHas
<1> QED BY <1>1, AllNone, Zenon

LEMMA AllAppend ==
    ASSUME NEW s \in Seq(ChunkRecord), NEW c \in ChunkRecord, NEW k, NEW b
    PROVE  AfterAll(Append(s, c), k, b) = After(c.ops, k, AfterAll(s, k, b))
<1> DEFINE d == <<c>>
<1>1. Append(s, c) = s \o d
  OBVIOUS
<1>2. d \in Seq(ChunkRecord)
  OBVIOUS
<1>3. \A a : AfterAll(d, k, a) = After(c.ops, k, a)
  BY AllOne
<1> HIDE DEF d
<1>4. AfterAll(s \o d, k, b) = AfterAll(d, k, AfterAll(s, k, b))
  BY <1>2, AllConcat
<1> QED BY <1>1, <1>3, <1>4

LEMMA AllFirst ==
    ASSUME NEW s \in Seq(ChunkRecord), NEW c \in ChunkRecord, NEW k, NEW b
    PROVE  AfterAll(<<c>> \o s, k, b) = AfterAll(s, k, After(c.ops, k, b))
<1> DEFINE d == <<c>>
<1>1. d \in Seq(ChunkRecord)
  OBVIOUS
<1>2. AfterAll(d, k, b) = After(c.ops, k, b)
  BY AllOne
<1> HIDE DEF d
<1>3. AfterAll(d \o s, k, b) = AfterAll(s, k, AfterAll(d, k, b))
  BY <1>1, AllConcat
<1>4. AfterAll(d \o s, k, b) = AfterAll(s, k, After(c.ops, k, b))
  BY <1>2, <1>3
<1> QED BY <1>4 DEF d

-----------------------------------------------------------------------------
(* How many operations there are in a sequence of chunks                   *)

LEMMA PlacesOf ==
    ASSUME NEW s \in Seq(ChunkRecord)
    PROVE  /\ \A i, j : <<i, j>> \in Updates(s) <=> i \in 1..Len(s) /\ j \in 1..Len(s[i].ops)
           /\ \A p \in Updates(s) : p = <<p[1], p[2]>>
<1>1. DOMAIN s = 1..Len(s)
  OBVIOUS
<1>2. ASSUME NEW i \in 1..Len(s) PROVE DOMAIN s[i].ops = 1..Len(s[i].ops)
  <2>1. s[i] \in ChunkRecord
    OBVIOUS
  <2>2. s[i].ops \in Seq(Op)
    BY <2>1 DEF ChunkRecord
  <2> QED BY <2>2
<1>3. \A p : p \in Updates(s) <=> \E i \in 1..Len(s) : p \in {i} \X (1..Len(s[i].ops))
  BY <1>1, <1>2 DEF Updates
<1>4. ASSUME NEW i, NEW j
      PROVE  <<i, j>> \in Updates(s) <=> i \in 1..Len(s) /\ j \in 1..Len(s[i].ops)
  BY <1>3
<1>5. ASSUME NEW p \in Updates(s) PROVE p = <<p[1], p[2]>>
  BY <1>3
<1> QED BY <1>4, <1>5

LEMMA PlacesFinite ==
    ASSUME NEW s \in Seq(ChunkRecord)
    PROVE  IsFiniteSet(Updates(s)) /\ Cardinality(Updates(s)) \in Nat
<1> DEFINE D == 1..Len(s)
           g == [i \in D |-> {i} \X DOMAIN s[i].ops]
           T == {{i} \X DOMAIN s[i].ops : i \in D}
<1>1. D = DOMAIN s /\ Len(s) \in Nat
  OBVIOUS
<1>2. Updates(s) = UNION T
  BY <1>1 DEF Updates
<1>3. g \in Surjection(D, T)
  BY DEF Surjection
<1>4. IsFiniteSet(D)
  BY <1>1, FS_Interval
<1>5. ASSUME NEW x \in T PROVE IsFiniteSet(x)
  <2>1. PICK i \in D : x = {i} \X DOMAIN s[i].ops
    OBVIOUS
  <2>2. s[i] \in ChunkRecord
    OBVIOUS
  <2>3. DOMAIN s[i].ops = 1..Len(s[i].ops) /\ Len(s[i].ops) \in Nat
    BY <2>2 DEF ChunkRecord
  <2>4. IsFiniteSet(1..Len(s[i].ops)) /\ IsFiniteSet({i})
    <3> DEFINE n == Len(s[i].ops)
    <3>1. n \in Int /\ 1 \in Int
      BY <2>3
    <3> HIDE DEF n
    <3>2. IsFiniteSet(1..n)
      BY <3>1, FS_Interval, Zenon
    <3>3. IsFiniteSet({i})
      BY FS_Singleton, Zenon
    <3> QED BY <3>2, <3>3 DEF n
  <2>5. IsFiniteSet({i} \X (1..Len(s[i].ops)))
    BY <2>4, FS_Product
  <2> QED BY <2>1, <2>3, <2>5
<1> HIDE DEF g, T, D
<1>6. IsFiniteSet(T)
  BY <1>3, <1>4, FS_Surjection
<1>7. IsFiniteSet(UNION T)
  BY <1>5, <1>6, FS_UNION
<1> QED BY <1>2, <1>7, FS_CardinalityType

CountOf(s) == Cardinality(Updates(s))

LEMMA CountConcat ==
    ASSUME NEW s \in Seq(ChunkRecord), NEW t \in Seq(ChunkRecord)
    PROVE  CountOf(s \o t) = CountOf(s) + CountOf(t)
<1> DEFINE u == s \o t
           m == Len(s)
           n == Len(t)
           Moved(p) == <<m + p[1], p[2]>>
           U == Updates(t)
           M == {Moved(p) : p \in U}
           g == [p \in U |-> Moved(p)]
<1>1. /\ m \in Nat /\ n \in Nat /\ u \in Seq(ChunkRecord) /\ Len(u) = m + n
      /\ \A i \in 1..m : i \in 1..Len(u) /\ u[i] = s[i]
      /\ \A i \in 1..n : m + i \in 1..Len(u) /\ u[m + i] = t[i]
      /\ \A i \in 1..Len(u) : i \in 1..m \/ i - m \in 1..n
      /\ \A i \in 1..Len(u) : i \notin 1..m => u[i] = t[i - m]
  BY ConcatParts
<1>0. u \in Seq(ChunkRecord)
  BY <1>1
<1> HIDE DEF u
<1>2. IsFiniteSet(U) /\ IsFiniteSet(Updates(s))
  BY PlacesFinite
<1>3. \A p \in U : p[1] \in 1..n /\ p = <<p[1], p[2]>> /\ p[2] \in 1..Len(t[p[1]].ops)
  BY PlacesOf
<1>4. g \in Bijection(U, M)
  <2>1. ASSUME NEW p \in U, NEW q \in U, Moved(p) = Moved(q) PROVE p = q
    <3>1. m + p[1] = m + q[1] /\ p[2] = q[2]
      BY <2>1
    <3>2. p[1] \in Int /\ q[1] \in Int
      BY <1>3
    <3>3. p[1] = q[1]
      BY <1>1, <3>1, <3>2
    <3> QED BY <1>3, <3>1, <3>3
  <2> HIDE DEF U, Moved
  <2>2. g \in Surjection(U, M)
    BY DEF Surjection
  <2>3. g \in Injection(U, M)
    BY <2>1 DEF Injection, IsInjective
  <2> QED BY <2>2, <2>3 DEF Bijection
<1>5. IsFiniteSet(M) /\ Cardinality(M) = Cardinality(U)
  <2> HIDE DEF U, M, g
  <2>1. ExistsBijection(U, M)
    BY <1>4 DEF ExistsBijection
  <2> QED BY <1>2, <2>1, FS_Bijection
<1>6. Updates(u) \subseteq Updates(s) \cup M
  <2> SUFFICES ASSUME NEW p \in Updates(u), p \notin Updates(s) PROVE p \in M
    OBVIOUS
  <2>1. p = <<p[1], p[2]>> /\ p[1] \in 1..Len(u) /\ p[2] \in 1..Len(u[p[1]].ops)
    BY <1>0, PlacesOf
  <2>2. p[1] \notin 1..m
    <3>1. p[1] \in 1..m => <<p[1], p[2]>> \in Updates(s)
      BY <1>1, <2>1, PlacesOf
    <3> QED BY <2>1, <3>1
  <2>3. p[1] - m \in 1..n /\ p[2] \in 1..Len(t[p[1] - m].ops)
    BY <1>1, <2>1, <2>2
  <2> DEFINE q == <<p[1] - m, p[2]>>
  <2>4. q \in U
    BY <2>3, PlacesOf
  <2>5. Moved(q) = p
    BY <1>1, <2>1
  <2> QED BY <2>4, <2>5
<1>7. Updates(s) \subseteq Updates(u)
  <2> SUFFICES ASSUME NEW p \in Updates(s) PROVE p \in Updates(u)
    OBVIOUS
  <2>1. p = <<p[1], p[2]>> /\ p[1] \in 1..m /\ p[2] \in 1..Len(s[p[1]].ops)
    BY PlacesOf
  <2>2. p[1] \in 1..Len(u) /\ p[2] \in 1..Len(u[p[1]].ops)
    BY <1>1, <2>1
  <2>3. <<p[1], p[2]>> \in Updates(u)
    BY <1>0, <2>2, PlacesOf
  <2> QED BY <2>1, <2>3
<1>8. M \subseteq Updates(u)
  <2> SUFFICES ASSUME NEW p \in U PROVE Moved(p) \in Updates(u)
    OBVIOUS
  <2>1. m + p[1] \in 1..Len(u) /\ p[2] \in 1..Len(u[m + p[1]].ops)
    BY <1>1, <1>3
  <2> QED BY <1>0, <2>1, PlacesOf
<1>9. Updates(s) \cap M = {}
  <2> SUFFICES ASSUME NEW p \in U, Moved(p) \in Updates(s) PROVE FALSE
    OBVIOUS
  <2>1. m + p[1] \in 1..m
    BY PlacesOf
  <2> QED BY <1>1, <1>3, <2>1
<1>10. Cardinality(Updates(u)) = Cardinality(Updates(s)) + Cardinality(M)
  <2> HIDE DEF M
  <2>1. Updates(u) = Updates(s) \cup M
    BY <1>6, <1>7, <1>8
  <2>2. Cardinality(Updates(s) \cup M) = Cardinality(Updates(s)) + Cardinality(M)
          - Cardinality(Updates(s) \cap M)
    BY <1>2, <1>5, FS_Union
  <2>3. Cardinality(Updates(s) \cap M) = 0
    BY <1>9, FS_EmptySet
  <2>4. Cardinality(Updates(s)) \in Nat /\ Cardinality(M) \in Nat
    BY <1>2, <1>5, FS_CardinalityType
  <2> QED BY <2>1, <2>2, <2>3, <2>4
<1> QED BY <1>5, <1>10 DEF CountOf, u

LEMMA CountParts ==
    ASSUME NEW s \in Seq(ChunkRecord), NEW c \in ChunkRecord
    PROVE  /\ CountOf(s) \in Nat /\ CountOf(<<>>) = 0
           /\ CountOf(Append(s, c)) = CountOf(s) + Len(c.ops)
           /\ CountOf(<<c>> \o s) = CountOf(s) + Len(c.ops)
           /\ s # <<>> => /\ Head(s) \in ChunkRecord /\ Tail(s) \in Seq(ChunkRecord)
                          /\ CountOf(s) = CountOf(Tail(s)) + Len(Head(s).ops)
<1>1. ASSUME NEW d \in ChunkRecord PROVE CountOf(<<d>>) = Len(d.ops) /\ Len(d.ops) \in Nat
  <2>1. Len(d.ops) \in Nat /\ DOMAIN d.ops = 1..Len(d.ops)
    BY DEF ChunkRecord
  <2>2. Updates(<<d>>) = {1} \X (1..Len(d.ops))
    BY <2>1 DEF Updates
  <2>3. IsFiniteSet({1}) /\ Cardinality({1}) = 1
    BY FS_Singleton
  <2>4. IsFiniteSet(1..Len(d.ops)) /\ Cardinality(1..Len(d.ops)) = Len(d.ops)
    BY <2>1, FS_Interval
  <2>5. Cardinality({1} \X (1..Len(d.ops))) = 1 * Len(d.ops)
    BY <2>3, <2>4, FS_Product
  <2>6. \A a \in Nat : 1 * a = a
    OBVIOUS
  <2>7. Cardinality(Updates(<<d>>)) = Len(d.ops)
    BY <2>1, <2>2, <2>5, <2>6
  <2> QED BY <2>1, <2>7 DEF CountOf
<1>2. CountOf(<<>>) = 0
  <2>1. Updates(<<>>) = {}
    BY DEF Updates
  <2> QED BY <2>1, FS_EmptySet DEF CountOf
<1>3. CountOf(s) \in Nat
  BY PlacesFinite DEF CountOf
<1>4. ASSUME NEW r \in Seq(ChunkRecord), NEW d \in ChunkRecord
      PROVE  /\ CountOf(Append(r, d)) = CountOf(r) + Len(d.ops)
             /\ CountOf(<<d>> \o r) = CountOf(r) + Len(d.ops)
  <2> DEFINE e == <<d>>
  <2>1. e \in Seq(ChunkRecord) /\ Append(r, d) = r \o e
    OBVIOUS
  <2>2. CountOf(e) = Len(d.ops) /\ Len(d.ops) \in Nat
    BY <1>1
  <2>3. CountOf(r) \in Nat
    BY PlacesFinite DEF CountOf
  <2> HIDE DEF e
  <2>4. CountOf(r \o e) = CountOf(r) + CountOf(e) /\ CountOf(e \o r) = CountOf(e) + CountOf(r)
    BY <2>1, CountConcat
  <2> QED BY <2>1, <2>2, <2>3, <2>4 DEF e
<1>5. ASSUME s # <<>>
      PROVE  /\ Head(s) \in ChunkRecord /\ Tail(s) \in Seq(ChunkRecord)
             /\ CountOf(s) = CountOf(Tail(s)) + Len(Head(s).ops)
  <2>1. Head(s) \in ChunkRecord /\ Tail(s) \in Seq(ChunkRecord) /\ s = <<Head(s)>> \o Tail(s)
    BY <1>5
  <2> QED BY <1>4, <2>1
<1> QED BY <1>2, <1>3, <1>4, <1>5

-----------------------------------------------------------------------------
(* The chunks of one storage                                               *)

\* What a storage leaves of a key once it is flushed
Left(s, k, b) == After(s.cur.ops, k, AfterAll(s.finished, k, b))

LEMMA WaitingOK ==
    ASSUME NEW s \in Storage
    PROVE  /\ s.cur \in ChunkRecord /\ s.cur.ops \in Seq(Op) /\ s.finished \in Seq(ChunkRecord)
           /\ Waiting(s) \in Seq(ChunkRecord) /\ Len(s.cur.ops) \in Nat /\ s.total \in Nat
           /\ CountOf(s.finished) \in Nat
           /\ CountOf(Waiting(s)) = CountOf(s.finished) + Len(s.cur.ops)
<1>1. s.cur \in ChunkRecord /\ s.finished \in Seq(ChunkRecord) /\ s.total \in Nat
  BY DEF Storage
<1>2. s.cur.ops \in Seq(Op)
  BY <1>1 DEF ChunkRecord
<1>3. Waiting(s) \in Seq(ChunkRecord) /\ Len(s.cur.ops) \in Nat
  BY <1>1, <1>2 DEF Waiting
<1>4. CountOf(Waiting(s)) = CountOf(s.finished) + Len(s.cur.ops) /\ CountOf(s.finished) \in Nat
  BY <1>1, CountParts DEF Waiting
<1> QED BY <1>1, <1>2, <1>3, <1>4

LEMMA LeftOK ==
    ASSUME NEW s \in Storage, NEW c \in ChunkRecord, NEW k, NEW b
    PROVE  /\ AfterAll(Waiting(s), k, b) = Left(s, k, b)
           /\ AfterAll(<<c>> \o Waiting(s), k, b) = Left(s, k, After(c.ops, k, b))
<1>1. s.cur \in ChunkRecord /\ s.finished \in Seq(ChunkRecord) /\ Waiting(s) \in Seq(ChunkRecord)
  BY WaitingOK
<1>2. ASSUME NEW a PROVE AfterAll(Waiting(s), k, a) = Left(s, k, a)
  <2>1. AfterAll(Append(s.finished, s.cur), k, a) = After(s.cur.ops, k, AfterAll(s.finished, k, a))
    BY <1>1, AllAppend
  <2> QED BY <2>1 DEF Waiting, Left
<1>3. AfterAll(<<c>> \o Waiting(s), k, b) = AfterAll(Waiting(s), k, After(c.ops, k, b))
  BY <1>1, AllFirst
<1> QED BY <1>2, <1>3

LEMMA EmptyChunk ==
    ASSUME NEW id \in Nat
    PROVE  /\ Chunk(id, <<>>) \in ChunkRecord /\ Chunk(id, <<>>).ops = <<>>
           /\ Chunk(id, <<>>).id = id
  BY DEF Chunk, ChunkRecord

LEMMA NewStorageOK ==
    /\ NewStorage \in Storage /\ NewStorage.total = 0
    /\ CountOf(Waiting(NewStorage)) = 0
    /\ \A k, b : Left(NewStorage, k, b) = b
<1>1. /\ NewStorage \in Storage /\ NewStorage.total = 0 /\ NewStorage.finished = <<>>
      /\ NewStorage.cur.ops = <<>>
  BY EmptyChunk DEF NewStorage, Storage
<1>2. CountOf(<<>>) = 0 /\ Len(<<>>) = 0
  BY <1>1, CountParts, WaitingOK
<1>3. CountOf(Waiting(NewStorage)) = 0
  BY <1>1, <1>2, WaitingOK
<1>4. ASSUME NEW k, NEW b PROVE Left(NewStorage, k, b) = b
  BY <1>1, AllEmpty, AfterEmpty DEF Left
<1> QED BY <1>1, <1>3, <1>4

\* A new current chunk, behind the old one or in its place
LEMMA BeginNewChunkOK ==
    ASSUME NEW s \in Storage
    PROVE  /\ BeginNewUpdatesChunk(s) \in Storage
           /\ BeginNewUpdatesChunk(s).finished = Waiting(s)
           /\ BeginNewUpdatesChunk(s).cur = Chunk(s.batchIdCounter, <<>>)
           /\ BeginNewUpdatesChunk(s).batchIdCounter = s.batchIdCounter + 1
           /\ BeginNewUpdatesChunk(s).total = s.total
           /\ BeginNewUpdatesChunk(s).proxy = s.proxy
           /\ CountOf(Waiting(BeginNewUpdatesChunk(s))) = CountOf(Waiting(s))
           /\ \A k, b : Left(BeginNewUpdatesChunk(s), k, b) = Left(s, k, b)
<1> DEFINE t == BeginNewUpdatesChunk(s)
<1>1. Waiting(s) \in Seq(ChunkRecord) /\ CountOf(Waiting(s)) \in Nat
  BY WaitingOK, CountParts
<1>2. s.batchIdCounter \in Nat
  BY DEF Storage
<1>3. Chunk(s.batchIdCounter, <<>>) \in ChunkRecord /\ Chunk(s.batchIdCounter, <<>>).ops = <<>>
  BY <1>2, EmptyChunk
<1>4. /\ t \in Storage /\ t.finished = Waiting(s) /\ t.cur = Chunk(s.batchIdCounter, <<>>)
      /\ t.batchIdCounter = s.batchIdCounter + 1 /\ t.total = s.total /\ t.proxy = s.proxy
  <2> DEFINE f == Waiting(s)
             c == Chunk(s.batchIdCounter, <<>>)
  <2>1. t = [s EXCEPT !.finished = f, !.cur = c, !.batchIdCounter = s.batchIdCounter + 1]
    BY DEF BeginNewUpdatesChunk, NewChunk, Storage, Waiting
  <2>2. s.batchIdCounter + 1 \in Nat
    BY <1>2
  <2> HIDE DEF f, c, t
  <2>3. t \in Storage
    BY <1>1, <1>3, <2>1, <2>2 DEF Storage, f, c
  <2>4. /\ t.finished = f /\ t.cur = c /\ t.batchIdCounter = s.batchIdCounter + 1
        /\ t.total = s.total /\ t.proxy = s.proxy
    BY <2>1 DEF Storage
  <2> QED BY <2>3, <2>4 DEF f, c
<1> HIDE DEF t
<1>5. CountOf(Waiting(t)) = CountOf(Waiting(s))
  BY <1>1, <1>3, <1>4, WaitingOK
<1>6. ASSUME NEW k, NEW b PROVE Left(t, k, b) = Left(s, k, b)
  <2>1. Left(t, k, b) = AfterAll(Waiting(s), k, b)
    BY <1>3, <1>4, AfterEmpty DEF Left
  <2>2. AfterAll(Waiting(s), k, b) = Left(s, k, b)
    BY <1>3, LeftOK
  <2> QED BY <2>1, <2>2
<1> QED BY <1>4, <1>5, <1>6 DEF t

\* The storage before a full chunk is finished
Collected(s, k, v) ==
    [s EXCEPT !.total = @ + 1, !.proxy = ProxyAdd(s, k, v),
              !.cur.ops = Append(@, [key |-> k, val |-> v])]

LEMMA CollectedOK ==
    ASSUME NEW s \in Storage, NEW k \in Keys, NEW v \in Nat
    PROVE  /\ Collected(s, k, v) \in Storage
           /\ Collected(s, k, v).total = s.total + 1
           /\ Collected(s, k, v).proxy = ProxyAdd(s, k, v)
           /\ Collected(s, k, v).finished = s.finished
           /\ Collected(s, k, v).batchIdCounter = s.batchIdCounter
           /\ Collected(s, k, v).cur.id = s.cur.id
           /\ Collected(s, k, v).cur.ops = Append(s.cur.ops, [key |-> k, val |-> v])
<1> DEFINE op == [key |-> k, val |-> v]
           P == ProxyAdd(s, k, v)
           c == [s.cur EXCEPT !.ops = Append(@, op)]
<1>1. s.cur \in ChunkRecord /\ s.cur.ops \in Seq(Op) /\ s.cur.id \in Nat
      /\ s.proxy \in SUBSET ProxyRecord
  BY WaitingOK DEF Storage, ChunkRecord
<1>2. op \in Op
  BY DEF Op
<1>3. P \in SUBSET ProxyRecord
  BY <1>1 DEF ProxyAdd, ProxyRecord
<1>4. c \in ChunkRecord /\ c.id = s.cur.id /\ c.ops = Append(s.cur.ops, op)
  <2> HIDE DEF op
  <2>1. Append(s.cur.ops, op) \in Seq(Op)
    BY <1>1, <1>2
  <2> QED BY <1>1, <2>1 DEF ChunkRecord
<1>5. Collected(s, k, v) = [s EXCEPT !.total = @ + 1, !.proxy = P, !.cur = c]
  BY DEF Collected, Storage
<1> HIDE DEF P, c
<1> DEFINE t == [s EXCEPT !.total = @ + 1, !.proxy = P, !.cur = c]
<1>6. /\ t \in Storage /\ t.total = s.total + 1 /\ t.proxy = P /\ t.finished = s.finished
      /\ t.batchIdCounter = s.batchIdCounter /\ t.cur = c
  <2>1. s.total + 1 \in Nat
    BY DEF Storage
  <2>2. t \in Storage
    BY <1>3, <1>4, <2>1 DEF Storage
  <2>3. /\ t.total = s.total + 1 /\ t.proxy = P /\ t.finished = s.finished
        /\ t.batchIdCounter = s.batchIdCounter /\ t.cur = c
    BY DEF Storage
  <2> QED BY <2>2, <2>3
<1> QED BY <1>4, <1>5, <1>6 DEF P

LEMMA ModifyAsyncOK ==
    ASSUME NEW s \in Storage, NEW k \in Keys, NEW v \in Nat
    PROVE  /\ ModifyAsync(s, k, v) \in Storage
           /\ ModifyAsync(s, k, v).total = s.total + 1
           /\ CountOf(Waiting(ModifyAsync(s, k, v))) = CountOf(Waiting(s)) + 1
           /\ \A h, b : Left(ModifyAsync(s, k, v), h, b) = IF h = k THEN v ELSE Left(s, h, b)
<1> DEFINE t == Collected(s, k, v)
           op == [key |-> k, val |-> v]
<1>1. /\ t \in Storage /\ t.total = s.total + 1 /\ t.finished = s.finished
      /\ t.cur.ops = Append(s.cur.ops, op)
  BY CollectedOK
<1>2. op \in Op /\ op.key = k /\ op.val = v
  BY DEF Op
<1>3. s.cur.ops \in Seq(Op) /\ Len(s.cur.ops) \in Nat /\ CountOf(s.finished) \in Nat
  BY WaitingOK
<1>4. ModifyAsync(s, k, v) = IF ChunkIsFull(t) THEN BeginNewUpdatesChunk(t) ELSE t
  BY DEF ModifyAsync, Collected
<1> HIDE DEF t, op
<1>5. CountOf(Waiting(t)) = CountOf(Waiting(s)) + 1
  <2>1. Len(t.cur.ops) = Len(s.cur.ops) + 1
    BY <1>1, <1>2, <1>3
  <2>2. /\ CountOf(Waiting(t)) = CountOf(s.finished) + Len(t.cur.ops)
        /\ CountOf(Waiting(s)) = CountOf(s.finished) + Len(s.cur.ops)
    BY <1>1, WaitingOK
  <2> QED BY <1>3, <2>1, <2>2
<1>6. ASSUME NEW h, NEW b PROVE Left(t, h, b) = IF h = k THEN v ELSE Left(s, h, b)
  BY <1>1, <1>2, <1>3, AfterAppend DEF Left
<1>7. /\ BeginNewUpdatesChunk(t) \in Storage
      /\ BeginNewUpdatesChunk(t).total = t.total
      /\ CountOf(Waiting(BeginNewUpdatesChunk(t))) = CountOf(Waiting(t))
      /\ \A h, b : Left(BeginNewUpdatesChunk(t), h, b) = Left(t, h, b)
  BY <1>1, BeginNewChunkOK
<1> QED BY <1>1, <1>4, <1>5, <1>6, <1>7

-----------------------------------------------------------------------------
(* The inductive invariant of counter and contents                         *)

Types ==
    /\ disk \in [Keys -> Nat] /\ latest \in [Keys -> Nat] /\ txLatest \in [Keys -> Nat]
    /\ self \in Storage /\ copy \in Storage /\ flushing \in ChunkRecord
    /\ copying \in BOOLEAN /\ isLast \in BOOLEAN /\ failed \in BOOLEAN /\ advices \in BOOLEAN
    /\ withProxy \in BOOLEAN /\ closed \in BOOLEAN
    /\ pc \in {"idle", "reopen", "chunks", "write", "written"}
    /\ closing \in {"no", "flush", "clear"}
    /\ writes \in Nat /\ faults \in Nat /\ copies \in Nat /\ advised \in Nat

IsWriting == pc \in {"write", "written"}

\* A copy excludes a flush and a close, a close that flushes excludes the
\* writers, and it clears what is empty.
PhaseOK ==
    /\ ~IsWriting => flushing = Chunk(0, <<>>)
    /\ copying => pc = "idle" /\ closing = "no" /\ ~closed
    /\ ~copying => copy = NewStorage
    /\ closing # "no" => ~advices /\ ~closed
    /\ closing = "flush" => pc # "idle" /\ (IsWriting /\ isLast => self.total = 0)
    /\ closing = "clear" => pc = "idle" /\ self.total = 0
    /\ closed => pc = "idle" /\ self.total = 0

\* The disk, the chunk that is being written and the waiting ones make up what
\* was written last, and those of the copy add what the transaction wrote.
ValueOK ==
    \A k \in ItemKeys :
        /\ Left(self, k, After(flushing.ops, k, disk[k])) = latest[k]
        /\ Left(copy, k, latest[k]) = txLatest[k]

Inv == Types /\ PhaseOK /\ TotalIsExact /\ ValueOK

LEMMA TotalOK ==
    TotalIsExact <=> /\ self.total = CountOf(Waiting(self))
                     /\ copying => copy.total = CountOf(Waiting(copy))
  BY DEF TotalIsExact, CountOf

LEMMA TotalNext ==
    TotalIsExact' <=> /\ self'.total = CountOf(Waiting(self'))
                      /\ copying' => copy'.total = CountOf(Waiting(copy'))
  BY DEF TotalIsExact, CountOf

LEMMA ValueNext ==
    ValueOK' <=> \A k \in ItemKeys :
        /\ Left(self', k, After(flushing'.ops, k, disk'[k])) = latest'[k]
        /\ Left(copy', k, latest'[k]) = txLatest'[k]
  BY DEF ValueOK

LEMMA SameData ==
    ASSUME Inv, UNCHANGED <<self, copy, copying, flushing, disk, latest, txLatest>>
    PROVE  TotalIsExact' /\ ValueOK'
  BY TotalNext, TotalOK, ValueNext DEF Inv, ValueOK

LEMMA InitInv == Init => Inv
<1> SUFFICES ASSUME Init PROVE Inv
  OBVIOUS
<1>1. Types
  BY NewStorageOK, EmptyChunk, StorageAssumption DEF Init, Types, Removed, StorageAssumption
<1>2. PhaseOK
  BY DEF Init, PhaseOK, IsWriting
<1>3. TotalIsExact
  BY NewStorageOK, TotalOK DEF Init
<1>4. ValueOK
  <2> SUFFICES ASSUME NEW k \in ItemKeys
               PROVE  /\ Left(self, k, After(flushing.ops, k, disk[k])) = latest[k]
                      /\ Left(copy, k, latest[k]) = txLatest[k]
    BY DEF ValueOK
  <2>1. flushing.ops = <<>>
    BY EmptyChunk DEF Init
  <2>2. After(flushing.ops, k, disk[k]) = disk[k]
    BY <2>1, AfterEmpty
  <2> QED BY <2>2, NewStorageOK DEF Init
<1> QED BY <1>1, <1>2, <1>3, <1>4 DEF Inv

LEMMA ValuesOK ==
    ASSUME Types, NEW v \in Values
    PROVE  v \in Nat
  BY DEF Types, Values, Removed

\* A write into the chunks
LEMMA CollectStep ==
    ASSUME Inv, CanWrite, NEW k \in Keys, NEW v \in Nat, self' = ModifyAsync(self, k, v),
           Written(k, v), UNCHANGED <<disk, flushing, pc, isLast, closing>>,
           failed' \in BOOLEAN, faults' \in Nat
    PROVE  Inv'
<1>0. Types /\ PhaseOK /\ TotalIsExact /\ ValueOK
  BY DEF Inv
<1>1. /\ self' \in Storage /\ self'.total = self.total + 1
      /\ CountOf(Waiting(self')) = CountOf(Waiting(self)) + 1
      /\ \A h, b : Left(self', h, b) = IF h = k THEN v ELSE Left(self, h, b)
  <2>1. self \in Storage
    BY <1>0 DEF Types
  <2> QED BY <2>1, ModifyAsyncOK
<1>2. /\ latest' = [latest EXCEPT ![k] = v] /\ txLatest' = latest' /\ writes' = writes + 1
      /\ UNCHANGED <<copy, copying, advices, withProxy, closed, copies, advised>>
  BY DEF Written
<1>3. ~copying /\ ~closed /\ closing = "no" /\ copy = NewStorage
  BY <1>0 DEF CanWrite, PhaseOK
<1>4. Types'
  BY <1>0, <1>1, <1>2 DEF Types
<1>5. PhaseOK'
  BY <1>0, <1>2, <1>3 DEF PhaseOK, IsWriting
<1>6. TotalIsExact'
  BY <1>0, <1>1, <1>2, <1>3, TotalOK, TotalNext
<1>7. ValueOK'
  <2> SUFFICES ASSUME NEW h \in ItemKeys
               PROVE  /\ Left(self', h, After(flushing'.ops, h, disk'[h])) = latest'[h]
                      /\ Left(copy', h, latest'[h]) = txLatest'[h]
    BY ValueNext
  <2>1. Left(self', h, After(flushing.ops, h, disk[h])) =
          IF h = k THEN v ELSE Left(self, h, After(flushing.ops, h, disk[h]))
    BY <1>1
  <2>2. Left(self, h, After(flushing.ops, h, disk[h])) = latest[h]
    BY <1>0 DEF ValueOK
  <2>3. latest'[h] = IF h = k THEN v ELSE latest[h]
    BY <1>0, <1>2 DEF Types, Keys
  <2>4. Left(copy', h, latest'[h]) = latest'[h]
    BY <1>2, <1>3, NewStorageOK
  <2> QED BY <1>2, <2>1, <2>2, <2>3, <2>4
<1> QED BY <1>4, <1>5, <1>6, <1>7 DEF Inv

LEMMA WriteStep ==
    ASSUME Inv, NEW k \in Keys, NEW v \in Values, Write(k, v) \/ WriteSyncFails(k, v)
    PROVE  Inv'
<1>1. Types /\ v \in Nat
  BY ValuesOK DEF Inv
<1>2. /\ CanWrite /\ self' = ModifyAsync(self, k, v) /\ Written(k, v)
      /\ UNCHANGED <<disk, flushing, pc, isLast, closing>>
  BY DEF Write, WriteSyncFails, flushVars
<1>3. failed' \in BOOLEAN /\ faults' \in Nat
  <2>1. failed \in BOOLEAN /\ faults \in Nat
    BY <1>1 DEF Types
  <2>2. (failed' = failed /\ faults' = faults) \/ (failed' = TRUE /\ faults' = faults + 1)
    BY DEF Write, WriteSyncFails
  <2>3. failed' \in BOOLEAN
    BY <2>1, <2>2, Zenon
  <2>4. faults' = faults \/ faults' = faults + 1
    BY <2>2, Zenon
  <2> QED BY <2>1, <2>3, <2>4
<1> QED BY <1>1, <1>2, <1>3, CollectStep

LEMMA ProxyOnly ==
    ASSUME NEW s \in Storage, NEW t, NEW P \in SUBSET ProxyRecord, t = [s EXCEPT !.proxy = P]
    PROVE  /\ t \in Storage /\ t.total = s.total /\ t.cur = s.cur /\ t.finished = s.finished
           /\ t.batchIdCounter = s.batchIdCounter /\ t.proxy = P
           /\ CountOf(Waiting(t)) = CountOf(Waiting(s))
           /\ \A k, b : Left(t, k, b) = Left(s, k, b)
<1>1. /\ t \in Storage /\ t.total = s.total /\ t.cur = s.cur /\ t.finished = s.finished
      /\ t.batchIdCounter = s.batchIdCounter /\ t.proxy = P
  BY DEF Storage
<1> QED BY <1>1 DEF Waiting, Left

LEMMA ProxyTypes ==
    ASSUME NEW s \in Storage, NEW k, NEW id
    PROVE  /\ \E P \in SUBSET ProxyRecord : ProxyDelete(s, k) = [s EXCEPT !.proxy = P]
           /\ \E P \in SUBSET ProxyRecord : ProxyErase(s, id) = [s EXCEPT !.proxy = P]
<1>1. s.proxy \in SUBSET ProxyRecord
  BY DEF Storage
<1> DEFINE P == IF withProxy THEN {e \in s.proxy : e.key # k} ELSE s.proxy
           Q == IF withProxy THEN {e \in s.proxy : e.id # id} ELSE s.proxy
<1>2. P \in SUBSET ProxyRecord /\ Q \in SUBSET ProxyRecord
  BY <1>1
<1>3. ProxyDelete(s, k) = [s EXCEPT !.proxy = P] /\ ProxyErase(s, id) = [s EXCEPT !.proxy = Q]
  BY DEF ProxyDelete, ProxyErase
<1> HIDE DEF P, Q
<1> QED BY <1>2, <1>3

\* A write at once concerns meta data only.
LEMMA WriteSyncStep ==
    ASSUME Inv, NEW k \in Keys, NEW v \in Values, WriteSync(k, v)
    PROVE  Inv'
<1>0. Types /\ PhaseOK /\ TotalIsExact /\ ValueOK /\ v \in Nat
  BY ValuesOK DEF Inv
<1>1. /\ CanWrite /\ k \in MetaKeys /\ disk' = [disk EXCEPT ![k] = v]
      /\ self' = ProxyDelete(self, k)
      /\ UNCHANGED <<flushing, pc, isLast, closing, failed, faults>>
      /\ latest' = [latest EXCEPT ![k] = v] /\ txLatest' = latest' /\ writes' = writes + 1
      /\ UNCHANGED <<copy, copying, advices, withProxy, closed, copies, advised>>
  BY DEF WriteSync, Written, flushVars
<1>2. self \in Storage
  BY <1>0 DEF Types
<1>3. /\ self' \in Storage /\ self'.total = self.total
      /\ CountOf(Waiting(self')) = CountOf(Waiting(self))
      /\ \A h, b : Left(self', h, b) = Left(self, h, b)
  <2>1. PICK P \in SUBSET ProxyRecord : self' = [self EXCEPT !.proxy = P]
    BY <1>1, <1>2, ProxyTypes
  <2> QED BY <1>2, <2>1, ProxyOnly
<1>4. ~copying /\ ~closed /\ closing = "no" /\ copy = NewStorage
  BY <1>0, <1>1 DEF CanWrite, PhaseOK
<1>5. Types'
  BY <1>0, <1>1, <1>3 DEF Types
<1>6. PhaseOK'
  BY <1>0, <1>1, <1>4 DEF PhaseOK, IsWriting
<1>7. TotalIsExact'
  BY <1>0, <1>1, <1>3, <1>4, TotalOK, TotalNext
<1>8. ValueOK'
  <2> SUFFICES ASSUME NEW h \in ItemKeys
               PROVE  /\ Left(self', h, After(flushing'.ops, h, disk'[h])) = latest'[h]
                      /\ Left(copy', h, latest'[h]) = txLatest'[h]
    BY ValueNext
  <2>1. h # k
    BY <1>1, StorageAssumption DEF StorageAssumption
  <2>2. disk'[h] = disk[h] /\ latest'[h] = latest[h]
    BY <1>0, <1>1, <2>1 DEF Types, Keys
  <2>3. Left(self', h, After(flushing.ops, h, disk[h])) = Left(self, h, After(flushing.ops, h, disk[h]))
    BY <1>3
  <2>4. Left(self, h, After(flushing.ops, h, disk[h])) = latest[h]
    BY <1>0 DEF ValueOK
  <2>5. Left(copy', h, latest'[h]) = latest'[h]
    BY <1>1, <1>4, NewStorageOK
  <2> QED BY <1>1, <2>2, <2>3, <2>4, <2>5
<1> QED BY <1>5, <1>6, <1>7, <1>8 DEF Inv

LEMMA CopyWriteStep ==
    ASSUME Inv, NEW k \in Keys, NEW v \in Values, CopyWrite(k, v)
    PROVE  Inv'
<1>0. Types /\ PhaseOK /\ TotalIsExact /\ ValueOK /\ v \in Nat
  BY ValuesOK DEF Inv
<1>1. /\ copying /\ copy' = ModifyAsync(copy, k, v) /\ txLatest' = [txLatest EXCEPT ![k] = v]
      /\ writes' = writes + 1
      /\ UNCHANGED <<disk, self, copying, flushing, pc, isLast, closing, failed, advices,
                     withProxy, closed, latest, faults, copies, advised>>
  BY DEF CopyWrite, flushVars
<1>2. copy \in Storage
  BY <1>0 DEF Types
<1>3. /\ copy' \in Storage /\ copy'.total = copy.total + 1
      /\ CountOf(Waiting(copy')) = CountOf(Waiting(copy)) + 1
      /\ \A h, b : Left(copy', h, b) = IF h = k THEN v ELSE Left(copy, h, b)
  BY <1>0, <1>1, <1>2, ModifyAsyncOK
<1>4. Types'
  BY <1>0, <1>1, <1>3 DEF Types
<1>5. PhaseOK'
  BY <1>0, <1>1 DEF PhaseOK, IsWriting
<1>6. TotalIsExact'
  BY <1>0, <1>1, <1>3, TotalOK, TotalNext
<1>7. ValueOK'
  <2> SUFFICES ASSUME NEW h \in ItemKeys
               PROVE  /\ Left(self', h, After(flushing'.ops, h, disk'[h])) = latest'[h]
                      /\ Left(copy', h, latest'[h]) = txLatest'[h]
    BY ValueNext
  <2>1. Left(copy', h, latest[h]) = IF h = k THEN v ELSE Left(copy, h, latest[h])
    BY <1>3
  <2>2. /\ Left(self, h, After(flushing.ops, h, disk[h])) = latest[h]
        /\ Left(copy, h, latest[h]) = txLatest[h]
    BY <1>0 DEF ValueOK
  <2>3. txLatest'[h] = IF h = k THEN v ELSE txLatest[h]
    BY <1>0, <1>1 DEF Types, Keys
  <2> QED BY <1>1, <2>1, <2>2, <2>3
<1> QED BY <1>4, <1>5, <1>6, <1>7 DEF Inv

\* The steps that move no data
LEMMA ControlStep ==
    ASSUME Inv, \/ BeginAdvice \/ EndAdvice \/ FlushBegin \/ ReopenBegin \/ ReopenOk
                \/ ReopenFails \/ FlushEnds \/ BeginClose
    PROVE  Inv'
<1>0. Types /\ PhaseOK
  BY DEF Inv
<1>1. UNCHANGED <<self, copy, copying, flushing, disk, latest, txLatest, isLast, withProxy, closed>>
  BY DEF BeginAdvice, EndAdvice, FlushBegin, ReopenBegin, FlushBegins, ReopenOk, ReopenFails,
         FlushEnds, BeginClose, flushVars
<1>2. TotalIsExact' /\ ValueOK'
  BY <1>1, SameData
<1>3. /\ failed' \in BOOLEAN /\ advices' \in BOOLEAN
      /\ pc' \in {"idle", "reopen", "chunks", "write", "written"}
      /\ closing' \in {"no", "flush", "clear"}
      /\ writes' \in Nat /\ faults' \in Nat /\ copies' \in Nat /\ advised' \in Nat
  <2>1. CASE BeginAdvice
    BY <1>0, <2>1 DEF BeginAdvice, Types, flushVars
  <2>2. CASE EndAdvice
    BY <1>0, <2>2 DEF EndAdvice, Types, flushVars, bounds
  <2>3. CASE FlushBegin \/ ReopenBegin
    BY <1>0, <2>3 DEF FlushBegin, ReopenBegin, FlushBegins, Types, bounds
  <2>4. CASE ReopenOk
    BY <1>0, <2>4 DEF ReopenOk, Types, bounds
  <2>5. CASE ReopenFails
    BY <1>0, <2>5 DEF ReopenFails, FlushThrows, Types
  <2>6. CASE FlushEnds
    BY <1>0, <2>6 DEF FlushEnds, FlushReturns, Types, bounds
  <2>7. CASE BeginClose
    BY <1>0, <2>7 DEF BeginClose, Types, bounds
  <2> QED BY <2>1, <2>2, <2>3, <2>4, <2>5, <2>6, <2>7
<1>4. Types'
  BY <1>0, <1>1, <1>3 DEF Types
<1>5. PhaseOK'
  <2>1. CASE BeginAdvice
    BY <1>0, <1>1, <2>1 DEF BeginAdvice, CanWrite, PhaseOK, IsWriting, flushVars
  <2>2. CASE EndAdvice
    BY <1>0, <1>1, <2>2 DEF EndAdvice, PhaseOK, IsWriting, flushVars
  <2>3. CASE FlushBegin \/ ReopenBegin
    BY <1>0, <1>1, <2>3 DEF FlushBegin, ReopenBegin, FlushBegins, CanFlush, PhaseOK, IsWriting
  <2>4. CASE ReopenOk
    BY <1>0, <1>1, <2>4 DEF ReopenOk, PhaseOK, IsWriting
  <2>5. CASE ReopenFails
    BY <1>0, <1>1, <2>5 DEF ReopenFails, FlushThrows, PhaseOK, IsWriting
  <2>6. CASE FlushEnds
    BY <1>0, <1>1, <2>6 DEF FlushEnds, FlushReturns, PhaseOK, IsWriting
  <2>7. CASE BeginClose
    BY <1>0, <1>1, <2>7 DEF BeginClose, PhaseOK, IsWriting
  <2> QED BY <2>1, <2>2, <2>3, <2>4, <2>5, <2>6, <2>7
<1> QED BY <1>2, <1>4, <1>5 DEF Inv

LEMMA FirstFinished ==
    ASSUME NEW s \in Storage, s.finished # <<>>
    PROVE  /\ Head(s.finished) \in ChunkRecord /\ Tail(s.finished) \in Seq(ChunkRecord)
           /\ CountOf(s.finished) = CountOf(Tail(s.finished)) + Len(Head(s.finished).ops)
           /\ Len(Head(s.finished).ops) \in Nat /\ CountOf(Tail(s.finished)) \in Nat
           /\ \A k, b : AfterAll(s.finished, k, b) =
                          AfterAll(Tail(s.finished), k, After(Head(s.finished).ops, k, b))
<1> DEFINE f == s.finished
           c == Head(f)
           r == Tail(f)
<1>1. f \in Seq(ChunkRecord) /\ f # <<>>
  BY WaitingOK
<1> HIDE DEF f
<1>2. c \in ChunkRecord /\ r \in Seq(ChunkRecord) /\ f = <<c>> \o r
  BY <1>1
<1>3. CountOf(f) = CountOf(r) + Len(c.ops) /\ CountOf(r) \in Nat
  BY <1>1, <1>2, CountParts
<1>4. Len(c.ops) \in Nat
  <2> HIDE DEF c
  <2> QED BY <1>2 DEF ChunkRecord
<1> HIDE DEF c, r
<1>5. ASSUME NEW k, NEW b PROVE AfterAll(f, k, b) = AfterAll(r, k, After(c.ops, k, b))
  <2>1. AfterAll(<<c>> \o r, k, b) = AfterAll(r, k, After(c.ops, k, b))
    BY <1>2, AllFirst
  <2> QED BY <1>2, <2>1
<1> QED BY <1>2, <1>3, <1>4, <1>5 DEF f, c, r

LEMMA TakeFinishedStep ==
    ASSUME Inv, TakeFinishedChunk
    PROVE  Inv'
<1>0. Types /\ PhaseOK /\ TotalIsExact /\ ValueOK
  BY DEF Inv
<1> DEFINE c == Head(self.finished)
           r == Tail(self.finished)
           n == self.total - Len(c.ops)
<1>1. /\ pc = "chunks" /\ self.finished # <<>> /\ flushing' = c
      /\ self' = [self EXCEPT !.finished = r, !.total = n]
      /\ isLast' = FALSE /\ pc' = "write"
      /\ UNCHANGED <<disk, copy, copying, closing, failed, advices, withProxy, closed,
                     latest, txLatest, writes, faults, copies, advised>>
  BY DEF TakeFinishedChunk, bounds
<1>2. self \in Storage
  BY <1>0 DEF Types
<1>3. /\ c \in ChunkRecord /\ r \in Seq(ChunkRecord)
      /\ CountOf(self.finished) = CountOf(r) + Len(c.ops)
      /\ Len(c.ops) \in Nat /\ CountOf(r) \in Nat
      /\ \A k, b : AfterAll(self.finished, k, b) = AfterAll(r, k, After(c.ops, k, b))
  BY <1>1, <1>2, FirstFinished
<1>4. /\ self.total \in Nat /\ Len(self.cur.ops) \in Nat
      /\ CountOf(Waiting(self)) = CountOf(self.finished) + Len(self.cur.ops)
      /\ self.total = CountOf(Waiting(self))
  BY <1>0, <1>2, WaitingOK, TotalOK
<1> HIDE DEF c, r
<1>5. n \in Nat
  BY <1>3, <1>4
<1> HIDE DEF n
<1>6. self' \in Storage /\ self'.total = n /\ self'.finished = r /\ self'.cur = self.cur
  BY <1>1, <1>2, <1>3, <1>5 DEF Storage
<1>7. CountOf(Waiting(self')) = CountOf(r) + Len(self.cur.ops)
  BY <1>6, WaitingOK
<1>8. TotalIsExact'
  BY <1>0, <1>1, <1>3, <1>4, <1>6, <1>7, TotalOK, TotalNext DEF n
<1>9. Types'
  BY <1>0, <1>1, <1>3, <1>6 DEF Types
<1>10. PhaseOK'
  BY <1>0, <1>1 DEF PhaseOK, IsWriting
<1>11. ValueOK'
  <2> SUFFICES ASSUME NEW k \in ItemKeys
               PROVE  /\ Left(self', k, After(flushing'.ops, k, disk'[k])) = latest'[k]
                      /\ Left(copy', k, latest'[k]) = txLatest'[k]
    BY ValueNext
  <2>1. flushing.ops = <<>>
    BY <1>0, <1>1, EmptyChunk DEF PhaseOK, IsWriting
  <2>2. After(flushing.ops, k, disk[k]) = disk[k]
    BY <2>1, AfterEmpty
  <2>3. Left(self', k, After(c.ops, k, disk[k])) = Left(self, k, disk[k])
    BY <1>3, <1>6 DEF Left
  <2> QED BY <1>0, <1>1, <2>2, <2>3 DEF ValueOK
<1> QED BY <1>8, <1>9, <1>10, <1>11 DEF Inv

LEMMA NoOps ==
    ASSUME NEW s \in Storage, s.finished = <<>>
    PROVE  CountOf(Waiting(s)) = Len(s.cur.ops)
<1>1. CountOf(<<>>) = 0
  BY WaitingOK, CountParts
<1>2. CountOf(Waiting(s)) = CountOf(s.finished) + Len(s.cur.ops) /\ Len(s.cur.ops) \in Nat
  BY WaitingOK
<1> QED BY <1>1, <1>2

LEMMA TakeCurrentStep ==
    ASSUME Inv, TakeCurrentChunk
    PROVE  Inv'
<1>0. Types /\ PhaseOK /\ TotalIsExact /\ ValueOK
  BY DEF Inv
<1> DEFINE c == Chunk(self.batchIdCounter, <<>>)
<1>1. /\ pc = "chunks" /\ self.finished = <<>> /\ flushing' = self.cur
      /\ self' = NewChunk([self EXCEPT !.total = 0])
      /\ isLast' = TRUE /\ pc' = "write"
      /\ UNCHANGED <<disk, copy, copying, closing, failed, advices, withProxy, closed,
                     latest, txLatest, writes, faults, copies, advised>>
  BY DEF TakeCurrentChunk, bounds
<1>2. self \in Storage /\ self.batchIdCounter \in Nat /\ self.cur \in ChunkRecord
  BY <1>0 DEF Types, Storage
<1>3. c \in ChunkRecord /\ c.ops = <<>>
  BY <1>2, EmptyChunk
<1>4. self' = [self EXCEPT !.total = 0, !.cur = c, !.batchIdCounter = self.batchIdCounter + 1]
  BY <1>1, <1>2 DEF NewChunk, Storage
<1> HIDE DEF c
<1>5. self' \in Storage /\ self'.total = 0 /\ self'.finished = <<>> /\ self'.cur = c
  <2>1. self.batchIdCounter + 1 \in Nat /\ 0 \in Nat
    BY <1>2
  <2>2. self' \in Storage
    BY <1>2, <1>3, <1>4, <2>1 DEF Storage
  <2>3. self'.total = 0 /\ self'.finished = self.finished /\ self'.cur = c
    BY <1>2, <1>4 DEF Storage
  <2> QED BY <1>1, <2>2, <2>3
<1>6. CountOf(Waiting(self')) = 0
  BY <1>3, <1>5, NoOps
<1>7. TotalIsExact'
  BY <1>0, <1>1, <1>5, <1>6, TotalOK, TotalNext
<1>8. Types'
  BY <1>0, <1>1, <1>2, <1>5 DEF Types
<1>9. PhaseOK'
  BY <1>0, <1>1, <1>5 DEF PhaseOK, IsWriting
<1>10. ValueOK'
  <2> SUFFICES ASSUME NEW k \in ItemKeys
               PROVE  /\ Left(self', k, After(flushing'.ops, k, disk'[k])) = latest'[k]
                      /\ Left(copy', k, latest'[k]) = txLatest'[k]
    BY ValueNext
  <2>1. flushing.ops = <<>>
    BY <1>0, <1>1, EmptyChunk DEF PhaseOK, IsWriting
  <2>2. After(flushing.ops, k, disk[k]) = disk[k]
    BY <2>1, AfterEmpty
  <2>3. Left(self, k, disk[k]) = After(self.cur.ops, k, disk[k])
    BY <1>1, AllEmpty DEF Left
  <2>4. \A b : Left(self', k, b) = b
    BY <1>3, <1>5, AllEmpty, AfterEmpty DEF Left
  <2> QED BY <1>0, <1>1, <2>2, <2>3, <2>4 DEF ValueOK
<1> QED BY <1>7, <1>8, <1>9, <1>10 DEF Inv

LEMMA WriteChunkStep ==
    ASSUME Inv, WriteChunk
    PROVE  Inv'
<1>0. Types /\ PhaseOK /\ TotalIsExact /\ ValueOK
  BY DEF Inv
<1>1. /\ pc = "write" /\ pc' = "written"
      /\ disk' = [k \in Keys |-> After(flushing.ops, k, disk[k])]
      /\ UNCHANGED <<self, copy, copying, flushing, isLast, closing, failed, advices,
                     withProxy, closed, latest, txLatest, writes, faults, copies, advised>>
  BY DEF WriteChunk, bounds
<1>2. flushing.ops \in Seq(Op)
  BY <1>0 DEF Types, ChunkRecord
<1>3. disk' \in [Keys -> Nat]
  <2>1. ASSUME NEW k \in Keys PROVE After(flushing.ops, k, disk[k]) \in Nat
    <3>1. disk[k] \in Nat
      BY <1>0 DEF Types
    <3> QED BY <1>2, <3>1, AfterType
  <2> QED BY <1>1, <2>1
<1>4. Types'
  BY <1>0, <1>1, <1>3 DEF Types
<1>5. PhaseOK'
  BY <1>0, <1>1 DEF PhaseOK, IsWriting
<1>6. TotalIsExact'
  BY <1>0, <1>1, TotalOK, TotalNext
<1>7. ValueOK'
  <2> SUFFICES ASSUME NEW k \in ItemKeys
               PROVE  /\ Left(self', k, After(flushing'.ops, k, disk'[k])) = latest'[k]
                      /\ Left(copy', k, latest'[k]) = txLatest'[k]
    BY ValueNext
  <2>1. disk'[k] = After(flushing.ops, k, disk[k])
    BY <1>1 DEF Keys
  <2>2. After(flushing.ops, k, disk'[k]) = After(flushing.ops, k, disk[k])
    BY <1>2, <2>1, AfterTwice
  <2> QED BY <1>0, <1>1, <2>2 DEF ValueOK
<1> QED BY <1>4, <1>5, <1>6, <1>7 DEF Inv

\* PutBack for any chunk
WithFirst(s, c) == [s EXCEPT !.finished = <<c>> \o @, !.total = @ + Len(c.ops)]

LEMMA PutBackOK ==
    ASSUME NEW s \in Storage, NEW c \in ChunkRecord
    PROVE  /\ WithFirst(s, c) \in Storage /\ WithFirst(s, c).total = s.total + Len(c.ops)
           /\ CountOf(Waiting(WithFirst(s, c))) = CountOf(Waiting(s)) + Len(c.ops)
           /\ \A k, b : Left(WithFirst(s, c), k, b) = Left(s, k, After(c.ops, k, b))
<1> DEFINE t == WithFirst(s, c)
           f == <<c>> \o s.finished
           n == s.total + Len(c.ops)
<1>1. s.finished \in Seq(ChunkRecord) /\ s.total \in Nat /\ Len(s.cur.ops) \in Nat
  BY WaitingOK
<1>2. Len(c.ops) \in Nat
  BY DEF ChunkRecord
<1>3. f \in Seq(ChunkRecord)
  BY <1>1
<1>4. n \in Nat
  BY <1>1, <1>2
<1>5. CountOf(f) = CountOf(s.finished) + Len(c.ops) /\ CountOf(s.finished) \in Nat
  BY <1>1, CountParts
<1>6. ASSUME NEW k, NEW b PROVE AfterAll(f, k, b) = AfterAll(s.finished, k, After(c.ops, k, b))
  BY <1>1, AllFirst
<1>7. t = [s EXCEPT !.finished = f, !.total = n]
  BY DEF WithFirst
<1> HIDE DEF f, n, t
<1>8. t \in Storage /\ t.finished = f /\ t.total = n /\ t.cur = s.cur
  BY <1>3, <1>4, <1>7 DEF Storage
<1>9. CountOf(Waiting(t)) = CountOf(f) + Len(s.cur.ops)
  BY <1>8, WaitingOK
<1>10. CountOf(Waiting(s)) = CountOf(s.finished) + Len(s.cur.ops)
  BY WaitingOK
<1>11. CountOf(Waiting(t)) = CountOf(Waiting(s)) + Len(c.ops)
  BY <1>1, <1>2, <1>5, <1>9, <1>10
<1>12. ASSUME NEW k, NEW b PROVE Left(t, k, b) = Left(s, k, After(c.ops, k, b))
  BY <1>6, <1>8 DEF Left
<1> QED BY <1>8, <1>11, <1>12 DEF n, t

LEMMA WriteChunkFailsStep ==
    ASSUME Inv, WriteChunkFails
    PROVE  Inv'
<1>0. Types /\ PhaseOK /\ TotalIsExact /\ ValueOK
  BY DEF Inv
<1>1. /\ pc = "write" /\ faults' = faults + 1 /\ failed' = TRUE
      /\ self' = WithFirst(self, flushing)
      /\ flushing' = Chunk(0, <<>>) /\ pc' = "idle" /\ closing' = "no"
      /\ UNCHANGED <<disk, copy, copying, isLast, advices, withProxy, closed, latest,
                     txLatest, writes, copies, advised>>
  BY DEF WriteChunkFails, PutBack, WithFirst, FlushThrows
<1>2. self \in Storage /\ flushing \in ChunkRecord
  BY <1>0 DEF Types
<1>3. /\ self' \in Storage /\ self'.total = self.total + Len(flushing.ops)
      /\ CountOf(Waiting(self')) = CountOf(Waiting(self)) + Len(flushing.ops)
      /\ \A k, b : Left(self', k, b) = Left(self, k, After(flushing.ops, k, b))
  BY <1>1, <1>2, PutBackOK
<1>4. flushing' \in ChunkRecord /\ flushing'.ops = <<>>
  BY <1>1, EmptyChunk
<1>5. ~copying /\ ~closed
  BY <1>0, <1>1 DEF PhaseOK
<1>6. Types'
  BY <1>0, <1>1, <1>3, <1>4 DEF Types
<1>7. PhaseOK'
  BY <1>0, <1>1, <1>5 DEF PhaseOK, IsWriting
<1>8. TotalIsExact'
  BY <1>0, <1>1, <1>3, <1>5, TotalOK, TotalNext
<1>9. ValueOK'
  <2> SUFFICES ASSUME NEW k \in ItemKeys
               PROVE  /\ Left(self', k, After(flushing'.ops, k, disk'[k])) = latest'[k]
                      /\ Left(copy', k, latest'[k]) = txLatest'[k]
    BY ValueNext
  <2>1. After(flushing'.ops, k, disk[k]) = disk[k]
    BY <1>4, AfterEmpty
  <2>2. Left(self', k, disk[k]) = Left(self, k, After(flushing.ops, k, disk[k]))
    BY <1>3
  <2> QED BY <1>0, <1>1, <2>1, <2>2 DEF ValueOK
<1> QED BY <1>6, <1>7, <1>8, <1>9 DEF Inv

\* Once the chunk is written the disk has all of it.
DiskOK ==
    pc = "written" => \A k \in ItemKeys : After(flushing.ops, k, disk[k]) = disk[k]

LEMMA ChunkWrittenStep ==
    ASSUME Inv, DiskOK, ChunkWritten
    PROVE  Inv'
<1>0. Types /\ PhaseOK /\ TotalIsExact /\ ValueOK
  BY DEF Inv
<1>1. /\ pc = "written" /\ self' = ProxyErase(self, flushing.id) /\ flushing' = Chunk(0, <<>>)
      /\ pc' = IF isLast THEN "idle" ELSE "chunks"
      /\ closing' = IF isLast /\ closing = "flush" THEN "clear" ELSE closing
      /\ UNCHANGED <<disk, copy, copying, isLast, failed, advices, withProxy, closed,
                     latest, txLatest, writes, faults, copies, advised>>
  BY DEF ChunkWritten, FlushReturns, bounds
<1>2. self \in Storage
  BY <1>0 DEF Types
<1>3. /\ self' \in Storage /\ self'.total = self.total
      /\ CountOf(Waiting(self')) = CountOf(Waiting(self))
      /\ \A h, b : Left(self', h, b) = Left(self, h, b)
  <2>1. PICK P \in SUBSET ProxyRecord : self' = [self EXCEPT !.proxy = P]
    BY <1>1, <1>2, ProxyTypes
  <2>2. \A t : t = [self EXCEPT !.proxy = P] =>
             /\ t \in Storage /\ t.total = self.total
             /\ CountOf(Waiting(t)) = CountOf(Waiting(self))
             /\ \A h, b : Left(t, h, b) = Left(self, h, b)
    BY <1>2, ProxyOnly
  <2> QED BY <2>1, <2>2
<1>4. flushing' \in ChunkRecord /\ flushing'.ops = <<>>
  BY <1>1, EmptyChunk
<1>5. ~copying /\ ~closed /\ closing # "clear"
  BY <1>0, <1>1 DEF PhaseOK
<1>6. Types'
  <2>1. /\ pc' \in {"idle", "reopen", "chunks", "write", "written"}
        /\ closing' \in {"no", "flush", "clear"}
    BY <1>0, <1>1 DEF Types
  <2> QED BY <1>0, <1>1, <1>3, <1>4, <2>1 DEF Types
<1>7. PhaseOK'
  BY <1>0, <1>1, <1>3, <1>5 DEF PhaseOK, IsWriting
<1>8. TotalIsExact'
  BY <1>0, <1>1, <1>3, <1>5, TotalOK, TotalNext
<1>9. ValueOK'
  <2> SUFFICES ASSUME NEW k \in ItemKeys
               PROVE  /\ Left(self', k, After(flushing'.ops, k, disk'[k])) = latest'[k]
                      /\ Left(copy', k, latest'[k]) = txLatest'[k]
    BY ValueNext
  <2>1. After(flushing'.ops, k, disk[k]) = disk[k]
    BY <1>4, AfterEmpty
  <2>2. After(flushing.ops, k, disk[k]) = disk[k]
    BY <1>1 DEF DiskOK
  <2>3. Left(self', k, disk[k]) = Left(self, k, disk[k])
    BY <1>3
  <2> QED BY <1>0, <1>1, <2>1, <2>2, <2>3 DEF ValueOK
<1> QED BY <1>6, <1>7, <1>8, <1>9 DEF Inv

\* A storage without operations leaves everything as it is.
LEMMA NothingToWrite ==
    ASSUME NEW s \in Storage, CountOf(Waiting(s)) = 0
    PROVE  \A k, b : Left(s, k, b) = b
<1>1. /\ s.cur.ops \in Seq(Op) /\ s.finished \in Seq(ChunkRecord) /\ Len(s.cur.ops) \in Nat
      /\ CountOf(s.finished) \in Nat
      /\ CountOf(Waiting(s)) = CountOf(s.finished) + Len(s.cur.ops)
  BY WaitingOK
<1>2. Len(s.cur.ops) = 0 /\ CountOf(s.finished) = 0
  BY <1>1
<1>3. s.cur.ops = <<>>
  BY <1>1, <1>2
<1>4. Updates(s.finished) = {}
  <2>1. IsFiniteSet(Updates(s.finished))
    BY <1>1, PlacesFinite
  <2> QED BY <1>2, <2>1, FS_EmptySet DEF CountOf
<1>5. ASSUME NEW k PROVE NoneHas(s.finished, k)
  <2> SUFFICES ASSUME NEW i \in 1..Len(s.finished) PROVE ~HasKey(s.finished[i].ops, k)
    BY DEF NoneHas
  <2>1. s.finished[i] \in ChunkRecord
    BY <1>1
  <2>2. DOMAIN s.finished[i].ops = 1..Len(s.finished[i].ops)
    BY <2>1 DEF ChunkRecord
  <2>3. \A j : j \notin 1..Len(s.finished[i].ops)
    BY <1>1, <1>4, PlacesOf
  <2> QED BY <2>2, <2>3 DEF HasKey
<1> SUFFICES ASSUME NEW k, NEW b PROVE Left(s, k, b) = b
  OBVIOUS
<1>6. AfterAll(s.finished, k, b) = b
  BY <1>1, <1>5, AllNone
<1> QED BY <1>3, <1>6, AfterEmpty DEF Left

LEMMA CloseStep ==
    ASSUME Inv, Close
    PROVE  Inv'
<1>0. Types /\ PhaseOK /\ TotalIsExact /\ ValueOK
  BY DEF Inv
<1>1. /\ closing = "clear" /\ closing' = "no" /\ closed' = TRUE /\ failed' = FALSE
      /\ self' = [NewStorage EXCEPT !.batchIdCounter = 0, !.proxy = self.proxy]
      /\ UNCHANGED <<disk, copy, copying, flushing, pc, isLast, advices, withProxy,
                     latest, txLatest, writes, faults, copies, advised>>
  BY DEF Close, bounds
<1>2. self \in Storage /\ self.proxy \in SUBSET ProxyRecord
  BY <1>0 DEF Types, Storage
<1>3. /\ self' \in Storage /\ self'.total = 0 /\ self'.finished = <<>>
      /\ self'.cur = Chunk(0, <<>>)
  <2> DEFINE c == Chunk(0, <<>>)
             P == self.proxy
  <2>1. self' = [cur |-> c, finished |-> <<>>, batchIdCounter |-> 0, total |-> 0, proxy |-> P]
    BY <1>1 DEF NewStorage
  <2>2. c \in ChunkRecord /\ <<>> \in Seq(ChunkRecord) /\ P \in SUBSET ProxyRecord
    BY <1>2, EmptyChunk
  <2> HIDE DEF c, P
  <2>3. self' \in Storage
    BY <2>1, <2>2 DEF Storage
  <2>4. self'.total = 0 /\ self'.finished = <<>> /\ self'.cur = c
    BY <2>1
  <2> QED BY <2>3, <2>4 DEF c
<1>4. self'.cur.ops = <<>>
  BY <1>3, EmptyChunk
<1>5. pc = "idle" /\ ~copying /\ self.total = 0 /\ flushing.ops = <<>> /\ ~advices
  BY <1>0, <1>1, EmptyChunk DEF PhaseOK, IsWriting
<1>6. TotalIsExact'
  <2>1. CountOf(Waiting(self')) = 0
    BY <1>3, <1>4, NoOps
  <2> QED BY <1>1, <1>3, <1>5, <2>1, TotalNext
<1>7. Types'
  BY <1>0, <1>1, <1>3 DEF Types
<1>8. PhaseOK'
  BY <1>0, <1>1, <1>3, <1>5 DEF PhaseOK, IsWriting
<1>9. ValueOK'
  <2> SUFFICES ASSUME NEW k \in ItemKeys
               PROVE  /\ Left(self', k, After(flushing'.ops, k, disk'[k])) = latest'[k]
                      /\ Left(copy', k, latest'[k]) = txLatest'[k]
    BY ValueNext
  <2>1. After(flushing.ops, k, disk[k]) = disk[k]
    BY <1>5, AfterEmpty
  <2>2. Left(self', k, disk[k]) = disk[k]
    BY <1>3, <1>4, AllEmpty, AfterEmpty DEF Left
  <2>3. Left(self, k, disk[k]) = disk[k]
    BY <1>0, <1>2, <1>5, TotalOK, NothingToWrite
  <2> QED BY <1>0, <1>1, <2>1, <2>2, <2>3 DEF ValueOK
<1> QED BY <1>6, <1>7, <1>8, <1>9 DEF Inv

LEMMA BeginCopyStep ==
    ASSUME Inv, BeginCopy
    PROVE  Inv'
<1>0. Types /\ PhaseOK /\ TotalIsExact /\ ValueOK
  BY DEF Inv
<1>1. /\ ~copying /\ ~closed /\ closing = "no" /\ pc = "idle"
      /\ copying' = TRUE /\ copies' = copies + 1 /\ copy' = NewStorage
      /\ UNCHANGED <<disk, self, flushing, pc, isLast, closing, failed, advices, withProxy,
                     closed, latest, txLatest, writes, faults, advised>>
  BY DEF BeginCopy, flushVars
<1>2. copy = NewStorage
  BY <1>0, <1>1 DEF PhaseOK
<1>3. Types'
  BY <1>0, <1>1, NewStorageOK DEF Types
<1>4. PhaseOK'
  BY <1>0, <1>1 DEF PhaseOK, IsWriting
<1>5. TotalIsExact'
  BY <1>0, <1>1, NewStorageOK, TotalOK, TotalNext
<1>6. ValueOK'
  BY <1>0, <1>1, <1>2, ValueNext DEF ValueOK
<1> QED BY <1>3, <1>4, <1>5, <1>6 DEF Inv

LEMMA DropCopyStep ==
    ASSUME Inv, DropCopy
    PROVE  Inv'
<1>0. Types /\ PhaseOK /\ TotalIsExact /\ ValueOK
  BY DEF Inv
<1>1. /\ copying /\ copying' = FALSE /\ copy' = NewStorage /\ txLatest' = latest
      /\ UNCHANGED <<disk, self, flushing, pc, isLast, closing, failed, advices, withProxy,
                     closed, latest, writes, faults, copies, advised>>
  BY DEF DropCopy, flushVars, bounds
<1>2. Types'
  BY <1>0, <1>1, NewStorageOK DEF Types
<1>3. PhaseOK'
  BY <1>0, <1>1 DEF PhaseOK, IsWriting
<1>4. TotalIsExact'
  BY <1>0, <1>1, TotalOK, TotalNext
<1>5. ValueOK'
  BY <1>0, <1>1, NewStorageOK, ValueNext DEF ValueOK
<1> QED BY <1>2, <1>3, <1>4, <1>5 DEF Inv

\* The storage of the copy with the chunks of the original before its own
Inherited(own, src) ==
    [own EXCEPT !.finished = InheritedFirst(own, src), !.batchIdCounter = src.batchIdCounter,
                !.total = src.total + own.total]

LEMMA InheritedOK ==
    ASSUME NEW own \in Storage, NEW src \in Storage
    PROVE  /\ Inherited(own, src) \in Storage
           /\ Inherited(own, src).total = src.total + own.total
           /\ CountOf(Waiting(Inherited(own, src))) = CountOf(Waiting(src)) + CountOf(Waiting(own))
           /\ \A k, b : Left(Inherited(own, src), k, b) = Left(own, k, Left(src, k, b))
<1> DEFINE t == Inherited(own, src)
           w == Waiting(src)
           f == w \o own.finished
           n == src.total + own.total
           id == src.batchIdCounter
<1>1. /\ w \in Seq(ChunkRecord) /\ own.finished \in Seq(ChunkRecord)
      /\ src.total \in Nat /\ own.total \in Nat /\ Len(own.cur.ops) \in Nat
      /\ CountOf(own.finished) \in Nat
      /\ CountOf(Waiting(own)) = CountOf(own.finished) + Len(own.cur.ops)
  BY WaitingOK
<1>2. ASSUME NEW k, NEW b PROVE AfterAll(w, k, b) = Left(src, k, b)
  <2>1. src.finished \in Seq(ChunkRecord) /\ src.cur \in ChunkRecord
    BY WaitingOK
  <2>2. AfterAll(Append(src.finished, src.cur), k, b) =
          After(src.cur.ops, k, AfterAll(src.finished, k, b))
    BY <2>1, AllAppend
  <2> QED BY <2>2 DEF Waiting, Left
<1>3. id \in Nat /\ n \in Nat
  BY <1>1 DEF Storage
<1>4. t = [own EXCEPT !.finished = f, !.batchIdCounter = id, !.total = n]
  BY DEF Inherited, InheritedFirst, Waiting
<1> HIDE DEF w, t, n, id
<1>5. f \in Seq(ChunkRecord)
  BY <1>1
<1>6. CountOf(f) = CountOf(w) + CountOf(own.finished) /\ CountOf(w) \in Nat
  <2>1. CountOf(w) \in Nat
    BY <1>1, PlacesFinite DEF CountOf
  <2> QED BY <1>1, <2>1, CountConcat
<1>7. ASSUME NEW k, NEW b PROVE AfterAll(f, k, b) = AfterAll(own.finished, k, AfterAll(w, k, b))
  BY <1>1, AllConcat
<1> HIDE DEF f
<1>8. t \in Storage
  BY <1>3, <1>4, <1>5 DEF Storage
<1>9. t.finished = f /\ t.cur = own.cur /\ t.total = n
  BY <1>4 DEF Storage
<1>10. CountOf(Waiting(t)) = CountOf(f) + Len(own.cur.ops)
  BY <1>8, <1>9, WaitingOK
<1>11. CountOf(Waiting(t)) = CountOf(w) + CountOf(Waiting(own))
  BY <1>1, <1>6, <1>10
<1>12. ASSUME NEW k, NEW b PROVE Left(t, k, b) = Left(own, k, Left(src, k, b))
  <2>1. AfterAll(f, k, b) = AfterAll(own.finished, k, Left(src, k, b))
    BY <1>2, <1>7
  <2> QED BY <1>9, <2>1 DEF Left
<1> QED BY <1>8, <1>9, <1>11, <1>12 DEF t, w, n

LEMMA InheritStep ==
    ASSUME Inv, InheritUpdatesFrom
    PROVE  Inv'
<1>0. Types /\ PhaseOK /\ TotalIsExact /\ ValueOK
  BY DEF Inv
<1>1. /\ copying /\ self' = Inherited(copy, self)
      /\ failed' = FALSE /\ latest' = txLatest /\ copying' = FALSE /\ copy' = NewStorage
      /\ UNCHANGED <<disk, flushing, pc, isLast, closing, advices, withProxy, closed,
                     txLatest, writes, faults, copies, advised>>
  BY DEF InheritUpdatesFrom, Inherited, flushVars, bounds
<1>2. self \in Storage /\ copy \in Storage
  BY <1>0 DEF Types
<1>3. /\ self' \in Storage /\ self'.total = self.total + copy.total
      /\ CountOf(Waiting(self')) = CountOf(Waiting(self)) + CountOf(Waiting(copy))
      /\ \A k, b : Left(self', k, b) = Left(copy, k, Left(self, k, b))
  BY <1>1, <1>2, InheritedOK
<1>4. pc = "idle" /\ closing = "no" /\ ~closed
  BY <1>0, <1>1 DEF PhaseOK
<1>5. Types'
  BY <1>0, <1>1, <1>3, NewStorageOK DEF Types
<1>6. PhaseOK'
  BY <1>0, <1>1, <1>4 DEF PhaseOK, IsWriting
<1>7. TotalIsExact'
  BY <1>0, <1>1, <1>3, TotalOK, TotalNext
<1>8. ValueOK'
  <2> SUFFICES ASSUME NEW k \in ItemKeys
               PROVE  /\ Left(self', k, After(flushing'.ops, k, disk'[k])) = latest'[k]
                      /\ Left(copy', k, latest'[k]) = txLatest'[k]
    BY ValueNext
  <2> DEFINE b == After(flushing.ops, k, disk[k])
  <2>1. Left(self, k, b) = latest[k] /\ Left(copy, k, latest[k]) = txLatest[k]
    BY <1>0 DEF ValueOK
  <2>2. Left(self', k, b) = Left(copy, k, Left(self, k, b))
    BY <1>3
  <2>3. Left(copy', k, latest'[k]) = latest'[k]
    BY <1>1, NewStorageOK
  <2> QED BY <1>1, <2>1, <2>2, <2>3
<1> QED BY <1>5, <1>6, <1>7, <1>8 DEF Inv

-----------------------------------------------------------------------------
(* The invariant holds                                                     *)

IInv == Inv /\ DiskOK

LEMMA DiskStep ==
    ASSUME IInv, [Next]_vars
    PROVE  DiskOK'
<1>0. Types /\ PhaseOK /\ DiskOK
  BY DEF IInv, Inv
<1>1. \/ pc' # "written" \/ WriteChunk
      \/ UNCHANGED <<pc, flushing, disk>>
      \/ UNCHANGED <<pc, flushing>> /\ \E k \in MetaKeys : \E v : disk' = [disk EXCEPT ![k] = v]
  <2>1. CASE Writer
    <3>1. PICK k \in Keys, v \in Values :
             Write(k, v) \/ WriteSync(k, v) \/ WriteSyncFails(k, v) \/ CopyWrite(k, v)
      BY <2>1 DEF Writer
    <3>2. CASE WriteSync(k, v)
      BY <3>2 DEF WriteSync, flushVars
    <3>3. CASE Write(k, v) \/ WriteSyncFails(k, v) \/ CopyWrite(k, v)
      BY <3>3 DEF Write, WriteSyncFails, CopyWrite, flushVars
    <3> QED BY <3>1, <3>2, <3>3
  <2>2. CASE BeginAdvice \/ EndAdvice \/ BeginCopy \/ InheritUpdatesFrom \/ DropCopy \/ Close
    BY <2>2 DEF BeginAdvice, EndAdvice, BeginCopy, InheritUpdatesFrom, DropCopy, Close, flushVars
  <2>3. CASE Flush \/ ReopenFails \/ WriteChunkFails
    BY <2>3 DEF Flush, FlushBegin, ReopenBegin, FlushBegins, ReopenOk, TakeFinishedChunk,
                TakeCurrentChunk, ChunkWritten, FlushEnds, ReopenFails, WriteChunkFails
  <2>4. CASE BeginClose
    BY <2>4 DEF BeginClose
  <2>5. CASE UNCHANGED vars
    BY <2>5 DEF vars, flushVars
  <2> QED BY <2>1, <2>2, <2>3, <2>4, <2>5 DEF Next
<1>2. CASE pc' # "written"
  BY <1>2 DEF DiskOK
<1>3. CASE UNCHANGED <<pc, flushing, disk>>
  BY <1>0, <1>3 DEF DiskOK
<1>4. CASE UNCHANGED <<pc, flushing>> /\ \E k \in MetaKeys : \E v : disk' = [disk EXCEPT ![k] = v]
  <2>1. PICK k \in MetaKeys : \E v : disk' = [disk EXCEPT ![k] = v]
    BY <1>4
  <2>2. \A h \in ItemKeys : disk'[h] = disk[h]
    BY <1>0, <2>1, StorageAssumption DEF Types, Keys, StorageAssumption
  <2> QED BY <1>0, <1>4, <2>2 DEF DiskOK
<1>5. CASE WriteChunk
  <2>1. flushing.ops \in Seq(Op)
    BY <1>0 DEF Types, ChunkRecord
  <2>2. flushing' = flushing /\ \A k \in ItemKeys : disk'[k] = After(flushing.ops, k, disk[k])
    BY <1>5 DEF WriteChunk, Keys
  <2>3. \A k \in ItemKeys : After(flushing'.ops, k, disk'[k]) = disk'[k]
    BY <2>1, <2>2, AfterTwice
  <2> QED BY <2>3 DEF DiskOK
<1> QED BY <1>1, <1>2, <1>3, <1>4, <1>5

LEMMA StepInv ==
    ASSUME IInv, [Next]_vars
    PROVE  IInv'
<1>0. Inv /\ DiskOK
  BY DEF IInv
<1> SUFFICES Inv'
  BY DiskStep DEF IInv
<1>1. CASE Writer
  BY <1>0, <1>1, WriteStep, WriteSyncStep, CopyWriteStep DEF Writer
<1>2. CASE \/ BeginAdvice \/ EndAdvice \/ FlushBegin \/ ReopenBegin \/ ReopenOk
           \/ ReopenFails \/ FlushEnds \/ BeginClose
  BY <1>0, <1>2, ControlStep
<1>3. CASE TakeFinishedChunk \/ TakeCurrentChunk
  BY <1>0, <1>3, TakeFinishedStep, TakeCurrentStep
<1>4. CASE WriteChunk \/ WriteChunkFails \/ ChunkWritten
  BY <1>0, <1>4, WriteChunkStep, WriteChunkFailsStep, ChunkWrittenStep
<1>5. CASE Close \/ BeginCopy \/ InheritUpdatesFrom \/ DropCopy
  BY <1>0, <1>5, CloseStep, BeginCopyStep, InheritStep, DropCopyStep
<1>6. CASE UNCHANGED vars
  <2>1. UNCHANGED <<self, copy, copying, flushing, disk, latest, txLatest>>
    BY <1>6 DEF vars, flushVars
  <2>2. TotalIsExact' /\ ValueOK'
    BY <1>0, <2>1, SameData
  <2>3. Types' /\ PhaseOK'
    BY <1>0, <1>6 DEF Inv, Types, PhaseOK, IsWriting, vars, flushVars, bounds
  <2> QED BY <2>2, <2>3 DEF Inv
<1> QED BY <1>1, <1>2, <1>3, <1>4, <1>5, <1>6 DEF Next, Flush

(* Types, phases, counter and contents agree in every reachable state of    *)
(* the storage (AsyncStorage's write, flush, close and inherit methods).    *)
THEOREM StorageInvariant == Spec => []IInv
<1>1. Init => IInv
  BY InitInv DEF IInv, DiskOK, Init
<1>2. IInv /\ [Next]_vars => IInv'
  BY StepInv
<1> QED BY <1>1, <1>2, PTL DEF Spec

(* totalUpdatesCount_ is the number of the updates that wait, for any       *)
(* sequence of writes, failed chunks and inherited chunks: a flush ends,    *)
(* and it leaves nothing behind.                                            *)
THEOREM TotalExact == Spec => []TotalIsExact
<1>1. IInv => TotalIsExact
  BY DEF IInv, Inv
<1> QED BY <1>1, StorageInvariant, PTL

(* No item is lost or set back by a failed write of a chunk (which is put   *)
(* back in front), by a copy that inherits older chunks, or by Close.       *)
THEOREM ItemsAreSafe == Spec => []ItemsSurvive
<1>1. ASSUME IInv PROVE ItemsSurvive
  <2>0. Types /\ PhaseOK /\ TotalIsExact /\ ValueOK
    BY <1>1 DEF IInv, Inv
  <2> SUFFICES ASSUME NEW k \in ItemKeys
               PROVE  AfterAll(IF closed THEN <<>> ELSE <<flushing>> \o Waiting(self), k, disk[k])
                        = latest[k]
    BY DEF ItemsSurvive
  <2>1. self \in Storage /\ flushing \in ChunkRecord
    BY <2>0 DEF Types
  <2>2. Left(self, k, After(flushing.ops, k, disk[k])) = latest[k]
    BY <2>0 DEF ValueOK
  <2>3. CASE ~closed
    <3>1. AfterAll(<<flushing>> \o Waiting(self), k, disk[k]) =
            Left(self, k, After(flushing.ops, k, disk[k]))
      BY <2>1, LeftOK
    <3> QED BY <2>2, <2>3, <3>1
  <2>4. CASE closed
    <3>1. self.total = 0 /\ flushing.ops = <<>>
      BY <2>0, <2>4, EmptyChunk DEF PhaseOK, IsWriting
    <3>2. After(flushing.ops, k, disk[k]) = disk[k]
      BY <3>1, AfterEmpty
    <3>3. Left(self, k, disk[k]) = disk[k]
      BY <2>0, <2>1, <3>1, TotalOK, NothingToWrite
    <3> QED BY <2>2, <2>4, <3>2, <3>3, AllEmpty
  <2> QED BY <2>3, <2>4
<1> QED BY <1>1, StorageInvariant, PTL

-----------------------------------------------------------------------------
(* The proxy                                                               *)

Entry(c, k) == [id |-> c.id, key |-> k, val |-> After(c.ops, k, 0)]

IsEntry(e, c) == HasKey(c.ops, e.key) /\ e = Entry(c, e.key)

\* The proxy of chunks that get ever larger ids below n: what each of them
\* leaves of its items, and nothing else of an item.
Ordered(chunks, n) ==
    /\ \A i, j \in 1..Len(chunks) : i < j => chunks[i].id < chunks[j].id
    /\ \A i \in 1..Len(chunks) : chunks[i].id < n

Mirrors(proxy, chunks) ==
    /\ \A e \in proxy : e.key \in ItemKeys => \E i \in 1..Len(chunks) : IsEntry(e, chunks[i])
    /\ \A i \in 1..Len(chunks), k \in ItemKeys :
          HasKey(chunks[i].ops, k) => Entry(chunks[i], k) \in proxy

LEMMA OneChunkPerId ==
    ASSUME NEW s \in Seq(ChunkRecord), NEW n, Ordered(s, n),
           NEW i \in 1..Len(s), NEW j \in 1..Len(s), s[i].id = s[j].id
    PROVE  i = j
<1>1. s[i].id \in Nat /\ s[j].id \in Nat /\ Len(s) \in Nat
  <2>1. s[i] \in ChunkRecord /\ s[j] \in ChunkRecord
    OBVIOUS
  <2> QED BY <2>1 DEF ChunkRecord
<1>2. i < j => s[i].id < s[j].id
  BY DEF Ordered
<1>3. j < i => s[j].id < s[i].id
  BY DEF Ordered
<1> QED BY <1>1, <1>2, <1>3

\* The newest batch of the proxy has what the chunks leave of an item.
Found(proxy, k) == {e \in proxy : e.key = k}

LEMMA NewestBatch ==
    ASSUME NEW s \in Seq(ChunkRecord), NEW n, Ordered(s, n), NEW proxy, Mirrors(proxy, s),
           NEW k \in ItemKeys, NEW b, Found(proxy, k) # {}
    PROVE  (CHOOSE e \in Found(proxy, k) : \A f \in Found(proxy, k) : f.id <= e.id).val
             = AfterAll(s, k, b)
<1> DEFINE F == Found(proxy, k)
           Newest(e) == \A f \in F : f.id <= e.id
<1>1. PICK i \in 1..Len(s) : IsLastChunk(s, k, i)
  <2>1. PICK e \in F : TRUE
    OBVIOUS
  <2>2. e \in proxy /\ e.key = k
    BY DEF Found
  <2>3. PICK j \in 1..Len(s) : IsEntry(e, s[j])
    BY <2>2 DEF Mirrors
  <2>4. ~NoneHas(s, k)
    BY <2>2, <2>3 DEF NoneHas, IsEntry
  <2> QED BY <2>4, LastChunk
<1>2. s[i] \in ChunkRecord /\ HasKey(s[i].ops, k)
  BY <1>1 DEF IsLastChunk
<1>3. s[i].ops \in Seq(Op) /\ s[i].id \in Nat
  BY <1>2 DEF ChunkRecord
<1>4. AfterAll(s, k, b) = After(s[i].ops, k, b)
  BY <1>1, AllLast
<1>5. After(s[i].ops, k, b) = After(s[i].ops, k, 0)
  BY <1>2, <1>3, AfterHas
<1> DEFINE top == Entry(s[i], k)
<1>6. top.id = s[i].id /\ top.key = k /\ top.val = After(s[i].ops, k, 0)
  BY DEF Entry
<1>7. top \in F
  BY <1>2, <1>6 DEF Mirrors, Found
<1>8. ASSUME NEW f \in F PROVE f.id \in Nat /\ f.id <= top.id /\ (f.id = top.id => f = top)
  <2>1. f \in proxy /\ f.key = k
    BY DEF Found
  <2>2. PICK j \in 1..Len(s) : IsEntry(f, s[j])
    BY <2>1 DEF Mirrors
  <2>3. HasKey(s[j].ops, k) /\ f = Entry(s[j], k) /\ f.id = s[j].id
    BY <2>1, <2>2 DEF IsEntry, Entry
  <2>4. s[j] \in ChunkRecord
    OBVIOUS
  <2>5. s[j].id \in Nat
    BY <2>4 DEF ChunkRecord
  <2>6. j <= i
    BY <1>1, <2>3 DEF IsLastChunk
  <2>7. j = i \/ s[j].id < s[i].id
    <3>1. j = i \/ j < i
      BY <2>6
    <3> QED BY <3>1 DEF Ordered
  <2> QED BY <1>3, <1>6, <2>3, <2>5, <2>7
<1> HIDE DEF F, top
<1>9. \E e \in F : Newest(e)
  BY <1>7, <1>8
<1>10. ASSUME NEW e \in F, Newest(e) PROVE e = top
  <2>1. top.id <= e.id /\ e.id <= top.id /\ e.id \in Nat /\ top.id \in Nat
    BY <1>7, <1>8, <1>10
  <2> QED BY <1>8, <2>1
<1>11. (CHOOSE e \in F : Newest(e)) = top
  <2> HIDE DEF Newest
  <2>1. (CHOOSE e \in F : Newest(e)) \in F /\ Newest(CHOOSE e \in F : Newest(e))
    BY <1>9, Zenon
  <2> QED BY <1>10, <2>1
<1> QED BY <1>4, <1>5, <1>6, <1>11 DEF F, top

\* A new empty chunk behind the others
LEMMA MirrorsNewChunk ==
    ASSUME NEW s \in Seq(ChunkRecord), NEW n \in Nat, Ordered(s, n), NEW proxy, Mirrors(proxy, s)
    PROVE  /\ Ordered(Append(s, Chunk(n, <<>>)), n + 1)
           /\ Mirrors(proxy, Append(s, Chunk(n, <<>>)))
<1> DEFINE c == Chunk(n, <<>>)
           t == Append(s, c)
           m == Len(s)
<1>1. c \in ChunkRecord /\ c.ops = <<>> /\ c.id = n
  BY EmptyChunk
<1> HIDE DEF c
<1>2. m \in Nat /\ Len(t) = m + 1 /\ t[m + 1] = c /\ \A i \in 1..m : t[i] = s[i]
  BY <1>1
<1>3. ~(\E k : HasKey(c.ops, k))
  BY <1>1 DEF HasKey
<1>4. ASSUME NEW i \in 1..m PROVE s[i].id \in Nat
  <2>1. s[i] \in ChunkRecord
    OBVIOUS
  <2> QED BY <2>1 DEF ChunkRecord
<1> HIDE DEF t, m
<1>5. \A i \in 1..(m + 1) : i \in 1..m \/ i = m + 1
  BY <1>2
<1>6. Ordered(t, n + 1)
  <2>1. ASSUME NEW i \in 1..Len(t), NEW j \in 1..Len(t), i < j PROVE t[i].id < t[j].id
    <3>1. i \in 1..m
      BY <1>2, <2>1
    <3>2. CASE j \in 1..m
      BY <1>2, <2>1, <3>1, <3>2 DEF Ordered, m
    <3>3. CASE j = m + 1
      BY <1>1, <1>2, <3>1, <3>3 DEF Ordered, m
    <3> QED BY <1>2, <1>5, <3>2, <3>3
  <2>2. ASSUME NEW i \in 1..Len(t) PROVE t[i].id < n + 1
    <3>1. CASE i \in 1..m
      <4>1. s[i].id < n
        BY <3>1 DEF Ordered, m
      <4> QED BY <1>2, <1>4, <3>1, <4>1
    <3>2. CASE i = m + 1
      BY <1>1, <1>2, <3>2
    <3> QED BY <1>2, <1>5, <3>1, <3>2
  <2> QED BY <2>1, <2>2 DEF Ordered
<1>7. Mirrors(proxy, t)
  <2>1. ASSUME NEW e \in proxy, e.key \in ItemKeys
        PROVE  \E i \in 1..Len(t) : IsEntry(e, t[i])
    <3>1. PICK i \in 1..m : IsEntry(e, s[i])
      BY <2>1 DEF Mirrors, m
    <3>2. i \in 1..Len(t) /\ IsEntry(e, t[i])
      BY <1>2, <3>1
    <3> QED BY <3>2
  <2>2. ASSUME NEW i \in 1..Len(t), NEW k \in ItemKeys, HasKey(t[i].ops, k)
        PROVE  Entry(t[i], k) \in proxy
    <3>1. i \in 1..m
      BY <1>2, <1>3, <1>5, <2>2
    <3> QED BY <1>2, <2>2, <3>1 DEF Mirrors, m
  <2> QED BY <2>1, <2>2 DEF Mirrors
<1> QED BY <1>6, <1>7 DEF t, c

\* An operation more in the last chunk
LEMMA MirrorsCollect ==
    ASSUME NEW r \in Seq(ChunkRecord), NEW c \in ChunkRecord, NEW d \in ChunkRecord,
           NEW k \in Keys, NEW v \in Nat, NEW n, NEW proxy,
           Ordered(Append(r, c), n), Mirrors(proxy, Append(r, c)),
           d.id = c.id, d.ops = Append(c.ops, [key |-> k, val |-> v])
    PROVE  /\ Ordered(Append(r, d), n)
           /\ Mirrors({e \in proxy : e.id # c.id \/ e.key # k}
                        \cup {[id |-> c.id, key |-> k, val |-> v]}, Append(r, d))
<1> DEFINE s == Append(r, c)
           t == Append(r, d)
           m == Len(r)
           op == [key |-> k, val |-> v]
           new == [id |-> c.id, key |-> k, val |-> v]
           Q == {e \in proxy : e.id # c.id \/ e.key # k} \cup {new}
<1>1. m \in Nat /\ Len(s) = m + 1 /\ s[m + 1] = c /\ \A i \in 1..m : s[i] = r[i]
  OBVIOUS
<1>2. Len(t) = m + 1 /\ t[m + 1] = d /\ \A i \in 1..m : t[i] = r[i]
  OBVIOUS
<1>3. s \in Seq(ChunkRecord) /\ t \in Seq(ChunkRecord)
  OBVIOUS
<1>4. op \in Op /\ op.key = k /\ op.val = v /\ new.id = c.id /\ new.key = k /\ new.val = v
  BY DEF Op
<1>5. c.ops \in Seq(Op)
  BY DEF ChunkRecord
<1>6. Ordered(s, n) /\ Mirrors(proxy, s) /\ d.ops = Append(c.ops, op)
  OBVIOUS
<1> HIDE DEF s, t, m, op, new
<1>7. ASSUME NEW h
      PROVE  /\ HasKey(d.ops, h) <=> HasKey(c.ops, h) \/ h = k
             /\ After(d.ops, h, 0) = IF h = k THEN v ELSE After(c.ops, h, 0)
  <2>1. /\ HasKey(Append(c.ops, op), h) <=> HasKey(c.ops, h) \/ op.key = h
        /\ After(Append(c.ops, op), h, 0) = IF op.key = h THEN op.val ELSE After(c.ops, h, 0)
    BY <1>4, <1>5, AfterAppend
  <2>2. /\ HasKey(d.ops, h) <=> HasKey(c.ops, h) \/ op.key = h
        /\ After(d.ops, h, 0) = IF op.key = h THEN op.val ELSE After(c.ops, h, 0)
    BY <1>6, <2>1
  <2>3. op.key = k /\ op.val = v
    BY <1>4
  <2> QED BY <2>2, <2>3
<1>8. Entry(d, k) = new
  BY <1>7 DEF Entry, new
<1>9. ASSUME NEW h, h # k PROVE Entry(d, h) = Entry(c, h)
  BY <1>7, <1>9 DEF Entry
<1>10. \A i \in 1..(m + 1) : i \in 1..m \/ i = m + 1
  BY <1>1
<1>11. \A i \in 1..(m + 1) : t[i].id = s[i].id
  BY <1>1, <1>2, <1>10
<1>12. Ordered(t, n)
  BY <1>1, <1>2, <1>6, <1>11 DEF Ordered
<1>13. ASSUME NEW e \in Q, e.key \in ItemKeys
       PROVE  \E i \in 1..Len(t) : IsEntry(e, t[i])
  <2>1. CASE e = new
    <3>1. IsEntry(e, d)
      BY <1>4, <1>7, <1>8, <2>1 DEF IsEntry
    <3> QED BY <1>1, <1>2, <3>1
  <2>2. CASE e # new
    <3>1. e \in proxy /\ (e.id # c.id \/ e.key # k)
      BY <2>2
    <3>2. PICK i \in 1..Len(s) : IsEntry(e, s[i])
      BY <1>6, <1>13, <3>1 DEF Mirrors
    <3>3. CASE i \in 1..m
      BY <1>1, <1>2, <3>2, <3>3
    <3>4. CASE i = m + 1
      <4>1. HasKey(c.ops, e.key) /\ e = Entry(c, e.key)
        BY <1>1, <3>2, <3>4 DEF IsEntry
      <4>2. e.id = c.id
        BY <4>1 DEF Entry
      <4>3. e.key # k
        BY <3>1, <4>2
      <4>4. IsEntry(e, d)
        BY <1>7, <1>9, <4>1, <4>3 DEF IsEntry
      <4> QED BY <1>1, <1>2, <4>4
    <3> QED BY <1>1, <1>10, <3>3, <3>4
  <2> QED BY <2>1, <2>2
<1>14. ASSUME NEW i \in 1..Len(t), NEW h \in ItemKeys, HasKey(t[i].ops, h)
       PROVE  Entry(t[i], h) \in Q
  <2>1. CASE i \in 1..m
    <3>1. HasKey(s[i].ops, h) /\ i \in 1..Len(s) /\ t[i] = s[i]
      BY <1>1, <1>2, <1>14, <2>1
    <3>2. Entry(s[i], h) \in proxy
      BY <1>6, <3>1 DEF Mirrors
    <3>3. m + 1 \in 1..Len(s) /\ i # m + 1
      BY <1>1, <2>1
    <3>4. s[i].id # c.id
      BY <1>1, <1>3, <1>6, <3>1, <3>3, OneChunkPerId
    <3>5. Entry(s[i], h).id = s[i].id
      BY DEF Entry
    <3> QED BY <3>1, <3>2, <3>4, <3>5
  <2>2. CASE i = m + 1 /\ h = k
    BY <1>2, <1>8, <2>2
  <2>3. CASE i = m + 1 /\ h # k
    <3>1. HasKey(c.ops, h) /\ t[i] = d
      BY <1>2, <1>7, <1>14, <2>3
    <3>2. Entry(c, h) \in proxy
      BY <1>1, <1>6, <3>1 DEF Mirrors
    <3>3. Entry(c, h).key = h
      BY DEF Entry
    <3> QED BY <1>9, <2>3, <3>1, <3>2, <3>3
  <2> QED BY <1>2, <1>10, <2>1, <2>2, <2>3
<1> HIDE DEF Q
<1>15. Mirrors(Q, t)
  BY <1>13, <1>14 DEF Mirrors
<1> QED BY <1>12, <1>15 DEF Q, t, new

\* The first chunk is erased once it is on the disk.
LEMMA MirrorsErase ==
    ASSUME NEW t \in Seq(ChunkRecord), NEW c \in ChunkRecord, NEW n, NEW proxy,
           Ordered(<<c>> \o t, n), Mirrors(proxy, <<c>> \o t)
    PROVE  Ordered(t, n) /\ Mirrors({e \in proxy : e.id # c.id}, t)
<1> DEFINE s == <<c>> \o t
           m == Len(t)
           Q == {e \in proxy : e.id # c.id}
<1>1. m \in Nat /\ Len(s) = m + 1 /\ s[1] = c /\ \A i \in 1..m : s[i + 1] = t[i]
  OBVIOUS
<1>2. s \in Seq(ChunkRecord) /\ Ordered(s, n) /\ Mirrors(proxy, s)
  OBVIOUS
<1> HIDE DEF s, m
<1>3. \A i \in 1..m : i + 1 \in 1..Len(s)
  BY <1>1
<1>4. \A i \in 1..Len(s) : i = 1 \/ i - 1 \in 1..m
  BY <1>1
<1>5. Ordered(t, n)
  <2>1. ASSUME NEW i \in 1..m, NEW j \in 1..m, i < j PROVE t[i].id < t[j].id
    <3>1. s[i + 1].id < s[j + 1].id
      <4>1. i + 1 \in 1..Len(s) /\ j + 1 \in 1..Len(s) /\ i + 1 < j + 1
        BY <1>1, <1>3, <2>1
      <4> QED BY <1>2, <4>1 DEF Ordered
    <3> QED BY <1>1, <3>1
  <2>2. ASSUME NEW i \in 1..m PROVE t[i].id < n
    <3>1. s[i + 1].id < n
      BY <1>2, <1>3 DEF Ordered
    <3> QED BY <1>1, <3>1
  <2> QED BY <2>1, <2>2 DEF Ordered, m
<1>6. ASSUME NEW e \in Q, e.key \in ItemKeys PROVE \E i \in 1..Len(t) : IsEntry(e, t[i])
  <2>1. PICK i \in 1..Len(s) : IsEntry(e, s[i])
    BY <1>2, <1>6 DEF Mirrors
  <2>2. e.id = s[i].id
    BY <2>1 DEF IsEntry, Entry
  <2>3. i # 1
    BY <1>1, <2>2
  <2>4. i - 1 \in 1..m /\ s[i] = t[i - 1]
    BY <1>1, <1>4, <2>3
  <2> QED BY <2>1, <2>4 DEF m
<1>7. ASSUME NEW i \in 1..Len(t), NEW k \in ItemKeys, HasKey(t[i].ops, k)
      PROVE  Entry(t[i], k) \in Q
  <2>1. i + 1 \in 1..Len(s) /\ s[i + 1] = t[i] /\ 1 \in 1..Len(s) /\ i + 1 # 1
    BY <1>1, <1>3 DEF m
  <2>2. Entry(t[i], k) \in proxy
    BY <1>2, <1>7, <2>1 DEF Mirrors
  <2>3. t[i].id # c.id
    BY <1>1, <1>2, <2>1, OneChunkPerId
  <2>4. Entry(t[i], k).id = t[i].id
    BY DEF Entry
  <2> QED BY <2>2, <2>3, <2>4
<1> HIDE DEF Q
<1>8. Mirrors(Q, t)
  BY <1>6, <1>7 DEF Mirrors
<1> QED BY <1>5, <1>8 DEF Q

\* Meta data is not mirrored.
LEMMA MirrorsDelete ==
    ASSUME NEW s, NEW proxy, Mirrors(proxy, s), NEW k \in MetaKeys
    PROVE  Mirrors({e \in proxy : e.key # k}, s)
<1>1. \A h \in ItemKeys : h # k
  BY StorageAssumption DEF StorageAssumption
<1>2. \A c, h : Entry(c, h).key = h
  BY DEF Entry
<1> QED BY <1>1, <1>2 DEF Mirrors

\* The chunks that are not on the disk, the one that is being written first
First == IF IsWriting THEN <<flushing>> ELSE <<>>

Pending(f, s) == Append(f \o s.finished, s.cur)

ProxyOf(f, s) ==
    Ordered(Pending(f, s), s.batchIdCounter) /\ Mirrors(s.proxy, Pending(f, s))

ProxyOK ==
    /\ copying => copies # 0
    /\ withProxy /\ copies = 0 /\ ~closed => ProxyOf(First, self)

LEMMA PendingType ==
    ASSUME NEW f \in Seq(ChunkRecord), NEW s \in Storage
    PROVE  f \o s.finished \in Seq(ChunkRecord) /\ Pending(f, s) \in Seq(ChunkRecord)
<1>1. s.finished \in Seq(ChunkRecord) /\ s.cur \in ChunkRecord
  BY WaitingOK
<1>2. f \o s.finished \in Seq(ChunkRecord)
  BY <1>1
<1> QED BY <1>1, <1>2 DEF Pending

LEMMA ProxyOfNewChunk ==
    ASSUME NEW f \in Seq(ChunkRecord), NEW s \in Storage, ProxyOf(f, s)
    PROVE  ProxyOf(f, BeginNewUpdatesChunk(s))
<1> DEFINE t == BeginNewUpdatesChunk(s)
           n == s.batchIdCounter
           p == Pending(f, s)
<1>1. /\ t.finished = Waiting(s) /\ t.cur = Chunk(n, <<>>) /\ t.batchIdCounter = n + 1
      /\ t.proxy = s.proxy
  BY BeginNewChunkOK
<1>2. s.finished \in Seq(ChunkRecord) /\ s.cur \in ChunkRecord
  BY WaitingOK
<1>3. f \o t.finished = p
  <2>1. f \o Append(s.finished, s.cur) = Append(f \o s.finished, s.cur)
    BY <1>2
  <2> QED BY <1>1, <2>1 DEF Waiting, Pending
<1>4. p \in Seq(ChunkRecord) /\ n \in Nat
  BY PendingType DEF Storage
<1>5. Ordered(p, n) /\ Mirrors(s.proxy, p)
  BY DEF ProxyOf
<1>6. Pending(f, t) = Append(p, Chunk(n, <<>>))
  BY <1>1, <1>3 DEF Pending
<1> HIDE DEF t, n, p
<1>7. Ordered(Append(p, Chunk(n, <<>>)), n + 1) /\ Mirrors(s.proxy, Append(p, Chunk(n, <<>>)))
  BY <1>4, <1>5, MirrorsNewChunk
<1> QED BY <1>1, <1>6, <1>7 DEF ProxyOf, t

LEMMA ProxyOfModified ==
    ASSUME NEW f \in Seq(ChunkRecord), NEW s \in Storage, ProxyOf(f, s), withProxy,
           NEW k \in Keys, NEW v \in Nat
    PROVE  ProxyOf(f, ModifyAsync(s, k, v))
<1> DEFINE t == Collected(s, k, v)
           r == f \o s.finished
           c == s.cur
           d == t.cur
           op == [key |-> k, val |-> v]
           Q == {e \in s.proxy : e.id # c.id \/ e.key # k}
                  \cup {[id |-> c.id, key |-> k, val |-> v]}
<1>1. /\ t \in Storage /\ t.finished = s.finished /\ t.batchIdCounter = s.batchIdCounter
      /\ t.proxy = ProxyAdd(s, k, v) /\ d.id = c.id /\ d.ops = Append(c.ops, op)
  BY CollectedOK
<1>2. t.proxy = Q
  BY <1>1 DEF ProxyAdd
<1>3. r \in Seq(ChunkRecord) /\ c \in ChunkRecord /\ d \in ChunkRecord
  BY <1>1, PendingType, WaitingOK
<1>4. Ordered(Append(r, c), s.batchIdCounter) /\ Mirrors(s.proxy, Append(r, c))
  BY DEF ProxyOf, Pending
<1>5. Pending(f, t) = Append(r, d)
  BY <1>1 DEF Pending
<1>6. ModifyAsync(s, k, v) = IF ChunkIsFull(t) THEN BeginNewUpdatesChunk(t) ELSE t
  BY DEF ModifyAsync, Collected
<1> HIDE DEF t, r, c, d
<1>7. Ordered(Append(r, d), s.batchIdCounter) /\ Mirrors(Q, Append(r, d))
  BY <1>1, <1>3, <1>4, MirrorsCollect
<1> HIDE DEF Q
<1>8. ProxyOf(f, t)
  BY <1>1, <1>2, <1>5, <1>7 DEF ProxyOf
<1>9. ProxyOf(f, BeginNewUpdatesChunk(t))
  BY <1>1, <1>8, ProxyOfNewChunk
<1> QED BY <1>6, <1>8, <1>9

LEMMA ProxyOfDeleted ==
    ASSUME NEW f \in Seq(ChunkRecord), NEW s \in Storage, ProxyOf(f, s), withProxy,
           NEW k \in MetaKeys
    PROVE  ProxyOf(f, ProxyDelete(s, k))
<1> DEFINE t == ProxyDelete(s, k)
           Q == {e \in s.proxy : e.key # k}
<1>1. t = [s EXCEPT !.proxy = Q]
  BY DEF ProxyDelete
<1>2. Mirrors(Q, Pending(f, s))
  BY MirrorsDelete DEF ProxyOf
<1> HIDE DEF Q
<1>3. t.finished = s.finished /\ t.cur = s.cur /\ t.batchIdCounter = s.batchIdCounter /\ t.proxy = Q
  BY <1>1 DEF Storage
<1> HIDE DEF t
<1>4. Pending(f, t) = Pending(f, s)
  BY <1>3 DEF Pending
<1> QED BY <1>2, <1>3, <1>4 DEF ProxyOf, t

LEMMA ProxyOfErased ==
    ASSUME NEW c \in ChunkRecord, NEW s \in Storage, ProxyOf(<<c>>, s), withProxy
    PROVE  ProxyOf(<<>>, ProxyErase(s, c.id))
<1> DEFINE t == ProxyErase(s, c.id)
           Q == {e \in s.proxy : e.id # c.id}
           r == Append(s.finished, s.cur)
<1>1. t = [s EXCEPT !.proxy = Q]
  BY DEF ProxyErase
<1>2. s.finished \in Seq(ChunkRecord) /\ s.cur \in ChunkRecord
  BY WaitingOK
<1>3. Pending(<<c>>, s) = <<c>> \o r /\ r \in Seq(ChunkRecord) /\ <<>> \o s.finished = s.finished
  BY <1>2 DEF Pending
<1> HIDE DEF r
<1>4. Ordered(<<c>> \o r, s.batchIdCounter) /\ Mirrors(s.proxy, <<c>> \o r)
  BY <1>3 DEF ProxyOf
<1>5. Ordered(r, s.batchIdCounter) /\ Mirrors(Q, r)
  BY <1>3, <1>4, MirrorsErase
<1> HIDE DEF Q
<1>6. t.finished = s.finished /\ t.cur = s.cur /\ t.batchIdCounter = s.batchIdCounter /\ t.proxy = Q
  BY <1>1 DEF Storage
<1> HIDE DEF t
<1>7. Pending(<<>>, t) = r
  BY <1>3, <1>6 DEF Pending, r
<1> QED BY <1>5, <1>6, <1>7 DEF ProxyOf, t

LEMMA ProxyNext ==
    ASSUME IInv, ProxyOK, withProxy' = withProxy,
           copying' => copies' # 0, copies' = 0 => copies = 0, closed => closed',
           (withProxy /\ copies = 0 /\ ~closed /\ copies' = 0 /\ ~closed' /\ ~copying
              /\ ProxyOf(First, self)) => ProxyOf(First', self')
    PROVE  ProxyOK'
  BY DEF ProxyOK

LEMMA FirstType ==
    ASSUME IInv
    PROVE  First \in Seq(ChunkRecord) /\ self \in Storage /\ flushing \in ChunkRecord
  BY DEF IInv, Inv, Types, First

LEMMA ProxyWriterStep ==
    ASSUME IInv, ProxyOK, Writer
    PROVE  ProxyOK'
<1>1. PICK k \in Keys, v \in Values :
         Write(k, v) \/ WriteSync(k, v) \/ WriteSyncFails(k, v) \/ CopyWrite(k, v)
  BY DEF Writer
<1>2. First \in Seq(ChunkRecord) /\ self \in Storage /\ v \in Nat
  BY FirstType, ValuesOK DEF IInv, Inv
<1>3. UNCHANGED <<withProxy, copies, closed, copying, pc, flushing>>
  BY <1>1 DEF Write, WriteSync, WriteSyncFails, CopyWrite, Written, flushVars
<1>4. First' = First /\ (copying => copies # 0)
  BY <1>3 DEF First, IsWriting, ProxyOK
<1>5. ASSUME withProxy, ~copying, ProxyOf(First, self) PROVE ProxyOf(First', self')
  <2>1. CASE Write(k, v) \/ WriteSyncFails(k, v)
    <3>1. self' = ModifyAsync(self, k, v)
      BY <2>1 DEF Write, WriteSyncFails
    <3>2. ProxyOf(First, ModifyAsync(self, k, v))
      BY <1>2, <1>5, ProxyOfModified
    <3> QED BY <1>4, <3>1, <3>2
  <2>2. CASE WriteSync(k, v)
    <3>1. k \in MetaKeys /\ self' = ProxyDelete(self, k)
      BY <2>2 DEF WriteSync
    <3>2. ProxyOf(First, ProxyDelete(self, k))
      BY <1>2, <1>5, <3>1, ProxyOfDeleted
    <3> QED BY <1>4, <3>1, <3>2
  <2>3. CASE CopyWrite(k, v)
    BY <1>5, <2>3 DEF CopyWrite
  <2> QED BY <1>1, <2>1, <2>2, <2>3
<1> QED BY <1>3, <1>4, <1>5, ProxyNext

LEMMA ProxyFlushStep ==
    ASSUME IInv, ProxyOK, \/ TakeFinishedChunk \/ TakeCurrentChunk \/ WriteChunk
                          \/ WriteChunkFails \/ ChunkWritten
    PROVE  ProxyOK'
<1>0. First \in Seq(ChunkRecord) /\ self \in Storage /\ flushing \in ChunkRecord
  BY FirstType
<1>1. UNCHANGED <<withProxy, copies, closed, copying>>
  BY DEF TakeFinishedChunk, TakeCurrentChunk, WriteChunk, WriteChunkFails, ChunkWritten, bounds
<1>2. self.finished \in Seq(ChunkRecord) /\ self.cur \in ChunkRecord
  BY <1>0, WaitingOK
<1>3. copying => copies # 0
  BY DEF ProxyOK
<1>4. ASSUME withProxy, ProxyOf(First, self) PROVE ProxyOf(First', self')
  <2>1. CASE TakeFinishedChunk
    <3> DEFINE c == Head(self.finished)
               r == Tail(self.finished)
               n == self.total - Len(c.ops)
    <3>1. /\ pc = "chunks" /\ pc' = "write" /\ self.finished # <<>> /\ flushing' = c
          /\ self' = [self EXCEPT !.finished = r, !.total = n]
      BY <2>1 DEF TakeFinishedChunk
    <3>2. First = <<>> /\ First' = <<c>>
      BY <3>1 DEF First, IsWriting
    <3>3. <<c>> \o r = self.finished /\ <<>> \o self.finished = self.finished
      BY <1>2, <3>1
    <3> HIDE DEF c, r, n
    <3>4. /\ self'.finished = r /\ self'.cur = self.cur /\ self'.proxy = self.proxy
          /\ self'.batchIdCounter = self.batchIdCounter
      BY <1>0, <3>1 DEF Storage
    <3>5. Pending(<<c>>, self') = Pending(<<>>, self)
      BY <3>3, <3>4 DEF Pending
    <3> QED BY <1>4, <3>2, <3>4, <3>5 DEF ProxyOf
  <2>2. CASE TakeCurrentChunk
    <3> DEFINE n == self.batchIdCounter
               c == self.cur
               p == Pending(<<>>, self)
    <3>1. /\ pc = "chunks" /\ pc' = "write" /\ self.finished = <<>> /\ flushing' = c
          /\ self' = NewChunk([self EXCEPT !.total = 0])
      BY <2>2 DEF TakeCurrentChunk
    <3>2. First = <<>> /\ First' = <<c>>
      BY <3>1 DEF First, IsWriting
    <3>3. /\ self'.finished = <<>> /\ self'.cur = Chunk(n, <<>>) /\ self'.proxy = self.proxy
          /\ self'.batchIdCounter = n + 1
      BY <1>0, <3>1 DEF NewChunk, Storage
    <3>4. p = <<c>> /\ <<c>> \o <<>> = <<c>> /\ p \in Seq(ChunkRecord) /\ n \in Nat
      BY <1>0, <1>2, <3>1 DEF Pending, Storage
    <3>5. Pending(<<c>>, self') = Append(p, Chunk(n, <<>>))
      BY <3>3, <3>4 DEF Pending
    <3>6. Ordered(p, n) /\ Mirrors(self.proxy, p)
      BY <1>4, <3>2 DEF ProxyOf
    <3> HIDE DEF n, c, p
    <3>7. /\ Ordered(Append(p, Chunk(n, <<>>)), n + 1)
          /\ Mirrors(self.proxy, Append(p, Chunk(n, <<>>)))
      BY <3>4, <3>6, MirrorsNewChunk
    <3> QED BY <3>2, <3>3, <3>5, <3>7 DEF ProxyOf
  <2>3. CASE WriteChunk
    <3>1. First' = First /\ self' = self
      BY <2>3 DEF WriteChunk, First, IsWriting
    <3> QED BY <1>4, <3>1
  <2>4. CASE WriteChunkFails
    <3> DEFINE f == <<flushing>> \o self.finished
               n == self.total + Len(flushing.ops)
    <3>1. pc = "write" /\ pc' = "idle" /\ self' = [self EXCEPT !.finished = f, !.total = n]
      BY <2>4 DEF WriteChunkFails, PutBack
    <3>2. First = <<flushing>> /\ First' = <<>>
      BY <3>1 DEF First, IsWriting
    <3>3. <<>> \o f = f
      BY <1>0, <1>2
    <3>4. Pending(<<flushing>>, self) = Append(f, self.cur)
      BY DEF Pending
    <3> HIDE DEF f, n
    <3>5. /\ self'.finished = f /\ self'.cur = self.cur /\ self'.proxy = self.proxy
          /\ self'.batchIdCounter = self.batchIdCounter
      BY <1>0, <3>1 DEF Storage
    <3>6. Pending(<<>>, self') = Pending(<<flushing>>, self)
      BY <3>3, <3>4, <3>5 DEF Pending
    <3> QED BY <1>4, <3>2, <3>5, <3>6 DEF ProxyOf
  <2>5. CASE ChunkWritten
    <3>1. pc = "written" /\ pc' \in {"idle", "chunks"} /\ self' = ProxyErase(self, flushing.id)
      BY <2>5 DEF ChunkWritten
    <3>2. First = <<flushing>> /\ First' = <<>>
      BY <3>1 DEF First, IsWriting
    <3>3. ProxyOf(<<>>, ProxyErase(self, flushing.id))
      BY <1>0, <1>4, <3>2, ProxyOfErased
    <3> QED BY <3>1, <3>2, <3>3
  <2> QED BY <2>1, <2>2, <2>3, <2>4, <2>5
<1> QED BY <1>1, <1>3, <1>4, ProxyNext

LEMMA ProxyControlStep ==
    ASSUME IInv, ProxyOK, \/ BeginAdvice \/ EndAdvice \/ FlushBegin \/ ReopenBegin \/ ReopenOk
                          \/ ReopenFails \/ FlushEnds \/ BeginClose \/ UNCHANGED vars
    PROVE  ProxyOK'
<1>1. UNCHANGED <<self, flushing, withProxy, copies, closed, copying>>
  BY DEF BeginAdvice, EndAdvice, FlushBegin, ReopenBegin, FlushBegins, ReopenOk, ReopenFails,
         FlushEnds, BeginClose, vars, flushVars, bounds
<1>2. IsWriting' <=> IsWriting
  BY DEF BeginAdvice, EndAdvice, FlushBegin, ReopenBegin, FlushBegins, CanFlush, ReopenOk,
         ReopenFails, FlushEnds, BeginClose, vars, flushVars, IsWriting
<1>3. First' = First
  BY <1>1, <1>2 DEF First
<1>4. copying => copies # 0
  BY DEF ProxyOK
<1> QED BY <1>1, <1>3, <1>4, ProxyNext

LEMMA ProxyCopyStep ==
    ASSUME IInv, ProxyOK, Close \/ BeginCopy \/ InheritUpdatesFrom \/ DropCopy
    PROVE  ProxyOK'
<1>0. copies \in Nat /\ copying \in BOOLEAN /\ closed \in BOOLEAN
  BY DEF IInv, Inv, Types
<1>1. withProxy' = withProxy
  BY DEF Close, BeginCopy, InheritUpdatesFrom, DropCopy
<1>2. CASE Close
  <2>1. closed' /\ UNCHANGED <<copying, copies>>
    BY <1>2 DEF Close, bounds
  <2> QED BY <2>1 DEF ProxyOK
<1>3. CASE BeginCopy
  <2>1. copies' = copies + 1
    BY <1>3 DEF BeginCopy
  <2>2. copies' # 0
    BY <1>0, <2>1
  <2> QED BY <2>2 DEF ProxyOK
<1>4. CASE InheritUpdatesFrom \/ DropCopy
  <2>1. copying /\ ~copying' /\ copies' = copies
    BY <1>4 DEF InheritUpdatesFrom, DropCopy, bounds
  <2> QED BY <2>1 DEF ProxyOK
<1> QED BY <1>2, <1>3, <1>4

(* The proxy (StorageBatchProxy) holds exactly what the chunks that are not *)
(* on the disk leave of their items, under ids that follow the order of the *)
(* writes.                                                                  *)
THEOREM ProxyInvariant == Spec => []ProxyOK
<1>1. Init => ProxyOK
  <2> SUFFICES ASSUME Init PROVE ProxyOK
    OBVIOUS
  <2>1. /\ self.finished = <<>> /\ self.cur = Chunk(0, <<>>) /\ self.batchIdCounter = 1
        /\ self.proxy = {} /\ First = <<>> /\ ~copying
    BY DEF Init, NewStorage, First, IsWriting
  <2> DEFINE c == Chunk(0, <<>>)
             p == <<c>>
  <2>2. c.id = 0 /\ c.ops = <<>> /\ Len(p) = 1 /\ p[1] = c
    BY EmptyChunk
  <2>3. Pending(First, self) = p
    BY <2>1 DEF Pending
  <2> HIDE DEF c, p
  <2>4. Ordered(p, 1)
    BY <2>2 DEF Ordered
  <2>5. Mirrors({}, p)
    BY <2>2 DEF Mirrors, HasKey
  <2> QED BY <2>1, <2>3, <2>4, <2>5 DEF ProxyOK, ProxyOf
<1>2. ASSUME IInv, ProxyOK, [Next]_vars PROVE ProxyOK'
  BY <1>2, ProxyWriterStep, ProxyFlushStep, ProxyControlStep, ProxyCopyStep DEF Next, Flush
<1> QED BY <1>1, <1>2, StorageInvariant, PTL DEF Spec

(* With the proxy, Read gives an item as it was written last at any moment  *)
(* of a flush or of its failure, until a copy inherits the chunks.          *)
THEOREM UnflushedAreRead == Spec => []UnflushedIsRead
<1>1. ASSUME IInv, ProxyOK PROVE UnflushedIsRead
  <2> SUFFICES ASSUME withProxy, copies = 0, ~closed, NEW k \in ItemKeys
               PROVE  Read(k) = latest[k]
    BY DEF UnflushedIsRead
  <2> DEFINE p == Pending(First, self)
             P == self.proxy
  <2>0. Types /\ PhaseOK /\ ValueOK
    BY <1>1 DEF IInv, Inv
  <2>1. First \in Seq(ChunkRecord) /\ self \in Storage /\ flushing \in ChunkRecord
    BY <1>1, FirstType
  <2>2. self.finished \in Seq(ChunkRecord) /\ self.cur \in ChunkRecord
    BY <2>1, WaitingOK
  <2>3. p \in Seq(ChunkRecord) /\ First \o self.finished \in Seq(ChunkRecord)
    BY <2>1, PendingType
  <2>4. Ordered(p, self.batchIdCounter) /\ Mirrors(P, p)
    BY <1>1 DEF ProxyOK, ProxyOf
  <2>5. AfterAll(First, k, disk[k]) = After(flushing.ops, k, disk[k])
    <3>1. CASE IsWriting
      <4>1. AfterAll(<<flushing>>, k, disk[k]) = After(flushing.ops, k, disk[k])
        BY <2>1, AllOne
      <4> QED BY <3>1, <4>1 DEF First
    <3>2. CASE ~IsWriting
      <4>1. flushing.ops = <<>>
        BY <2>0, <3>2, EmptyChunk DEF PhaseOK
      <4>2. After(flushing.ops, k, disk[k]) = disk[k]
        BY <4>1, AfterEmpty
      <4> QED BY <3>2, <4>2, AllEmpty DEF First
    <3> QED BY <3>1, <3>2
  <2>6. AfterAll(p, k, disk[k]) = latest[k]
    <3> DEFINE r == First \o self.finished
    <3>0. r \in Seq(ChunkRecord) /\ p = Append(r, self.cur)
      BY <2>3 DEF Pending
    <3>1. AfterAll(p, k, disk[k]) = After(self.cur.ops, k, AfterAll(r, k, disk[k]))
      <4> HIDE DEF r, p
      <4>1. AfterAll(Append(r, self.cur), k, disk[k]) =
              After(self.cur.ops, k, AfterAll(r, k, disk[k]))
        BY <2>2, <3>0, AllAppend
      <4> QED BY <3>0, <4>1
    <3>2. AfterAll(First \o self.finished, k, disk[k]) =
            AfterAll(self.finished, k, AfterAll(First, k, disk[k]))
      BY <2>1, <2>2, AllConcat
    <3>3. Left(self, k, After(flushing.ops, k, disk[k])) = latest[k]
      BY <2>0 DEF ValueOK
    <3> QED BY <2>5, <3>1, <3>2, <3>3 DEF Pending, Left
  <2> HIDE DEF p
  <2>7. CASE Found(P, k) # {}
    <3>1. (CHOOSE e \in Found(P, k) : \A f \in Found(P, k) : f.id <= e.id).val
            = AfterAll(p, k, disk[k])
      BY <2>3, <2>4, <2>7, NewestBatch
    <3>2. Read(k) = (CHOOSE e \in Found(P, k) : \A f \in Found(P, k) : f.id <= e.id).val
      BY <2>7 DEF Read, Found
    <3> QED BY <2>6, <3>1, <3>2
  <2>8. CASE Found(P, k) = {}
    <3>1. NoneHas(p, k)
      <4> SUFFICES ASSUME NEW i \in 1..Len(p), HasKey(p[i].ops, k) PROVE FALSE
        BY DEF NoneHas
      <4>1. Entry(p[i], k) \in P /\ Entry(p[i], k).key = k
        BY <2>4 DEF Mirrors, Entry
      <4> QED BY <2>8, <4>1 DEF Found
    <3>2. AfterAll(p, k, disk[k]) = disk[k]
      BY <2>3, <3>1, AllNone
    <3>3. Read(k) = disk[k]
      BY <2>8 DEF Read, Found
    <3> QED BY <2>6, <3>2, <3>3
  <2> QED BY <2>7, <2>8
<1> QED BY <1>1, StorageInvariant, ProxyInvariant, PTL
=============================================================================
