-------------------------- MODULE WalTrackerProofs --------------------------
(***************************************************************************)
(* Proofs about WalTracker, for any keys, servers, capacities of the ring  *)
(* and bounds.                                                             *)
(*                                                                         *)
(* WalInv relates the log to the history of the LSNs: Shaped says which    *)
(* LSNs are in the ring and that each has a slot of its own; SlotsTrue,    *)
(* EndTrue and StoredTrue what the slots, the last LSN and the stored log  *)
(* say of their LSNs; ItemsTrue and Current how the items and the updates  *)
(* in the ring belong together.  LogInv adds what makes the log complete:  *)
(* nothing above floor was blanked that is not outdated, and the storage   *)
(* has what a restart needs from resized on.                               *)
(*                                                                         *)
(* The lemmas follow the operators of WalTracker: positions in a ring, the *)
(* effect of every method on the ring, what each does to the agreement     *)
(* with the history, and then one lemma for each action.                   *)
(***************************************************************************)
EXTENDS WalTracker, FiniteSetTheorems, NaturalsInduction, WellFoundedInduction, TLAPS

-----------------------------------------------------------------------------
(* Positions in a ring                                                     *)

\* A number is its quotient and its remainder.
LEMMA ModRange ==
    ASSUME NEW s \in Nat, s > 0, NEW a \in Nat
    PROVE  a % s \in Nat /\ a % s < s /\ a \div s \in Nat /\ a = s * (a \div s) + (a % s)
<1>1. a % s \in Nat /\ a % s < s
  OBVIOUS
<1>2. a \div s \in Nat
  OBVIOUS
<1>3. a = s * (a \div s) + (a % s)
  OBVIOUS
<1> QED BY <1>1, <1>2, <1>3

\* The remainder is determined by its range.
LEMMA ModUnique ==
    ASSUME NEW s \in Nat, s > 0, NEW q \in Nat, NEW x \in Nat, x < s
    PROVE  (s * q + x) % s = x
<1> DEFINE a == s * q + x
<1>1. a \in Nat
  <2>1. \A y, z \in Nat : y * z \in Nat
    OBVIOUS
  <2>2. s * q \in Nat
    BY <2>1
  <2> QED BY <2>2
<1> DEFINE p == a \div s
<1>2. a % s \in Nat /\ a % s < s /\ p \in Nat /\ a = s * p + (a % s)
  BY <1>1, ModRange
<1> HIDE DEF p
<1>3. s * p + (a % s) = s * q + x
  BY <1>2
<1>4. CASE p = q
  BY <1>2, <1>3, <1>4
<1>5. CASE p < q
  <2>1. \A y, z \in Nat : y >= 1 => z * y >= z
    OBVIOUS
  <2>2. s * (q - p) >= s
    BY <2>1, <1>2, <1>5
  <2>3. s * (q - p) = s * q - s * p
    BY <1>2
  <2> QED BY <2>2, <2>3, <1>2, <1>3
<1>6. CASE q < p
  <2>1. \A y, z \in Nat : y >= 1 => z * y >= z
    OBVIOUS
  <2>2. s * (p - q) >= s
    BY <2>1, <1>2, <1>6
  <2>3. s * (p - q) = s * p - s * q
    BY <1>2
  <2> QED BY <2>2, <2>3, <1>2, <1>3
<1> QED BY <1>2, <1>4, <1>5, <1>6

\* Where the LSN i after a is, less than a turn of the ring later.
LEMMA ModAdd ==
    ASSUME NEW s \in Nat, s > 0, NEW a \in Nat, NEW i \in Nat, i <= s
    PROVE  (a + i) % s = IF (a % s) + i < s THEN (a % s) + i ELSE (a % s) + i - s
<1> DEFINE q == a \div s
           r == a % s
<1>1. r \in Nat /\ r < s /\ q \in Nat /\ a = s * q + r
  BY ModRange
<1> HIDE DEF q, r
<1>2. CASE r + i < s
  <2>1. a + i = s * q + (r + i)
    BY <1>1
  <2>2. (s * q + (r + i)) % s = r + i
    BY <1>1, <1>2, ModUnique
  <2> QED BY <2>1, <2>2, <1>2 DEF r
<1>3. CASE ~(r + i < s)
  <2>1. s * (q + 1) = s * q + s
    <3>1. \A y, z \in Nat : y * (z + 1) = y * z + y
      OBVIOUS
    <3> QED BY <1>1, <3>1
  <2>2. a + i = s * (q + 1) + (r + i - s)
    BY <1>1, <2>1
  <2>3. (s * (q + 1) + (r + i - s)) % s = r + i - s
    <3>1. q + 1 \in Nat /\ r + i - s \in Nat /\ r + i - s < s
      BY <1>1, <1>3
    <3> QED BY <3>1, ModUnique
  <2> QED BY <2>2, <2>3, <1>3 DEF r
<1> QED BY <1>2, <1>3

\* LSNs at one position are a turn of the ring apart.
LEMMA ModApart ==
    ASSUME NEW s \in Nat, s > 0, NEW a \in Nat, NEW b \in Nat, a < b, a % s = b % s
    PROVE  a + s <= b
<1>1. SUFFICES ASSUME b < a + s PROVE FALSE
  OBVIOUS
<1>2. b - a \in Nat /\ b - a <= s /\ a + (b - a) = b
  BY <1>1
<1>3. (a + (b - a)) % s = IF (a % s) + (b - a) < s THEN (a % s) + (b - a) ELSE (a % s) + (b - a) - s
  BY <1>2, ModAdd
<1>4. a % s \in Nat /\ a % s < s
  BY ModRange
<1> QED BY <1>1, <1>2, <1>3, <1>4

-----------------------------------------------------------------------------
(* The shape of the ring: it holds the last n LSNs, the oldest of them at  *)
(* walOffset_, in a vector of len slots that has not reached its capacity  *)
(* only while the ring has not wrapped.                                    *)

Slots == [server : Servers, rec : Records]
Lsns == [counter : Int, server : Servers]
Entries == [pos : Nat, lsn : Lsns, rec : Records]
Vectors == UNION {[0 .. n - 1 -> Slots] : n \in Nat}
Wals == [records : Vectors, counter : Nat, last : Lsns,
         walSize : Nat \ {0}, offset : Nat, stored : SUBSET Entries]

Ring(w, n, len) ==
    /\ n \in Nat /\ len \in Nat
    /\ n <= w.walSize /\ n <= w.counter /\ len <= w.walSize
    /\ w.records \in [0 .. len - 1 -> Slots]
    /\ w.counter = 0 => n = 0 /\ w.offset = 0 /\ len = 0
    /\ w.counter > 0 => /\ n >= 1
                        /\ w.offset = (w.counter - n) % w.walSize
                        /\ len = w.walSize \/ w.offset + n = len

Shaped(w) == w \in Wals /\ \E n, len \in Nat : Ring(w, n, len)

At(w, c) == w.records[c % w.walSize]

\* What the fields of a log are.
LEMMA WalFields ==
    ASSUME NEW w \in Wals
    PROVE  /\ w.counter \in Nat /\ w.last \in Lsns
           /\ w.walSize \in Nat /\ w.walSize > 0 /\ w.offset \in Nat
           /\ w.stored \in SUBSET Entries
<1>1. w.walSize \in Nat \ {0}
  BY DEF Wals
<1> QED BY <1>1 DEF Wals

\* The length of the vector.
LEMMA CardinalityOfVector ==
    ASSUME NEW w, NEW len \in Nat, w.records \in [0 .. len - 1 -> Slots]
    PROVE  Cardinality(DOMAIN w.records) = len
<1>1. DOMAIN w.records = 0 .. len - 1
  OBVIOUS
<1>2. Cardinality(0 .. len - 1) = IF 0 > len - 1 THEN 0 ELSE (len - 1) - 0 + 1
  BY FS_Interval
<1> QED BY <1>1, <1>2

\* size() tells from the offset and the counter how many LSNs the ring holds.
LEMMA RingSizeIs ==
    ASSUME NEW w \in Wals, NEW n \in Nat, NEW len \in Nat, Ring(w, n, len)
    PROVE  RingSize(w) = n
<1> DEFINE s == w.walSize
           e == w.counter % s
<1>1. w.counter \in Nat /\ s \in Nat /\ s > 0 /\ w.offset \in Nat
  BY WalFields
<1>2. Cardinality(DOMAIN w.records) = len
  BY CardinalityOfVector DEF Ring
<1>3. CASE w.counter = 0
  BY <1>3 DEF RingSize, Ring
<1>4. CASE w.counter > 0
  <2>1. /\ n >= 1 /\ n <= s /\ n <= w.counter /\ len <= s
        /\ w.offset = (w.counter - n) % s
        /\ len = s \/ w.offset + n = len
    BY <1>1, <1>4 DEF Ring
  <2>2. w.counter - n \in Nat /\ (w.counter - n) + n = w.counter
    BY <1>1, <2>1
  <2>3. w.offset < s
    BY <1>1, <2>1, <2>2, ModRange
  <2>4. ((w.counter - n) + n) % s = IF ((w.counter - n) % s) + n < s
                                    THEN ((w.counter - n) % s) + n
                                    ELSE ((w.counter - n) % s) + n - s
    <3> DEFINE o == w.counter - n
    <3>1. o \in Nat /\ s \in Nat /\ s > 0 /\ n \in Nat /\ n <= s
      BY <1>1, <2>1, <2>2
    <3> HIDE DEF o, s
    <3>2. (o + n) % s = IF (o % s) + n < s THEN (o % s) + n ELSE (o % s) + n - s
      BY <3>1, ModAdd
    <3> QED BY <3>2 DEF o
  <2>5. e = IF w.offset + n < s THEN w.offset + n ELSE w.offset + n - s
    BY <2>1, <2>2, <2>4
  <2> DEFINE k == Cardinality(DOMAIN w.records)
  <2>6. RingSize(w) = IF w.offset = e THEN s
                      ELSE IF w.offset < e THEN e - w.offset
                      ELSE e + k - w.offset
    BY <1>4 DEF RingSize
  <2>7. k = len
    BY <1>2
  <2> HIDE DEF k, e
  <2> QED BY <1>1, <2>1, <2>3, <2>5, <2>6, <2>7
<1> QED BY <1>1, <1>3, <1>4

\* The number of LSNs is the one size() gives.
LEMMA Shape ==
    ASSUME NEW w, Shaped(w)
    PROVE  \E len \in Nat : Ring(w, RingSize(w), len)
  BY RingSizeIs DEF Shaped

\* The counters of the ring.
LEMMA WindowOf ==
    ASSUME NEW w, Shaped(w)
    PROVE  /\ RingSize(w) \in Nat /\ RingSize(w) <= w.walSize /\ RingSize(w) <= w.counter
           /\ \A c : c \in Window(w) <=> /\ c \in Nat /\ c < w.counter
                                         /\ w.counter - c <= RingSize(w)
           /\ w.counter > 0 => w.counter - 1 \in Window(w)
<1>1. PICK len \in Nat : Ring(w, RingSize(w), len)
  BY Shape
<1>2. w.counter \in Nat /\ w.walSize \in Nat
  BY WalFields DEF Shaped
<1>3. /\ RingSize(w) \in Nat /\ RingSize(w) <= w.walSize /\ RingSize(w) <= w.counter
      /\ w.counter > 0 => RingSize(w) >= 1
  BY <1>1 DEF Ring
<1>4. \A c : c \in Window(w) <=> c \in Int /\ c >= w.counter - RingSize(w) /\ c <= w.counter - 1
  BY <1>2, <1>3 DEF Window
<1> QED BY <1>2, <1>3, <1>4

\* Every LSN of the ring has a slot of its own.
LEMMA SlotOf ==
    ASSUME NEW w, Shaped(w), NEW c \in Window(w)
    PROVE  /\ c % w.walSize \in Nat /\ c % w.walSize \in DOMAIN w.records
           /\ At(w, c) \in Slots
<1> DEFINE s == w.walSize
           n == RingSize(w)
           o == w.counter - n
<1>1. PICK len \in Nat : Ring(w, n, len)
  BY Shape
<1>2. w.counter \in Nat /\ s \in Nat /\ s > 0 /\ w.offset \in Nat
  BY WalFields DEF Shaped
<1>3. n \in Nat /\ n <= s /\ n <= w.counter /\ c \in Nat /\ c < w.counter /\ w.counter - c <= n
  BY WindowOf
<1>4. w.offset = o % s /\ (len = s \/ w.offset + n = len)
  BY <1>1, <1>2, <1>3 DEF Ring
<1>5. w.records \in [0 .. len - 1 -> Slots]
  BY <1>1 DEF Ring
<1> HIDE DEF n, s
<1>6. o \in Nat /\ c - o \in Nat /\ c - o < n /\ c - o <= s /\ o + (c - o) = c
  BY <1>2, <1>3
<1>7. (o + (c - o)) % s = IF (o % s) + (c - o) < s THEN (o % s) + (c - o) ELSE (o % s) + (c - o) - s
  BY <1>2, <1>6, ModAdd
<1>8. c % s \in Nat /\ c % s < s
  BY <1>2, <1>3, ModRange
<1>9. c % s = IF w.offset + (c - o) < s THEN w.offset + (c - o) ELSE w.offset + (c - o) - s
  BY <1>4, <1>6, <1>7
<1> HIDE DEF o
<1>10. c % s < len
  BY <1>2, <1>3, <1>4, <1>6, <1>8, <1>9
<1>11. c % s \in 0 .. len - 1
  BY <1>8, <1>10
<1> QED BY <1>5, <1>8, <1>11 DEF At, s

\* No two LSNs of the ring share a slot.
LEMMA SlotsApart ==
    ASSUME NEW w, Shaped(w), NEW c \in Window(w), NEW d \in Window(w),
           c % w.walSize = d % w.walSize
    PROVE  c = d
<1>1. w.counter \in Nat /\ w.walSize \in Nat /\ w.walSize > 0
  BY WalFields DEF Shaped
<1>2. /\ RingSize(w) \in Nat /\ RingSize(w) <= w.walSize
      /\ c \in Nat /\ c < w.counter /\ w.counter - c <= RingSize(w)
      /\ d \in Nat /\ d < w.counter /\ w.counter - d <= RingSize(w)
  BY WindowOf
<1>3. ~ (c < d)
  <2>1. c < d => c + w.walSize <= d
    BY <1>1, <1>2, ModApart
  <2> QED BY <1>1, <1>2, <2>1
<1>4. ~ (d < c)
  <2>1. d < c => d + w.walSize <= c
    BY <1>1, <1>2, ModApart
  <2> QED BY <1>1, <1>2, <2>1
<1> QED BY <1>2, <1>3, <1>4

-----------------------------------------------------------------------------
(* What the operations of the ring do                                      *)

\* The other fields keep their values.
LEMMA WithRecords ==
    ASSUME NEW w \in Wals, NEW r \in Vectors
    PROVE  /\ [w EXCEPT !.records = r] \in Wals
           /\ [w EXCEPT !.records = r].records = r
           /\ [w EXCEPT !.records = r].counter = w.counter
           /\ [w EXCEPT !.records = r].last = w.last
           /\ [w EXCEPT !.records = r].walSize = w.walSize
           /\ [w EXCEPT !.records = r].offset = w.offset
           /\ [w EXCEPT !.records = r].stored = w.stored
  BY DEF Wals

\* The other fields keep their values.
LEMMA WithStored ==
    ASSUME NEW w \in Wals, NEW e \in SUBSET Entries
    PROVE  /\ [w EXCEPT !.stored = e] \in Wals
           /\ [w EXCEPT !.stored = e].stored = e
           /\ [w EXCEPT !.stored = e].records = w.records
           /\ [w EXCEPT !.stored = e].counter = w.counter
           /\ [w EXCEPT !.stored = e].last = w.last
           /\ [w EXCEPT !.stored = e].walSize = w.walSize
           /\ [w EXCEPT !.stored = e].offset = w.offset
  BY DEF Wals

\* The shape is a matter of the positions, not of what the slots hold.
LEMMA SameRing ==
    ASSUME NEW w, Shaped(w), NEW v \in Wals, v.counter = w.counter, v.walSize = w.walSize,
           v.offset = w.offset, v.records \in [DOMAIN w.records -> Slots]
    PROVE  Shaped(v) /\ RingSize(v) = RingSize(w) /\ Window(v) = Window(w)
<1>1. PICK len \in Nat : Ring(w, RingSize(w), len)
  BY Shape
<1>2. w.records \in [0 .. len - 1 -> Slots]
  BY <1>1 DEF Ring
<1>3. DOMAIN w.records = 0 .. len - 1
  BY <1>2
<1>4. Ring(v, RingSize(w), len)
  BY <1>1, <1>3 DEF Ring
<1>5. RingSize(w) \in Nat
  BY <1>1 DEF Ring
<1>6. Shaped(v)
  BY <1>4, <1>5 DEF Shaped
<1>7. RingSize(v) = RingSize(w)
  BY <1>4, <1>5, RingSizeIs
<1> QED BY <1>6, <1>7 DEF Window

\* The slots are a vector.
LEMMA RecordsOf ==
    ASSUME NEW w, Shaped(w)
    PROVE  /\ w.records \in [DOMAIN w.records -> Slots]
           /\ [DOMAIN w.records -> Slots] \subseteq Vectors
           /\ w.records \in Vectors
<1>1. PICK len \in Nat : Ring(w, RingSize(w), len)
  BY Shape
<1>2. w.records \in [0 .. len - 1 -> Slots]
  BY <1>1 DEF Ring
<1>3. DOMAIN w.records = 0 .. len - 1
  BY <1>2
<1>4. [0 .. len - 1 -> Slots] \in {[0 .. n - 1 -> Slots] : n \in Nat}
  OBVIOUS
<1>5. [0 .. len - 1 -> Slots] \subseteq Vectors
  BY <1>4, Zenon DEF Vectors
<1> QED BY <1>2, <1>3, <1>5

\* put() of an LSN that is in the ring replaces the slot of that LSN only.
LEMMA PutInRing ==
    ASSUME NEW w, Shaped(w), NEW l \in Lsns, l.counter \in Window(w), NEW r \in Records
    PROVE  /\ Shaped(Put(w, l, r)) /\ Window(Put(w, l, r)) = Window(w)
           /\ Put(w, l, r).counter = w.counter /\ Put(w, l, r).last = w.last
           /\ Put(w, l, r).walSize = w.walSize /\ Put(w, l, r).stored = w.stored
           /\ At(Put(w, l, r), l.counter) = [server |-> l.server, rec |-> r]
           /\ \A c \in Window(w) : c # l.counter => At(Put(w, l, r), c) = At(w, c)
<1> DEFINE p == Pos(w, l)
           f == [q \in DOMAIN w.records \cup 0 .. p |->
                   IF q = p THEN [server |-> l.server, rec |-> r]
                   ELSE IF q \in DOMAIN w.records THEN w.records[q] ELSE Blank]
           v == Put(w, l, r)
<1>1. p \in Nat /\ p \in DOMAIN w.records /\ p = l.counter % w.walSize
  BY SlotOf DEF Pos
<1>2. \A q \in 0 .. p : q \in DOMAIN w.records
  <2>1. PICK len \in Nat : Ring(w, RingSize(w), len)
    BY Shape
  <2>2. DOMAIN w.records = 0 .. len - 1
    BY <2>1 DEF Ring
  <2> QED BY <1>1, <2>2
<1>3. DOMAIN w.records \cup 0 .. p = DOMAIN w.records
  BY <1>2
<1>4. [server |-> l.server, rec |-> r] \in Slots
  BY DEF Slots, Lsns
<1>5. f \in [DOMAIN w.records -> Slots]
  BY <1>3, <1>4, RecordsOf
<1>6. f[p] = [server |-> l.server, rec |-> r]
  BY <1>1
<1>7. \A q \in DOMAIN w.records : q # p => f[q] = w.records[q]
  OBVIOUS
<1>8. v = [w EXCEPT !.records = f]
  BY DEF Put
<1> HIDE DEF f, p
<1>9. f \in Vectors /\ w \in Wals
  BY <1>5, RecordsOf DEF Shaped
<1>10. /\ v \in Wals /\ v.records = f /\ v.counter = w.counter /\ v.last = w.last
       /\ v.walSize = w.walSize /\ v.offset = w.offset /\ v.stored = w.stored
  BY <1>8, <1>9, WithRecords
<1> HIDE DEF v
<1>11. Shaped(v) /\ Window(v) = Window(w)
  BY <1>5, <1>10, SameRing
<1>12. At(v, l.counter) = [server |-> l.server, rec |-> r]
  BY <1>1, <1>6, <1>10 DEF At
<1>13. \A c \in Window(w) : c # l.counter => At(v, c) = At(w, c)
  <2>1. SUFFICES ASSUME NEW c \in Window(w), c # l.counter PROVE At(v, c) = At(w, c)
    OBVIOUS
  <2>2. c % w.walSize # p
    BY <1>1, <2>1, SlotsApart
  <2>3. c % w.walSize \in DOMAIN w.records
    BY SlotOf
  <2> QED BY <1>7, <1>10, <2>2, <2>3 DEF At
<1> QED BY <1>10, <1>11, <1>12, <1>13 DEF v

\* An initialized vector.
LEMMA BlanksOf ==
    ASSUME NEW n \in Nat
    PROVE  Blanks(n) \in [0 .. n - 1 -> Slots] /\ Blanks(n) \in Vectors
<1>1. Blank \in Slots
  BY DEF Blank, Slots, Servers, Records
<1>2. Blanks(n) \in [0 .. n - 1 -> Slots]
  BY <1>1 DEF Blanks
<1>3. [0 .. n - 1 -> Slots] \in {[0 .. m - 1 -> Slots] : m \in Nat}
  OBVIOUS
<1> QED BY <1>2, <1>3, Zenon DEF Vectors

\* The first half of add(): counter, last LSN and offset.
LEMMA AdvanceFields ==
    ASSUME NEW w, Shaped(w), NEW l \in Lsns, l.counter \in Nat
    PROVE  /\ Advance(w, l) \in Wals
           /\ Advance(w, l).counter = l.counter + 1 /\ Advance(w, l).last = l
           /\ Advance(w, l).walSize = w.walSize /\ Advance(w, l).stored = w.stored
           /\ Advance(w, l).offset = NextOffset(w, l)
           /\ Advance(w, l).records = IF w.counter = 0 THEN Blanks(NextOffset(w, l))
                                      ELSE w.records
           /\ NextOffset(w, l) \in Nat
<1> DEFINE o == NextOffset(w, l)
           r == IF w.counter = 0 THEN Blanks(o) ELSE w.records
           k == l.counter + 1
           v == [w EXCEPT !.counter = k, !.last = l, !.offset = o, !.records = r]
<1>1. w \in Wals /\ w.walSize \in Nat /\ w.walSize > 0 /\ w.offset \in Nat
  BY WalFields DEF Shaped
<1>2. l.counter % w.walSize \in Nat /\ k \in Nat
  BY <1>1, ModRange
<1>3. (l.counter + 1) % w.walSize \in Nat
  BY <1>1, <1>2, ModRange
<1>4. o \in Nat
  BY <1>1, <1>2, <1>3 DEF NextOffset
<1> HIDE DEF o
<1>5. r \in Vectors
  BY <1>4, BlanksOf, RecordsOf
<1>6. Advance(w, l) = v
  BY Zenon DEF Advance, o
<1> HIDE DEF r, k
<1>7. /\ v \in Wals /\ v.counter = k /\ v.last = l /\ v.walSize = w.walSize
      /\ v.stored = w.stored /\ v.offset = o /\ v.records = r
  BY <1>1, <1>2, <1>4, <1>5 DEF Wals
<1> QED BY <1>4, <1>6, <1>7 DEF o, r, k

\* The slots after put() of an LSN for which the ring has made room.
Grown(r, p, x) ==
    [q \in DOMAIN r \cup 0 .. p |-> IF q = p THEN x ELSE IF q \in DOMAIN r THEN r[q] ELSE Blank]

IsGrown(g, r, len, p, x) ==
    /\ g \in [0 .. (IF p = len THEN len + 1 ELSE len) - 1 -> Slots]
    /\ g \in Vectors
    /\ g[p] = x
    /\ \A q \in 0 .. len - 1 : q # p => g[q] = r[q]

\* A vector grows by at most the slot that follows it.
LEMMA GrownOf ==
    ASSUME NEW len \in Nat, NEW r \in [0 .. len - 1 -> Slots], NEW p \in Nat, p <= len,
           NEW x \in Slots
    PROVE  IsGrown(Grown(r, p, x), r, len, p, x)
<1> DEFINE m == IF p = len THEN len + 1 ELSE len
<1>1. m \in Nat
  OBVIOUS
<1>2. DOMAIN r \cup 0 .. p = 0 .. m - 1
  OBVIOUS
<1>3. Grown(r, p, x) \in [0 .. m - 1 -> Slots]
  <2>1. \A q \in 0 .. m - 1 : q = p \/ q \in DOMAIN r
    OBVIOUS
  <2> QED BY <1>2, <2>1 DEF Grown
<1>4. Grown(r, p, x)[p] = x
  BY DEF Grown
<1>5. \A q \in 0 .. len - 1 : q # p => Grown(r, p, x)[q] = r[q]
  BY DEF Grown
<1>6. [0 .. m - 1 -> Slots] \in {[0 .. n - 1 -> Slots] : n \in Nat}
  BY <1>1
<1>7. Grown(r, p, x) \in Vectors
  BY <1>3, <1>6, Zenon DEF Vectors
<1> QED BY <1>3, <1>4, <1>5, <1>7 DEF IsGrown

\* add() puts the record of an LSN.
Added(w, l, r) == Put(Advance(w, l), l, r)

\* The fields after put().
LEMMA AddedFields ==
    ASSUME NEW w, Shaped(w), NEW l \in Lsns, l.counter \in Nat, NEW r \in Records,
           NEW len \in Nat, Advance(w, l).records \in [0 .. len - 1 -> Slots],
           l.counter % w.walSize <= len
    PROVE  /\ Added(w, l, r) \in Wals
           /\ Added(w, l, r).counter = l.counter + 1 /\ Added(w, l, r).last = l
           /\ Added(w, l, r).walSize = w.walSize /\ Added(w, l, r).stored = w.stored
           /\ Added(w, l, r).offset = Advance(w, l).offset
           /\ Added(w, l, r).records = Grown(Advance(w, l).records, l.counter % w.walSize,
                                             [server |-> l.server, rec |-> r])
<1> DEFINE a == Advance(w, l)
           p == l.counter % w.walSize
           x == [server |-> l.server, rec |-> r]
           g == Grown(a.records, p, x)
<1>1. /\ a \in Wals /\ a.counter = l.counter + 1 /\ a.last = l /\ a.walSize = w.walSize
      /\ a.stored = w.stored
  BY AdvanceFields
<1>2. p \in Nat
  BY ModRange, WalFields DEF Shaped
<1>3. x \in Slots
  BY DEF Slots, Lsns
<1>4. Pos(a, l) = p
  BY <1>1 DEF Pos
<1>5. Added(w, l, r) = [a EXCEPT !.records = g]
  BY <1>4, Zenon DEF Added, Put, Grown
<1> HIDE DEF p, x
<1>6. g \in Vectors
  BY <1>2, <1>3, GrownOf DEF p, IsGrown
<1> HIDE DEF a, g
<1>7. /\ Added(w, l, r) \in Wals /\ Added(w, l, r).records = g
      /\ Added(w, l, r).counter = a.counter /\ Added(w, l, r).last = a.last
      /\ Added(w, l, r).walSize = a.walSize /\ Added(w, l, r).offset = a.offset
      /\ Added(w, l, r).stored = a.stored
  BY <1>1, <1>5, <1>6, WithRecords
<1> QED BY <1>1, <1>7 DEF a, p, x, g

\* The first record of an empty log.
LEMMA AddedFirst ==
    ASSUME NEW w, Shaped(w), NEW l \in Lsns, l.counter \in Nat, NEW r \in Records,
           w.counter = 0
    PROVE  /\ Shaped(Added(w, l, r)) /\ RingSize(Added(w, l, r)) = 1
           /\ At(Added(w, l, r), l.counter) = [server |-> l.server, rec |-> r]
<1> DEFINE s == w.walSize
           p == l.counter % s
           v == Added(w, l, r)
           x == [server |-> l.server, rec |-> r]
<1>1. s \in Nat /\ s > 0
  BY WalFields DEF Shaped
<1>2. p \in Nat /\ p < s
  BY <1>1, ModRange
<1>3. Advance(w, l).records = Blanks(p) /\ Advance(w, l).offset = p
  BY AdvanceFields DEF NextOffset
<1>4. Blanks(p) \in [0 .. p - 1 -> Slots]
  BY <1>2, BlanksOf
<1> HIDE DEF p
<1>5. p <= p
  BY <1>2
<1>6. /\ v \in Wals /\ v.counter = l.counter + 1 /\ v.walSize = s /\ v.offset = p
      /\ v.records = Grown(Blanks(p), p, x)
  BY <1>2, <1>3, <1>4, <1>5, AddedFields DEF p
<1>7. x \in Slots
  BY DEF Slots, Lsns
<1> HIDE DEF x, v, s
<1>8. v.records \in [0 .. (p + 1) - 1 -> Slots] /\ v.records[p] = x
  <2>1. /\ Grown(Blanks(p), p, x) \in [0 .. (IF p = p THEN p + 1 ELSE p) - 1 -> Slots]
        /\ Grown(Blanks(p), p, x)[p] = x
    BY <1>2, <1>4, <1>5, <1>7, GrownOf DEF IsGrown
  <2>2. (IF p = p THEN p + 1 ELSE p) = p + 1
    OBVIOUS
  <2> QED BY <1>6, <2>1, <2>2
<1>9. p + 1 \in Nat /\ 1 \in Nat
  BY <1>2
<1>10. v.counter - 1 = l.counter /\ v.counter > 0
  BY <1>6
<1>11. v.offset = (v.counter - 1) % v.walSize
  BY <1>6, <1>10 DEF p
<1>12. Ring(v, 1, p + 1)
  BY <1>1, <1>2, <1>6, <1>8, <1>9, <1>10, <1>11 DEF Ring
<1>13. Shaped(v) /\ RingSize(v) = 1
  BY <1>6, <1>9, <1>12, RingSizeIs DEF Shaped
<1>14. At(v, l.counter) = x
  BY <1>6, <1>8 DEF At, p
<1> QED BY <1>13, <1>14 DEF v, x

\* A record that follows: the ring grows, or drops its oldest record.
LEMMA AddedNext ==
    ASSUME NEW w, Shaped(w), NEW l \in Lsns, l.counter = w.counter, w.counter > 0,
           NEW r \in Records
    PROVE  /\ Shaped(Added(w, l, r))
           /\ RingSize(Added(w, l, r)) =
                 IF RingSize(w) = w.walSize THEN w.walSize ELSE RingSize(w) + 1
           /\ At(Added(w, l, r), l.counter) = [server |-> l.server, rec |-> r]
           /\ \A c \in Window(w) : c % w.walSize # l.counter % w.walSize
                                     => At(Added(w, l, r), c) = At(w, c)
<1> DEFINE s == w.walSize
           k == l.counter
           p == k % s
           v == Added(w, l, r)
           x == [server |-> l.server, rec |-> r]
           n == RingSize(w)
           m == IF n = s THEN s ELSE n + 1
           o == NextOffset(w, l)
<1>1. w \in Wals /\ s \in Nat /\ s > 0 /\ w.offset \in Nat /\ k \in Nat /\ k > 0 /\ w.counter = k
  BY WalFields DEF Shaped
<1>2. PICK len \in Nat : Ring(w, n, len)
  BY Shape
<1>3. /\ n \in Nat /\ n >= 1 /\ n <= s /\ n <= k /\ len <= s
      /\ w.offset = (k - n) % s
      /\ len = s \/ w.offset + n = len
      /\ w.records \in [0 .. len - 1 -> Slots]
  BY <1>1, <1>2 DEF Ring
<1>4. p \in Nat /\ p < s
  BY <1>1, ModRange
<1>5. p = IF w.offset + n < s THEN w.offset + n ELSE w.offset + n - s
  <2> HIDE DEF k, n, s, p
  <2>1. k - n \in Nat /\ (k - n) + n = k
    <3>1. k \in Nat /\ n \in Nat /\ n <= k
      BY <1>1, <1>3
    <3> QED BY <3>1
  <2>2. ((k - n) + n) % s = IF ((k - n) % s) + n < s THEN ((k - n) % s) + n ELSE ((k - n) % s) + n - s
    <3>1. s \in Nat /\ s > 0 /\ n \in Nat /\ n <= s
      BY <1>1, <1>3
    <3> QED BY <2>1, <3>1, ModAdd
  <2>3. p = k % s
    BY DEF p
  <2> QED BY <1>3, <2>1, <2>2, <2>3
<1>6. w.offset < s
  BY <1>1, <1>3, ModRange
<1>7. /\ Advance(w, l).records = w.records /\ Advance(w, l).offset = o /\ o \in Nat
      /\ o = IF w.offset = p THEN (k + 1) % s ELSE w.offset
  BY <1>1, AdvanceFields DEF NextOffset
<1> HIDE DEF p, o, n, s
<1>8. p <= len
  BY <1>1, <1>3, <1>4, <1>5, <1>6
<1>9. /\ v \in Wals /\ v.counter = k + 1 /\ v.walSize = s /\ v.offset = o
      /\ v.records = Grown(w.records, p, x)
  <2>1. Advance(w, l).records \in [0 .. len - 1 -> Slots]
    BY <1>3, <1>7
  <2>2. l.counter % w.walSize <= len
    BY <1>8 DEF p, s
  <2>3. l.counter \in Nat
    BY <1>1
  <2> QED BY <1>7, <2>1, <2>2, <2>3, AddedFields DEF p, s
<1>10. x \in Slots
  BY DEF Slots, Lsns
<1> HIDE DEF x, v
<1> DEFINE len2 == IF p = len THEN len + 1 ELSE len
<1>11. /\ v.records \in [0 .. len2 - 1 -> Slots] /\ v.records[p] = x
       /\ \A q \in 0 .. len - 1 : q # p => v.records[q] = w.records[q]
  <2> DEFINE g == Grown(w.records, p, x)
  <2>1. /\ g \in [0 .. (IF p = len THEN len + 1 ELSE len) - 1 -> Slots] /\ g[p] = x
        /\ \A q \in 0 .. len - 1 : q # p => g[q] = w.records[q]
    <3>1. len \in Nat /\ w.records \in [0 .. len - 1 -> Slots] /\ p \in Nat /\ p <= len /\ x \in Slots
      BY <1>3, <1>4, <1>8, <1>10
    <3> HIDE DEF k, m
    <3>2. IsGrown(Grown(w.records, p, x), w.records, len, p, x)
      BY <3>1, GrownOf, Zenon
    <3> QED BY <3>2 DEF IsGrown
  <2> HIDE DEF g
  <2>2. v.records = g
    BY <1>9 DEF g
  <2> QED BY <2>1, <2>2
<1>12. n = s <=> w.offset = p
  BY <1>1, <1>3, <1>4, <1>5, <1>6
<1>13. m \in Nat /\ m <= s /\ m <= k + 1 /\ m >= 1
  BY <1>1, <1>3
<1>14. o = (k + 1 - m) % s
  <2>1. CASE n = s
    <3>1. k + 1 - s \in Nat /\ (k + 1 - s) + s = k + 1 /\ s <= s
      BY <1>1, <1>3, <2>1
    <3>2. ((k + 1 - s) + s) % s = IF ((k + 1 - s) % s) + s < s THEN ((k + 1 - s) % s) + s
                                  ELSE ((k + 1 - s) % s) + s - s
      BY <1>1, <3>1, ModAdd
    <3>3. (k + 1 - s) % s \in Nat
      BY <1>1, <3>1, ModRange
    <3>4. (k + 1) % s = (k + 1 - s) % s
      BY <1>1, <3>1, <3>2, <3>3
    <3>5. m = s
      BY <2>1
    <3> QED BY <1>7, <1>12, <2>1, <3>4, <3>5
  <2>2. CASE n # s
    <3>1. m = n + 1 /\ k + 1 - m = k - n
      BY <1>1, <1>3, <2>2
    <3> QED BY <1>3, <1>7, <1>12, <2>2, <3>1
  <2> QED BY <2>1, <2>2
<1>15. len2 \in Nat /\ len2 <= s /\ (len2 = s \/ o + m = len2)
  <2>1. CASE len = s
    BY <1>1, <1>4, <2>1
  <2>2. CASE len # s
    <3>1. w.offset + n = len /\ len < s
      BY <1>1, <1>3, <2>2
    <3>2. p = len
      BY <1>5, <3>1
    <3>3. o = w.offset /\ m = n + 1
      BY <1>1, <1>3, <1>4, <1>7, <1>12, <3>1, <3>2
    <3> QED BY <1>1, <1>3, <3>1, <3>2, <3>3
  <2> QED BY <2>1, <2>2
<1> HIDE DEF m, len2
<1>16. Ring(v, m, len2)
  <2>1. v.counter > 0 /\ v.counter # 0 /\ v.counter - m = k + 1 - m
    <3>1. v.counter = k + 1 /\ k \in Nat
      BY <1>1, <1>9
    <3> HIDE DEF k
    <3> QED BY <3>1, <1>13
  <2>2. v.offset = (v.counter - m) % v.walSize
    BY <1>9, <1>14, <2>1
  <2>3. m <= v.walSize /\ m <= v.counter /\ len2 <= v.walSize
    BY <1>9, <1>13, <1>15
  <2>4. len2 = v.walSize \/ v.offset + m = len2
    BY <1>9, <1>15
  <2> QED BY <1>11, <1>13, <1>15, <2>1, <2>2, <2>3, <2>4 DEF Ring
<1>17. Shaped(v) /\ RingSize(v) = m
  BY <1>9, <1>13, <1>15, <1>16, RingSizeIs DEF Shaped
<1>18. At(v, k) = x
  BY <1>9, <1>11 DEF At, p
<1>19. \A c \in Window(w) : c % s # p => At(v, c) = At(w, c)
  <2>1. SUFFICES ASSUME NEW c \in Window(w), c % s # p PROVE At(v, c) = At(w, c)
    OBVIOUS
  <2>2. c % s \in DOMAIN w.records
    BY SlotOf DEF s
  <2>3. c % s \in 0 .. len - 1
    BY <1>3, <2>2
  <2> QED BY <1>9, <1>11, <2>1, <2>3 DEF At, s
<1> QED BY <1>17, <1>18, <1>19 DEF v, x, m, n, s, p

\* add() as the rest of the proof uses it: the new LSN is in the ring, the
\* other LSNs of the ring were there before and keep their slots.
LEMMA AddedToRing ==
    ASSUME NEW w, Shaped(w), NEW l \in Lsns, l.counter \in Nat, NEW r \in Records,
           w.counter = 0 \/ l.counter = w.counter
    PROVE  /\ Shaped(Added(w, l, r))
           /\ Added(w, l, r).counter = l.counter + 1 /\ Added(w, l, r).last = l
           /\ Added(w, l, r).walSize = w.walSize /\ Added(w, l, r).stored = w.stored
           /\ l.counter \in Window(Added(w, l, r))
           /\ At(Added(w, l, r), l.counter) = [server |-> l.server, rec |-> r]
           /\ \A c \in Window(Added(w, l, r)) :
                 c # l.counter => c \in Window(w) /\ At(Added(w, l, r), c) = At(w, c)
<1> DEFINE v == Added(w, l, r)
<1>1. w \in Wals /\ w.counter \in Nat /\ w.walSize \in Nat /\ w.walSize > 0
  BY WalFields DEF Shaped
<1>2. v.counter = l.counter + 1 /\ v.last = l /\ v.walSize = w.walSize /\ v.stored = w.stored
  <2>1. w.counter = 0 => Advance(w, l).records = Blanks(l.counter % w.walSize)
    BY AdvanceFields DEF NextOffset
  <2>2. l.counter % w.walSize \in Nat /\ l.counter % w.walSize < w.walSize
    BY <1>1, ModRange
  <2> DEFINE a == Advance(w, l)
             p == Pos(a, l)
             g == [q \in DOMAIN a.records \cup 0 .. p |->
                    IF q = p THEN [server |-> l.server, rec |-> r]
                    ELSE IF q \in DOMAIN a.records THEN a.records[q] ELSE Blank]
  <2>3. /\ a \in Wals /\ a.counter = l.counter + 1 /\ a.last = l /\ a.walSize = w.walSize
        /\ a.stored = w.stored
    BY AdvanceFields
  <2>4. v = [a EXCEPT !.records = g]
    BY Zenon DEF Added, Put
  <2> HIDE DEF a, g
  <2> QED BY <2>3, <2>4 DEF Wals
<1>3. CASE w.counter = 0
  <2>1. Shaped(v) /\ RingSize(v) = 1 /\ At(v, l.counter) = [server |-> l.server, rec |-> r]
    BY <1>3, AddedFirst
  <2> HIDE DEF v
  <2>4. \A c : c \in Window(v) <=> c \in Nat /\ c < v.counter /\ v.counter - c <= RingSize(v)
    BY <2>1, WindowOf
  <2>2. \A c \in Window(v) : c = l.counter
    BY <1>2, <2>1, <2>4
  <2>3. l.counter \in Window(v)
    BY <1>2, <2>1, <2>4
  <2> QED BY <1>2, <2>1, <2>2, <2>3 DEF v
<1>4. CASE w.counter > 0
  <2>1. l.counter = w.counter
    BY <1>4
  <2>2. /\ Shaped(v)
        /\ RingSize(v) = IF RingSize(w) = w.walSize THEN w.walSize ELSE RingSize(w) + 1
        /\ At(v, l.counter) = [server |-> l.server, rec |-> r]
        /\ \A c \in Window(w) : c % w.walSize # l.counter % w.walSize => At(v, c) = At(w, c)
    BY <1>4, <2>1, AddedNext
  <2> HIDE DEF v
  <2>3. l.counter \in Window(v)
    BY <1>2, <2>2, WindowOf
  <2>4. \A c \in Window(v) : c # l.counter => c \in Window(w) /\ At(v, c) = At(w, c)
    <3>1. SUFFICES ASSUME NEW c \in Window(v), c # l.counter
                   PROVE  c \in Window(w) /\ At(v, c) = At(w, c)
      OBVIOUS
    <3>2. c \in Nat /\ c < l.counter + 1 /\ l.counter + 1 - c <= RingSize(v)
      BY <1>2, <2>2, WindowOf
    <3>3. RingSize(w) \in Nat /\ RingSize(w) <= w.walSize
      BY WindowOf
    <3>4. c \in Window(w) /\ c < l.counter
      <4> DEFINE n == RingSize(w)
                 m == RingSize(v)
                 k == l.counter
      <4>1. m = IF n = w.walSize THEN w.walSize ELSE n + 1
        BY <2>2
      <4>2. n \in Nat /\ n <= w.walSize /\ k \in Nat /\ c \in Nat /\ c # k /\ c < k + 1
            /\ k + 1 - c <= m
        BY <3>1, <3>2, <3>3
      <4> HIDE DEF n, m, k
      <4>3. c < k /\ k - c <= n
        BY <1>1, <4>1, <4>2
      <4> QED BY <2>1, <3>2, <4>3, WindowOf DEF k, n
    <3>5. c % w.walSize # l.counter % w.walSize
      <4>1. SUFFICES ASSUME c % w.walSize = l.counter % w.walSize PROVE FALSE
        OBVIOUS
      <4>2. c + w.walSize <= l.counter
        BY <1>1, <3>2, <3>4, <4>1, ModApart
      <4> QED BY <1>1, <2>2, <3>2, <3>3, <4>2
    <3> QED BY <2>2, <3>4, <3>5
  <2> QED BY <1>2, <2>2, <2>3, <2>4 DEF v
<1> QED BY <1>1, <1>3, <1>4

\* available() accepts the LSNs of the ring.
LEMMA AvailableIs ==
    ASSUME NEW w, Shaped(w), NEW l \in Lsns, l.counter \in Nat, NEW ign
    PROVE  Available(w, l, ign) <=> /\ l.counter \in Window(w)
                                    /\ ign \/ At(w, l.counter).server = l.server
<1>1. w.counter \in Nat /\ RingSize(w) \in Nat
  BY WalFields, WindowOf DEF Shaped
<1>2. l.counter \in Window(w) <=> l.counter < w.counter /\ w.counter - l.counter <= RingSize(w)
  BY WindowOf
<1>3. w.records[Pos(w, l)] = At(w, l.counter)
  BY DEF At, Pos
<1> QED BY <1>2, <1>3, Zenon DEF Available

\* An entry of the stored log for a position replaces the one before it.
Stored(w, l) == {e \in w.stored : e.pos # l.counter % w.walSize}
                  \cup {[pos |-> l.counter % w.walSize, lsn |-> l, rec |-> At(w, l.counter).rec]}

\* Writing to the storage leaves the ring alone.
LEMMA Writing ==
    ASSUME NEW w, Shaped(w), NEW l \in Lsns, l.counter \in Window(w)
    PROVE  /\ Shaped(WriteToStorage(w, l)) /\ Window(WriteToStorage(w, l)) = Window(w)
           /\ WriteToStorage(w, l).counter = w.counter /\ WriteToStorage(w, l).last = w.last
           /\ WriteToStorage(w, l).walSize = w.walSize
           /\ \A c : At(WriteToStorage(w, l), c) = At(w, c)
           /\ WriteToStorage(w, l).stored = Stored(w, l)
<1> DEFINE v == WriteToStorage(w, l)
<1>1. w \in Wals /\ w.stored \in SUBSET Entries
  BY WalFields DEF Shaped
<1>2. l.counter % w.walSize \in Nat /\ At(w, l.counter) \in Slots
  BY SlotOf
<1>3. [pos |-> l.counter % w.walSize, lsn |-> l, rec |-> At(w, l.counter).rec] \in Entries
  BY <1>2 DEF Entries, Slots
<1>4. Stored(w, l) \in SUBSET Entries
  BY <1>1, <1>3 DEF Stored
<1>5. v = [w EXCEPT !.stored = Stored(w, l)]
  BY DEF WriteToStorage, Stored, Pos, At
<1> HIDE DEF v
<1>6. /\ v \in Wals /\ v.stored = Stored(w, l) /\ v.records = w.records
      /\ v.counter = w.counter /\ v.last = w.last /\ v.walSize = w.walSize
      /\ v.offset = w.offset
  BY <1>1, <1>4, <1>5, WithStored
<1>7. v.records \in [DOMAIN w.records -> Slots]
  BY <1>6, RecordsOf
<1>8. Shaped(v) /\ Window(v) = Window(w)
  BY <1>6, <1>7, SameRing
<1>9. \A c : At(v, c) = At(w, c)
  BY <1>6 DEF At
<1> QED BY <1>6, <1>8, <1>9 DEF v

Batches == SUBSET [lsn : Lsns, rec : Records]

\* The last LSN after a batch.
NewLast(w, batch) == IF \E b \in batch : b.lsn.counter = w.last.counter
                     THEN (CHOOSE b \in batch : b.lsn.counter = w.last.counter).lsn ELSE w.last

\* The slots after a batch.
NewRecords(w, batch) ==
    [p \in DOMAIN w.records |->
        IF \E b \in batch : Pos(w, b.lsn) = p
        THEN [server |-> For(w, batch, p).lsn.server, rec |-> For(w, batch, p).rec]
        ELSE w.records[p]]

\* The slots stay slots.
LEMMA NewRecordsOf ==
    ASSUME NEW w, Shaped(w), NEW batch, \A b \in batch : b.lsn \in Lsns /\ b.rec \in Records
    PROVE  NewRecords(w, batch) \in [DOMAIN w.records -> Slots]
<1>1. SUFFICES ASSUME NEW p \in DOMAIN w.records PROVE NewRecords(w, batch)[p] \in Slots
  BY DEF NewRecords
<1>2. CASE \E b \in batch : Pos(w, b.lsn) = p
  <2>1. For(w, batch, p) \in batch
    BY <1>2 DEF For
  <2>2. For(w, batch, p).lsn \in Lsns /\ For(w, batch, p).rec \in Records
    BY <2>1
  <2>3. [server |-> For(w, batch, p).lsn.server, rec |-> For(w, batch, p).rec] \in Slots
    BY <2>2 DEF Slots, Lsns
  <2> QED BY <1>1, <1>2, <2>3 DEF NewRecords
<1>3. CASE ~ \E b \in batch : Pos(w, b.lsn) = p
  BY <1>1, <1>3, RecordsOf DEF NewRecords
<1> QED BY <1>2, <1>3

\* Every slot has the record of the batch that is for it, or what it had.
LEMMA Overwriting ==
    ASSUME NEW w, Shaped(w), NEW batch,
           \A b \in batch : b.lsn \in Lsns /\ b.rec \in Records /\ b.lsn.counter \in Window(w)
    PROVE  /\ Shaped(Overwrite(w, batch)) /\ Window(Overwrite(w, batch)) = Window(w)
           /\ Overwrite(w, batch).counter = w.counter
           /\ Overwrite(w, batch).walSize = w.walSize
           /\ Overwrite(w, batch).stored = w.stored
           /\ Overwrite(w, batch).last = NewLast(w, batch)
           /\ \A c \in Window(w) :
                 IF \E b \in batch : b.lsn.counter = c
                 THEN \E b \in batch : /\ b.lsn.counter = c
                                       /\ At(Overwrite(w, batch), c) = [server |-> b.lsn.server, rec |-> b.rec]
                 ELSE At(Overwrite(w, batch), c) = At(w, c)
<1> DEFINE v == Overwrite(w, batch)
           f == NewRecords(w, batch)
           t == NewLast(w, batch)
<1>1. w \in Wals /\ w.last \in Lsns
  BY WalFields DEF Shaped
<1>2. f \in [DOMAIN w.records -> Slots]
  BY NewRecordsOf
<1>3. t \in Lsns
  <2>1. CASE \E b \in batch : b.lsn.counter = w.last.counter
    <3>1. (CHOOSE b \in batch : b.lsn.counter = w.last.counter) \in batch
      BY <2>1
    <3> QED BY <2>1, <3>1 DEF NewLast
  <2>2. CASE ~ \E b \in batch : b.lsn.counter = w.last.counter
    BY <1>1, <2>2 DEF NewLast
  <2> QED BY <2>1, <2>2
<1>4. v = [w EXCEPT !.records = f, !.last = t]
  BY Zenon DEF Overwrite, NewRecords, NewLast
<1>5. \A p \in DOMAIN w.records :
        f[p] = IF \E b \in batch : Pos(w, b.lsn) = p
               THEN [server |-> For(w, batch, p).lsn.server, rec |-> For(w, batch, p).rec]
               ELSE w.records[p]
  BY DEF NewRecords
<1> HIDE DEF f, t
<1>6. f \in Vectors
  BY <1>2, RecordsOf
<1>7. /\ v \in Wals /\ v.records = f /\ v.counter = w.counter /\ v.last = t
      /\ v.walSize = w.walSize /\ v.offset = w.offset /\ v.stored = w.stored
  BY <1>1, <1>3, <1>4, <1>6 DEF Wals
<1> HIDE DEF v
<1>8. Shaped(v) /\ Window(v) = Window(w)
  BY <1>2, <1>7, SameRing
<1>9. \A b \in batch, c \in Window(w) : Pos(w, b.lsn) = c % w.walSize <=> b.lsn.counter = c
  BY SlotsApart DEF Pos
<1>10. ASSUME NEW c \in Window(w)
       PROVE  IF \E b \in batch : b.lsn.counter = c
              THEN \E b \in batch : /\ b.lsn.counter = c
                                    /\ At(v, c) = [server |-> b.lsn.server, rec |-> b.rec]
              ELSE At(v, c) = At(w, c)
  <2> DEFINE p == c % w.walSize
  <2>1. p \in DOMAIN w.records /\ At(v, c) = f[p] /\ At(w, c) = w.records[p]
    BY <1>7, SlotOf DEF At
  <2>2. CASE \E b \in batch : b.lsn.counter = c
    <3>1. \E b \in batch : Pos(w, b.lsn) = p
      BY <1>9, <2>2
    <3>2. For(w, batch, p) \in batch /\ Pos(w, For(w, batch, p).lsn) = p
      BY <3>1 DEF For
    <3>3. For(w, batch, p).lsn.counter = c
      BY <1>9, <3>2
    <3>4. At(v, c) = [server |-> For(w, batch, p).lsn.server, rec |-> For(w, batch, p).rec]
      BY <1>5, <2>1, <3>1
    <3> QED BY <2>2, <3>2, <3>3, <3>4
  <2>3. CASE ~ \E b \in batch : b.lsn.counter = c
    <3>1. ~ \E b \in batch : Pos(w, b.lsn) = p
      BY <1>9, <2>3
    <3> QED BY <1>5, <2>1, <2>3, <3>1
  <2> QED BY <2>2, <2>3
<1> QED BY <1>7, <1>8, <1>10 DEF v, t

\* The records of a batch that Set accepts.
Taken(w, batch, ign) == {b \in batch : Available(w, b.lsn, ign)}

\* What the ring is after the records T were set.
IsSet(v, w, T) ==
    /\ Shaped(v) /\ Window(v) = Window(w)
    /\ v.counter = w.counter /\ v.walSize = w.walSize /\ v.stored = w.stored
    /\ v.last = NewLast(w, T)
    /\ \A c \in Window(w) :
          IF \E b \in T : b.lsn.counter = c
          THEN \E b \in T : /\ b.lsn.counter = c
                            /\ At(v, c) = [server |-> b.lsn.server, rec |-> b.rec]
          ELSE At(v, c) = At(w, c)

\* Set for a batch of records.
LEMMA Setting ==
    ASSUME NEW w, Shaped(w), NEW batch, NEW ign,
           \A b \in batch : b.lsn \in Lsns /\ b.lsn.counter \in Nat /\ b.rec \in Records
    PROVE  IsSet(SetRecords(w, batch, ign), w, Taken(w, batch, ign))
<1> DEFINE T == Taken(w, batch, ign)
<1>1. \A b \in T : b.lsn \in Lsns /\ b.rec \in Records /\ b.lsn.counter \in Window(w)
  BY AvailableIs DEF Taken
<1>2. SetRecords(w, batch, ign) = Overwrite(w, T)
  BY DEF SetRecords, Taken
<1> HIDE DEF T
<1>3. IsSet(Overwrite(w, T), w, T)
  BY <1>1, Overwriting DEF IsSet
<1> QED BY <1>2, <1>3 DEF T

\* The records that Set accepts are those of LSNs in the ring.
LEMMA TakenOf ==
    ASSUME NEW w, Shaped(w), NEW batch, NEW ign,
           \A b \in batch : b.lsn \in Lsns /\ b.lsn.counter \in Nat /\ b.rec \in Records
    PROVE  \A b : b \in Taken(w, batch, ign) <=>
                    /\ b \in batch /\ b.lsn.counter \in Window(w)
                    /\ ign \/ At(w, b.lsn.counter).server = b.lsn.server
<1>1. SUFFICES ASSUME NEW b \in batch
               PROVE  Available(w, b.lsn, ign) <=>
                          /\ b.lsn.counter \in Window(w)
                          /\ ign \/ At(w, b.lsn.counter).server = b.lsn.server
  BY Zenon DEF Taken
<1>2. b.lsn \in Lsns /\ b.lsn.counter \in Nat
  OBVIOUS
<1> QED BY <1>2, AvailableIs

\* The smaller of two numbers.
LEMMA MinOfTwo ==
    ASSUME NEW a \in Int, NEW b \in Int
    PROVE  Min({a, b}) = IF a <= b THEN a ELSE b
<1>1. \E x \in {a, b} : \A y \in {a, b} : x <= y
  OBVIOUS
<1>2. Min({a, b}) \in {a, b} /\ \A y \in {a, b} : Min({a, b}) <= y
  BY <1>1, Zenon DEF Min
<1> QED BY <1>2

\* The greater of two numbers.
LEMMA MaxOfTwo ==
    ASSUME NEW a \in Int, NEW b \in Int
    PROVE  Max({a, b}) = IF a >= b THEN a ELSE b
<1>1. \E x \in {a, b} : \A y \in {a, b} : x >= y
  OBVIOUS
<1>2. Max({a, b}) \in {a, b} /\ \A y \in {a, b} : Max({a, b}) >= y
  BY <1>1, Zenon DEF Max
<1> QED BY <1>2

\* LSNs of the first turn are their positions.
LEMMA ModSmall ==
    ASSUME NEW s \in Nat, s > 0, NEW a \in Nat, a < s
    PROVE  a % s = a
<1>1. s * 0 + a = a
  OBVIOUS
<1> QED BY <1>1, ModUnique

\* A turn of the ring ends where it started.
LEMMA ModTurn ==
    ASSUME NEW s \in Nat, s > 0, NEW a \in Nat, s <= a
    PROVE  (a - s) % s = a % s
<1>1. a - s \in Nat /\ (a - s) + s = a /\ s <= s
  OBVIOUS
<1>2. ((a - s) + s) % s = IF ((a - s) % s) + s < s THEN ((a - s) % s) + s
                          ELSE ((a - s) % s) + s - s
  BY <1>1, ModAdd
<1>3. (a - s) % s \in Nat
  BY <1>1, ModRange
<1> QED BY <1>1, <1>2, <1>3

\* How many LSNs an initialized ring holds.
InitSize(sz, minLSN, counter) ==
    IF counter = 0 THEN 0
    ELSE IF minLSN = -1 THEN (IF counter % sz = 0 THEN sz ELSE counter % sz)
    ELSE IF counter > sz + minLSN THEN sz ELSE counter - minLSN

\* Where the oldest of them is, and how many slots there are.
OffsetOf(sz, minLSN, counter) ==
    IF minLSN = -1 THEN 0 ELSE IF counter > sz + minLSN THEN counter % sz ELSE minLSN % sz
LenOf(sz, counter) == IF counter <= sz THEN counter ELSE sz

\* The offset that initPositions computes is the position of its oldest LSN.
LEMMA InitOffset ==
    ASSUME NEW sz \in Nat, sz > 0, NEW minLSN \in Int, NEW counter \in Nat,
           minLSN = -1 \/ (0 <= minLSN /\ minLSN < counter)
    PROVE  /\ InitSize(sz, minLSN, counter) \in Nat /\ InitSize(sz, minLSN, counter) <= sz
           /\ InitSize(sz, minLSN, counter) <= counter
           /\ OffsetOf(sz, minLSN, counter) \in Nat
           /\ counter = 0 => InitSize(sz, minLSN, counter) = 0 /\ OffsetOf(sz, minLSN, counter) = 0
           /\ counter > 0 =>
                /\ InitSize(sz, minLSN, counter) >= 1
                /\ OffsetOf(sz, minLSN, counter) = (counter - InitSize(sz, minLSN, counter)) % sz
                /\ \/ LenOf(sz, counter) = sz
                   \/ OffsetOf(sz, minLSN, counter) + InitSize(sz, minLSN, counter) = LenOf(sz, counter)
<1> DEFINE o == OffsetOf(sz, minLSN, counter)
           len == LenOf(sz, counter)
<1> /\ o = IF minLSN = -1 THEN 0 ELSE IF counter > sz + minLSN THEN counter % sz ELSE minLSN % sz
    /\ len = IF counter <= sz THEN counter ELSE sz
  BY DEF OffsetOf, LenOf
<1> HIDE DEF o, len
<1> SUFFICES /\ InitSize(sz, minLSN, counter) \in Nat /\ InitSize(sz, minLSN, counter) <= sz
             /\ InitSize(sz, minLSN, counter) <= counter /\ o \in Nat
             /\ counter = 0 => InitSize(sz, minLSN, counter) = 0 /\ o = 0
             /\ counter > 0 => /\ InitSize(sz, minLSN, counter) >= 1
                               /\ o = (counter - InitSize(sz, minLSN, counter)) % sz
                               /\ len = sz \/ o + InitSize(sz, minLSN, counter) = len
  BY DEF o, len
<1> DEFINE n == InitSize(sz, minLSN, counter)
<1>1. CASE counter = 0
  BY <1>1 DEF InitSize
<1>2. CASE counter > 0 /\ minLSN = -1
  <2> DEFINE e == counter % sz
             q == counter \div sz
  <2>1. e \in Nat /\ e < sz /\ q \in Nat /\ counter = sz * q + e
    BY ModRange
  <2>2. counter < sz => e = counter
    BY ModSmall
  <2>3. n = IF e = 0 THEN sz ELSE e
    BY <1>2 DEF InitSize
  <2>4. o = 0
    BY <1>2
  <2> HIDE DEF e, q, n
  <2>5. n \in Nat /\ n <= sz /\ n <= counter /\ n >= 1 /\ (len = sz \/ n = len)
    <3>1. e <= counter
      <4>1. \A y, z \in Nat : y * z \in Nat
        OBVIOUS
      <4>2. sz * q \in Nat
        BY <2>1, <4>1
      <4> QED BY <2>1, <4>2
    <3> QED BY <1>2, <2>1, <2>2, <2>3, <3>1
  <2>6. (counter - n) % sz = 0
    <3>1. CASE e = 0
      <4>1. sz <= counter /\ n = sz
        BY <1>2, <2>1, <2>2, <2>3, <3>1
      <4> QED BY <3>1, <4>1, ModTurn DEF e
    <3>2. CASE e # 0
      <4>1. \A y, z \in Nat : y * z \in Nat
        OBVIOUS
      <4>2. sz * q \in Nat
        BY <2>1, <4>1
      <4>3. counter - n = sz * q + 0
        BY <2>1, <2>3, <3>2, <4>2
      <4>4. (sz * q + 0) % sz = 0
        BY <2>1, ModUnique
      <4> QED BY <4>3, <4>4
    <3> QED BY <3>1, <3>2
  <2> QED BY <1>2, <2>4, <2>5, <2>6 DEF n
<1>3. CASE counter > 0 /\ minLSN # -1
  <2>1. minLSN \in Nat /\ minLSN < counter
    BY <1>3
  <2>2. CASE counter > sz + minLSN
    <3>1. n = sz /\ o = counter % sz /\ len = sz
      BY <1>3, <2>1, <2>2 DEF InitSize
    <3>2. (counter - sz) % sz = counter % sz
      <4>1. sz <= counter
        BY <2>1, <2>2
      <4> QED BY <4>1, ModTurn, Zenon
    <3>3. counter % sz \in Nat
      BY ModRange
    <3> HIDE DEF n
    <3> QED BY <1>3, <2>1, <2>2, <3>1, <3>2, <3>3 DEF n
  <2>3. CASE ~ (counter > sz + minLSN)
    <3>1. n = counter - minLSN /\ o = minLSN % sz
      BY <1>3, <2>1, <2>3 DEF InitSize
    <3>2. counter - n = minLSN
      BY <2>1, <3>1
    <3>3. minLSN % sz \in Nat
      BY <2>1, ModRange
    <3>4. len = sz \/ o + n = len
      <4>1. CASE counter < sz
        <5>1. minLSN % sz = minLSN
          BY <2>1, <4>1, ModSmall
        <5> HIDE DEF n
        <5> QED BY <2>1, <3>1, <4>1, <5>1
      <4>2. CASE ~ (counter < sz)
        BY <4>2
      <4> QED BY <4>1, <4>2
    <3>5. n \in Nat /\ n <= sz /\ n <= counter /\ n >= 1
      <4> HIDE DEF n
      <4> QED BY <2>1, <2>3, <3>1
    <3> HIDE DEF n
    <3> QED BY <1>3, <3>1, <3>2, <3>3, <3>4, <3>5 DEF n
  <2> QED BY <2>2, <2>3
<1> QED BY <1>1, <1>2, <1>3

\* initPositions gives an empty ring of the right shape.
LEMMA Initialized ==
    ASSUME NEW w, w \in Wals, NEW sz \in Nat, sz > 0, NEW minLSN \in Int, NEW maxLSN \in Int,
           maxLSN >= -1, minLSN = -1 \/ (0 <= minLSN /\ minLSN <= maxLSN)
    PROVE  /\ Shaped(InitPositions(w, sz, minLSN, maxLSN))
           /\ InitPositions(w, sz, minLSN, maxLSN).counter = maxLSN + 1
           /\ InitPositions(w, sz, minLSN, maxLSN).last = lsn_t(maxLSN, Local)
           /\ InitPositions(w, sz, minLSN, maxLSN).walSize = sz
           /\ InitPositions(w, sz, minLSN, maxLSN).stored = w.stored
           /\ RingSize(InitPositions(w, sz, minLSN, maxLSN)) = InitSize(sz, minLSN, maxLSN + 1)
           /\ \A c \in Window(InitPositions(w, sz, minLSN, maxLSN)) :
                 At(InitPositions(w, sz, minLSN, maxLSN), c) = Blank
<1> DEFINE v == InitPositions(w, sz, minLSN, maxLSN)
           counter == maxLSN + 1
           len == Min({counter, sz})
           o == IF minLSN = -1 THEN 0 ELSE IF counter > sz + minLSN THEN counter % sz
                ELSE minLSN % sz
           t == lsn_t(maxLSN, Local)
           n == InitSize(sz, minLSN, counter)
<1>1. counter \in Nat /\ (minLSN = -1 \/ (0 <= minLSN /\ minLSN < counter))
  OBVIOUS
<1>2. len \in Nat /\ len = IF counter <= sz THEN counter ELSE sz
  BY <1>1, MinOfTwo
<1>3. v = [w EXCEPT !.counter = counter, !.last = t, !.walSize = sz, !.records = Blanks(len),
                    !.offset = o]
  BY Zenon DEF InitPositions
<1>4. t \in Lsns
  BY DEF lsn_t, Lsns, Servers
<1> HIDE DEF counter, len, o, t
<1>5. /\ n \in Nat /\ n <= sz /\ n <= counter /\ o \in Nat
      /\ counter = 0 => n = 0 /\ o = 0
      /\ counter > 0 => /\ n >= 1 /\ o = (counter - n) % sz
                        /\ len = sz \/ o + n = len
  <2>1. o = OffsetOf(sz, minLSN, counter)
    BY DEF o, OffsetOf
  <2>2. len = LenOf(sz, counter)
    BY <1>2 DEF LenOf
  <2> QED BY <1>1, <2>1, <2>2, InitOffset
<1>6. Blanks(len) \in [0 .. len - 1 -> Slots] /\ Blanks(len) \in Vectors
  BY <1>2, BlanksOf
<1>7. /\ v \in Wals /\ v.counter = counter /\ v.last = t /\ v.walSize = sz
      /\ v.records = Blanks(len) /\ v.offset = o /\ v.stored = w.stored
  <2>1. o \in Nat /\ sz \in Nat \ {0}
    BY <1>5
  <2> DEFINE b == Blanks(len)
  <2>2. b \in Vectors
    BY <1>6
  <2> HIDE DEF b, n
  <2>3. v = [w EXCEPT !.counter = counter, !.last = t, !.walSize = sz, !.records = b, !.offset = o]
    BY <1>3 DEF b
  <2> HIDE DEF v
  <2>4. /\ v \in Wals /\ v.counter = counter /\ v.last = t /\ v.walSize = sz
        /\ v.records = b /\ v.offset = o /\ v.stored = w.stored
    BY <1>1, <1>4, <2>1, <2>2, <2>3 DEF Wals
  <2> QED BY <2>4 DEF b
<1> HIDE DEF v, n
<1>8. Ring(v, n, len)
  <2>1. len <= sz
    BY <1>1, <1>2
  <2>2. counter = 0 => len = 0
    BY <1>2
  <2> QED BY <1>1, <1>2, <1>5, <1>6, <1>7, <2>1, <2>2 DEF Ring
<1>9. Shaped(v) /\ RingSize(v) = n
  BY <1>2, <1>5, <1>7, <1>8, RingSizeIs DEF Shaped
<1>10. \A c \in Window(v) : At(v, c) = Blank
  <2>1. SUFFICES ASSUME NEW c \in Window(v) PROVE At(v, c) = Blank
    OBVIOUS
  <2>2. c % v.walSize \in DOMAIN v.records
    BY <1>9, SlotOf
  <2> QED BY <1>7, <2>2 DEF At, Blanks
<1> QED BY <1>7, <1>9, <1>10 DEF v, t, counter, n

-----------------------------------------------------------------------------
(* What the log says, against a history h of the LSNs up to its counter    *)

Past == [server : Servers, rec : Records \ {WalEmpty}, items : [Keys -> Lsns]]

\* What the log stores of an LSN: an item update only once it is outdated.
Durable(rec) == IF rec.type = "ItemUpdate" THEN WalEmpty ELSE rec

SlotsTrue(w, h) ==
    \A c \in Window(w) :
        /\ At(w, c).rec \in {h[c + 1].rec, WalEmpty}
        /\ At(w, c).server = h[c + 1].server \/ At(w, c) = Blank

EndTrue(w, h) ==
    w.counter > 0 => /\ w.last = lsn_t(w.counter - 1, h[w.counter].server)
                     /\ At(w, w.counter - 1).server = h[w.counter].server

StoredTrue(w, h) ==
    \A e \in w.stored : /\ e.lsn.counter \in Nat /\ e.lsn.counter < w.counter
                        /\ e.lsn.server = h[e.lsn.counter + 1].server
                        /\ e.rec = Durable(h[e.lsn.counter + 1].rec)

\* The log agrees with the history.
Agrees(w, h) == Shaped(w) /\ SlotsTrue(w, h) /\ EndTrue(w, h) /\ StoredTrue(w, h)

\* The items are what the history says of their LSNs.
ItemsTrue(its, h, n) ==
    /\ its \in [Keys -> Lsns]
    /\ \A k \in Keys : its[k] # NoLsn =>
          /\ its[k].counter \in Nat /\ its[k].counter < n
          /\ h[its[k].counter + 1].rec = WalItemUpdate(k)
          /\ h[its[k].counter + 1].server = its[k].server

\* An update in the ring is the newest one of its item.
Current(w, its) ==
    \A c \in Window(w), k \in Keys : At(w, c).rec = WalItemUpdate(k) => its[k].counter = c

\* The types of the records are told apart.
LEMMA RecordOf ==
    /\ WalEmpty \in Records /\ WalTruncate \in Records
    /\ \A k \in Keys : /\ WalItemUpdate(k) \in Records /\ WalItemDelete(k) \in Records
                       /\ WalItemUpdate(k).type = "ItemUpdate" /\ WalItemUpdate(k).keys = {k}
                       /\ WalItemDelete(k).type # "ItemUpdate" /\ WalItemDelete(k).keys = {k}
                       /\ WalItemUpdate(k) # WalEmpty /\ WalItemDelete(k) # WalEmpty
    /\ WalTruncate.type # "ItemUpdate" /\ WalTruncate # WalEmpty /\ WalTruncate.keys = Keys
    /\ WalEmpty.type # "ItemUpdate" /\ WalEmpty.keys = {}
    /\ \A j, k \in Keys : WalItemUpdate(j) = WalItemUpdate(k) => j = k
    /\ \A r \in Records : r.type = "ItemUpdate" => \E k \in Keys : r = WalItemUpdate(k)
<1>1. WalEmpty \in Records /\ WalTruncate \in Records
  BY DEF Records
<1>2. ASSUME NEW k \in Keys
      PROVE  /\ WalItemUpdate(k) \in Records /\ WalItemDelete(k) \in Records
             /\ WalItemUpdate(k).type = "ItemUpdate" /\ WalItemUpdate(k).keys = {k}
             /\ WalItemDelete(k).type # "ItemUpdate" /\ WalItemDelete(k).keys = {k}
             /\ WalItemUpdate(k) # WalEmpty /\ WalItemDelete(k) # WalEmpty
  <2>1. WalItemUpdate(k) \in Records /\ WalItemDelete(k) \in Records
    BY DEF Records
  <2>2. /\ WalItemUpdate(k).type = "ItemUpdate" /\ WalItemUpdate(k).keys = {k}
        /\ WalItemDelete(k).type # "ItemUpdate" /\ WalItemDelete(k).keys = {k}
    BY DEF WalItemUpdate, WalItemDelete
  <2>3. WalItemUpdate(k).type # WalEmpty.type /\ WalItemDelete(k).type # WalEmpty.type
    BY DEF WalItemUpdate, WalItemDelete, WalEmpty
  <2> QED BY <2>1, <2>2, <2>3
<1>3. WalTruncate.type # "ItemUpdate" /\ WalTruncate.keys = Keys
  BY DEF WalTruncate
<1>4. WalTruncate.type # WalEmpty.type
  BY DEF WalTruncate, WalEmpty
<1>5. WalEmpty.type # "ItemUpdate" /\ WalEmpty.keys = {}
  BY DEF WalEmpty
<1>6. ASSUME NEW j \in Keys, NEW k \in Keys, WalItemUpdate(j) = WalItemUpdate(k) PROVE j = k
  <2>1. WalItemUpdate(j).keys = WalItemUpdate(k).keys
    BY <1>6
  <2>2. {j} = {k}
    BY <1>2, <2>1
  <2> QED BY <2>2
<1>7. ASSUME NEW r \in Records, r.type = "ItemUpdate" PROVE \E k \in Keys : r = WalItemUpdate(k)
  <2>1. r # WalEmpty /\ r # WalTruncate
    BY <1>3, <1>5, <1>7
  <2>2. \A k \in Keys : r # WalItemDelete(k)
    BY <1>2, <1>7
  <2> QED BY <2>1, <2>2 DEF Records
<1>8. WalTruncate # WalEmpty
  BY <1>4
<1> QED BY <1>1, <1>2, <1>3, <1>5, <1>6, <1>7, <1>8

\* The empty LSN is no LSN of a record.
LEMMA NoLsnIs == NoLsn \in Lsns /\ NoLsn.counter = -1
  BY DEF NoLsn, lsn_t, Lsns, Servers

\* The history goes on without changing.
Extends(h, g, n) == \A c \in Nat : c < n => h[c + 1].rec = g[c + 1].rec /\ h[c + 1].server = g[c + 1].server

\* A record of its LSN, or of an empty one, is added.
LEMMA AddedAgrees ==
    ASSUME NEW w, NEW h, NEW g, Agrees(w, h), NEW l \in Lsns, l.counter \in Nat, NEW r \in Records,
           w.counter = 0 \/ l.counter = w.counter,
           Extends(h, g, w.counter), g[l.counter + 1].server = l.server,
           r \in {g[l.counter + 1].rec, WalEmpty}
    PROVE  Agrees(Added(w, l, r), g)
<1> DEFINE v == Added(w, l, r)
<1>1. Shaped(w) /\ w.counter \in Nat /\ w.stored \in SUBSET Entries
  BY WalFields DEF Agrees, Shaped
<1>2. /\ Shaped(v)
      /\ v.counter = l.counter + 1 /\ v.last = l /\ v.stored = w.stored
      /\ l.counter \in Window(v) /\ At(v, l.counter) = [server |-> l.server, rec |-> r]
      /\ \A c \in Window(v) : c # l.counter => c \in Window(w) /\ At(v, c) = At(w, c)
  BY <1>1, AddedToRing
<1> HIDE DEF v
<1>3. SlotsTrue(v, g)
  <2>1. SUFFICES ASSUME NEW c \in Window(v)
                 PROVE  /\ At(v, c).rec \in {g[c + 1].rec, WalEmpty}
                        /\ At(v, c).server = g[c + 1].server \/ At(v, c) = Blank
    BY DEF SlotsTrue
  <2>2. CASE c = l.counter
    BY <1>2, <2>2
  <2>3. CASE c # l.counter
    <3>1. c \in Window(w) /\ At(v, c) = At(w, c)
      BY <1>2, <2>3
    <3>2. /\ At(w, c).rec \in {h[c + 1].rec, WalEmpty}
          /\ At(w, c).server = h[c + 1].server \/ At(w, c) = Blank
      BY <3>1 DEF Agrees, SlotsTrue
    <3>3. c \in Nat /\ c < w.counter
      BY <1>1, <3>1, WindowOf
    <3>4. h[c + 1].rec = g[c + 1].rec /\ h[c + 1].server = g[c + 1].server
      BY <3>3 DEF Extends
    <3> QED BY <3>1, <3>2, <3>4
  <2> QED BY <2>2, <2>3
<1>4. EndTrue(v, g)
  <2>1. v.counter - 1 = l.counter /\ v.counter = l.counter + 1
    BY <1>2
  <2>2. l = lsn_t(l.counter, l.server)
    BY DEF Lsns, lsn_t
  <2>3. At(v, v.counter - 1).server = g[v.counter].server
    BY <1>2, <2>1
  <2>4. v.last = lsn_t(v.counter - 1, g[v.counter].server)
    BY <1>2, <2>1, <2>2
  <2> QED BY <2>3, <2>4 DEF EndTrue
<1>5. StoredTrue(v, g)
  <2>1. SUFFICES ASSUME NEW e \in w.stored
                 PROVE  /\ e.lsn.counter \in Nat /\ e.lsn.counter < v.counter
                        /\ e.lsn.server = g[e.lsn.counter + 1].server
                        /\ e.rec = Durable(g[e.lsn.counter + 1].rec)
    BY <1>2 DEF StoredTrue
  <2>2. /\ e.lsn.counter \in Nat /\ e.lsn.counter < w.counter
        /\ e.lsn.server = h[e.lsn.counter + 1].server
        /\ e.rec = Durable(h[e.lsn.counter + 1].rec)
    BY DEF Agrees, StoredTrue
  <2>3. h[e.lsn.counter + 1].rec = g[e.lsn.counter + 1].rec
        /\ h[e.lsn.counter + 1].server = g[e.lsn.counter + 1].server
    BY <2>2 DEF Extends
  <2>4. e.lsn.counter < v.counter
    BY <1>1, <1>2, <2>2
  <2> QED BY <2>2, <2>3, <2>4
<1> QED BY <1>2, <1>3, <1>4, <1>5 DEF Agrees, v

\* Blanking a slot agrees with any history.
LEMMA PutEmptyAgrees ==
    ASSUME NEW w, NEW h, Agrees(w, h), NEW l \in Lsns, l.counter \in Window(w),
           At(w, l.counter).server = l.server
    PROVE  Agrees(Put(w, l, WalEmpty), h)
<1> DEFINE v == Put(w, l, WalEmpty)
<1>1. Shaped(w)
  BY DEF Agrees
<1>2. /\ Shaped(v) /\ Window(v) = Window(w)
      /\ v.counter = w.counter /\ v.last = w.last /\ v.stored = w.stored
      /\ At(v, l.counter) = [server |-> l.server, rec |-> WalEmpty]
      /\ \A c \in Window(w) : c # l.counter => At(v, c) = At(w, c)
  BY <1>1, PutInRing, RecordOf
<1> HIDE DEF v
<1>3. \A c \in Window(w) : At(v, c).server = At(w, c).server
                           /\ (At(v, c).rec = WalEmpty \/ At(v, c) = At(w, c))
  BY <1>2
<1>4. SlotsTrue(v, h)
  <2>1. SUFFICES ASSUME NEW c \in Window(w)
                 PROVE  /\ At(v, c).rec \in {h[c + 1].rec, WalEmpty}
                        /\ At(v, c).server = h[c + 1].server \/ At(v, c) = Blank
    BY <1>2 DEF SlotsTrue
  <2>2. /\ At(w, c).rec \in {h[c + 1].rec, WalEmpty}
        /\ At(w, c).server = h[c + 1].server \/ At(w, c) = Blank
    BY DEF Agrees, SlotsTrue
  <2>3. At(v, c) \in Slots
    BY <1>2, SlotOf
  <2>4. CASE At(v, c) = At(w, c)
    BY <2>2, <2>4
  <2>5. CASE At(v, c).rec = WalEmpty
    <3>1. At(w, c) = Blank => At(v, c) = Blank
      <4>1. ASSUME At(w, c) = Blank PROVE At(v, c) = Blank
        <5>1. At(v, c).server = Local
          BY <1>3, <4>1 DEF Blank
        <5> QED BY <2>3, <2>5, <5>1 DEF Slots, Blank
      <4> QED BY <4>1
    <3> QED BY <1>3, <2>2, <2>5, <3>1
  <2> QED BY <1>3, <2>4, <2>5
<1>5. EndTrue(v, h)
  <2>1. SUFFICES ASSUME w.counter > 0
                 PROVE  /\ w.last = lsn_t(w.counter - 1, h[w.counter].server)
                        /\ At(v, w.counter - 1).server = h[w.counter].server
    BY <1>2 DEF EndTrue
  <2>2. w.counter - 1 \in Window(w)
    BY <1>1, <2>1, WindowOf
  <2> QED BY <1>3, <2>1, <2>2 DEF Agrees, EndTrue
<1>6. StoredTrue(v, h)
  BY <1>2 DEF Agrees, StoredTrue
<1> QED BY <1>2, <1>4, <1>5, <1>6 DEF Agrees, v

\* A durable record may be stored.
LEMMA WritingAgrees ==
    ASSUME NEW w, NEW h, Agrees(w, h), NEW l \in Lsns, l.counter \in Window(w),
           l.server = h[l.counter + 1].server, At(w, l.counter).rec = Durable(h[l.counter + 1].rec)
    PROVE  Agrees(WriteToStorage(w, l), h)
<1> DEFINE v == WriteToStorage(w, l)
<1>1. Shaped(w)
  BY DEF Agrees
<1>2. /\ Shaped(v) /\ Window(v) = Window(w)
      /\ v.counter = w.counter /\ v.last = w.last
      /\ \A c : At(v, c) = At(w, c)
      /\ v.stored = Stored(w, l)
  BY <1>1, Writing
<1> HIDE DEF v
<1>3. SlotsTrue(v, h) /\ EndTrue(v, h)
  BY <1>2 DEF Agrees, SlotsTrue, EndTrue
<1>4. StoredTrue(v, h)
  <2>1. SUFFICES ASSUME NEW e \in Stored(w, l)
                 PROVE  /\ e.lsn.counter \in Nat /\ e.lsn.counter < w.counter
                        /\ e.lsn.server = h[e.lsn.counter + 1].server
                        /\ e.rec = Durable(h[e.lsn.counter + 1].rec)
    BY <1>2 DEF StoredTrue
  <2>2. CASE e \in w.stored
    BY <2>2 DEF Agrees, StoredTrue
  <2>3. CASE e = [pos |-> l.counter % w.walSize, lsn |-> l, rec |-> At(w, l.counter).rec]
    <3>1. e.lsn = l /\ e.rec = At(w, l.counter).rec
      BY <2>3
    <3>2. l.counter \in Nat /\ l.counter < w.counter
      BY <1>1, WindowOf
    <3> QED BY <3>1, <3>2
  <2> QED BY <2>2, <2>3 DEF Stored
<1> QED BY <1>2, <1>3, <1>4 DEF Agrees, v

\* The older record of an item, if the ring still has it.
LEMMA OutlivedIs ==
    ASSUME NEW w, Shaped(w), NEW old \in Lsns, old # NoLsn => old.counter \in Nat
    PROVE  Outlived(w, old) <=> /\ old # NoLsn /\ old.counter \in Window(w)
                                /\ At(w, old.counter).server = old.server
  BY AvailableIs DEF Outlived

\* What add() does to the older record of an item.
LEMMA BlankingOld ==
    ASSUME NEW w, Shaped(w), NEW old \in Lsns, old # NoLsn => old.counter \in Nat
    PROVE  /\ Shaped(BlankOld(w, old)) /\ Window(BlankOld(w, old)) = Window(w)
           /\ BlankOld(w, old).counter = w.counter /\ BlankOld(w, old).last = w.last
           /\ BlankOld(w, old).walSize = w.walSize
           /\ \A c \in Window(w) :
                IF Outlived(w, old) /\ c = old.counter
                THEN At(BlankOld(w, old), c) = [server |-> old.server, rec |-> WalEmpty]
                ELSE At(BlankOld(w, old), c) = At(w, c)
           /\ \/ BlankOld(w, old).stored = w.stored
              \/ Outlived(w, old) /\ BlankOld(w, old).stored = Stored(Put(w, old, WalEmpty), old)
<1>1. CASE ~ Outlived(w, old)
  BY <1>1 DEF BlankOld
<1>2. CASE Outlived(w, old)
  <2> DEFINE p == Put(w, old, WalEmpty)
             v == BlankOld(w, old)
  <2>1. old.counter \in Window(w)
    BY <1>2, OutlivedIs
  <2>2. /\ Shaped(p) /\ Window(p) = Window(w)
        /\ p.counter = w.counter /\ p.last = w.last /\ p.walSize = w.walSize /\ p.stored = w.stored
        /\ At(p, old.counter) = [server |-> old.server, rec |-> WalEmpty]
        /\ \A c \in Window(w) : c # old.counter => At(p, c) = At(w, c)
    BY <2>1, PutInRing, RecordOf
  <2>3. v = IF old.server = Local THEN p ELSE WriteToStorage(p, old)
    BY <1>2, Zenon DEF BlankOld
  <2> HIDE DEF p
  <2>4. /\ Shaped(WriteToStorage(p, old)) /\ Window(WriteToStorage(p, old)) = Window(p)
        /\ WriteToStorage(p, old).counter = p.counter /\ WriteToStorage(p, old).last = p.last
        /\ WriteToStorage(p, old).walSize = p.walSize
        /\ \A c : At(WriteToStorage(p, old), c) = At(p, c)
        /\ WriteToStorage(p, old).stored = Stored(p, old)
    BY <2>1, <2>2, Writing
  <2> HIDE DEF v
  <2>5. /\ Shaped(v) /\ Window(v) = Window(w) /\ v.counter = w.counter /\ v.last = w.last
        /\ v.walSize = w.walSize
        /\ \A c : At(v, c) = At(p, c)
        /\ v.stored = w.stored \/ v.stored = Stored(p, old)
    <3>1. CASE old.server = Local
      BY <2>2, <2>3, <3>1
    <3>2. CASE old.server # Local
      BY <2>2, <2>3, <2>4, <3>2
    <3> QED BY <3>1, <3>2
  <2> QED BY <1>2, <2>2, <2>5 DEF p, v
<1> QED BY <1>1, <1>2

\* The older record of an item may be blanked, and stored so.
LEMMA BlankAgrees ==
    ASSUME NEW w, NEW h, Agrees(w, h), NEW old \in Lsns, old # NoLsn => old.counter \in Nat,
           old # NoLsn => /\ h[old.counter + 1].rec.type = "ItemUpdate"
                          /\ h[old.counter + 1].server = old.server
    PROVE  Agrees(BlankOld(w, old), h)
<1> DEFINE p == Put(w, old, WalEmpty)
<1>1. CASE ~ Outlived(w, old)
  BY <1>1 DEF BlankOld
<1>2. CASE Outlived(w, old)
  <2>1. Shaped(w)
    BY DEF Agrees
  <2>2. old # NoLsn /\ old.counter \in Window(w) /\ At(w, old.counter).server = old.server
    BY <1>2, <2>1, OutlivedIs
  <2>3. Agrees(p, h)
    BY <2>2, PutEmptyAgrees
  <2>4. Window(p) = Window(w) /\ At(p, old.counter).rec = WalEmpty
    <3>1. At(p, old.counter) = [server |-> old.server, rec |-> WalEmpty] /\ Window(p) = Window(w)
      BY <2>1, <2>2, PutInRing, RecordOf
    <3> QED BY <3>1
  <2>5. WalEmpty = Durable(h[old.counter + 1].rec)
    BY <2>2 DEF Durable
  <2> HIDE DEF p
  <2>6. Agrees(WriteToStorage(p, old), h)
    BY <2>2, <2>3, <2>4, <2>5, WritingAgrees
  <2> QED BY <1>2, <2>3, <2>6, Zenon DEF BlankOld, p
<1> QED BY <1>1, <1>2

\* Add with the LSN that it takes.
AddAt(w, rec, l, old) ==
    IF ToStorage(rec) THEN WriteToStorage(BlankOld(Added(w, l, rec), old), l)
    ELSE BlankOld(Added(w, l, rec), old)

\* A local record takes the next LSN, a replicated one its own.
LEMMA AddIs ==
    ASSUME NEW w, NEW rec, NEW old, NEW o, NEW l,
           (o = NoLsn /\ l = lsn_t(w.counter, Local)) \/ (o = l /\ l # NoLsn)
    PROVE  Add(w, rec, o, old) = AddAt(w, rec, l, old)
<1>1. l = IF o = NoLsn THEN lsn_t(w.counter, Local) ELSE o
  BY Zenon
<1> QED BY <1>1, Zenon DEF Add, AddAt, Added

\* An entry that is no longer stored gave way to one for l.
Replaced(S, T, s, l) ==
    \A e \in S : e \in T \/ (e.pos = l.counter % s /\ \E x \in T : x.pos = e.pos /\ x.lsn = l)

\* An entry of the storage gives way to one of its position only.
LEMMA StoredReplaces ==
    ASSUME NEW w, NEW l, w.stored \in SUBSET Entries
    PROVE  /\ Replaced(w.stored, Stored(w, l), w.walSize, l)
           /\ \E x \in Stored(w, l) : x.pos = l.counter % w.walSize /\ x.lsn = l
<1> DEFINE y == [pos |-> l.counter % w.walSize, lsn |-> l, rec |-> At(w, l.counter).rec]
<1>1. y \in Stored(w, l) /\ y.pos = l.counter % w.walSize /\ y.lsn = l
  BY DEF Stored
<1>2. \A e \in w.stored : e.pos # l.counter % w.walSize => e \in Stored(w, l)
  BY DEF Stored
<1> HIDE DEF y
<1> QED BY <1>1, <1>2 DEF Replaced

\* What add() leaves: the new LSN, and the other LSNs of the ring as they
\* were, but for the older record of the item.
LEMMA Adding ==
    ASSUME NEW w, Shaped(w), NEW rec \in Records, NEW l \in Lsns, l.counter \in Nat,
           w.counter = 0 \/ l.counter = w.counter,
           NEW old \in Lsns, old # NoLsn => old.counter \in Nat /\ old.counter < l.counter
    PROVE  /\ Shaped(AddAt(w, rec, l, old)) /\ AddAt(w, rec, l, old).counter = l.counter + 1
           /\ AddAt(w, rec, l, old).walSize = w.walSize
           /\ l.counter \in Window(AddAt(w, rec, l, old))
           /\ At(AddAt(w, rec, l, old), l.counter).rec = rec
           /\ \A c \in Window(AddAt(w, rec, l, old)) : c # l.counter =>
                /\ c \in Window(w)
                /\ IF old # NoLsn /\ c = old.counter /\ At(w, c).server = old.server
                   THEN At(AddAt(w, rec, l, old), c).rec = WalEmpty
                   ELSE At(AddAt(w, rec, l, old), c) = At(w, c)
<1> DEFINE a == Added(w, l, rec)
           b == BlankOld(a, old)
           v == AddAt(w, rec, l, old)
<1>1. /\ Shaped(a) /\ a.counter = l.counter + 1 /\ a.walSize = w.walSize /\ a.stored = w.stored
      /\ l.counter \in Window(a) /\ At(a, l.counter) = [server |-> l.server, rec |-> rec]
      /\ \A c \in Window(a) : c # l.counter => c \in Window(w) /\ At(a, c) = At(w, c)
  BY AddedToRing
<1>2. v = IF ToStorage(rec) THEN WriteToStorage(b, l) ELSE b
  BY Zenon DEF AddAt
<1> HIDE DEF a
<1>3. /\ Shaped(b) /\ Window(b) = Window(a) /\ b.counter = a.counter /\ b.walSize = a.walSize
      /\ \A c \in Window(a) :
            IF Outlived(a, old) /\ c = old.counter
            THEN At(b, c) = [server |-> old.server, rec |-> WalEmpty] ELSE At(b, c) = At(a, c)
  BY <1>1, BlankingOld
<1> HIDE DEF b
<1>4. /\ Shaped(WriteToStorage(b, l)) /\ Window(WriteToStorage(b, l)) = Window(b)
      /\ WriteToStorage(b, l).counter = b.counter /\ WriteToStorage(b, l).walSize = b.walSize
      /\ \A c : At(WriteToStorage(b, l), c) = At(b, c)
  BY <1>1, <1>3, Writing
<1> HIDE DEF v
<1>5. /\ Shaped(v) /\ Window(v) = Window(a) /\ v.counter = l.counter + 1 /\ v.walSize = w.walSize
      /\ \A c : At(v, c) = At(b, c)
  <2>1. CASE ToStorage(rec)
    BY <1>1, <1>2, <1>3, <1>4, <2>1
  <2>2. CASE ~ ToStorage(rec)
    BY <1>1, <1>2, <1>3, <2>2
  <2> QED BY <2>1, <2>2
<1>6. Outlived(a, old) <=> /\ old # NoLsn /\ old.counter \in Window(a)
                           /\ At(a, old.counter).server = old.server
  BY <1>1, OutlivedIs
<1>7. At(v, l.counter).rec = rec
  <2>1. old # NoLsn => old.counter # l.counter
    OBVIOUS
  <2>2. At(b, l.counter) = At(a, l.counter)
    BY <1>1, <1>3, <1>6, <2>1
  <2> QED BY <1>1, <1>5, <2>2
<1>8. ASSUME NEW c \in Window(v), c # l.counter
      PROVE  /\ c \in Window(w)
             /\ IF old # NoLsn /\ c = old.counter /\ At(w, c).server = old.server
                THEN At(v, c).rec = WalEmpty ELSE At(v, c) = At(w, c)
  <2>1. c \in Window(a) /\ c \in Window(w) /\ At(a, c) = At(w, c) /\ At(v, c) = At(b, c)
    BY <1>1, <1>5, <1>8
  <2>2. CASE old # NoLsn /\ c = old.counter /\ At(w, c).server = old.server
    <3>1. Outlived(a, old)
      BY <1>6, <2>1, <2>2
    <3>2. At(b, c) = [server |-> old.server, rec |-> WalEmpty]
      BY <1>3, <2>1, <2>2, <3>1
    <3> QED BY <2>1, <2>2, <3>2
  <2>3. CASE ~ (old # NoLsn /\ c = old.counter /\ At(w, c).server = old.server)
    <3>1. ~ (Outlived(a, old) /\ c = old.counter)
      BY <1>6, <2>1, <2>3
    <3>2. At(b, c) = At(a, c)
      BY <1>3, <2>1, <3>1
    <3> QED BY <2>1, <2>3, <3>2
  <2> QED BY <2>2, <2>3
<1> QED BY <1>1, <1>5, <1>7, <1>8 DEF v

\* What add() leaves of the stored log: an entry gives way to the new record
\* of its position, or to the blank one of the item's older record.
LEMMA AddingStored ==
    ASSUME NEW w, Shaped(w), NEW rec \in Records, NEW l \in Lsns, l.counter \in Nat,
           w.counter = 0 \/ l.counter = w.counter,
           NEW old \in Lsns, old # NoLsn => old.counter \in Nat /\ old.counter < l.counter
    PROVE  /\ \A e \in w.stored :
                 \/ e \in AddAt(w, rec, l, old).stored
                 \/ \E x \in AddAt(w, rec, l, old).stored :
                       /\ x.pos = e.pos
                       /\ \/ x.lsn = l /\ e.pos = l.counter % w.walSize
                          \/ /\ old # NoLsn /\ old.counter \in Window(AddAt(w, rec, l, old))
                             /\ x.lsn = old /\ e.pos = old.counter % w.walSize
           /\ ToStorage(rec) => \E x \in AddAt(w, rec, l, old).stored :
                                   x.lsn = l /\ x.pos = l.counter % w.walSize
<1> DEFINE a == Added(w, l, rec)
           b == BlankOld(a, old)
           v == AddAt(w, rec, l, old)
           s == w.walSize
<1>1. /\ Shaped(a) /\ a.walSize = s /\ a.stored = w.stored /\ l.counter \in Window(a)
  BY AddedToRing
<1>2. v = IF ToStorage(rec) THEN WriteToStorage(b, l) ELSE b
  BY Zenon DEF AddAt
<1> HIDE DEF a
<1> DEFINE p == Put(a, old, WalEmpty)
<1>3. /\ Shaped(b) /\ Window(b) = Window(a) /\ b.walSize = s
      /\ b.stored = a.stored \/ (Outlived(a, old) /\ b.stored = Stored(p, old))
  BY <1>1, BlankingOld
<1>4. Outlived(a, old) => /\ old # NoLsn /\ old.counter \in Window(a)
                          /\ p.stored = a.stored /\ p.walSize = s /\ Shaped(p)
  <2>1. Outlived(a, old) => old # NoLsn /\ old.counter \in Window(a)
    BY <1>1, OutlivedIs
  <2>2. Outlived(a, old) => p.stored = a.stored /\ p.walSize = a.walSize /\ Shaped(p)
    <3>1. WalEmpty \in Records
      BY RecordOf
    <3> QED BY <1>1, <2>1, <3>1, PutInRing
  <2> QED BY <1>1, <2>1, <2>2
<1> HIDE DEF b, p
<1>5. /\ Window(WriteToStorage(b, l)) = Window(b) /\ WriteToStorage(b, l).stored = Stored(b, l)
  BY <1>1, <1>3, Writing
<1>6. b.stored \in SUBSET Entries
  BY <1>3, WalFields DEF Shaped
<1> HIDE DEF v
<1>7. Window(v) = Window(a) /\ (IF ToStorage(rec) THEN v.stored = Stored(b, l) ELSE v.stored = b.stored)
  BY <1>2, <1>3, <1>5
<1>8. /\ Replaced(b.stored, Stored(b, l), s, l)
      /\ \E x \in Stored(b, l) : x.pos = l.counter % s /\ x.lsn = l
  BY <1>3, <1>6, StoredReplaces
<1>9. \/ b.stored = w.stored
      \/ /\ old # NoLsn /\ old.counter \in Window(v)
         /\ Replaced(w.stored, b.stored, s, old)
  <2>1. CASE b.stored = a.stored
    BY <1>1, <2>1
  <2>2. CASE Outlived(a, old) /\ b.stored = Stored(p, old)
    <3>1. p.stored = w.stored /\ p.walSize = s /\ p.stored \in SUBSET Entries
      BY <1>1, <1>4, <2>2, WalFields DEF Shaped
    <3>2. Replaced(p.stored, Stored(p, old), p.walSize, old)
      BY <3>1, StoredReplaces
    <3> QED BY <1>4, <1>7, <2>2, <3>1, <3>2
  <2> QED BY <1>3, <2>1, <2>2
<1>10. ASSUME NEW e \in w.stored
       PROVE  \/ e \in b.stored
              \/ \E x \in b.stored : /\ x.pos = e.pos /\ old # NoLsn /\ old.counter \in Window(v)
                                     /\ x.lsn = old /\ e.pos = old.counter % s
  BY <1>9 DEF Replaced
<1>11. ASSUME NEW e \in b.stored
       PROVE  \/ e \in v.stored
              \/ \E x \in v.stored : x.pos = e.pos /\ x.lsn = l /\ e.pos = l.counter % s
  <2>1. CASE ToStorage(rec)
    BY <1>7, <1>8, <2>1 DEF Replaced
  <2>2. CASE ~ ToStorage(rec)
    BY <1>7, <2>2
  <2> QED BY <2>1, <2>2
<1>12. ASSUME NEW e \in w.stored
       PROVE  \/ e \in v.stored
              \/ \E x \in v.stored : /\ x.pos = e.pos
                                     /\ \/ x.lsn = l /\ e.pos = l.counter % s
                                        \/ /\ old # NoLsn /\ old.counter \in Window(v)
                                           /\ x.lsn = old /\ e.pos = old.counter % s
  <2>1. CASE e \in b.stored
    BY <1>11, <2>1
  <2>2. CASE e \notin b.stored
    <3>1. PICK y \in b.stored : /\ y.pos = e.pos /\ old # NoLsn /\ old.counter \in Window(v)
                                /\ y.lsn = old /\ e.pos = old.counter % s
      BY <1>10, <2>2
    <3>2. \/ y \in v.stored
          \/ \E x \in v.stored : x.pos = y.pos /\ x.lsn = l /\ y.pos = l.counter % s
      BY <1>11
    <3> QED BY <3>1, <3>2
  <2> QED BY <2>1, <2>2
<1>13. ToStorage(rec) => \E x \in v.stored : x.lsn = l /\ x.pos = l.counter % s
  BY <1>7, <1>8
<1> QED BY <1>12, <1>13 DEF v, s

\* add() agrees with the history that the new LSN extends.
LEMMA AddAgrees ==
    ASSUME NEW w, NEW h, NEW g, Agrees(w, h), NEW rec \in Records,
           NEW l \in Lsns, l.counter \in Nat, w.counter = 0 \/ l.counter = w.counter,
           Extends(h, g, w.counter), g[l.counter + 1].server = l.server,
           rec \in {g[l.counter + 1].rec, WalEmpty},
           ToStorage(rec) => rec = Durable(g[l.counter + 1].rec),
           NEW old \in Lsns, old # NoLsn => old.counter \in Nat /\ old.counter < l.counter,
           old # NoLsn => /\ g[old.counter + 1].rec.type = "ItemUpdate"
                          /\ g[old.counter + 1].server = old.server
    PROVE  Agrees(AddAt(w, rec, l, old), g)
<1> DEFINE a == Added(w, l, rec)
           b == BlankOld(a, old)
<1>1. Agrees(a, g)
  BY AddedAgrees
<1>2. /\ Shaped(a) /\ l.counter \in Window(a) /\ At(a, l.counter) = [server |-> l.server, rec |-> rec]
  BY AddedToRing DEF Agrees
<1> HIDE DEF a
<1>3. Agrees(b, g)
  BY <1>1, BlankAgrees
<1>4. Window(b) = Window(a) /\ At(b, l.counter) = At(a, l.counter)
  <2>1. ~ (Outlived(a, old) /\ l.counter = old.counter)
    BY <1>2, OutlivedIs
  <2> QED BY <1>2, <2>1, BlankingOld
<1> HIDE DEF b
<1>5. ToStorage(rec) => Agrees(WriteToStorage(b, l), g)
  <2>1. At(b, l.counter).rec = rec
    BY <1>2, <1>4
  <2> QED BY <1>2, <1>3, <1>4, <2>1, WritingAgrees
<1> QED BY <1>3, <1>5, Zenon DEF AddAt, a, b

\* The records of items that go are blanked.
LEMMA SettingEmpty ==
    ASSUME NEW w, NEW h, Agrees(w, h), NEW batch,
           \A b \in batch : b.lsn \in Lsns /\ b.lsn.counter \in Nat /\ b.rec = WalEmpty
    PROVE  /\ Agrees(SetRecords(w, batch, FALSE), h)
           /\ Window(SetRecords(w, batch, FALSE)) = Window(w)
           /\ SetRecords(w, batch, FALSE).counter = w.counter
           /\ SetRecords(w, batch, FALSE).walSize = w.walSize
           /\ SetRecords(w, batch, FALSE).stored = w.stored
           /\ \A c \in Window(w) :
                /\ At(SetRecords(w, batch, FALSE), c).server = At(w, c).server
                /\ IF \E b \in batch : b.lsn.counter = c /\ At(w, c).server = b.lsn.server
                   THEN At(SetRecords(w, batch, FALSE), c).rec = WalEmpty
                   ELSE At(SetRecords(w, batch, FALSE), c) = At(w, c)
<1> DEFINE v == SetRecords(w, batch, FALSE)
           T == Taken(w, batch, FALSE)
<1>1. Shaped(w) /\ \A b \in batch : b.lsn \in Lsns /\ b.lsn.counter \in Nat /\ b.rec \in Records
  BY RecordOf DEF Agrees
<1>2. /\ Shaped(v) /\ Window(v) = Window(w) /\ v.counter = w.counter /\ v.walSize = w.walSize
      /\ v.stored = w.stored /\ v.last = NewLast(w, T)
      /\ \A c \in Window(w) :
            IF \E b \in T : b.lsn.counter = c
            THEN \E b \in T : /\ b.lsn.counter = c
                              /\ At(v, c) = [server |-> b.lsn.server, rec |-> b.rec]
            ELSE At(v, c) = At(w, c)
  <2>1. IsSet(v, w, T)
    BY <1>1, Setting, Zenon
  <2> HIDE DEF v, T
  <2> QED BY <2>1 DEF IsSet
<1>3. \A b : b \in T <=> /\ b \in batch /\ b.lsn.counter \in Window(w)
                         /\ FALSE \/ At(w, b.lsn.counter).server = b.lsn.server
  BY <1>1, TakenOf
<1> HIDE DEF T, v
<1>4. ASSUME NEW c \in Window(w)
      PROVE  /\ At(v, c).server = At(w, c).server
             /\ IF \E b \in batch : b.lsn.counter = c /\ At(w, c).server = b.lsn.server
                THEN At(v, c).rec = WalEmpty ELSE At(v, c) = At(w, c)
  <2>1. (\E b \in T : b.lsn.counter = c)
           <=> \E b \in batch : b.lsn.counter = c /\ At(w, c).server = b.lsn.server
    BY <1>3
  <2>2. CASE \E b \in T : b.lsn.counter = c
    <3>1. PICK b \in T : /\ b.lsn.counter = c
                         /\ At(v, c) = [server |-> b.lsn.server, rec |-> b.rec]
      BY <1>2, <2>2
    <3>2. b \in batch /\ At(w, c).server = b.lsn.server /\ b.rec = WalEmpty
      BY <1>3, <3>1
    <3> QED BY <2>1, <2>2, <3>1, <3>2
  <2>3. CASE ~ \E b \in T : b.lsn.counter = c
    BY <1>2, <2>1, <2>3
  <2> QED BY <2>2, <2>3
<1>5. SlotsTrue(v, h)
  <2>1. SUFFICES ASSUME NEW c \in Window(w)
                 PROVE  /\ At(v, c).rec \in {h[c + 1].rec, WalEmpty}
                        /\ At(v, c).server = h[c + 1].server \/ At(v, c) = Blank
    BY <1>2 DEF SlotsTrue
  <2>2. /\ At(w, c).rec \in {h[c + 1].rec, WalEmpty}
        /\ At(w, c).server = h[c + 1].server \/ At(w, c) = Blank
    BY DEF Agrees, SlotsTrue
  <2>3. At(v, c) \in Slots /\ At(v, c).server = At(w, c).server
    BY <1>2, <1>4, SlotOf
  <2>4. CASE At(v, c) = At(w, c)
    BY <2>2, <2>4
  <2>5. CASE At(v, c).rec = WalEmpty
    <3>1. ASSUME At(w, c) = Blank PROVE At(v, c) = Blank
      <4>1. At(v, c).server = Local
        BY <2>3, <3>1 DEF Blank
      <4> QED BY <2>3, <2>5, <4>1 DEF Slots, Blank
    <3> QED BY <2>2, <2>3, <2>5, <3>1
  <2> QED BY <1>4, <2>4, <2>5
<1>6. EndTrue(v, h)
  <2>1. SUFFICES ASSUME w.counter > 0
                 PROVE  /\ v.last = lsn_t(w.counter - 1, h[w.counter].server)
                        /\ At(v, w.counter - 1).server = h[w.counter].server
    BY <1>2 DEF EndTrue
  <2>2. w.counter - 1 \in Window(w)
    BY <1>1, <2>1, WindowOf
  <2>3. /\ w.last = lsn_t(w.counter - 1, h[w.counter].server)
        /\ At(w, w.counter - 1).server = h[w.counter].server
    BY <2>1 DEF Agrees, EndTrue
  <2>4. w.last.counter = w.counter - 1
    BY <2>3 DEF lsn_t
  <2>5. \A b \in T : b.lsn.counter = w.last.counter => b.lsn = w.last
    <3>1. SUFFICES ASSUME NEW b \in T, b.lsn.counter = w.last.counter PROVE b.lsn = w.last
      OBVIOUS
    <3>2. b.lsn \in Lsns /\ b.lsn.server = h[w.counter].server
      BY <1>1, <1>3, <2>3, <2>4, <3>1
    <3> QED BY <2>3, <2>4, <3>1, <3>2 DEF Lsns, lsn_t
  <2>6. NewLast(w, T) = w.last
    BY <2>5, Zenon DEF NewLast
  <2> QED BY <1>2, <1>4, <2>2, <2>3, <2>6
<1>7. StoredTrue(v, h)
  BY <1>2 DEF Agrees, StoredTrue
<1> QED BY <1>2, <1>4, <1>5, <1>6, <1>7 DEF Agrees, v

\* The bounds of what Resize moves.
Filled(w, sz) == Min({sz, RingSize(w)})
Moved(w, sz) == (w.counter - Filled(w, sz)) .. (w.counter - 1)
Copies(w, sz) == {[lsn |-> lsn_t(c, At(w, c).server), rec |-> At(w, c).rec] : c \in Moved(w, sz)}

\* Resize moves as many of the newest LSNs as both capacities allow.
LEMMA ResizedIs ==
    ASSUME NEW w, Shaped(w), NEW sz \in Nat, sz > 0, w.counter > 0
    PROVE  /\ ResizeTo(w, sz) = SetRecords(InitPositions(w, sz, w.counter - Filled(w, sz), w.counter - 1),
                                           Copies(w, sz), TRUE)
           /\ Filled(w, sz) \in Nat /\ Filled(w, sz) >= 1 /\ Filled(w, sz) <= sz
           /\ Filled(w, sz) <= RingSize(w)
<1> DEFINE n == RingSize(w)
           m == Filled(w, sz)
           k == w.counter
<1>1. k \in Nat /\ n \in Nat /\ n <= k
  BY WalFields, WindowOf DEF Shaped
<1>2. n >= 1
  <2>1. k - 1 \in Window(w)
    BY WindowOf
  <2> QED BY <1>1, <2>1, WindowOf
<1>3. m = IF sz <= n THEN sz ELSE n
  BY <1>1, MinOfTwo DEF Filled
<1>4. m \in Nat /\ m >= 1 /\ m <= sz /\ m <= n
  <2> HIDE DEF m, n
  <2> QED BY <1>1, <1>2, <1>3
<1>5. k - 1 - (m - 1) = k - m
  <2> HIDE DEF m, k
  <2> QED BY <1>1, <1>4
<1>6. n # 0
  BY <1>1, <1>2
<1>7. ResizeTo(w, sz) =
        LET slot(c) == w.records[c % w.walSize] IN
        SetRecords(InitPositions(w, sz, k - 1 - (m - 1), k - 1),
                   {[lsn |-> lsn_t(c, slot(c).server), rec |-> slot(c).rec] :
                       c \in (k - 1 - (m - 1)) .. (k - 1)}, TRUE)
  BY <1>6, Zenon DEF ResizeTo, Filled
<1> DEFINE i == InitPositions(w, sz, k - m, k - 1)
<1>8. ResizeTo(w, sz) =
        SetRecords(i, {[lsn |-> lsn_t(c, w.records[c % w.walSize].server),
                        rec |-> w.records[c % w.walSize].rec] : c \in (k - m) .. (k - 1)}, TRUE)
  BY <1>5, <1>7, Zenon
<1>9. Copies(w, sz) = {[lsn |-> lsn_t(c, w.records[c % w.walSize].server),
                        rec |-> w.records[c % w.walSize].rec] : c \in (k - m) .. (k - 1)}
  BY Zenon DEF Copies, Moved, At
<1> QED BY <1>4, <1>8, <1>9

\* Resize keeps the newest LSNs that fit, with their slots.
LEMMA Resizing ==
    ASSUME NEW w, NEW h, Agrees(w, h), NEW sz \in Nat, sz > 0
    PROVE  /\ Agrees(ResizeTo(w, sz), h)
           /\ ResizeTo(w, sz).counter = w.counter /\ ResizeTo(w, sz).walSize = sz
           /\ ResizeTo(w, sz).stored = w.stored
           /\ Window(ResizeTo(w, sz)) \subseteq Window(w)
           /\ \A c \in Window(ResizeTo(w, sz)) : At(ResizeTo(w, sz), c) = At(w, c)
<1> DEFINE v == ResizeTo(w, sz)
<1>1. Shaped(w) /\ w \in Wals /\ w.counter \in Nat /\ w.last \in Lsns
  BY WalFields DEF Agrees, Shaped
<1>2. CASE w.counter = 0
  <2> DEFINE i == InitPositions(w, sz, -1, -1)
             B == {[lsn |-> lsn_t(c, w.records[c % w.walSize].server),
                    rec |-> w.records[c % w.walSize].rec] : c \in {}}
  <2>1. RingSize(w) = 0
    BY <1>2 DEF RingSize
  <2>2. v = SetRecords(i, B, TRUE)
    BY <2>1, Zenon DEF ResizeTo
  <2>3. B = {}
    OBVIOUS
  <2>4. /\ Shaped(i) /\ i.counter = -1 + 1 /\ i.walSize = sz /\ i.stored = w.stored
    BY <1>1, Initialized
  <2> HIDE DEF i, B
  <2> DEFINE T == Taken(i, B, TRUE)
  <2> HIDE DEF v
  <2>5. IsSet(v, i, T)
    BY <2>2, <2>3, <2>4, Setting, Zenon
  <2> HIDE DEF T
  <2>6. Shaped(v) /\ v.counter = 0 /\ v.walSize = sz /\ v.stored = w.stored
    BY <2>4, <2>5 DEF IsSet
  <2>7. Window(v) = {}
    BY <2>6, WindowOf
  <2>8. SlotsTrue(v, h) /\ EndTrue(v, h)
    BY <2>6, <2>7 DEF SlotsTrue, EndTrue
  <2>9. StoredTrue(v, h)
    BY <1>2, <2>6 DEF Agrees, StoredTrue
  <2> QED BY <1>2, <2>6, <2>7, <2>8, <2>9 DEF Agrees, v
<1>3. CASE w.counter > 0
  <2> DEFINE m == Filled(w, sz)
             k == w.counter
             i == InitPositions(w, sz, k - m, k - 1)
             B == Copies(w, sz)
             T == Taken(i, B, TRUE)
  <2>1. v = SetRecords(i, B, TRUE) /\ m \in Nat /\ m >= 1 /\ m <= sz /\ m <= RingSize(w)
    BY <1>1, <1>3, ResizedIs
  <2>2. RingSize(w) \in Nat /\ RingSize(w) <= k
    BY <1>1, WindowOf
  <2>3. /\ k - m \in Int /\ k - 1 \in Int /\ k - 1 >= -1 /\ 0 <= k - m /\ k - m <= k - 1
        /\ k - 1 + 1 = k
    BY <1>1, <1>3, <2>1, <2>2
  <2> HIDE DEF v, m
  <2>4. /\ Shaped(i) /\ i.counter = k /\ i.last = lsn_t(k - 1, Local) /\ i.walSize = sz
        /\ i.stored = w.stored /\ RingSize(i) = InitSize(sz, k - m, k)
    BY <1>1, <2>3, Initialized
  <2>5. RingSize(i) = m
    BY <1>1, <1>3, <2>1, <2>3, <2>4 DEF InitSize
  <2> HIDE DEF i
  <2>6. \A c : c \in Window(i) <=> c \in Moved(w, sz)
    <3>1. \A c : c \in Window(i) <=> c \in Nat /\ c < k /\ k - c <= m
      BY <2>4, <2>5, WindowOf
    <3>2. \A c : c \in Moved(w, sz) <=> c \in Int /\ k - m <= c /\ c <= k - 1
      BY <1>1, <2>1 DEF Moved, m
    <3> QED BY <1>1, <2>1, <2>3, <3>1, <3>2
  <2>7. Window(i) \subseteq Window(w)
    <3>1. \A c : c \in Window(i) <=> c \in Nat /\ c < k /\ k - c <= m
      BY <2>4, <2>5, WindowOf
    <3>2. \A c : c \in Window(w) <=> c \in Nat /\ c < k /\ k - c <= RingSize(w)
      BY <1>1, WindowOf
    <3> QED BY <1>1, <2>1, <2>2, <3>1, <3>2
  <2>8. \A b : b \in B <=> \E c \in Window(i) : b = [lsn |-> lsn_t(c, At(w, c).server),
                                                    rec |-> At(w, c).rec]
    BY <2>6 DEF Copies
  <2> HIDE DEF B
  <2>9. \A c \in Window(i) : c \in Nat /\ At(w, c) \in Slots
    BY <1>1, <2>4, <2>7, WindowOf, SlotOf
  <2>10. \A b \in B : b.lsn \in Lsns /\ b.lsn.counter \in Nat /\ b.rec \in Records
    <3>1. SUFFICES ASSUME NEW c \in Window(i),
                          NEW b, b = [lsn |-> lsn_t(c, At(w, c).server), rec |-> At(w, c).rec]
                   PROVE  b.lsn \in Lsns /\ b.lsn.counter \in Nat /\ b.rec \in Records
      BY <2>8
    <3>2. c \in Nat /\ At(w, c) \in Slots
      BY <2>9
    <3> QED BY <3>1, <3>2 DEF lsn_t, Lsns, Slots
  <2>11. IsSet(v, i, T)
    BY <2>1, <2>4, <2>10, Setting, Zenon
  <2>12. \A b : b \in T <=> b \in B /\ b.lsn.counter \in Window(i)
    <3>1. \A b : b \in T <=> /\ b \in B /\ b.lsn.counter \in Window(i)
                             /\ TRUE \/ At(i, b.lsn.counter).server = b.lsn.server
      BY <2>4, <2>10, TakenOf, Zenon
    <3> QED BY <3>1, Zenon
  <2> HIDE DEF T
  <2>13. \A b \in T : \E c \in Window(i) : /\ b.lsn.counter = c /\ b.lsn.server = At(w, c).server
                                          /\ b.lsn = lsn_t(c, At(w, c).server)
                                          /\ b.rec = At(w, c).rec
    BY <2>8, <2>12 DEF lsn_t
  <2>14. \A c \in Window(i) : \E b \in T : b.lsn.counter = c
    <3>1. SUFFICES ASSUME NEW c \in Window(i) PROVE \E b \in T : b.lsn.counter = c
      OBVIOUS
    <3> DEFINE b == [lsn |-> lsn_t(c, At(w, c).server), rec |-> At(w, c).rec]
    <3>2. b \in B /\ b.lsn.counter = c
      BY <2>8 DEF lsn_t
    <3> QED BY <2>12, <3>2
  <2>15. ASSUME NEW c \in Window(i) PROVE At(v, c) = At(w, c)
    <3>1. PICK b \in T : b.lsn.counter = c /\ At(v, c) = [server |-> b.lsn.server, rec |-> b.rec]
      BY <2>11, <2>14 DEF IsSet
    <3>2. b.lsn.server = At(w, c).server /\ b.rec = At(w, c).rec
      BY <2>13, <3>1
    <3>3. At(w, c) \in Slots
      BY <2>9
    <3> QED BY <3>1, <3>2, <3>3 DEF Slots
  <2>16. /\ Shaped(v) /\ Window(v) = Window(i) /\ v.counter = k /\ v.walSize = sz
         /\ v.stored = w.stored /\ v.last = NewLast(i, T)
    BY <2>4, <2>11 DEF IsSet
  <2>17. k - 1 \in Window(i)
    BY <1>3, <2>4, WindowOf
  <2>18. v.last = lsn_t(k - 1, At(w, k - 1).server)
    <3>1. i.last.counter = k - 1
      BY <2>4 DEF lsn_t
    <3>2. \E b \in T : b.lsn.counter = i.last.counter
      BY <2>14, <2>17, <3>1
    <3> DEFINE b == CHOOSE b \in T : b.lsn.counter = i.last.counter
    <3>3. b \in T /\ b.lsn.counter = i.last.counter
      BY <3>2
    <3>4. NewLast(i, T) = b.lsn
      BY <3>2, Zenon DEF NewLast
    <3> HIDE DEF b
    <3>5. b.lsn = lsn_t(k - 1, At(w, k - 1).server)
      BY <2>13, <3>1, <3>3
    <3> QED BY <2>16, <3>4, <3>5
  <2>19. SlotsTrue(v, h)
    BY <2>7, <2>15, <2>16 DEF Agrees, SlotsTrue
  <2>20. EndTrue(v, h)
    BY <1>3, <2>15, <2>16, <2>17, <2>18 DEF Agrees, EndTrue
  <2>21. StoredTrue(v, h)
    BY <2>16 DEF Agrees, StoredTrue
  <2> QED BY <2>7, <2>15, <2>16, <2>19, <2>20, <2>21 DEF Agrees, v
<1> QED BY <1>1, <1>2, <1>3

\* A set of naturals that is not empty has a least element.
LEMMA LeastOf ==
    ASSUME NEW S \in SUBSET Nat, S # {}
    PROVE  \E x \in S : \A y \in S : x <= y
<1>1. PICK x \in S : \A y \in S : ~ (<<y, x>> \in OpToRel(<, Nat))
  BY NatLessThanWellFounded, WFMin, Zenon
<1>2. \A y \in S : ~ (y < x)
  BY <1>1, Zenon DEF OpToRel
<1> QED BY <1>2

\* Min of a set of naturals.
LEMMA MinOf ==
    ASSUME NEW S \in SUBSET Nat, S # {}
    PROVE  Min(S) \in S /\ \A y \in S : Min(S) <= y
  BY LeastOf, Zenon DEF Min

\* Max of a bounded set.
LEMMA MaxOf ==
    ASSUME NEW S \in SUBSET Int, S # {}, NEW n \in Int, \A x \in S : x < n
    PROVE  Max(S) \in S /\ \A y \in S : Max(S) >= y
<1> DEFINE D == {m \in Nat : n - m \in S}
<1>1. D \in SUBSET Nat /\ D # {}
  <2>1. PICK x \in S : TRUE
    OBVIOUS
  <2>2. n - x \in Nat /\ n - (n - x) = x
    OBVIOUS
  <2> QED BY <2>2
<1>2. PICK d \in D : \A m \in D : d <= m
  <2> HIDE DEF D
  <2> QED BY <1>1, LeastOf, Zenon
<1>3. \A y \in S : n - d >= y
  <2>1. SUFFICES ASSUME NEW y \in S PROVE n - d >= y
    OBVIOUS
  <2>2. n - y \in Nat /\ n - (n - y) = y
    OBVIOUS
  <2>3. n - y \in D /\ d \in Nat
    BY <2>2
  <2>4. d <= n - y
    BY <1>2, <2>3
  <2> HIDE DEF D
  <2> QED BY <2>2, <2>3, <2>4
<1>4. \E x \in S : \A y \in S : x >= y
  BY <1>2, <1>3
<1> QED BY <1>4, Zenon DEF Max

\* The counters of the items, and the bounds of what a start finds.
Counters(its) == {its[k].counter : k \in Present(its)}
Smallest(its) == IF Counters(its) = {} THEN -1 ELSE Min(Counters(its))
Found(w, its) == {-1} \cup Counters(its) \cup {e.lsn.counter : e \in w.stored}
Updates(its) == {[lsn |-> its[k], rec |-> WalItemUpdate(k)] : k \in Present(its)}

\* What a start finds is known to the history.
LEMMA FoundOf ==
    ASSUME NEW w, NEW h, Agrees(w, h), NEW its, ItemsTrue(its, h, w.counter)
    PROVE  /\ Max(Found(w, its)) \in Int /\ Max(Found(w, its)) >= -1
           /\ Max(Found(w, its)) < w.counter
           /\ Smallest(its) \in Int
           /\ Smallest(its) = -1 \/ (0 <= Smallest(its) /\ Smallest(its) <= Max(Found(w, its)))
           /\ \A k \in Keys : its[k] # NoLsn => its[k].counter <= Max(Found(w, its))
           /\ \A e \in w.stored : e.lsn.counter <= Max(Found(w, its))
           /\ Max(Found(w, its)) >= 0 =>
                 \/ \E k \in Keys : its[k] # NoLsn /\ its[k].counter = Max(Found(w, its))
                 \/ \E e \in w.stored : e.lsn.counter = Max(Found(w, its))
<1> DEFINE S == Found(w, its)
           C == Counters(its)
           M == Max(S)
<1>1. w.counter \in Nat
  BY WalFields DEF Agrees, Shaped
<1>2. \A k \in Keys : its[k] # NoLsn => its[k].counter \in Nat /\ its[k].counter < w.counter
  BY DEF ItemsTrue
<1>3. \A e \in w.stored : e.lsn.counter \in Nat /\ e.lsn.counter < w.counter
  BY DEF Agrees, StoredTrue
<1>4. \A x : x \in C <=> \E k \in Keys : its[k] # NoLsn /\ x = its[k].counter
  BY DEF Counters, Present
<1> HIDE DEF C
<1>5. \A x : x \in S <=> x = -1 \/ x \in C \/ \E e \in w.stored : x = e.lsn.counter
  BY DEF Found, C
<1> HIDE DEF S
<1>6. C \in SUBSET Nat /\ \A x \in C : x < w.counter
  BY <1>2, <1>4
<1>7. S \in SUBSET Int /\ -1 \in S /\ \A x \in S : x < w.counter
  <2>1. -1 \in S
    BY <1>5
  <2>2. ASSUME NEW x \in S PROVE x \in Int /\ x < w.counter
    <3>1. CASE x = -1
      BY <1>1, <3>1
    <3>2. CASE x \in C
      BY <1>6, <3>2
    <3>3. CASE \E e \in w.stored : x = e.lsn.counter
      BY <1>3, <3>3
    <3> QED BY <1>5, <2>2, <3>1, <3>2, <3>3
  <2> QED BY <2>1, <2>2
<1>8. M \in S /\ \A y \in S : M >= y
  BY <1>1, <1>7, MaxOf
<1> HIDE DEF M
<1>9. M \in Int /\ M >= -1 /\ M < w.counter
  BY <1>7, <1>8
<1>10. \A x \in C : x <= M
  BY <1>5, <1>6, <1>8, <1>9
<1>11. Smallest(its) = IF C = {} THEN -1 ELSE Min(C)
  BY DEF Smallest, C
<1>12. C # {} => Min(C) \in C
  BY <1>6, MinOf
<1>13. Smallest(its) \in Int /\ (Smallest(its) = -1 \/ (0 <= Smallest(its) /\ Smallest(its) <= M))
  <2>1. CASE C = {}
    BY <1>11, <2>1
  <2>2. CASE C # {}
    <3>1. Smallest(its) \in C
      BY <1>11, <1>12, <2>2
    <3>2. Smallest(its) \in Nat /\ Smallest(its) <= M
      BY <1>6, <1>10, <3>1
    <3> QED BY <3>2
  <2> QED BY <2>1, <2>2
<1>14. \A k \in Keys : its[k] # NoLsn => its[k].counter <= M
  BY <1>4, <1>10
<1>15. \A e \in w.stored : e.lsn.counter <= M
  BY <1>3, <1>5, <1>8, <1>9
<1>16. M >= 0 => \/ \E k \in Keys : its[k] # NoLsn /\ its[k].counter = M
                 \/ \E e \in w.stored : e.lsn.counter = M
  <2>1. SUFFICES ASSUME M >= 0
                 PROVE  \/ \E k \in Keys : its[k] # NoLsn /\ its[k].counter = M
                        \/ \E e \in w.stored : e.lsn.counter = M
    OBVIOUS
  <2>2. M \in C \/ \E e \in w.stored : M = e.lsn.counter
    BY <1>5, <1>8, <1>9, <2>1
  <2> QED BY <1>4, <2>2
<1> QED BY <1>9, <1>13, <1>14, <1>15, <1>16 DEF M, S

\* InitWal in terms of the bounds that a start finds.
LEMMA InitIs ==
    ASSUME NEW w, NEW its
    PROVE  InitWal(w, its) =
             SetRecords(SetRecords(InitPositions(w, w.walSize, Smallest(its), Max(Found(w, its))),
                                   w.stored, TRUE),
                        Updates(its), TRUE)
  BY Zenon DEF InitWal, Smallest, Found, Updates, Counters

InRing(w, batch) == {b \in batch : b.lsn.counter \in Window(w)}

\* Set that ignores the server takes every record of an LSN in the ring.
LEMMA SettingAny ==
    ASSUME NEW w, Shaped(w), NEW batch,
           \A b \in batch : b.lsn \in Lsns /\ b.lsn.counter \in Nat /\ b.rec \in Records
    PROVE  IsSet(SetRecords(w, batch, TRUE), w, InRing(w, batch))
<1> DEFINE T == Taken(w, batch, TRUE)
           v == SetRecords(w, batch, TRUE)
<1>1. IsSet(v, w, T)
  BY Setting, Zenon
<1>2. \A b : b \in T <=> b \in batch /\ b.lsn.counter \in Window(w)
  <2>1. \A b : b \in T <=> /\ b \in batch /\ b.lsn.counter \in Window(w)
                           /\ TRUE \/ At(w, b.lsn.counter).server = b.lsn.server
    BY TakenOf, Zenon
  <2> QED BY <2>1, Zenon
<1> HIDE DEF T, v
<1>3. T = InRing(w, batch)
  BY <1>2 DEF InRing
<1> QED BY <1>1, <1>3, Zenon DEF v

\* What a start of the node rebuilds: the record of a loaded item that the
\* ring has room for, else the stored record of the LSN, else a blank one.
LEMMA Rebuilding ==
    ASSUME NEW w, NEW h, Agrees(w, h), NEW its, ItemsTrue(its, h, w.counter)
    PROVE  /\ Shaped(InitWal(w, its)) /\ InitWal(w, its).counter = Max(Found(w, its)) + 1
           /\ InitWal(w, its).walSize = w.walSize /\ InitWal(w, its).stored = w.stored
           /\ \A c \in Window(InitWal(w, its)) :
                \/ \E k \in Keys : /\ its[k] # NoLsn /\ its[k].counter = c
                                   /\ At(InitWal(w, its), c) = [server |-> its[k].server,
                                                                rec |-> WalItemUpdate(k)]
                \/ /\ \A k \in Keys : its[k] # NoLsn => its[k].counter # c
                   /\ \E e \in w.stored : /\ e.lsn.counter = c
                                          /\ At(InitWal(w, its), c) = [server |-> e.lsn.server,
                                                                       rec |-> e.rec]
                \/ /\ \A k \in Keys : its[k] # NoLsn => its[k].counter # c
                   /\ \A e \in w.stored : e.lsn.counter # c
                   /\ At(InitWal(w, its), c) = Blank
           /\ \/ InitWal(w, its).counter = 0
              \/ \E k \in Keys : its[k] # NoLsn /\ InitWal(w, its).last = its[k]
                                 /\ its[k].counter = InitWal(w, its).counter - 1
              \/ \E e \in w.stored : InitWal(w, its).last = e.lsn
                                     /\ e.lsn.counter = InitWal(w, its).counter - 1
<1> DEFINE M == Max(Found(w, its))
           i == InitPositions(w, w.walSize, Smallest(its), M)
           r == SetRecords(i, w.stored, TRUE)
           U == Updates(its)
           v == SetRecords(r, U, TRUE)
           T1 == InRing(i, w.stored)
           T2 == InRing(r, U)
<1>1. /\ Shaped(w) /\ w \in Wals /\ w.walSize \in Nat /\ w.walSize > 0
      /\ w.stored \in SUBSET Entries
  BY WalFields DEF Agrees, Shaped
<1>2. InitWal(w, its) = v
  BY InitIs, Zenon
<1>3. /\ M \in Int /\ M >= -1
      /\ Smallest(its) \in Int
      /\ Smallest(its) = -1 \/ (0 <= Smallest(its) /\ Smallest(its) <= M)
      /\ M >= 0 => \/ \E k \in Keys : its[k] # NoLsn /\ its[k].counter = M
                   \/ \E e \in w.stored : e.lsn.counter = M
  BY FoundOf
<1> HIDE DEF M
<1>4. /\ Shaped(i) /\ i.counter = M + 1 /\ i.last = lsn_t(M, Local) /\ i.walSize = w.walSize
      /\ i.stored = w.stored /\ \A c \in Window(i) : At(i, c) = Blank
  BY <1>1, <1>3, Initialized
<1> HIDE DEF i
<1>5. \A b \in w.stored : b.lsn \in Lsns /\ b.lsn.counter \in Nat /\ b.rec \in Records
  BY <1>1 DEF Agrees, StoredTrue, Entries
<1>6. IsSet(r, i, T1)
  BY <1>4, <1>5, SettingAny
<1>7. \A b : b \in T1 <=> b \in w.stored /\ b.lsn.counter \in Window(i)
  BY DEF InRing
<1> HIDE DEF r, T1
<1>8. /\ Shaped(r) /\ Window(r) = Window(i) /\ r.counter = M + 1 /\ r.walSize = w.walSize
      /\ r.stored = w.stored /\ r.last = NewLast(i, T1)
      /\ \A c \in Window(i) :
            IF \E b \in T1 : b.lsn.counter = c
            THEN \E b \in T1 : /\ b.lsn.counter = c
                               /\ At(r, c) = [server |-> b.lsn.server, rec |-> b.rec]
            ELSE At(r, c) = Blank
  BY <1>4, <1>6 DEF IsSet
<1>9. \A b : b \in U <=> \E k \in Keys : its[k] # NoLsn /\ b = [lsn |-> its[k], rec |-> WalItemUpdate(k)]
  BY DEF Updates, Present
<1>10. \A b \in U : b.lsn \in Lsns /\ b.lsn.counter \in Nat /\ b.rec \in Records
  <2>1. SUFFICES ASSUME NEW k \in Keys, its[k] # NoLsn,
                        NEW b, b = [lsn |-> its[k], rec |-> WalItemUpdate(k)]
                 PROVE  b.lsn \in Lsns /\ b.lsn.counter \in Nat /\ b.rec \in Records
    BY <1>9
  <2>2. its[k] \in Lsns /\ its[k].counter \in Nat
    BY <2>1 DEF ItemsTrue
  <2>3. WalItemUpdate(k) \in Records
    BY RecordOf
  <2> QED BY <2>1, <2>2, <2>3
<1> HIDE DEF U
<1>11. IsSet(v, r, T2)
  BY <1>8, <1>10, SettingAny
<1>12. \A b : b \in T2 <=> b \in U /\ b.lsn.counter \in Window(r)
  BY DEF InRing
<1> HIDE DEF v, T2
<1>13. /\ Shaped(v) /\ Window(v) = Window(i) /\ v.counter = M + 1 /\ v.walSize = w.walSize
       /\ v.stored = w.stored /\ v.last = NewLast(r, T2)
       /\ \A c \in Window(i) :
             IF \E b \in T2 : b.lsn.counter = c
             THEN \E b \in T2 : /\ b.lsn.counter = c
                                /\ At(v, c) = [server |-> b.lsn.server, rec |-> b.rec]
             ELSE At(v, c) = At(r, c)
  BY <1>8, <1>11 DEF IsSet
<1>14. ASSUME NEW c \in Window(i)
       PROVE  /\ (\E b \in T2 : b.lsn.counter = c)
                    <=> \E k \in Keys : its[k] # NoLsn /\ its[k].counter = c
              /\ (\E b \in T1 : b.lsn.counter = c) <=> \E e \in w.stored : e.lsn.counter = c
  <2>1. ASSUME NEW k \in Keys, its[k] # NoLsn, its[k].counter = c
        PROVE  \E b \in T2 : b.lsn.counter = c
    <3> DEFINE b == [lsn |-> its[k], rec |-> WalItemUpdate(k)]
    <3>1. b \in U /\ b.lsn.counter = c
      BY <1>9, <2>1
    <3> QED BY <1>8, <1>12, <3>1
  <2>2. ASSUME NEW b \in T2, b.lsn.counter = c
        PROVE  \E k \in Keys : its[k] # NoLsn /\ its[k].counter = c
    <3>1. PICK k \in Keys : its[k] # NoLsn /\ b = [lsn |-> its[k], rec |-> WalItemUpdate(k)]
      BY <1>9, <1>12
    <3> QED BY <2>2, <3>1
  <2> QED BY <1>7, <2>1, <2>2
<1>15. ASSUME NEW c \in Window(i)
       PROVE  \/ \E k \in Keys : /\ its[k] # NoLsn /\ its[k].counter = c
                                 /\ At(v, c) = [server |-> its[k].server, rec |-> WalItemUpdate(k)]
              \/ /\ \A k \in Keys : its[k] # NoLsn => its[k].counter # c
                 /\ \E e \in w.stored : /\ e.lsn.counter = c
                                        /\ At(v, c) = [server |-> e.lsn.server, rec |-> e.rec]
              \/ /\ \A k \in Keys : its[k] # NoLsn => its[k].counter # c
                 /\ \A e \in w.stored : e.lsn.counter # c
                 /\ At(v, c) = Blank
  <2>1. CASE \E b \in T2 : b.lsn.counter = c
    <3>1. PICK b \in T2 : b.lsn.counter = c /\ At(v, c) = [server |-> b.lsn.server, rec |-> b.rec]
      BY <1>13, <2>1
    <3>2. PICK k \in Keys : its[k] # NoLsn /\ b = [lsn |-> its[k], rec |-> WalItemUpdate(k)]
      BY <1>9, <1>12
    <3> QED BY <3>1, <3>2
  <2>2. CASE ~ \E b \in T2 : b.lsn.counter = c
    <3>1. At(v, c) = At(r, c) /\ \A k \in Keys : its[k] # NoLsn => its[k].counter # c
      BY <1>13, <1>14, <2>2
    <3>2. CASE \E b \in T1 : b.lsn.counter = c
      <4>1. PICK b \in T1 : b.lsn.counter = c /\ At(r, c) = [server |-> b.lsn.server, rec |-> b.rec]
        BY <1>8, <3>2
      <4> QED BY <1>7, <3>1, <4>1
    <3>3. CASE ~ \E b \in T1 : b.lsn.counter = c
      BY <1>8, <1>14, <3>1, <3>3
    <3> QED BY <3>2, <3>3
  <2> QED BY <2>1, <2>2
<1>16. \/ v.counter = 0
       \/ \E k \in Keys : its[k] # NoLsn /\ v.last = its[k] /\ its[k].counter = v.counter - 1
       \/ \E e \in w.stored : v.last = e.lsn /\ e.lsn.counter = v.counter - 1
  <2>1. SUFFICES ASSUME v.counter # 0
                 PROVE  \/ \E k \in Keys : its[k] # NoLsn /\ v.last = its[k] /\ its[k].counter = M
                        \/ \E e \in w.stored : v.last = e.lsn /\ e.lsn.counter = M
    BY <1>3, <1>13
  <2>2. M >= 0 /\ M \in Window(i)
    <3>1. M >= 0
      BY <1>3, <1>13, <2>1
    <3>2. i.counter > 0 /\ i.counter - 1 = M
      BY <1>3, <1>4, <3>1
    <3> QED BY <1>4, <3>1, <3>2, WindowOf
  <2>3. i.last.counter = M
    BY <1>4 DEF lsn_t
  <2>4. IF \E b \in T1 : b.lsn.counter = M
        THEN \E b \in T1 : b.lsn.counter = M /\ r.last = b.lsn
        ELSE r.last = i.last
    <3>1. NewLast(i, T1) = IF \E b \in T1 : b.lsn.counter = M
                           THEN (CHOOSE b \in T1 : b.lsn.counter = M).lsn ELSE i.last
      BY <2>3 DEF NewLast
    <3> QED BY <1>8, <3>1
  <2>5. r.last.counter = M
    BY <2>3, <2>4
  <2>6. IF \E b \in T2 : b.lsn.counter = M
        THEN \E b \in T2 : b.lsn.counter = M /\ v.last = b.lsn
        ELSE v.last = r.last
    <3>1. NewLast(r, T2) = IF \E b \in T2 : b.lsn.counter = M
                           THEN (CHOOSE b \in T2 : b.lsn.counter = M).lsn ELSE r.last
      BY <2>5 DEF NewLast
    <3> QED BY <1>13, <3>1
  <2>7. CASE \E b \in T2 : b.lsn.counter = M
    <3>1. PICK b \in T2 : b.lsn.counter = M /\ v.last = b.lsn
      BY <2>6, <2>7
    <3>2. PICK k \in Keys : its[k] # NoLsn /\ b = [lsn |-> its[k], rec |-> WalItemUpdate(k)]
      BY <1>9, <1>12
    <3> QED BY <3>1, <3>2
  <2>8. CASE ~ \E b \in T2 : b.lsn.counter = M
    <3>1. \E e \in w.stored : e.lsn.counter = M
      BY <1>3, <1>14, <2>2, <2>8
    <3>2. \E b \in T1 : b.lsn.counter = M
      BY <1>14, <2>2, <3>1
    <3> QED BY <1>7, <2>4, <2>6, <2>8, <3>2
  <2> QED BY <2>7, <2>8
<1> QED BY <1>2, <1>13, <1>15, <1>16 DEF M

\* An update is stored as an empty record.
LEMMA DurableIs == \A r : Durable(r).type # "ItemUpdate" /\ Durable(r) \in {r, WalEmpty}
  BY RecordOf DEF Durable

\* The log that a start rebuilds agrees with the history.
LEMMA InitAgrees ==
    ASSUME NEW w, NEW h, Agrees(w, h), NEW its, ItemsTrue(its, h, w.counter)
    PROVE  Agrees(InitWal(w, its), h) /\ Current(InitWal(w, its), its)
<1> DEFINE v == InitWal(w, its)
           M == Max(Found(w, its))
<1>1. /\ Shaped(v) /\ v.counter = M + 1 /\ v.stored = w.stored
      /\ \A c \in Window(v) :
           \/ \E k \in Keys : /\ its[k] # NoLsn /\ its[k].counter = c
                              /\ At(v, c) = [server |-> its[k].server, rec |-> WalItemUpdate(k)]
           \/ /\ \A k \in Keys : its[k] # NoLsn => its[k].counter # c
              /\ \E e \in w.stored : /\ e.lsn.counter = c
                                     /\ At(v, c) = [server |-> e.lsn.server, rec |-> e.rec]
           \/ /\ \A k \in Keys : its[k] # NoLsn => its[k].counter # c
              /\ \A e \in w.stored : e.lsn.counter # c
              /\ At(v, c) = Blank
      /\ \/ v.counter = 0
         \/ \E k \in Keys : its[k] # NoLsn /\ v.last = its[k] /\ its[k].counter = v.counter - 1
         \/ \E e \in w.stored : v.last = e.lsn /\ e.lsn.counter = v.counter - 1
  BY Rebuilding
<1>2. /\ M \in Int /\ M >= -1 /\ M < w.counter
      /\ \A e \in w.stored : e.lsn.counter <= M
  BY FoundOf
<1> HIDE DEF v, M
<1>3. \A k \in Keys : its[k] # NoLsn =>
          /\ its[k] \in Lsns /\ its[k].counter \in Nat
          /\ h[its[k].counter + 1].rec = WalItemUpdate(k)
          /\ h[its[k].counter + 1].server = its[k].server
  BY DEF ItemsTrue
<1>4. \A e \in w.stored : /\ e.lsn \in Lsns /\ e.lsn.counter \in Nat
                          /\ e.lsn.server = h[e.lsn.counter + 1].server
                          /\ e.rec = Durable(h[e.lsn.counter + 1].rec)
  BY WalFields DEF Agrees, StoredTrue, Shaped, Entries
<1>5. SlotsTrue(v, h)
  <2>1. SUFFICES ASSUME NEW c \in Window(v)
                 PROVE  /\ At(v, c).rec \in {h[c + 1].rec, WalEmpty}
                        /\ At(v, c).server = h[c + 1].server \/ At(v, c) = Blank
    BY DEF SlotsTrue
  <2>2. CASE \E k \in Keys : /\ its[k] # NoLsn /\ its[k].counter = c
                             /\ At(v, c) = [server |-> its[k].server, rec |-> WalItemUpdate(k)]
    BY <1>3, <2>2
  <2>3. CASE \E e \in w.stored : /\ e.lsn.counter = c
                                 /\ At(v, c) = [server |-> e.lsn.server, rec |-> e.rec]
    BY <1>4, <2>3, DurableIs
  <2>4. CASE At(v, c) = Blank
    BY <2>4 DEF Blank
  <2> QED BY <1>1, <2>2, <2>3, <2>4
<1>6. EndTrue(v, h)
  <2>1. SUFFICES ASSUME v.counter > 0
                 PROVE  /\ v.last = lsn_t(v.counter - 1, h[v.counter].server)
                        /\ At(v, v.counter - 1).server = h[v.counter].server
    BY DEF EndTrue
  <2>2. v.counter = M + 1 /\ v.counter - 1 = M /\ v.counter # 0
    BY <1>1, <1>2, <2>1
  <2>3. M \in Window(v)
    BY <1>1, <2>1, <2>2, WindowOf
  <2>4. \/ \E k \in Keys : its[k] # NoLsn /\ v.last = its[k] /\ its[k].counter = M
        \/ \E e \in w.stored : v.last = e.lsn /\ e.lsn.counter = M
    BY <1>1, <2>2
  <2>5. v.last \in Lsns /\ v.last.counter = M /\ v.last.server = h[M + 1].server
    <3>1. CASE \E k \in Keys : its[k] # NoLsn /\ v.last = its[k] /\ its[k].counter = M
      BY <1>3, <3>1
    <3>2. CASE \E e \in w.stored : v.last = e.lsn /\ e.lsn.counter = M
      BY <1>4, <3>2
    <3> QED BY <2>4, <3>1, <3>2
  <2>6. v.last = lsn_t(M, h[M + 1].server)
    BY <2>5 DEF Lsns, lsn_t
  <2>7. At(v, M).server = h[M + 1].server
    <3>1. \/ \E k \in Keys : /\ its[k] # NoLsn /\ its[k].counter = M
                             /\ At(v, M) = [server |-> its[k].server, rec |-> WalItemUpdate(k)]
          \/ \E e \in w.stored : /\ e.lsn.counter = M
                                 /\ At(v, M) = [server |-> e.lsn.server, rec |-> e.rec]
      BY <1>1, <2>3, <2>4
    <3> QED BY <1>3, <1>4, <3>1
  <2> QED BY <2>2, <2>6, <2>7
<1>7. StoredTrue(v, h)
  <2>1. \A e \in w.stored : e.lsn.counter < v.counter
    BY <1>1, <1>2, <1>4
  <2> QED BY <1>1, <1>4, <2>1 DEF StoredTrue
<1>8. Current(v, its)
  <2>1. SUFFICES ASSUME NEW c \in Window(v), NEW k \in Keys, At(v, c).rec = WalItemUpdate(k)
                 PROVE  its[k].counter = c
    BY DEF Current
  <2>2. CASE \E j \in Keys : /\ its[j] # NoLsn /\ its[j].counter = c
                             /\ At(v, c) = [server |-> its[j].server, rec |-> WalItemUpdate(j)]
    <3>1. PICK j \in Keys : /\ its[j].counter = c
                            /\ At(v, c) = [server |-> its[j].server, rec |-> WalItemUpdate(j)]
      BY <2>2
    <3>2. j = k
      BY <2>1, <3>1, RecordOf
    <3> QED BY <3>1, <3>2
  <2>3. CASE \E e \in w.stored : /\ e.lsn.counter = c
                                 /\ At(v, c) = [server |-> e.lsn.server, rec |-> e.rec]
    <3>1. PICK e \in w.stored : At(v, c) = [server |-> e.lsn.server, rec |-> e.rec]
      BY <2>3
    <3>2. At(v, c).rec = Durable(h[e.lsn.counter + 1].rec)
      BY <1>4, <3>1
    <3>3. At(v, c).rec.type # "ItemUpdate"
      BY <3>2, DurableIs
    <3> QED BY <2>1, <3>3, RecordOf
  <2>4. CASE At(v, c) = Blank
    <3>1. WalItemUpdate(k) = WalEmpty
      BY <2>1, <2>4 DEF Blank
    <3> QED BY <3>1, RecordOf
  <2> QED BY <1>1, <2>2, <2>3, <2>4
<1> QED BY <1>1, <1>5, <1>6, <1>7, <1>8 DEF Agrees, v

\* Agreement is a matter of the LSNs below the counter.
LEMMA AgreesLater ==
    ASSUME NEW w, NEW h, NEW g, Agrees(w, h), Extends(h, g, w.counter)
    PROVE  Agrees(w, g)
<1>1. Shaped(w) /\ w.counter \in Nat
  BY WalFields DEF Agrees, Shaped
<1>2. \A c \in Window(w) : h[c + 1].rec = g[c + 1].rec /\ h[c + 1].server = g[c + 1].server
  BY <1>1, WindowOf DEF Extends
<1>3. SlotsTrue(w, g)
  BY <1>2 DEF Agrees, SlotsTrue
<1>4. EndTrue(w, g)
  <2>1. SUFFICES ASSUME w.counter > 0 PROVE h[w.counter].server = g[w.counter].server
    BY DEF Agrees, EndTrue
  <2>2. w.counter - 1 \in Nat /\ w.counter - 1 < w.counter /\ (w.counter - 1) + 1 = w.counter
    BY <1>1, <2>1
  <2>3. h[(w.counter - 1) + 1].server = g[(w.counter - 1) + 1].server
    BY <2>2 DEF Extends
  <2> QED BY <2>2, <2>3
<1>5. StoredTrue(w, g)
  BY DEF Agrees, StoredTrue, Extends
<1> QED BY <1>1, <1>3, <1>4, <1>5 DEF Agrees

\* Items are true of every history that goes on.
LEMMA ItemsLater ==
    ASSUME NEW its, NEW h, NEW g, NEW n \in Nat, NEW m \in Nat, ItemsTrue(its, h, n), n <= m,
           Extends(h, g, n)
    PROVE  ItemsTrue(its, g, m)
<1>1. SUFFICES ASSUME NEW k \in Keys, its[k] # NoLsn
               PROVE  /\ its[k].counter \in Nat /\ its[k].counter < m
                      /\ g[its[k].counter + 1].rec = WalItemUpdate(k)
                      /\ g[its[k].counter + 1].server = its[k].server
  BY DEF ItemsTrue
<1>2. /\ its[k].counter \in Nat /\ its[k].counter < n
      /\ h[its[k].counter + 1].rec = WalItemUpdate(k)
      /\ h[its[k].counter + 1].server = its[k].server
  BY <1>1 DEF ItemsTrue
<1>3. h[its[k].counter + 1].rec = g[its[k].counter + 1].rec
      /\ h[its[k].counter + 1].server = g[its[k].counter + 1].server
  BY <1>2 DEF Extends
<1> QED BY <1>2, <1>3

\* A record of an update is found by the LSN of its item.
LEMMA OwnerOf ==
    ASSUME NEW w, NEW h, Agrees(w, h), NEW its, ItemsTrue(its, h, w.counter), Current(w, its),
           NEW c \in Window(w), NEW k \in Keys, At(w, c).rec = WalItemUpdate(k)
    PROVE  its[k] # NoLsn /\ its[k].counter = c /\ At(w, c).server = its[k].server
<1>1. its[k].counter = c
  BY DEF Current
<1>2. c \in Nat
  BY WindowOf DEF Agrees
<1>3. its[k] # NoLsn
  BY <1>1, <1>2, NoLsnIs
<1>4. h[c + 1].server = its[k].server
  BY <1>1, <1>3 DEF ItemsTrue
<1>5. At(w, c) # Blank
  <2>1. At(w, c).rec # WalEmpty
    BY RecordOf
  <2> QED BY <2>1 DEF Blank
<1> QED BY <1>1, <1>3, <1>4, <1>5 DEF Agrees, SlotsTrue

\* The older LSN of an item is fit to be blanked.
LEMMA OldOf ==
    ASSUME NEW its, NEW h, NEW n \in Nat, ItemsTrue(its, h, n), NEW k \in Keys
    PROVE  /\ its[k] \in Lsns
           /\ its[k] # NoLsn => /\ its[k].counter \in Nat /\ its[k].counter < n
                                /\ h[its[k].counter + 1].rec.type = "ItemUpdate"
                                /\ h[its[k].counter + 1].server = its[k].server
  BY RecordOf DEF ItemsTrue

(* The invariant: the log agrees with the history, so do the items, and an *)
(* update in the ring is the newest one of its item.                       *)
WalInv ==
    /\ hist \in Seq(Past) /\ Len(hist) = wal.counter
    /\ Agrees(wal, hist)
    /\ ItemsTrue(items, hist, wal.counter)
    /\ ItemsTrue(disk, hist, wal.counter)
    /\ Current(wal, items)

\* An empty log agrees with any history.
LEMMA EmptyLog ==
    ASSUME NEW w, w \in Wals, w.counter = 0, w.offset = 0, w.records = Blanks(0), w.stored = {},
           NEW h
    PROVE  Agrees(w, h) /\ Window(w) = {}
<1>1. Blanks(0) \in [0 .. 0 - 1 -> Slots]
  BY BlanksOf
<1>2. w.walSize \in Nat /\ w.walSize > 0
  BY WalFields
<1>3. Ring(w, 0, 0)
  BY <1>1, <1>2 DEF Ring
<1>4. Shaped(w) /\ RingSize(w) = 0
  BY <1>3, RingSizeIs DEF Shaped
<1>5. Window(w) = {}
  BY <1>4, WindowOf
<1> QED BY <1>4, <1>5 DEF Agrees, SlotsTrue, EndTrue, StoredTrue

\* The invariant holds in the initial states.
LEMMA WalInit == Init => WalInv
<1>1. SUFFICES ASSUME Init PROVE WalInv
  OBVIOUS
<1>2. PICK sz \in WalSizes : wal = [records |-> Blanks(0), counter |-> 0, last |-> NoLsn,
                                    walSize |-> sz, offset |-> 0, stored |-> {}]
  BY <1>1 DEF Init
<1>3. sz \in Nat \ {0}
  BY WalAssumption DEF WalAssumption
<1>4. Blanks(0) \in Vectors
  BY BlanksOf
<1>5. wal \in Wals
  BY <1>2, <1>3, <1>4, NoLsnIs DEF Wals
<1>6. Agrees(wal, hist) /\ Window(wal) = {}
  BY <1>2, <1>5, EmptyLog
<1>7. hist = <<>> /\ items = NoItems /\ disk = NoItems /\ wal.counter = 0
  BY <1>1, <1>2 DEF Init
<1>8. hist \in Seq(Past) /\ Len(hist) = 0
  BY <1>7
<1>9. ItemsTrue(NoItems, hist, 0)
  BY NoLsnIs DEF ItemsTrue, NoItems
<1> QED BY <1>6, <1>7, <1>8, <1>9 DEF WalInv, Current


\* The history after one more LSN.
LEMMA OneMore ==
    ASSUME NEW h \in Seq(Past), NEW n \in Nat, Len(h) = n, NEW x \in Past
    PROVE  /\ Append(h, x) \in Seq(Past) /\ Len(Append(h, x)) = n + 1
           /\ Append(h, x)[n + 1] = x
           /\ \A c \in Nat : c < n => Append(h, x)[c + 1] = h[c + 1]
           /\ Extends(h, Append(h, x), n)
<1>1. Append(h, x) \in Seq(Past) /\ Len(Append(h, x)) = n + 1 /\ Append(h, x)[n + 1] = x
  OBVIOUS
<1>2. \A c \in Nat : c < n => Append(h, x)[c + 1] = h[c + 1]
  OBVIOUS
<1> QED BY <1>1, <1>2 DEF Extends

\* The LSN that a record takes, written here or received from the leader.
LEMMA OriginIs ==
    ASSUME WalInv, NEW s \in Servers, NEW w, w.counter = wal.counter, NEW rec, NEW old
    PROVE  /\ Add(w, rec, Origin(s), old) = AddAt(w, rec, lsn_t(wal.counter, s), old)
           /\ lsn_t(wal.counter, s) \in Lsns
           /\ lsn_t(wal.counter, s).counter = wal.counter /\ lsn_t(wal.counter, s).server = s
           /\ lsn_t(wal.counter, s) # NoLsn
<1> DEFINE l == lsn_t(wal.counter, s)
<1>1. wal.counter \in Nat
  BY WalFields DEF WalInv, Agrees, Shaped
<1>2. l \in Lsns /\ l.counter = wal.counter /\ l.server = s
  BY <1>1 DEF lsn_t, Lsns
<1>3. l # NoLsn
  BY <1>1, <1>2, NoLsnIs
<1>4. (Origin(s) = NoLsn /\ l = lsn_t(w.counter, Local)) \/ (Origin(s) = l /\ l # NoLsn)
  BY <1>3 DEF Origin
<1> HIDE DEF l
<1>5. Add(w, rec, Origin(s), old) = AddAt(w, rec, l, old)
  BY <1>4, AddIs, Zenon
<1> QED BY <1>2, <1>3, <1>5 DEF l

\* Modifying an item preserves the invariant.
LEMMA WalModify ==
    ASSUME WalInv, NEW k \in Keys, NEW s \in Servers, ModifyItem(k, s)
    PROVE  WalInv'
<1> DEFINE n == wal.counter
           l == lsn_t(n, s)
           rec == WalItemUpdate(k)
           its == [items EXCEPT ![k] = l]
           x == [server |-> s, rec |-> rec, items |-> its]
           g == Append(hist, x)
           v == AddAt(wal, rec, l, items[k])
<1>1. /\ hist \in Seq(Past) /\ Len(hist) = n /\ Agrees(wal, hist) /\ ItemsTrue(items, hist, n)
      /\ ItemsTrue(disk, hist, n) /\ Current(wal, items) /\ Shaped(wal)
  BY DEF WalInv, Agrees
<1>2. n \in Nat
  BY <1>1, WalFields DEF Shaped
<1>3. /\ items[k] \in Lsns
      /\ items[k] # NoLsn => /\ items[k].counter \in Nat /\ items[k].counter < n
                             /\ hist[items[k].counter + 1].rec.type = "ItemUpdate"
                             /\ hist[items[k].counter + 1].server = items[k].server
  BY <1>1, <1>2, OldOf
<1>4. /\ Add(wal, rec, Origin(s), items[k]) = v
      /\ l \in Lsns /\ l.counter = n /\ l.server = s /\ l # NoLsn
  BY OriginIs
<1>5. wal' = v /\ items' = its /\ hist' = g /\ disk' = disk
  BY <1>4 DEF ModifyItem, Logged
<1>6. rec \in Records /\ rec.type = "ItemUpdate" /\ rec # WalEmpty
  BY RecordOf
<1>7. items \in [Keys -> Lsns]
  BY <1>1 DEF ItemsTrue
<1> HIDE DEF l, rec
<1>8. its \in [Keys -> Lsns] /\ its[k] = l /\ \A j \in Keys : j # k => its[j] = items[j]
  BY <1>4, <1>7
<1> HIDE DEF its
<1>9. x \in Past /\ x.server = s /\ x.rec = rec
  BY <1>6, <1>8 DEF Past
<1> HIDE DEF x, n
<1>10. /\ g \in Seq(Past) /\ Len(g) = n + 1 /\ g[n + 1] = x
       /\ \A c \in Nat : c < n => g[c + 1] = hist[c + 1]
       /\ Extends(hist, g, n)
  BY <1>1, <1>2, <1>9, OneMore
<1> HIDE DEF g
<1>11. items[k] # NoLsn => items[k].counter \in Nat /\ items[k].counter < l.counter
  BY <1>3, <1>4
<1>12. items[k] # NoLsn => /\ g[items[k].counter + 1].rec.type = "ItemUpdate"
                           /\ g[items[k].counter + 1].server = items[k].server
  BY <1>3, <1>10
<1>13. Agrees(v, g)
  <2>1. ~ ToStorage(rec)
    BY <1>6 DEF ToStorage
  <2>2. g[l.counter + 1].server = l.server /\ rec \in {g[l.counter + 1].rec, WalEmpty}
    BY <1>4, <1>9, <1>10
  <2>3. l.counter = wal.counter /\ l.counter \in Nat /\ Extends(hist, g, wal.counter)
    BY <1>2, <1>4, <1>10 DEF n
  <2> QED BY <1>1, <1>3, <1>4, <1>6, <1>11, <1>12, <2>1, <2>2, <2>3, AddAgrees
<1>14. /\ v.counter = n + 1
       /\ l.counter \in Window(v) /\ At(v, l.counter).rec = rec
       /\ \A c \in Window(v) : c # l.counter =>
            /\ c \in Window(wal)
            /\ IF items[k] # NoLsn /\ c = items[k].counter /\ At(wal, c).server = items[k].server
               THEN At(v, c).rec = WalEmpty
               ELSE At(v, c) = At(wal, c)
  <2>1. l.counter = wal.counter /\ l.counter \in Nat
    BY <1>2, <1>4 DEF n
  <2> QED BY <1>1, <1>3, <1>4, <1>6, <1>11, <2>1, Adding
<1> HIDE DEF v
<1>15. ItemsTrue(its, g, n + 1)
  <2>1. ItemsTrue(items, g, n + 1)
    BY <1>1, <1>2, <1>10, ItemsLater
  <2>2. SUFFICES ASSUME NEW j \in Keys, its[j] # NoLsn
                 PROVE  /\ its[j].counter \in Nat /\ its[j].counter < n + 1
                        /\ g[its[j].counter + 1].rec = WalItemUpdate(j)
                        /\ g[its[j].counter + 1].server = its[j].server
    BY <1>8 DEF ItemsTrue
  <2>3. CASE j = k
    BY <1>2, <1>4, <1>8, <1>9, <1>10, <2>3 DEF rec
  <2>4. CASE j # k
    BY <1>8, <2>1, <2>2, <2>4 DEF ItemsTrue
  <2> QED BY <2>3, <2>4
<1>16. ItemsTrue(disk, g, n + 1)
  BY <1>1, <1>2, <1>10, ItemsLater
<1>17. Current(v, its)
  <2>1. SUFFICES ASSUME NEW c \in Window(v), NEW j \in Keys, At(v, c).rec = WalItemUpdate(j)
                 PROVE  its[j].counter = c
    BY DEF Current
  <2>2. CASE c = l.counter
    <3>1. j = k
      BY <1>14, <2>1, <2>2, RecordOf DEF rec
    <3> QED BY <1>8, <2>2, <3>1
  <2>3. CASE c # l.counter
    <3>1. c \in Window(wal) /\ At(v, c) = At(wal, c) /\ At(wal, c).rec = WalItemUpdate(j)
      BY <1>14, <2>1, <2>3, RecordOf
    <3>2. items[j] # NoLsn /\ items[j].counter = c /\ At(wal, c).server = items[j].server
      BY <1>1, <3>1, OwnerOf DEF n
    <3>3. j # k
      BY <1>14, <2>1, <2>3, <3>1, <3>2, RecordOf
    <3> QED BY <1>8, <3>2, <3>3
  <2> QED BY <2>2, <2>3
<1> QED BY <1>5, <1>10, <1>13, <1>14, <1>15, <1>16, <1>17 DEF WalInv

\* The items without those of K.
Without(K) == [k \in Keys |-> IF k \in K THEN NoLsn ELSE items[k]]

\* Items go: their records are blanked, and what removed them is logged.
LEMMA WalRemove ==
    ASSUME WalInv, NEW K \in SUBSET Present(items), NEW s \in Servers, NEW rec \in Records,
           rec.type # "ItemUpdate", rec # WalEmpty,
           NEW old, old = NoLsn \/ \E k \in K : old = items[k],
           wal' = Add(SetRecords(wal, {Blanking(k) : k \in K}, FALSE), rec, Origin(s), old),
           Logged(rec, s, Without(K))
    PROVE  WalInv'
<1> DEFINE n == wal.counter
           l == lsn_t(n, s)
           its == Without(K)
           x == [server |-> s, rec |-> rec, items |-> its]
           g == Append(hist, x)
           batch == {Blanking(k) : k \in K}
           w == SetRecords(wal, batch, FALSE)
           v == AddAt(w, rec, l, old)
<1>1. /\ hist \in Seq(Past) /\ Len(hist) = n /\ Agrees(wal, hist) /\ ItemsTrue(items, hist, n)
      /\ ItemsTrue(disk, hist, n) /\ Current(wal, items) /\ Shaped(wal)
  BY DEF WalInv, Agrees
<1>2. n \in Nat
  BY <1>1, WalFields DEF Shaped
<1>3. \A k \in K : /\ k \in Keys /\ items[k] # NoLsn
                   /\ items[k] \in Lsns /\ items[k].counter \in Nat /\ items[k].counter < n
                   /\ hist[items[k].counter + 1].rec.type = "ItemUpdate"
                   /\ hist[items[k].counter + 1].server = items[k].server
  <2>1. SUFFICES ASSUME NEW k \in K
                 PROVE  /\ k \in Keys /\ items[k] # NoLsn
                        /\ items[k] \in Lsns /\ items[k].counter \in Nat /\ items[k].counter < n
                        /\ hist[items[k].counter + 1].rec.type = "ItemUpdate"
                        /\ hist[items[k].counter + 1].server = items[k].server
    OBVIOUS
  <2>2. k \in Keys /\ items[k] # NoLsn
    BY DEF Present
  <2> QED BY <1>1, <1>2, <2>2, OldOf
<1>4. \A b \in batch : b.lsn \in Lsns /\ b.lsn.counter \in Nat /\ b.rec = WalEmpty
  BY <1>3 DEF Blanking
<1>5. /\ Agrees(w, hist) /\ Window(w) = Window(wal) /\ w.counter = n
      /\ \A c \in Window(wal) :
           IF \E b \in batch : b.lsn.counter = c /\ At(wal, c).server = b.lsn.server
           THEN At(w, c).rec = WalEmpty
           ELSE At(w, c) = At(wal, c)
  <2> HIDE DEF batch
  <2> QED BY <1>1, <1>4, SettingEmpty DEF n
<1> HIDE DEF w
<1>6. /\ Add(w, rec, Origin(s), old) = v
      /\ l \in Lsns /\ l.counter = n /\ l.server = s
  BY <1>5, OriginIs
<1>7. wal' = v /\ items' = its /\ hist' = g /\ disk' = disk
  BY <1>6 DEF Logged, w
<1>8. its \in [Keys -> Lsns] /\ \A j \in Keys : its[j] = IF j \in K THEN NoLsn ELSE items[j]
  BY <1>1, NoLsnIs DEF Without, ItemsTrue
<1> HIDE DEF its, l
<1>9. x \in Past /\ x.server = s /\ x.rec = rec
  BY <1>8 DEF Past
<1> HIDE DEF x, n
<1>10. /\ g \in Seq(Past) /\ Len(g) = n + 1 /\ g[n + 1] = x
       /\ \A c \in Nat : c < n => g[c + 1] = hist[c + 1]
       /\ Extends(hist, g, n)
  BY <1>1, <1>2, <1>9, OneMore
<1> HIDE DEF g
<1>11. /\ old \in Lsns
       /\ old # NoLsn => old.counter \in Nat /\ old.counter < l.counter
       /\ old # NoLsn => /\ g[old.counter + 1].rec.type = "ItemUpdate"
                         /\ g[old.counter + 1].server = old.server
  BY <1>3, <1>6, <1>10, NoLsnIs
<1>12. Agrees(v, g)
  <2>1. ToStorage(rec) => rec = Durable(g[l.counter + 1].rec)
    BY <1>6, <1>9, <1>10 DEF Durable
  <2>2. g[l.counter + 1].server = l.server /\ rec \in {g[l.counter + 1].rec, WalEmpty}
    BY <1>6, <1>9, <1>10
  <2>3. l.counter = w.counter /\ l.counter \in Nat /\ Extends(hist, g, w.counter)
    BY <1>2, <1>5, <1>6, <1>10
  <2> QED BY <1>5, <1>6, <1>11, <2>1, <2>2, <2>3, AddAgrees
<1>13. /\ v.counter = n + 1
       /\ At(v, l.counter).rec = rec
       /\ \A c \in Window(v) : c # l.counter =>
            /\ c \in Window(w)
            /\ At(v, c).rec = WalEmpty \/ At(v, c) = At(w, c)
  <2>1. l.counter = w.counter /\ l.counter \in Nat /\ Shaped(w)
    BY <1>2, <1>5, <1>6 DEF Agrees
  <2> QED BY <1>6, <1>11, <2>1, Adding
<1> HIDE DEF v
<1>14. ItemsTrue(its, g, n + 1)
  <2>1. ItemsTrue(items, g, n + 1)
    BY <1>1, <1>2, <1>10, ItemsLater
  <2> QED BY <1>8, <2>1 DEF ItemsTrue
<1>15. ItemsTrue(disk, g, n + 1)
  BY <1>1, <1>2, <1>10, ItemsLater
<1>16. Current(v, its)
  <2>1. SUFFICES ASSUME NEW c \in Window(v), NEW j \in Keys, At(v, c).rec = WalItemUpdate(j)
                 PROVE  its[j].counter = c
    BY DEF Current
  <2>2. c # l.counter
    BY <1>13, <2>1, RecordOf
  <2>3. c \in Window(wal) /\ At(w, c).rec = WalItemUpdate(j)
    BY <1>5, <1>13, <2>1, <2>2, RecordOf
  <2>4. At(w, c) = At(wal, c) /\ ~ \E b \in batch : b.lsn.counter = c /\ At(wal, c).server = b.lsn.server
    BY <1>5, <2>3, RecordOf
  <2>5. items[j] # NoLsn /\ items[j].counter = c /\ At(wal, c).server = items[j].server
    BY <1>1, <2>3, <2>4, OwnerOf DEF n
  <2>6. j \notin K
    <3>1. j \in K => Blanking(j) \in batch /\ Blanking(j).lsn = items[j]
      BY DEF Blanking
    <3> QED BY <2>4, <2>5, <3>1
  <2> QED BY <1>8, <2>5, <2>6
<1> QED BY <1>7, <1>10, <1>12, <1>13, <1>14, <1>15, <1>16 DEF WalInv

\* Deleting an item preserves the invariant.
LEMMA WalDelete ==
    ASSUME WalInv, NEW k \in Keys, NEW s \in Servers, DeleteItem(k, s)
    PROVE  WalInv'
<1> DEFINE K == {k}
<1>1. items[k] # NoLsn /\ items \in [Keys -> Lsns]
  BY DEF DeleteItem, WalInv, ItemsTrue
<1>2. K \in SUBSET Present(items)
  BY <1>1 DEF Present
<1>3. Without(K) = [items EXCEPT ![k] = NoLsn]
  BY <1>1 DEF Without
<1>4. {Blanking(j) : j \in K} = {Blanking(k)}
  OBVIOUS
<1>5. /\ wal' = Add(SetRecords(wal, {Blanking(j) : j \in K}, FALSE), WalItemDelete(k), Origin(s), items[k])
      /\ Logged(WalItemDelete(k), s, Without(K))
  BY <1>3, <1>4 DEF DeleteItem
<1>6. \E j \in K : items[k] = items[j]
  OBVIOUS
<1> HIDE DEF K
<1>7. /\ WalItemDelete(k) \in Records /\ WalItemDelete(k).type # "ItemUpdate"
      /\ WalItemDelete(k) # WalEmpty
  BY RecordOf
<1> QED BY <1>2, <1>5, <1>6, <1>7, WalRemove, Zenon

\* Truncating the namespace preserves the invariant.
LEMMA WalTruncated ==
    ASSUME WalInv, NEW s \in Servers, Truncate(s)
    PROVE  WalInv'
<1> DEFINE K == Present(items)
<1>1. items \in [Keys -> Lsns]
  BY DEF WalInv, ItemsTrue
<1>2. Without(K) = NoItems
  BY <1>1 DEF Without, Present, NoItems
<1>3. /\ wal' = Add(SetRecords(wal, {Blanking(j) : j \in K}, FALSE), WalTruncate, Origin(s), NoLsn)
      /\ Logged(WalTruncate, s, Without(K))
  BY <1>2 DEF Truncate
<1>4. K \in SUBSET Present(items)
  OBVIOUS
<1> HIDE DEF K
<1>5. WalTruncate \in Records /\ WalTruncate.type # "ItemUpdate" /\ WalTruncate # WalEmpty
  BY RecordOf
<1> QED BY <1>3, <1>4, <1>5, WalRemove, Zenon

\* Flushing the storage preserves the invariant.
LEMMA WalFlush ==
    ASSUME WalInv, Flush
    PROVE  WalInv'
  BY DEF WalInv, Flush

\* Changing the capacity preserves the invariant.
LEMMA WalResize ==
    ASSUME WalInv, NEW sz \in WalSizes, Resize(sz)
    PROVE  WalInv'
<1> DEFINE v == ResizeTo(wal, sz)
<1>1. sz \in Nat /\ sz > 0
  <2>1. sz \in Nat \ {0}
    BY WalAssumption DEF WalAssumption
  <2> QED BY <2>1
<1>2. Agrees(wal, hist) /\ Current(wal, items)
  BY DEF WalInv
<1>3. /\ Agrees(v, hist) /\ v.counter = wal.counter
      /\ Window(v) \subseteq Window(wal)
      /\ \A c \in Window(v) : At(v, c) = At(wal, c)
  BY <1>1, <1>2, Resizing
<1>4. wal' = v /\ UNCHANGED <<items, disk, hist>>
  BY DEF Resize
<1> HIDE DEF v
<1>5. Current(v, items)
  BY <1>2, <1>3 DEF Current
<1> QED BY <1>3, <1>4, <1>5 DEF WalInv

\* A start keeps the LSNs it finds, and the history is cut after them.
LEMMA WalRestart ==
    ASSUME WalInv, NEW loaded, ItemsTrue(loaded, hist, wal.counter), Restart(loaded)
    PROVE  WalInv'
<1> DEFINE v == InitWal(wal, loaded)
           m == v.counter
           n == wal.counter
           g == [c \in 1 .. m |-> IF c = m THEN [hist[c] EXCEPT !.items = loaded] ELSE hist[c]]
<1>1. /\ hist \in Seq(Past) /\ Len(hist) = n /\ Agrees(wal, hist)
  BY DEF WalInv
<1>2. n \in Nat
  BY <1>1, WalFields DEF Agrees, Shaped
<1>3. wal' = v /\ items' = loaded /\ disk' = loaded /\ hist' = g
  BY Zenon DEF Restart
<1>4. Agrees(v, hist) /\ Current(v, loaded)
  BY <1>1, InitAgrees
<1>5. m = Max(Found(wal, loaded)) + 1
  BY <1>1, Rebuilding
<1>6. /\ Max(Found(wal, loaded)) \in Int /\ Max(Found(wal, loaded)) >= -1
      /\ Max(Found(wal, loaded)) < n
      /\ \A k \in Keys : loaded[k] # NoLsn => loaded[k].counter <= Max(Found(wal, loaded))
  BY <1>1, FoundOf
<1> HIDE DEF v
<1>7. m \in Nat /\ m <= n /\ \A k \in Keys : loaded[k] # NoLsn => loaded[k].counter < m
  <2>1. \A k \in Keys : loaded[k] # NoLsn => loaded[k].counter \in Nat
    BY DEF ItemsTrue
  <2> QED BY <1>2, <1>5, <1>6, <2>1
<1> HIDE DEF m
<1>8. loaded \in [Keys -> Lsns]
  BY DEF ItemsTrue
<1>9. \A c \in 1 .. m : /\ g[c] \in Past /\ g[c].rec = hist[c].rec /\ g[c].server = hist[c].server
  <2>1. SUFFICES ASSUME NEW c \in 1 .. m
                 PROVE  g[c] \in Past /\ g[c].rec = hist[c].rec /\ g[c].server = hist[c].server
    OBVIOUS
  <2>2. c \in 1 .. Len(hist)
    BY <1>1, <1>2, <1>7
  <2>3. hist[c] \in Past
    BY <1>1, <2>2
  <2>4. /\ [hist[c] EXCEPT !.items = loaded] \in Past
        /\ [hist[c] EXCEPT !.items = loaded].rec = hist[c].rec
        /\ [hist[c] EXCEPT !.items = loaded].server = hist[c].server
    BY <1>8, <2>3 DEF Past
  <2>5. g[c] = IF c = m THEN [hist[c] EXCEPT !.items = loaded] ELSE hist[c]
    OBVIOUS
  <2> HIDE DEF g
  <2> QED BY <2>3, <2>4, <2>5
<1>10. g \in Seq(Past) /\ Len(g) = m
  <2>1. g \in [1 .. m -> Past]
    BY <1>9
  <2> HIDE DEF g
  <2> QED BY <1>7, <2>1
<1> HIDE DEF g
<1>11. Extends(hist, g, m)
  BY <1>7, <1>9 DEF Extends
<1>12. Agrees(v, g)
  BY <1>4, <1>11, AgreesLater DEF m
<1>13. ItemsTrue(loaded, hist, m)
  BY <1>7 DEF ItemsTrue
<1>14. ItemsTrue(loaded, g, m)
  BY <1>7, <1>11, <1>13, ItemsLater
<1>15. wal'.counter = m
  BY <1>3 DEF m
<1> QED BY <1>3, <1>4, <1>10, <1>12, <1>14, <1>15 DEF WalInv

-----------------------------------------------------------------------------
(* The log after a force sync                                              *)

\* The logs after each record of the snapshot.
IsLog(g, first, n) ==
    g = [i \in 0 .. n |-> IF i = 0 THEN Reset(wal) ELSE Relog(g[i - 1], first + i - 1)]

\* The recursive definition of Relogged has a solution.
LEMMA LogExists ==
    ASSUME NEW first, NEW n \in Nat
    PROVE  \E g : IsLog(g, first, n)
<1> DEFINE S == {m \in Nat : ~ \E g : IsLog(g, first, m)}
<1>1. SUFFICES ASSUME S # {} PROVE FALSE
  OBVIOUS
<1>2. PICK m \in S : \A y \in S : m <= y
  <2>1. S \in SUBSET Nat
    OBVIOUS
  <2> HIDE DEF S
  <2> QED BY <1>1, <2>1, LeastOf
<1>3. m \in Nat /\ ~ \E g : IsLog(g, first, m)
  OBVIOUS
<1>4. CASE m = 0
  <2> DEFINE g == [i \in 0 .. 0 |-> Reset(wal)]
  <2>1. g = [i \in 0 .. 0 |-> IF i = 0 THEN Reset(wal) ELSE Relog(g[i - 1], first + i - 1)]
    OBVIOUS
  <2>2. IsLog(g, first, 0)
    BY <2>1 DEF IsLog
  <2> QED BY <1>3, <1>4, <2>2
<1>5. CASE m # 0
  <2>1. m - 1 \in Nat /\ m - 1 < m
    BY <1>3, <1>5
  <2>2. m - 1 \notin S
    BY <1>2, <2>1
  <2>3. PICK f : IsLog(f, first, m - 1)
    BY <2>1, <2>2
  <2> DEFINE g == [i \in 0 .. m |-> IF i = m THEN Relog(f[m - 1], first + m - 1) ELSE f[i]]
  <2>4. \A i \in 0 .. m - 1 : g[i] = f[i]
    BY <1>3
  <2>5. g[m] = Relog(f[m - 1], first + m - 1)
    BY <1>3
  <2>6. \A i \in 0 .. m - 1 :
           f[i] = IF i = 0 THEN Reset(wal) ELSE Relog(f[i - 1], first + i - 1)
    BY <2>3 DEF IsLog
  <2>7. g = [i \in 0 .. m |-> g[i]]
    OBVIOUS
  <2> HIDE DEF g
  <2>8. \A i \in 0 .. m :
           g[i] = IF i = 0 THEN Reset(wal) ELSE Relog(g[i - 1], first + i - 1)
    <3>1. SUFFICES ASSUME NEW i \in 0 .. m
                   PROVE  g[i] = IF i = 0 THEN Reset(wal) ELSE Relog(g[i - 1], first + i - 1)
      OBVIOUS
    <3>2. CASE i = m
      <4>1. m - 1 \in 0 .. m - 1
        BY <2>1
      <4>2. g[m - 1] = f[m - 1]
        BY <2>4, <4>1
      <4> QED BY <1>5, <2>5, <3>2, <4>2
    <3>3. CASE i # m
      <4>1. i \in 0 .. m - 1 /\ (i # 0 => i - 1 \in 0 .. m - 1)
        BY <1>3, <3>3
      <4> QED BY <2>4, <2>6, <4>1
    <3> QED BY <3>2, <3>3
  <2>9. IsLog(g, first, m)
    BY <2>7, <2>8 DEF IsLog
  <2> QED BY <1>3, <2>9
<1> QED BY <1>4, <1>5

\* Relogged is the last of the logs.
LEMMA ReloggedIs ==
    ASSUME NEW first, NEW n \in Nat
    PROVE  \E g : IsLog(g, first, n) /\ Relogged(first, n) = g[n]
<1> DEFINE g == CHOOSE log : IsLog(log, first, n)
<1>1. IsLog(g, first, n)
  BY LogExists
<1>2. Relogged(first, n) = g[n]
  BY Zenon DEF Relogged, IsLog
<1> HIDE DEF g
<1> QED BY <1>1, <1>2

\* A snapshot has of an LSN its record, or an empty one for an update that is
\* not the newest of its item.
LEMMA ShallowIs ==
    ASSUME WalInv, NEW c \in Nat, c < wal.counter
    PROVE  /\ Shallow(c) \in Records /\ Shallow(c) \in {hist[c + 1].rec, WalEmpty}
           /\ ToStorage(Shallow(c)) => Shallow(c) = Durable(hist[c + 1].rec)
           /\ hist[c + 1].rec.type # "ItemUpdate" => Shallow(c) = hist[c + 1].rec
           /\ \A k \in Keys : Shallow(c) = WalItemUpdate(k) => items[k].counter = c
           /\ hist[c + 1] \in Past /\ hist[c + 1].server \in Servers
           /\ hist[c + 1].rec \in Records
<1> DEFINE r == hist[c + 1].rec
<1>1. hist[c + 1] \in Past
  <2>1. hist \in Seq(Past) /\ Len(hist) = wal.counter /\ wal.counter \in Nat
    BY WalFields DEF WalInv, Agrees, Shaped
  <2>2. c + 1 \in 1 .. Len(hist)
    BY <2>1
  <2> QED BY <2>1, <2>2
<1>2. r \in Records /\ hist[c + 1].server \in Servers
  BY <1>1 DEF Past
<1>3. Shallow(c) \in {r, WalEmpty}
  BY DEF Shallow
<1>4. Shallow(c) \in Records
  BY <1>2, <1>3, RecordOf
<1>5. r.type # "ItemUpdate" => Shallow(c) = r
  BY DEF Shallow
<1>6. ToStorage(Shallow(c)) => Shallow(c) = Durable(r)
  BY <1>3, <1>5 DEF ToStorage, Durable
<1>7. \A k \in Keys : Shallow(c) = WalItemUpdate(k) => items[k].counter = c
  <2>1. SUFFICES ASSUME NEW k \in Keys, Shallow(c) = WalItemUpdate(k), items[k].counter # c
                 PROVE  FALSE
    OBVIOUS
  <2>2. r = WalItemUpdate(k)
    BY <1>3, <2>1, RecordOf
  <2>3. r.type = "ItemUpdate" /\ r.keys = {k}
    BY <2>2, RecordOf
  <2>4. Shallow(c) = WalEmpty
    BY <2>1, <2>3 DEF Shallow
  <2> QED BY <2>1, <2>4, RecordOf
<1> QED BY <1>1, <1>2, <1>3, <1>4, <1>5, <1>6, <1>7

\* The records from an LSN on are stored, unless newer ones took their place.
Backing(e, w, d) == e.pos = d % w.walSize /\ (e.lsn.counter = d \/ e.lsn.counter >= d + w.walSize)
Backed(w, h, from) ==
    \A d \in Nat : from <= d /\ d < w.counter /\ h[d + 1].rec.type # "ItemUpdate"
                     => \E e \in w.stored : Backing(e, w, d)

\* Adding stores the new record, and replaces entries by newer ones only.
LEMMA AddBacked ==
    ASSUME NEW w, NEW h, NEW g, Agrees(w, h), NEW rec \in Records,
           NEW l \in Lsns, l.counter \in Nat, w.counter = 0 \/ l.counter = w.counter,
           Extends(h, g, w.counter),
           g[l.counter + 1].rec.type # "ItemUpdate" => ToStorage(rec),
           NEW old \in Lsns, old # NoLsn => old.counter \in Nat /\ old.counter < l.counter,
           NEW from \in Nat, w.counter = 0 => from = l.counter, Backed(w, h, from)
    PROVE  Backed(AddAt(w, rec, l, old), g, from)
<1> DEFINE v == AddAt(w, rec, l, old)
           s == w.walSize
<1>1. Shaped(w) /\ w.counter \in Nat /\ s \in Nat /\ s > 0
  BY WalFields DEF Agrees, Shaped
<1>2. Shaped(v) /\ v.counter = l.counter + 1 /\ v.walSize = s
  BY <1>1, Adding
<1>3. /\ \A e \in w.stored :
           \/ e \in v.stored
           \/ \E x \in v.stored :
                 /\ x.pos = e.pos
                 /\ \/ x.lsn = l /\ e.pos = l.counter % s
                    \/ /\ old # NoLsn /\ old.counter \in Window(v)
                       /\ x.lsn = old /\ e.pos = old.counter % s
      /\ ToStorage(rec) => \E x \in v.stored : x.lsn = l /\ x.pos = l.counter % s
  BY <1>1, AddingStored
<1> HIDE DEF v
<1>4. RingSize(v) \in Nat /\ RingSize(v) <= s
      /\ \A c : c \in Window(v) => c \in Nat /\ c < v.counter /\ v.counter - c <= RingSize(v)
  BY <1>2, WindowOf
<1>5. SUFFICES ASSUME NEW d \in Nat, from <= d, d < v.counter, g[d + 1].rec.type # "ItemUpdate"
               PROVE  \E e \in v.stored : Backing(e, v, d)
  BY DEF Backed, v
<1>6. CASE d = l.counter
  BY <1>2, <1>3, <1>5, <1>6 DEF Backing
<1>7. CASE d # l.counter
  <2>1. d < w.counter /\ d < l.counter
    BY <1>1, <1>2, <1>5, <1>7
  <2>2. h[d + 1].rec.type # "ItemUpdate"
    BY <1>5, <2>1 DEF Extends
  <2>3. PICK e \in w.stored : Backing(e, w, d)
    BY <1>5, <2>1, <2>2 DEF Backed
  <2>4. CASE e \in v.stored
    BY <1>2, <2>3, <2>4 DEF Backing
  <2>5. CASE e \notin v.stored
    <3>1. PICK x \in v.stored :
             /\ x.pos = e.pos
             /\ \/ x.lsn = l /\ e.pos = l.counter % s
                \/ /\ old # NoLsn /\ old.counter \in Window(v)
                   /\ x.lsn = old /\ e.pos = old.counter % s
      BY <1>3, <2>5
    <3>2. e.pos = d % s
      BY <2>3 DEF Backing
    <3>3. CASE x.lsn = l /\ e.pos = l.counter % s
      <4>1. d + s <= l.counter
        BY <1>1, <2>1, <3>2, <3>3, ModApart
      <4>2. x.lsn.counter >= d + s
        BY <1>1, <4>1, <3>3
      <4> QED BY <1>2, <3>1, <3>2, <4>2 DEF Backing
    <3>4. CASE /\ old # NoLsn /\ old.counter \in Window(v)
               /\ x.lsn = old /\ e.pos = old.counter % s
      <4>1. /\ old.counter \in Nat /\ v.counter - old.counter <= s
            /\ old.counter % s = d % s
        BY <1>1, <1>2, <1>4, <3>2, <3>4
      <4>2. ~ (old.counter < d)
        <5>1. old.counter < d => old.counter + s <= d
          BY <1>1, <4>1, ModApart
        <5> QED BY <1>1, <1>2, <2>1, <4>1, <5>1
      <4>3. d < old.counter => d + s <= old.counter
        BY <1>1, <4>1, ModApart
      <4>4. x.lsn.counter = d \/ x.lsn.counter >= d + s
        BY <1>1, <3>4, <4>1, <4>2, <4>3
      <4> QED BY <1>2, <3>1, <3>2, <4>4 DEF Backing
    <3> QED BY <3>1, <3>3, <3>4
  <2> QED BY <2>4, <2>5
<1> QED BY <1>6, <1>7

\* The log after the first i records of a snapshot.
Replaying(w, first, i) ==
    /\ Agrees(w, hist) /\ w.walSize = wal.walSize
    /\ w.counter = (IF i = 0 THEN 0 ELSE first + i)
    /\ \A c \in Window(w) : c >= first /\ At(w, c).rec = Shallow(c)
    /\ Backed(w, hist, first)
    /\ w.counter > 0 /\ ToStorage(Shallow(w.counter - 1))
         => \E e \in w.stored : e.lsn.counter = w.counter - 1

\* The cleared log is where the records are added.
LEMMA RelogStarts ==
    ASSUME WalInv, NEW first \in Nat
    PROVE  Replaying(Reset(wal), first, 0)
<1> DEFINE v == Reset(wal)
<1>1. wal \in Wals
  BY DEF WalInv, Agrees, Shaped
<1>2. Blanks(0) \in Vectors
  BY BlanksOf
<1>3. /\ v \in Wals /\ v.counter = 0 /\ v.offset = 0 /\ v.records = Blanks(0) /\ v.stored = {}
      /\ v.walSize = wal.walSize
  BY <1>1, <1>2, NoLsnIs DEF Reset, Wals
<1> HIDE DEF v
<1>4. Agrees(v, hist) /\ Window(v) = {}
  BY <1>3, EmptyLog
<1>5. Backed(v, hist, first)
  BY <1>3 DEF Backed
<1> QED BY <1>3, <1>4, <1>5 DEF Replaying, v

\* One more record of the snapshot.
LEMMA RelogKeeps ==
    ASSUME WalInv, NEW first \in Nat, NEW i \in Nat, first + i < wal.counter, NEW w,
           Replaying(w, first, i)
    PROVE  Replaying(Relog(w, first + i), first, i + 1)
<1> DEFINE c == first + i
           l == lsn_t(c, hist[c + 1].server)
           rec == Shallow(c)
           v == AddAt(w, rec, l, NoLsn)
<1>1. c \in Nat /\ c < wal.counter
  OBVIOUS
<1>2. /\ Agrees(w, hist) /\ Shaped(w) /\ w.walSize = wal.walSize
      /\ w.counter = (IF i = 0 THEN 0 ELSE c)
      /\ \A d \in Window(w) : d >= first /\ At(w, d).rec = Shallow(d)
      /\ Backed(w, hist, first)
  BY DEF Replaying, Agrees
<1>3. (i = 0 => c = first) /\ (i # 0 => c # 0)
  OBVIOUS
<1>4. i + 1 # 0 /\ c + 1 = first + (i + 1) /\ c >= first
  OBVIOUS
<1> HIDE DEF c
<1>5. /\ rec \in Records /\ rec \in {hist[c + 1].rec, WalEmpty}
      /\ ToStorage(rec) => rec = Durable(hist[c + 1].rec)
      /\ hist[c + 1].rec.type # "ItemUpdate" => rec = hist[c + 1].rec
      /\ hist[c + 1].server \in Servers
  BY <1>1, ShallowIs
<1>6. /\ l \in Lsns /\ l.counter = c /\ l.server = hist[c + 1].server /\ l # NoLsn
  BY <1>1, <1>5, NoLsnIs DEF lsn_t, Lsns
<1>7. Relog(w, c) = v
  <2>1. Relog(w, c) = Add(w, rec, l, NoLsn)
    BY DEF Relog
  <2> HIDE DEF rec, l
  <2>2. l = l /\ l # NoLsn
    BY <1>6
  <2>3. Add(w, rec, l, NoLsn) = v
    BY <2>2, AddIs, Zenon
  <2> QED BY <2>1, <2>3
<1> HIDE DEF rec, l
<1>8. /\ l.counter \in Nat /\ (w.counter = 0 \/ l.counter = w.counter)
      /\ Extends(hist, hist, w.counter) /\ hist[l.counter + 1].server = l.server
      /\ rec \in {hist[l.counter + 1].rec, WalEmpty}
      /\ ToStorage(rec) => rec = Durable(hist[l.counter + 1].rec)
      /\ hist[l.counter + 1].rec.type # "ItemUpdate" => ToStorage(rec)
      /\ NoLsn \in Lsns
  BY <1>1, <1>2, <1>5, <1>6, NoLsnIs DEF Extends, ToStorage
<1>9. Agrees(v, hist)
  BY <1>2, <1>5, <1>6, <1>8, AddAgrees
<1>10. /\ v.counter = c + 1 /\ v.walSize = wal.walSize
       /\ At(v, c).rec = rec
       /\ \A d \in Window(v) : d # c => d \in Window(w) /\ At(v, d) = At(w, d)
  BY <1>2, <1>5, <1>6, <1>8, Adding
<1>11. Backed(v, hist, first)
  <2>1. w.counter = 0 => first = l.counter
    BY <1>1, <1>2, <1>3, <1>6
  <2> QED BY <1>2, <1>5, <1>6, <1>8, <2>1, AddBacked
<1> HIDE DEF v
<1>12. \A d \in Window(v) : d >= first /\ At(v, d).rec = Shallow(d)
  BY <1>2, <1>4, <1>10 DEF rec
<1>13. ToStorage(Shallow(v.counter - 1)) => \E e \in v.stored : e.lsn.counter = v.counter - 1
  <2>1. v.counter - 1 = c /\ Shallow(v.counter - 1) = rec
    BY <1>1, <1>10 DEF rec
  <2>2. ToStorage(rec) => \E x \in AddAt(w, rec, l, NoLsn).stored :
                             x.lsn = l /\ x.pos = l.counter % w.walSize
    BY <1>2, <1>5, <1>6, <1>8, AddingStored
  <2> QED BY <1>6, <2>1, <2>2 DEF v
<1>14. Replaying(v, first, i + 1)
  BY <1>4, <1>9, <1>10, <1>11, <1>12, <1>13 DEF Replaying
<1> QED BY <1>7, <1>14 DEF c

\* All records of the snapshot, by the least counterexample.
LEMMA RelogEnds ==
    ASSUME WalInv, NEW first \in Nat, NEW n \in Nat, first + n = wal.counter
    PROVE  Replaying(Relogged(first, n), first, n)
<1>1. PICK g : IsLog(g, first, n) /\ Relogged(first, n) = g[n]
  BY ReloggedIs
<1>2. \A i \in 0 .. n : g[i] = IF i = 0 THEN Reset(wal) ELSE Relog(g[i - 1], first + i - 1)
  BY <1>1 DEF IsLog
<1> DEFINE S == {i \in 0 .. n : ~ Replaying(g[i], first, i)}
<1>3. SUFFICES ASSUME S # {} PROVE FALSE
  BY <1>1
<1>4. PICK m \in S : \A y \in S : m <= y
  <2>1. S \in SUBSET Nat
    OBVIOUS
  <2> HIDE DEF S
  <2> QED BY <1>3, <2>1, LeastOf
<1>5. m \in 0 .. n /\ ~ Replaying(g[m], first, m)
  OBVIOUS
<1>6. CASE m = 0
  <2>1. g[0] = Reset(wal)
    BY <1>2, <1>5, <1>6
  <2> QED BY <1>5, <1>6, <2>1, RelogStarts
<1>7. CASE m # 0
  <2> DEFINE i == m - 1
  <2>1. i \in Nat /\ i \in 0 .. n /\ i < m /\ i + 1 = m /\ first + i < wal.counter
        /\ first + m - 1 = first + i
    BY <1>5, <1>7
  <2>2. g[m] = Relog(g[i], first + i)
    BY <1>2, <1>5, <1>7, <2>1
  <2>3. i \notin S
    BY <1>4, <2>1
  <2>4. Replaying(g[i], first, i)
    BY <2>1, <2>3
  <2> HIDE DEF i
  <2>5. Replaying(Relog(g[i], first + i), first, i + 1)
    BY <2>1, <2>4, RelogKeeps
  <2> QED BY <1>5, <2>1, <2>2, <2>5
<1> QED BY <1>6, <1>7

\* A force sync preserves the invariant.
LEMMA WalForceSync ==
    ASSUME WalInv, NEW n, ForceSync(n)
    PROVE  WalInv'
<1> DEFINE first == wal.counter - n
           v == Relogged(first, n)
<1>1. wal.counter \in Nat /\ n \in 1 .. wal.counter
  BY WalFields DEF WalInv, Agrees, Shaped, ForceSync
<1>2. first \in Nat /\ n \in Nat /\ first + n = wal.counter /\ n # 0
  BY <1>1
<1>3. wal' = v /\ disk' = items /\ items' = items /\ hist' = hist
  BY DEF ForceSync
<1> HIDE DEF first
<1>4. Replaying(v, first, n)
  BY <1>2, RelogEnds
<1> HIDE DEF v
<1>5. /\ Agrees(v, hist) /\ v.counter = wal.counter
      /\ \A c \in Window(v) : At(v, c).rec = Shallow(c)
  BY <1>2, <1>4 DEF Replaying
<1>6. Current(v, items)
  <2>1. SUFFICES ASSUME NEW c \in Window(v), NEW k \in Keys, At(v, c).rec = WalItemUpdate(k)
                 PROVE  items[k].counter = c
    BY DEF Current
  <2>2. c \in Nat /\ c < wal.counter
    BY <1>5, WindowOf DEF Agrees
  <2> QED BY <1>5, <2>1, <2>2, ShallowIs
<1> QED BY <1>3, <1>5, <1>6 DEF WalInv

\* A start after a close preserves the invariant.
LEMMA WalReopen ==
    ASSUME WalInv, Reopen
    PROVE  WalInv'
<1>1. ItemsTrue(items, hist, wal.counter)
  BY DEF WalInv
<1> QED BY <1>1, WalRestart DEF Reopen

\* A start after a crash preserves the invariant.
LEMMA WalCrash ==
    ASSUME WalInv, Crash
    PROVE  WalInv'
<1>1. ItemsTrue(disk, hist, wal.counter)
  BY DEF WalInv
<1> QED BY <1>1, WalRestart DEF Crash

\* Every step preserves the invariant.
LEMMA WalStep == WalInv /\ [Next]_vars => WalInv'
<1> SUFFICES ASSUME WalInv, [Next]_vars PROVE WalInv'
  OBVIOUS
<1>1. ASSUME NEW k \in Keys, NEW s \in Servers, ModifyItem(k, s) PROVE WalInv'
  BY <1>1, WalModify
<1>2. ASSUME NEW k \in Keys, NEW s \in Servers, DeleteItem(k, s) PROVE WalInv'
  BY <1>2, WalDelete
<1>3. ASSUME NEW s \in Servers, Truncate(s) PROVE WalInv'
  BY <1>3, WalTruncated
<1>4. CASE Flush
  BY <1>4, WalFlush
<1>5. ASSUME NEW sz \in WalSizes, Resize(sz) PROVE WalInv'
  BY <1>5, WalResize
<1>6. ASSUME NEW n \in 1 .. MaxLsn, ForceSync(n) PROVE WalInv'
  BY <1>6, WalForceSync
<1>7. CASE Reopen
  BY <1>7, WalReopen
<1>8. CASE Crash
  BY <1>8, WalCrash
<1>9. CASE UNCHANGED vars
  BY <1>9 DEF vars, WalInv
<1> QED BY <1>1, <1>2, <1>3, <1>4, <1>5, <1>6, <1>7, <1>8, <1>9 DEF Next

(* The log agrees with the history of the LSNs, whatever sequence of       *)
(* writes, resizes, restarts, crashes and force syncs led to it: the ring  *)
(* holds the last LSNs in slots of their own, with the record and server   *)
(* of each or blank, the stored entries and the items are what the history *)
(* says of their LSNs, and an item update in the ring is its item's newest.*)
THEOREM WalInvariant == Spec => []WalInv
<1>1. Init => WalInv
  BY WalInit
<1>2. WalInv /\ [Next]_vars => WalInv'
  BY WalStep
<1> QED BY <1>1, <1>2, PTL DEF Spec

(* Every LSN that size() counts has a slot in the vector, with the record  *)
(* of that LSN or an empty one, under its server unless it is blank.       *)
THEOREM OwnSlots == Spec => []SlotIsOwn
<1>1. WalInv => SlotIsOwn
  <2>1. SUFFICES ASSUME WalInv PROVE SlotIsOwn
    OBVIOUS
  <2>2. Shaped(wal) /\ SlotsTrue(wal, hist)
    BY <2>1 DEF WalInv, Agrees
  <2>3. wal.counter \in Nat
    BY <2>2, WalFields DEF Shaped
  <2>4. Window(wal) \subseteq 0 .. wal.counter - 1
    <3>1. \A c \in Window(wal) : c \in Nat /\ c < wal.counter
      BY <2>2, WindowOf
    <3> QED BY <2>3, <3>1
  <2>5. \A c \in Window(wal) : c % wal.walSize \in DOMAIN wal.records
    BY <2>2, SlotOf
  <2> QED BY <2>2, <2>4, <2>5 DEF SlotIsOwn, SlotsTrue, Slot, At
<1> QED BY <1>1, WalInvariant, PTL

(* A WalItemUpdate record that the selector reads is of an item that still *)
(* has the LSN of the record: the assertion at walselecter.cc:95.          *)
THEOREM CurrentUpdates == Spec => []UpdateIsCurrent
<1>1. WalInv => UpdateIsCurrent
  BY DEF WalInv, Current, UpdateIsCurrent, Slot, At
<1> QED BY <1>1, WalInvariant, PTL

(* The last LSN names the server that issued it, after restarts too.       *)
THEOREM TrueLastLsn == Spec => []LastLsnIsTrue
<1>1. WalInv => LastLsnIsTrue
  BY DEF WalInv, Agrees, EndTrue, LastLsnIsTrue
<1> QED BY <1>1, WalInvariant, PTL

-----------------------------------------------------------------------------
(* Completeness of the log                                                 *)

\* No LSN of h after c is about the item k.
Untouched(h, k, c, n) == \A d \in Nat : c < d /\ d < n => k \notin h[d + 1].rec.keys

\* From fl on the items followed the history to what they are now.
HistItems(h, its, n, fl) ==
    \A k \in Keys, c \in Nat : fl <= c /\ c < n /\ Untouched(h, k, c, n) =>
        /\ h[c + 1].items[k] = its[k]
        /\ fl < c /\ k \in h[c + 1].rec.keys =>
              its[k] = IF h[c + 1].rec.type = "ItemUpdate" THEN lsn_t(c, h[c + 1].server) ELSE NoLsn

\* A slot above fl is blank only if its update is not the newest of the item.
Kept(w, h, its, fl) ==
    \A d \in Window(w) : d > fl /\ At(w, d).rec = WalEmpty =>
        /\ h[d + 1].rec.type = "ItemUpdate"
        /\ \A k \in Keys : h[d + 1].rec = WalItemUpdate(k) => its[k].counter # d

\* A start finds the last LSN.
EndFound(w, its) == \/ \E k \in Keys : its[k] # NoLsn /\ its[k].counter = w.counter - 1
                    \/ \E e \in w.stored : e.lsn.counter = w.counter - 1
Top(w, its) == w.counter > 0 => EndFound(w, its)

LogInv ==
    /\ WalInv
    /\ floor \in Nat /\ floor <= wal.counter
    /\ resized \in Nat /\ resized <= wal.counter
    /\ HistItems(hist, items, wal.counter, floor)
    /\ Kept(wal, hist, items, floor)
    /\ Backed(wal, hist, resized)
    /\ Top(wal, items)

\* The log is complete in the initial states.
LEMMA LogInit == Init => LogInv
<1>1. SUFFICES ASSUME Init PROVE LogInv
  OBVIOUS
<1>2. WalInv /\ floor = 0 /\ resized = 0
  BY <1>1, WalInit DEF Init
<1>3. PICK sz \in WalSizes : wal = [records |-> Blanks(0), counter |-> 0, last |-> NoLsn,
                                    walSize |-> sz, offset |-> 0, stored |-> {}]
  BY <1>1 DEF Init
<1>4. wal.counter = 0 /\ wal \in Wals
  BY <1>2, <1>3 DEF WalInv, Agrees, Shaped
<1>5. Window(wal) = {}
  BY <1>3, <1>4, EmptyLog
<1> QED BY <1>2, <1>4, <1>5 DEF LogInv, HistItems, Kept, Backed, Top

\* The items follow the history by one more LSN.
LEMMA HistGrows ==
    ASSUME NEW h \in Seq(Past), NEW n \in Nat, Len(h) = n, NEW fl \in Nat, fl <= n,
           NEW its, NEW new, HistItems(h, its, n, fl),
           NEW x \in Past, x.items = new,
           \A k \in Keys : new[k] = IF k \in x.rec.keys
                                    THEN IF x.rec.type = "ItemUpdate" THEN lsn_t(n, x.server) ELSE NoLsn
                                    ELSE its[k]
    PROVE  HistItems(Append(h, x), new, n + 1, fl)
<1> DEFINE g == Append(h, x)
<1>1. g[n + 1] = x /\ \A c \in Nat : c < n => g[c + 1] = h[c + 1]
  BY OneMore
<1> HIDE DEF g
<1>2. SUFFICES ASSUME NEW k \in Keys, NEW c \in Nat, fl <= c, c < n + 1, Untouched(g, k, c, n + 1)
               PROVE  /\ g[c + 1].items[k] = new[k]
                      /\ fl < c /\ k \in g[c + 1].rec.keys =>
                           new[k] = IF g[c + 1].rec.type = "ItemUpdate"
                                    THEN lsn_t(c, g[c + 1].server) ELSE NoLsn
  BY DEF HistItems, g
<1>3. CASE c = n
  BY <1>1, <1>3
<1>4. CASE c # n
  <2>1. c < n /\ g[c + 1] = h[c + 1]
    BY <1>1, <1>2, <1>4
  <2>2. k \notin x.rec.keys
    <3>1. c < n /\ n < n + 1
      BY <2>1
    <3> QED BY <1>1, <1>2, <3>1 DEF Untouched
  <2>3. Untouched(h, k, c, n)
    <3>1. SUFFICES ASSUME NEW d \in Nat, c < d, d < n PROVE k \notin h[d + 1].rec.keys
      BY DEF Untouched
    <3>2. d < n + 1 /\ g[d + 1] = h[d + 1]
      BY <1>1, <3>1
    <3> QED BY <1>2, <3>1, <3>2 DEF Untouched
  <2>4. new[k] = its[k]
    BY <2>2
  <2> QED BY <1>2, <2>1, <2>3, <2>4 DEF HistItems
<1> QED BY <1>3, <1>4

\* Modifying an item keeps the log complete.
LEMMA LogModify ==
    ASSUME LogInv, NEW k \in Keys, NEW s \in Servers, ModifyItem(k, s)
    PROVE  LogInv'
<1> DEFINE n == wal.counter
           l == lsn_t(n, s)
           rec == WalItemUpdate(k)
           its == [items EXCEPT ![k] = l]
           x == [server |-> s, rec |-> rec, items |-> its]
           g == Append(hist, x)
           v == AddAt(wal, rec, l, items[k])
<1>1. /\ WalInv /\ hist \in Seq(Past) /\ Len(hist) = n /\ Agrees(wal, hist)
      /\ ItemsTrue(items, hist, n) /\ Shaped(wal)
  BY DEF LogInv, WalInv, Agrees
<1>2. n \in Nat
  BY <1>1, WalFields DEF Shaped
<1>3. WalInv'
  BY <1>1, WalModify
<1>4. /\ items[k] \in Lsns
      /\ items[k] # NoLsn => /\ items[k].counter \in Nat /\ items[k].counter < n
                             /\ hist[items[k].counter + 1].rec = rec
  BY <1>1, <1>2, OldOf DEF ItemsTrue
<1>5. /\ Add(wal, rec, Origin(s), items[k]) = v
      /\ l \in Lsns /\ l.counter = n /\ l.server = s /\ l # NoLsn
  BY <1>1, OriginIs
<1>6. /\ wal' = v /\ items' = its /\ hist' = g /\ floor' = floor /\ resized' = resized
  BY <1>5 DEF ModifyItem, Logged
<1>7. rec \in Records /\ rec.type = "ItemUpdate" /\ rec # WalEmpty /\ rec.keys = {k}
  BY RecordOf
<1>8. items \in [Keys -> Lsns]
  BY <1>1 DEF ItemsTrue
<1>9. l = lsn_t(n, s)
  OBVIOUS
<1> HIDE DEF l, rec
<1>10. its \in [Keys -> Lsns] /\ its[k] = l /\ \A j \in Keys : j # k => its[j] = items[j]
  BY <1>5, <1>8
<1> HIDE DEF its
<1>11. x \in Past /\ x.server = s /\ x.rec = rec /\ x.items = its
  BY <1>7, <1>10 DEF Past
<1> HIDE DEF x, n
<1>12. /\ g[n + 1] = x /\ \A c \in Nat : c < n => g[c + 1] = hist[c + 1]
       /\ Extends(hist, g, n)
  BY <1>1, <1>2, <1>11, OneMore
<1>13. floor \in Nat /\ floor <= n /\ resized \in Nat /\ resized <= n /\ HistItems(hist, items, n, floor)
       /\ Kept(wal, hist, items, floor) /\ Backed(wal, hist, resized)
  BY DEF LogInv, n
<1>14. HistItems(g, its, n + 1, floor)
  <2>1. \A j \in Keys : its[j] = IF j \in x.rec.keys
                                 THEN IF x.rec.type = "ItemUpdate" THEN lsn_t(n, x.server) ELSE NoLsn
                                 ELSE items[j]
    BY <1>7, <1>9, <1>10, <1>11
  <2> QED BY <1>1, <1>2, <1>11, <1>13, <2>1, HistGrows
<1> HIDE DEF g
<1>15. l.counter = wal.counter /\ l.counter \in Nat
  BY <1>2, <1>5 DEF n
<1>16. items[k] # NoLsn => items[k].counter \in Nat /\ items[k].counter < l.counter
  BY <1>4, <1>5
<1>17. /\ v.counter = n + 1
       /\ At(v, n).rec = rec
       /\ \A c \in Window(v) : c # n =>
            /\ c \in Window(wal)
            /\ \/ items[k] # NoLsn /\ c = items[k].counter
               \/ At(v, c) = At(wal, c)
  BY <1>1, <1>4, <1>5, <1>7, <1>15, <1>16, Adding
<1>18. Backed(v, g, resized)
  <2>1. Extends(hist, g, wal.counter)
    BY <1>12 DEF n
  <2>2. g[l.counter + 1].rec.type = "ItemUpdate"
    BY <1>5, <1>7, <1>11, <1>12
  <2>3. wal.counter = 0 => resized = l.counter
    BY <1>13, <1>15 DEF n
  <2> QED BY <1>1, <1>4, <1>5, <1>7, <1>13, <1>15, <1>16, <2>1, <2>2, <2>3, AddBacked
<1> HIDE DEF v
<1>19. Kept(v, g, its, floor)
  <2>1. SUFFICES ASSUME NEW d \in Window(v), d > floor, At(v, d).rec = WalEmpty
                 PROVE  /\ g[d + 1].rec.type = "ItemUpdate"
                        /\ \A j \in Keys : g[d + 1].rec = WalItemUpdate(j) => its[j].counter # d
    BY DEF Kept
  <2>2. d # n /\ d \in Window(wal)
    BY <1>7, <1>17, <2>1
  <2>3. d \in Nat /\ d < n /\ g[d + 1] = hist[d + 1]
    BY <1>1, <1>12, <2>2, WindowOf DEF n
  <2>4. CASE items[k] # NoLsn /\ d = items[k].counter
    <3>1. g[d + 1].rec = rec
      BY <1>4, <2>3, <2>4
    <3>2. \A j \in Keys : g[d + 1].rec = WalItemUpdate(j) => j = k
      BY <3>1, RecordOf DEF rec
    <3> QED BY <1>5, <1>7, <1>10, <2>2, <3>1, <3>2
  <2>5. CASE At(v, d) = At(wal, d)
    <3>1. /\ hist[d + 1].rec.type = "ItemUpdate"
          /\ \A j \in Keys : hist[d + 1].rec = WalItemUpdate(j) => items[j].counter # d
      BY <1>13, <2>1, <2>2, <2>5 DEF Kept
    <3> QED BY <1>5, <1>10, <2>2, <2>3, <3>1
  <2> QED BY <1>17, <2>1, <2>2, <2>4, <2>5
<1>20. Top(v, its)
  <2>1. its[k] # NoLsn /\ its[k].counter = v.counter - 1
    BY <1>2, <1>5, <1>10, <1>17
  <2> QED BY <2>1 DEF Top, EndFound
<1>21. floor <= v.counter /\ resized <= v.counter
  BY <1>2, <1>13, <1>17
<1> QED BY <1>3, <1>6, <1>13, <1>14, <1>17, <1>18, <1>19, <1>20, <1>21 DEF LogInv

\* So does removing items.
LEMMA LogRemove ==
    ASSUME LogInv, NEW K \in SUBSET Present(items), NEW s \in Servers, NEW rec \in Records,
           rec.type # "ItemUpdate", rec # WalEmpty, rec.keys \cap Present(items) \subseteq K,
           K \subseteq rec.keys,
           NEW old, old = NoLsn \/ \E k \in K : old = items[k],
           wal' = Add(SetRecords(wal, {Blanking(k) : k \in K}, FALSE), rec, Origin(s), old),
           Logged(rec, s, Without(K))
    PROVE  LogInv'
<1> DEFINE n == wal.counter
           l == lsn_t(n, s)
           its == Without(K)
           x == [server |-> s, rec |-> rec, items |-> its]
           g == Append(hist, x)
           batch == {Blanking(k) : k \in K}
           w == SetRecords(wal, batch, FALSE)
           v == AddAt(w, rec, l, old)
<1>1. /\ WalInv /\ hist \in Seq(Past) /\ Len(hist) = n /\ Agrees(wal, hist)
      /\ ItemsTrue(items, hist, n) /\ Shaped(wal)
  BY DEF LogInv, WalInv, Agrees
<1>2. n \in Nat
  BY <1>1, WalFields DEF Shaped
<1>3. WalInv'
  BY <1>1, WalRemove, Zenon
<1>4. \A k \in K : /\ k \in Keys /\ items[k] # NoLsn
                   /\ items[k] \in Lsns /\ items[k].counter \in Nat /\ items[k].counter < n
                   /\ hist[items[k].counter + 1].rec = WalItemUpdate(k)
  BY <1>1 DEF ItemsTrue, Present
<1>5. \A b \in batch : /\ b.lsn \in Lsns /\ b.lsn.counter \in Nat /\ b.rec = WalEmpty
                       /\ \E k \in K : b.lsn = items[k]
  BY <1>4 DEF Blanking
<1>6. /\ Agrees(w, hist) /\ Shaped(w) /\ Window(w) = Window(wal) /\ w.counter = n
      /\ w.walSize = wal.walSize /\ w.stored = wal.stored
      /\ \A c \in Window(wal) : \/ \E b \in batch : b.lsn.counter = c
                                \/ At(w, c) = At(wal, c)
  <2> HIDE DEF batch
  <2>1. \A b \in batch : b.lsn \in Lsns /\ b.lsn.counter \in Nat /\ b.rec = WalEmpty
    BY <1>5
  <2>2. /\ Agrees(w, hist) /\ Window(w) = Window(wal) /\ w.counter = n
        /\ w.walSize = wal.walSize /\ w.stored = wal.stored
        /\ \A c \in Window(wal) :
             IF \E b \in batch : b.lsn.counter = c /\ At(wal, c).server = b.lsn.server
             THEN At(w, c).rec = WalEmpty
             ELSE At(w, c) = At(wal, c)
    BY <1>1, <2>1, SettingEmpty DEF n
  <2> HIDE DEF w
  <2> QED BY <2>2 DEF Agrees
<1>7. \A c \in Window(wal) : \/ \E k \in K : items[k].counter = c
                             \/ At(w, c) = At(wal, c)
  BY <1>5, <1>6
<1> HIDE DEF w
<1>8. /\ Add(w, rec, Origin(s), old) = v
      /\ l \in Lsns /\ l.counter = n /\ l.server = s
  BY <1>1, <1>6, OriginIs
<1>9. /\ wal' = v /\ items' = its /\ hist' = g /\ floor' = floor /\ resized' = resized
  BY <1>8 DEF Logged, w
<1>10. its \in [Keys -> Lsns] /\ \A j \in Keys : its[j] = IF j \in K THEN NoLsn ELSE items[j]
  BY <1>1, NoLsnIs DEF Without, ItemsTrue
<1> HIDE DEF its, l
<1>11. x \in Past /\ x.server = s /\ x.rec = rec /\ x.items = its
  BY <1>10 DEF Past
<1> HIDE DEF x, n
<1>12. /\ g[n + 1] = x /\ \A c \in Nat : c < n => g[c + 1] = hist[c + 1]
       /\ Extends(hist, g, n)
  BY <1>1, <1>2, <1>11, OneMore
<1>13. floor \in Nat /\ floor <= n /\ resized \in Nat /\ resized <= n /\ HistItems(hist, items, n, floor)
       /\ Kept(wal, hist, items, floor) /\ Backed(wal, hist, resized)
  BY DEF LogInv, n
<1>14. HistItems(g, its, n + 1, floor)
  <2>1. \A j \in Keys : its[j] = IF j \in x.rec.keys
                                 THEN IF x.rec.type = "ItemUpdate" THEN lsn_t(n, x.server) ELSE NoLsn
                                 ELSE items[j]
    <3>1. \A j \in Keys : j \in rec.keys /\ j \notin K => items[j] = NoLsn
      BY DEF Present
    <3> QED BY <1>10, <1>11, <3>1
  <2> QED BY <1>1, <1>2, <1>11, <1>13, <2>1, HistGrows
<1> HIDE DEF g
<1>15. l.counter = w.counter /\ l.counter \in Nat
  BY <1>2, <1>6, <1>8
<1>16. old \in Lsns /\ (old # NoLsn => old.counter \in Nat /\ old.counter < l.counter)
       /\ (old # NoLsn => \E k \in K : items[k].counter = old.counter)
  BY <1>4, <1>8, NoLsnIs
<1>17. /\ v.counter = n + 1
       /\ At(v, n).rec = rec
       /\ \A c \in Window(v) : c # n =>
            /\ c \in Window(w)
            /\ \/ old # NoLsn /\ c = old.counter
               \/ At(v, c) = At(w, c)
  BY <1>6, <1>8, <1>15, <1>16, Adding
<1>18. ToStorage(rec)
  BY DEF ToStorage
<1>19. Backed(v, g, resized)
  <2>1. Extends(hist, g, w.counter)
    BY <1>6, <1>12
  <2>2. w.counter = 0 => resized = l.counter
    BY <1>6, <1>13, <1>15
  <2>3. Backed(w, hist, resized)
    BY <1>6, <1>13 DEF Backed, Backing, n
  <2> QED BY <1>6, <1>8, <1>13, <1>15, <1>16, <1>18, <2>1, <2>2, <2>3, AddBacked
<1>20. \E e \in v.stored : e.lsn = l
  <2>1. ToStorage(rec) => \E e \in AddAt(w, rec, l, old).stored :
                             e.lsn = l /\ e.pos = l.counter % w.walSize
    BY <1>6, <1>8, <1>15, <1>16, AddingStored
  <2> QED BY <1>18, <2>1
<1> HIDE DEF v
<1>21. Kept(v, g, its, floor)
  <2>1. SUFFICES ASSUME NEW d \in Window(v), d > floor, At(v, d).rec = WalEmpty
                 PROVE  /\ g[d + 1].rec.type = "ItemUpdate"
                        /\ \A j \in Keys : g[d + 1].rec = WalItemUpdate(j) => its[j].counter # d
    BY DEF Kept
  <2>2. d # n /\ d \in Window(wal)
    BY <1>6, <1>17, <2>1
  <2>3. d \in Nat /\ d < n /\ g[d + 1] = hist[d + 1]
    BY <1>1, <1>12, <2>2, WindowOf DEF n
  <2>4. ASSUME NEW k \in K, items[k].counter = d
        PROVE  /\ g[d + 1].rec.type = "ItemUpdate"
               /\ \A j \in Keys : g[d + 1].rec = WalItemUpdate(j) => its[j].counter # d
    <3>1. g[d + 1].rec = WalItemUpdate(k) /\ k \in Keys
      BY <1>4, <2>3, <2>4
    <3>2. g[d + 1].rec.type = "ItemUpdate" /\ \A j \in Keys : g[d + 1].rec = WalItemUpdate(j) => j = k
      BY <3>1, RecordOf
    <3> QED BY <1>10, <2>3, <3>1, <3>2, NoLsnIs
  <2>5. CASE At(v, d) = At(wal, d)
    <3>1. /\ hist[d + 1].rec.type = "ItemUpdate"
          /\ \A j \in Keys : hist[d + 1].rec = WalItemUpdate(j) => items[j].counter # d
      BY <1>13, <2>1, <2>2, <2>5 DEF Kept
    <3> QED BY <1>10, <2>3, <3>1, NoLsnIs
  <2> QED BY <1>7, <1>16, <1>17, <2>1, <2>2, <2>4, <2>5
<1>22. Top(v, its)
  BY <1>2, <1>8, <1>17, <1>20 DEF Top, EndFound
<1>23. floor <= v.counter /\ resized <= v.counter
  BY <1>2, <1>13, <1>17
<1> QED BY <1>3, <1>9, <1>13, <1>14, <1>17, <1>19, <1>21, <1>22, <1>23 DEF LogInv

\* Deleting one item.
LEMMA LogDelete ==
    ASSUME LogInv, NEW k \in Keys, NEW s \in Servers, DeleteItem(k, s)
    PROVE  LogInv'
<1> DEFINE K == {k}
<1>1. items[k] # NoLsn /\ items \in [Keys -> Lsns]
  BY DEF DeleteItem, LogInv, WalInv, ItemsTrue
<1>2. K \in SUBSET Present(items)
  BY <1>1 DEF Present
<1>3. Without(K) = [items EXCEPT ![k] = NoLsn]
  BY <1>1 DEF Without
<1>4. {Blanking(j) : j \in K} = {Blanking(k)}
  OBVIOUS
<1>5. /\ wal' = Add(SetRecords(wal, {Blanking(j) : j \in K}, FALSE), WalItemDelete(k), Origin(s), items[k])
      /\ Logged(WalItemDelete(k), s, Without(K))
  BY <1>3, <1>4 DEF DeleteItem
<1>6. \E j \in K : items[k] = items[j]
  OBVIOUS
<1>7. /\ WalItemDelete(k) \in Records /\ WalItemDelete(k).type # "ItemUpdate"
      /\ WalItemDelete(k) # WalEmpty /\ WalItemDelete(k).keys = K
  BY RecordOf
<1> HIDE DEF K
<1>8. WalItemDelete(k).keys \cap Present(items) \subseteq K /\ K \subseteq WalItemDelete(k).keys
  BY <1>7
<1> QED BY <1>2, <1>5, <1>6, <1>7, <1>8, LogRemove, Zenon

\* Deleting all of them.
LEMMA LogTruncated ==
    ASSUME LogInv, NEW s \in Servers, Truncate(s)
    PROVE  LogInv'
<1> DEFINE K == Present(items)
<1>1. items \in [Keys -> Lsns]
  BY DEF LogInv, WalInv, ItemsTrue
<1>2. Without(K) = NoItems
  BY <1>1 DEF Without, Present, NoItems
<1>3. /\ wal' = Add(SetRecords(wal, {Blanking(j) : j \in K}, FALSE), WalTruncate, Origin(s), NoLsn)
      /\ Logged(WalTruncate, s, Without(K))
  BY <1>2 DEF Truncate
<1>4. K \in SUBSET Present(items)
  OBVIOUS
<1>5. WalTruncate \in Records /\ WalTruncate.type # "ItemUpdate" /\ WalTruncate # WalEmpty
      /\ WalTruncate.keys = Keys
  BY RecordOf
<1>6. WalTruncate.keys \cap Present(items) \subseteq K /\ K \subseteq WalTruncate.keys
  BY <1>5 DEF Present
<1> HIDE DEF K
<1> QED BY <1>3, <1>4, <1>5, <1>6, LogRemove, Zenon

\* Flushing the storage keeps the log complete.
LEMMA LogFlush ==
    ASSUME LogInv, Flush
    PROVE  LogInv'
<1>1. WalInv'
  BY WalFlush DEF LogInv
<1> QED BY <1>1 DEF LogInv, Flush

\* A change of capacity keeps it complete down to the oldest LSN left.
LEMMA LogResize ==
    ASSUME LogInv, NEW sz \in WalSizes, Resize(sz)
    PROVE  LogInv'
<1> DEFINE v == ResizeTo(wal, sz)
<1>1. WalInv'
  BY WalResize DEF LogInv
<1>2. sz \in Nat /\ sz > 0
  <2>1. sz \in Nat \ {0}
    BY WalAssumption DEF WalAssumption
  <2> QED BY <2>1
<1>3. Agrees(wal, hist) /\ wal.counter \in Nat
  BY WalFields DEF LogInv, WalInv, Agrees, Shaped
<1>4. /\ v.counter = wal.counter /\ v.stored = wal.stored
      /\ Window(v) \subseteq Window(wal)
      /\ \A c \in Window(v) : At(v, c) = At(wal, c)
  BY <1>2, <1>3, Resizing
<1>5. wal' = v /\ resized' = wal.counter /\ UNCHANGED <<items, disk, hist, floor>>
  BY DEF Resize
<1> HIDE DEF v
<1>6. Kept(v, hist, items, floor)
  BY <1>4 DEF LogInv, Kept
<1>7. Backed(v, hist, wal.counter)
  BY <1>3, <1>4 DEF Backed
<1>8. Top(v, items)
  BY <1>4 DEF LogInv, Top, EndFound
<1> QED BY <1>1, <1>3, <1>4, <1>5, <1>6, <1>7, <1>8 DEF LogInv

\* A force sync keeps it complete from its first record on.
LEMMA LogForceSync ==
    ASSUME LogInv, NEW n, ForceSync(n)
    PROVE  LogInv'
<1> DEFINE first == wal.counter - n
           v == Relogged(first, n)
           fl == Max({floor, first})
<1>1. WalInv /\ WalInv'
  BY WalForceSync DEF LogInv
<1>2. wal.counter \in Nat /\ n \in 1 .. wal.counter
  BY <1>1, WalFields DEF WalInv, Agrees, Shaped, ForceSync
<1>3. first \in Nat /\ n \in Nat /\ first + n = wal.counter /\ n # 0 /\ first <= wal.counter
  BY <1>2
<1>4. wal' = v /\ items' = items /\ hist' = hist /\ floor' = fl /\ resized' = first
  BY DEF ForceSync
<1>5. floor \in Nat /\ floor <= wal.counter
  BY DEF LogInv
<1>6. fl \in Nat /\ fl <= wal.counter /\ floor <= fl
  <2>1. fl = IF floor >= first THEN floor ELSE first
    BY <1>3, <1>5, MaxOfTwo
  <2> HIDE DEF fl, first
  <2> QED BY <1>3, <1>5, <2>1
<1> HIDE DEF first, fl
<1>7. Replaying(v, first, n)
  BY <1>1, <1>3, RelogEnds
<1> HIDE DEF v
<1>8. /\ Agrees(v, hist) /\ Shaped(v) /\ v.counter = wal.counter /\ Backed(v, hist, first)
      /\ \A c \in Window(v) : At(v, c).rec = Shallow(c)
      /\ ToStorage(Shallow(v.counter - 1)) => \E e \in v.stored : e.lsn.counter = v.counter - 1
  BY <1>2, <1>3, <1>7 DEF Replaying, Agrees
<1>9. HistItems(hist, items, v.counter, fl)
  <2>1. HistItems(hist, items, wal.counter, floor)
    BY DEF LogInv
  <2> QED BY <1>5, <1>6, <1>8, <2>1 DEF HistItems
<1>10. Kept(v, hist, items, fl)
  <2>1. SUFFICES ASSUME NEW d \in Window(v), At(v, d).rec = WalEmpty
                 PROVE  /\ hist[d + 1].rec.type = "ItemUpdate"
                        /\ \A k \in Keys : hist[d + 1].rec = WalItemUpdate(k) => items[k].counter # d
    BY DEF Kept
  <2>2. d \in Nat /\ d < wal.counter
    BY <1>8, WindowOf
  <2>3. Shallow(d) = WalEmpty /\ hist[d + 1] \in Past
    BY <1>1, <1>8, <2>1, <2>2, ShallowIs
  <2>4. /\ hist[d + 1].rec.type = "ItemUpdate"
        /\ \A k \in hist[d + 1].rec.keys : items[k].counter # d
    BY <2>3 DEF Shallow, Past
  <2> QED BY <2>4, RecordOf
<1>11. Top(v, items)
  <2> DEFINE c == v.counter - 1
  <2>1. c \in Nat /\ c < wal.counter
    BY <1>2, <1>8
  <2>2. CASE ToStorage(Shallow(c))
    BY <1>8, <2>2 DEF Top, EndFound
  <2>3. CASE ~ ToStorage(Shallow(c))
    <3>1. PICK k \in Keys : Shallow(c) = WalItemUpdate(k)
      BY <1>1, <2>1, <2>3, ShallowIs, RecordOf DEF ToStorage
    <3>2. items[k].counter = c
      BY <1>1, <2>1, <3>1, ShallowIs
    <3>3. items[k] # NoLsn
      BY <2>1, <3>2, NoLsnIs
    <3> QED BY <3>2, <3>3 DEF Top, EndFound
  <2> QED BY <2>2, <2>3
<1> QED BY <1>1, <1>3, <1>4, <1>6, <1>8, <1>9, <1>10, <1>11 DEF LogInv

\* What a start leaves of the history.
LEMMA CutHist ==
    ASSUME WalInv, NEW loaded, ItemsTrue(loaded, hist, wal.counter), Restart(loaded)
    PROVE  /\ wal' = InitWal(wal, loaded) /\ items' = loaded
           /\ wal'.counter = Max(Found(wal, loaded)) + 1
           /\ wal'.counter \in Nat /\ wal'.counter <= wal.counter
           /\ \A c \in Nat : c < wal'.counter =>
                /\ hist'[c + 1].rec = hist[c + 1].rec /\ hist'[c + 1].server = hist[c + 1].server
                /\ hist'[c + 1].items = IF c + 1 = wal'.counter THEN loaded ELSE hist[c + 1].items
           /\ floor' = (IF loaded = items THEN Max({floor, resized}) ELSE wal'.counter)
           /\ resized' = Min({resized, wal'.counter})
<1> DEFINE v == InitWal(wal, loaded)
           m == v.counter
           n == wal.counter
           g == [c \in 1 .. m |-> IF c = m THEN [hist[c] EXCEPT !.items = loaded] ELSE hist[c]]
<1>1. /\ hist \in Seq(Past) /\ Len(hist) = n /\ Agrees(wal, hist)
  BY DEF WalInv
<1>2. n \in Nat
  BY <1>1, WalFields DEF Agrees, Shaped
<1>3. /\ wal' = v /\ items' = loaded /\ hist' = g
      /\ floor' = (IF loaded = items THEN Max({floor, resized}) ELSE wal'.counter)
      /\ resized' = Min({resized, wal'.counter})
  BY Zenon DEF Restart
<1>4. m = Max(Found(wal, loaded)) + 1
  BY <1>1, Rebuilding
<1>5. /\ Max(Found(wal, loaded)) \in Int /\ Max(Found(wal, loaded)) >= -1
      /\ Max(Found(wal, loaded)) < n
  BY <1>1, FoundOf
<1> HIDE DEF v
<1>6. m \in Nat /\ m <= n
  BY <1>2, <1>4, <1>5
<1> HIDE DEF m
<1>7. \A c \in 1 .. m : /\ g[c].rec = hist[c].rec /\ g[c].server = hist[c].server
                        /\ g[c].items = IF c = m THEN loaded ELSE hist[c].items
  <2>1. SUFFICES ASSUME NEW c \in 1 .. m
                 PROVE  /\ g[c].rec = hist[c].rec /\ g[c].server = hist[c].server
                        /\ g[c].items = IF c = m THEN loaded ELSE hist[c].items
    OBVIOUS
  <2>2. c \in 1 .. Len(hist)
    BY <1>1, <1>2, <1>6
  <2>3. hist[c] \in Past
    BY <1>1, <2>2
  <2>4. /\ [hist[c] EXCEPT !.items = loaded].rec = hist[c].rec
        /\ [hist[c] EXCEPT !.items = loaded].server = hist[c].server
        /\ [hist[c] EXCEPT !.items = loaded].items = loaded
    BY <2>3 DEF Past
  <2>5. g[c] = IF c = m THEN [hist[c] EXCEPT !.items = loaded] ELSE hist[c]
    OBVIOUS
  <2> HIDE DEF g
  <2> QED BY <2>4, <2>5
<1> HIDE DEF g
<1>8. \A c \in Nat : c < m =>
        /\ g[c + 1].rec = hist[c + 1].rec /\ g[c + 1].server = hist[c + 1].server
        /\ g[c + 1].items = IF c + 1 = m THEN loaded ELSE hist[c + 1].items
  <2>1. SUFFICES ASSUME NEW c \in Nat, c < m
                 PROVE  /\ g[c + 1].rec = hist[c + 1].rec /\ g[c + 1].server = hist[c + 1].server
                        /\ g[c + 1].items = IF c + 1 = m THEN loaded ELSE hist[c + 1].items
    OBVIOUS
  <2>2. c + 1 \in 1 .. m
    BY <1>6, <2>1
  <2> QED BY <1>7, <2>2
<1>9. wal'.counter = m
  BY <1>3 DEF m
<1> QED BY <1>3, <1>4, <1>6, <1>8, <1>9 DEF v, m

\* The storage has the records that a start needs.
LEMMA BackedLater ==
    ASSUME NEW w, NEW v, NEW h, NEW g, NEW from \in Nat, NEW upto \in Nat, Backed(w, h, from),
           w.counter \in Nat, v.counter \in Nat, v.counter <= w.counter,
           v.walSize = w.walSize, v.stored = w.stored,
           upto = from \/ upto = v.counter,
           \A c \in Nat : c < v.counter => g[c + 1].rec = h[c + 1].rec
    PROVE  Backed(v, g, upto)
<1>1. SUFFICES ASSUME NEW d \in Nat, upto <= d, d < v.counter, g[d + 1].rec.type # "ItemUpdate"
               PROVE  \E e \in v.stored : Backing(e, v, d)
  BY DEF Backed
<1>2. upto = from /\ d < w.counter /\ h[d + 1].rec.type # "ItemUpdate"
  BY <1>1
<1>3. PICK e \in w.stored : Backing(e, w, d)
  BY <1>1, <1>2 DEF Backed
<1> QED BY <1>3 DEF Backing

\* A start after a close finds all that the log held from resized on.
LEMMA LogReopen ==
    ASSUME LogInv, Reopen
    PROVE  LogInv'
<1> DEFINE v == wal'
           g == hist'
           n == wal.counter
           fl == Max({floor, resized})
<1>1. /\ WalInv /\ Agrees(wal, hist) /\ ItemsTrue(items, hist, n) /\ Shaped(wal)
      /\ hist \in Seq(Past) /\ Len(hist) = n
  BY DEF LogInv, WalInv, Agrees
<1>2. n \in Nat
  BY <1>1, WalFields DEF Shaped
<1>3. WalInv'
  BY <1>1, WalReopen
<1>4. Restart(items)
  BY DEF Reopen
<1>5. /\ v = InitWal(wal, items) /\ items' = items
      /\ v.counter = Max(Found(wal, items)) + 1
      /\ v.counter \in Nat /\ v.counter <= n
      /\ \A c \in Nat : c < v.counter =>
           /\ g[c + 1].rec = hist[c + 1].rec /\ g[c + 1].server = hist[c + 1].server
           /\ g[c + 1].items = IF c + 1 = v.counter THEN items ELSE hist[c + 1].items
      /\ floor' = fl
      /\ resized' = Min({resized, v.counter})
  BY <1>1, <1>4, CutHist
<1>6. /\ floor \in Nat /\ floor <= n /\ resized \in Nat /\ resized <= n
      /\ HistItems(hist, items, n, floor) /\ Backed(wal, hist, resized) /\ Top(wal, items)
  BY DEF LogInv
<1> DEFINE top == Max(Found(wal, items))
<1>7. v.counter = n
  <2>1. /\ top \in Int
        /\ \A k \in Keys : items[k] # NoLsn => items[k].counter <= top
        /\ \A e \in wal.stored : e.lsn.counter <= top
    BY <1>1, FoundOf
  <2>2. v.counter = top + 1
    BY <1>5
  <2> HIDE DEF top, v
  <2>3. n > 0 => n - 1 <= top
    BY <1>6, <2>1 DEF Top, EndFound
  <2> QED BY <1>2, <1>5, <2>1, <2>2, <2>3
<1>8. /\ Shaped(v) /\ v.walSize = wal.walSize /\ v.stored = wal.stored
      /\ \A d \in Window(v) :
           \/ \E k \in Keys : /\ items[k] # NoLsn /\ items[k].counter = d
                              /\ At(v, d) = [server |-> items[k].server, rec |-> WalItemUpdate(k)]
           \/ /\ \A k \in Keys : items[k] # NoLsn => items[k].counter # d
              /\ \E e \in wal.stored : /\ e.lsn.counter = d
                                       /\ At(v, d) = [server |-> e.lsn.server, rec |-> e.rec]
           \/ /\ \A k \in Keys : items[k] # NoLsn => items[k].counter # d
              /\ \A e \in wal.stored : e.lsn.counter # d
  <2>1. v = InitWal(wal, items)
    BY <1>5
  <2> HIDE DEF v
  <2> QED BY <1>1, <2>1, Rebuilding
<1> HIDE DEF v, g, n, fl
<1>9. fl \in Nat /\ fl <= n /\ floor <= fl /\ resized <= fl
  <2>1. fl = IF floor >= resized THEN floor ELSE resized
    BY <1>6, MaxOfTwo DEF fl
  <2> QED BY <1>6, <2>1
<1>10. Min({resized, n}) = resized
  <2>1. Min({resized, n}) = IF resized <= n THEN resized ELSE n
    BY <1>2, <1>6, MinOfTwo
  <2> QED BY <1>6, <2>1
<1>11. HistItems(g, items, n, fl)
  <2>1. SUFFICES ASSUME NEW k \in Keys, NEW c \in Nat, fl <= c, c < n, Untouched(g, k, c, n)
                 PROVE  /\ g[c + 1].items[k] = items[k]
                        /\ fl < c /\ k \in g[c + 1].rec.keys =>
                             items[k] = IF g[c + 1].rec.type = "ItemUpdate"
                                        THEN lsn_t(c, g[c + 1].server) ELSE NoLsn
    BY DEF HistItems
  <2>2. Untouched(hist, k, c, n)
    BY <1>5, <1>7, <2>1 DEF Untouched
  <2>3. /\ hist[c + 1].items[k] = items[k]
        /\ floor < c /\ k \in hist[c + 1].rec.keys =>
             items[k] = IF hist[c + 1].rec.type = "ItemUpdate"
                        THEN lsn_t(c, hist[c + 1].server) ELSE NoLsn
    <3>1. floor <= c
      BY <1>6, <1>9, <2>1
    <3> QED BY <1>6, <2>1, <2>2, <3>1 DEF HistItems
  <2>4. fl < c => floor < c
    BY <1>6, <1>9
  <2> QED BY <1>5, <1>7, <2>1, <2>3, <2>4
<1>12. Kept(v, g, items, fl)
  <2>1. SUFFICES ASSUME NEW d \in Window(v), d > fl, At(v, d).rec = WalEmpty
                 PROVE  /\ g[d + 1].rec.type = "ItemUpdate"
                        /\ \A k \in Keys : g[d + 1].rec = WalItemUpdate(k) => items[k].counter # d
    BY DEF Kept
  <2>2. /\ d \in Nat /\ d < n /\ n - d <= RingSize(v) /\ RingSize(v) <= v.walSize
        /\ RingSize(v) \in Nat
    BY <1>7, <1>8, WindowOf
  <2>3. g[d + 1].rec = hist[d + 1].rec /\ hist[d + 1] \in Past
    <3>1. d + 1 \in 1 .. Len(hist)
      BY <1>1, <1>2, <2>2 DEF n
    <3> QED BY <1>1, <1>5, <1>7, <2>2, <3>1
  <2>4. \A k \in Keys : items[k] # NoLsn => items[k].counter # d
    BY <1>8, <2>1, RecordOf
  <2>5. \A k \in Keys : items[k].counter # d
    BY <2>2, <2>4, NoLsnIs
  <2>6. CASE \E e \in wal.stored : /\ e.lsn.counter = d
                                   /\ At(v, d) = [server |-> e.lsn.server, rec |-> e.rec]
    <3>1. PICK e \in wal.stored : /\ e.lsn.counter = d /\ e.rec = WalEmpty
      BY <2>1, <2>6
    <3>2. WalEmpty = Durable(hist[d + 1].rec)
      BY <1>1, <3>1 DEF Agrees, StoredTrue
    <3>3. hist[d + 1].rec.type = "ItemUpdate"
      BY <2>3, <3>2 DEF Durable, Past
    <3> QED BY <2>3, <2>5, <3>3
  <2>7. CASE \A e \in wal.stored : e.lsn.counter # d
    <3>1. SUFFICES ASSUME hist[d + 1].rec.type # "ItemUpdate" PROVE FALSE
      BY <2>3, <2>5
    <3>2. PICK e \in wal.stored : Backing(e, wal, d)
      <4>1. resized <= d
        BY <1>6, <1>9, <2>1, <2>2
      <4> QED BY <1>6, <2>2, <3>1, <4>1 DEF Backed, n
    <3>3. e.lsn.counter >= d + wal.walSize
      BY <2>7, <3>2 DEF Backing
    <3>4. e.lsn.counter \in Nat /\ e.lsn.counter < n /\ wal.walSize \in Nat
      BY <1>1, WalFields DEF Agrees, StoredTrue, Shaped, n
    <3> QED BY <1>2, <1>8, <2>2, <3>3, <3>4
  <2> QED BY <1>8, <2>1, <2>6, <2>7, RecordOf
<1>13. Backed(v, g, resized)
  <2>1. \A c \in Nat : c < v.counter => g[c + 1].rec = hist[c + 1].rec
    BY <1>5
  <2>2. wal.counter \in Nat /\ v.counter \in Nat /\ v.counter <= wal.counter
    BY <1>2, <1>5 DEF n
  <2> QED BY <1>6, <1>8, <2>1, <2>2, BackedLater
<1>14. Top(v, items)
  BY <1>6, <1>7, <1>8 DEF Top, EndFound, n
<1>15. wal' = v /\ hist' = g /\ items' = items /\ floor' = fl /\ resized' = resized
  BY <1>5, <1>7, <1>10 DEF v, g, n
<1> QED BY <1>3, <1>6, <1>7, <1>9, <1>11, <1>12, <1>13, <1>14, <1>15 DEF LogInv

\* After a crash the log is complete from its end on.
LEMMA LogCrash ==
    ASSUME LogInv, Crash
    PROVE  LogInv'
<1> DEFINE v == wal'
           g == hist'
           m == v.counter
           low == Min({resized, m})
<1>1. /\ WalInv /\ Agrees(wal, hist) /\ ItemsTrue(disk, hist, wal.counter) /\ Shaped(wal)
  BY DEF LogInv, WalInv, Agrees
<1>2. wal.counter \in Nat
  BY <1>1, WalFields DEF Shaped
<1>3. WalInv'
  BY <1>1, WalCrash
<1>4. Restart(disk) /\ disk # items
  BY DEF Crash
<1>5. /\ v = InitWal(wal, disk) /\ items' = disk
      /\ m = Max(Found(wal, disk)) + 1 /\ m \in Nat /\ m <= wal.counter
      /\ \A c \in Nat : c < m => g[c + 1].rec = hist[c + 1].rec
      /\ floor' = m /\ resized' = low
  BY <1>1, <1>4, CutHist
<1>6. resized \in Nat /\ resized <= wal.counter /\ Backed(wal, hist, resized)
  BY DEF LogInv
<1>7. Shaped(v) /\ v.walSize = wal.walSize /\ v.stored = wal.stored
  <2>1. v = InitWal(wal, disk)
    BY <1>5
  <2> HIDE DEF v
  <2> QED BY <1>1, <2>1, Rebuilding
<1>8. low \in Nat /\ low <= m /\ (low = resized \/ low = m)
  <2>1. low = IF resized <= m THEN resized ELSE m
    BY <1>5, <1>6, MinOfTwo
  <2> HIDE DEF low, m
  <2> QED BY <1>5, <1>6, <2>1
<1> DEFINE top == Max(Found(wal, disk))
<1>9. Top(v, disk)
  <2>1. /\ top \in Int
        /\ top >= 0 =>
             \/ \E k \in Keys : disk[k] # NoLsn /\ disk[k].counter = top
             \/ \E e \in wal.stored : e.lsn.counter = top
    BY <1>1, FoundOf
  <2>2. m = top + 1
    BY <1>5
  <2> HIDE DEF top
  <2>3. m > 0 => top >= 0 /\ top = m - 1
    BY <2>1, <2>2
  <2> QED BY <1>7, <2>1, <2>3 DEF Top, EndFound
<1> HIDE DEF v, g, low
<1>10. HistItems(g, disk, m, m)
  <2>1. \A c \in Nat : ~ (m <= c /\ c < m)
    BY <1>5
  <2> QED BY <2>1 DEF HistItems
<1>11. Kept(v, g, disk, m)
  <2>1. \A d \in Window(v) : d \in Nat /\ d < m
    BY <1>7, WindowOf
  <2>2. \A d \in Window(v) : ~ (d > m)
    BY <1>5, <2>1
  <2> QED BY <2>2 DEF Kept
<1>12. Backed(v, g, low)
  <2>1. low = resized \/ low = v.counter
    BY <1>8
  <2>2. \A c \in Nat : c < v.counter => g[c + 1].rec = hist[c + 1].rec
    BY <1>5
  <2> HIDE DEF m
  <2>3. v.counter \in Nat /\ v.counter <= wal.counter
    BY <1>5 DEF m
  <2> QED BY <1>2, <1>6, <1>7, <1>8, <2>1, <2>2, <2>3, BackedLater
<1>13. wal' = v /\ hist' = g /\ items' = disk /\ floor' = m /\ resized' = low
  BY <1>5 DEF v, g, m
<1>14. m <= m
  BY <1>5
<1> QED BY <1>3, <1>5, <1>8, <1>9, <1>10, <1>11, <1>12, <1>13, <1>14 DEF LogInv

\* Every step keeps the log complete.
LEMMA LogStep == LogInv /\ [Next]_vars => LogInv'
<1> SUFFICES ASSUME LogInv, [Next]_vars PROVE LogInv'
  OBVIOUS
<1>1. ASSUME NEW k \in Keys, NEW s \in Servers, ModifyItem(k, s) PROVE LogInv'
  BY <1>1, LogModify
<1>2. ASSUME NEW k \in Keys, NEW s \in Servers, DeleteItem(k, s) PROVE LogInv'
  BY <1>2, LogDelete
<1>3. ASSUME NEW s \in Servers, Truncate(s) PROVE LogInv'
  BY <1>3, LogTruncated
<1>4. CASE Flush
  BY <1>4, LogFlush
<1>5. ASSUME NEW sz \in WalSizes, Resize(sz) PROVE LogInv'
  BY <1>5, LogResize
<1>6. ASSUME NEW n \in 1 .. MaxLsn, ForceSync(n) PROVE LogInv'
  BY <1>6, LogForceSync
<1>7. CASE Reopen
  BY <1>7, LogReopen
<1>8. CASE Crash
  BY <1>8, LogCrash
<1>9. CASE UNCHANGED vars
  <2>1. WalInv'
    BY <1>9, WalStep DEF LogInv
  <2> QED BY <1>9, <2>1 DEF vars, LogInv
<1> QED BY <1>1, <1>2, <1>3, <1>4, <1>5, <1>6, <1>7, <1>8, <1>9 DEF Next

(* What the log needs to be complete: above floor a slot is blank only if  *)
(* its update is outdated, what a restart reads back is in the storage     *)
(* unless a newer record has its position, and a restart finds the last    *)
(* LSN.                                                                    *)
THEOREM LogInvariant == Spec => []LogInv
<1>1. Init => LogInv
  BY LogInit
<1>2. LogInv /\ [Next]_vars => LogInv'
  BY LogStep
<1> QED BY <1>1, <1>2, PTL DEF Spec

\* The replayed record of an item is its newest one.
LEMMA ReplayedIs ==
    ASSUME LogInv, NEW c \in Nat, floor <= c, c < wal.counter,
           \A d \in Nat : c < d /\ d < wal.counter => d \in Window(wal),
           NEW k \in Keys
    PROVE  Replayed(c)[k] = items[k]
<1> DEFINE n == wal.counter
           about == {d \in c + 1 .. n - 1 : k \in Slot(d).rec.keys}
           touched == {d \in c + 1 .. n - 1 : k \in hist[d + 1].rec.keys}
<1>1. /\ hist \in Seq(Past) /\ Len(hist) = n /\ Shaped(wal) /\ SlotsTrue(wal, hist)
      /\ floor \in Nat /\ HistItems(hist, items, n, floor) /\ Kept(wal, hist, items, floor)
  BY DEF LogInv, WalInv, Agrees
<1>2. n \in Nat
  BY <1>1, WalFields DEF Shaped
<1>3. \A d \in c + 1 .. n - 1 : /\ d \in Nat /\ c < d /\ d < n /\ d \in Window(wal)
                                /\ Slot(d) = At(wal, d)
                                /\ Slot(d).rec \in {hist[d + 1].rec, WalEmpty}
                                /\ hist[d + 1].rec \in Records
  <2>1. SUFFICES ASSUME NEW d \in c + 1 .. n - 1
                 PROVE  /\ d \in Nat /\ c < d /\ d < n /\ d \in Window(wal)
                        /\ Slot(d) = At(wal, d)
                        /\ Slot(d).rec \in {hist[d + 1].rec, WalEmpty}
                        /\ hist[d + 1].rec \in Records
    OBVIOUS
  <2>2. d \in Nat /\ c < d /\ d < n /\ d \in Window(wal)
    BY <1>2
  <2>3. Slot(d) = At(wal, d)
    BY DEF Slot, At
  <2>4. At(wal, d).rec \in {hist[d + 1].rec, WalEmpty}
    BY <1>1, <2>2 DEF SlotsTrue
  <2>5. hist[d + 1] \in Past
    <3>1. d + 1 \in 1 .. Len(hist)
      BY <1>1, <1>2, <2>2
    <3> QED BY <1>1, <3>1
  <2> QED BY <2>2, <2>3, <2>4, <2>5 DEF Past
<1>4. Replayed(c)[k] = IF about = {} THEN hist[c + 1].items[k]
                       ELSE IF Slot(Max(about)).rec.type = "ItemUpdate" THEN items[k] ELSE NoLsn
  BY DEF Replayed
<1> HIDE DEF n
<1>5. about \subseteq touched
  BY <1>3, RecordOf
<1>6. \A d \in Nat : c < d /\ d < n => d \in c + 1 .. n - 1
  BY <1>2
<1>7. CASE touched = {}
  <2>1. about = {}
    BY <1>5, <1>7
  <2>2. Untouched(hist, k, c, n)
    BY <1>6, <1>7 DEF Untouched
  <2>3. hist[c + 1].items[k] = items[k]
    BY <1>1, <2>2 DEF HistItems, n
  <2> HIDE DEF about
  <2> QED BY <1>4, <2>1, <2>3
<1>8. CASE touched # {}
  <2> DEFINE D == Max(touched)
  <2>1. touched \in SUBSET Int /\ about \in SUBSET Int
    OBVIOUS
  <2>2. D \in touched /\ \A y \in touched : D >= y
    <3>1. \A y \in touched : y < n
      BY <1>3
    <3>2. n \in Int
      BY <1>2
    <3> HIDE DEF touched
    <3> QED BY <1>8, <2>1, <3>1, <3>2, MaxOf, Zenon
  <2> HIDE DEF D
  <2>3. D \in c + 1 .. n - 1 /\ k \in hist[D + 1].rec.keys /\ D \in Nat
    BY <1>3, <2>2
  <2>4. Untouched(hist, k, D, n)
    <3>1. SUFFICES ASSUME NEW d \in Nat, D < d, d < n, k \in hist[d + 1].rec.keys PROVE FALSE
      BY DEF Untouched
    <3>2. d \in touched
      BY <1>3, <1>6, <2>3, <3>1
    <3> QED BY <2>2, <2>3, <3>1, <3>2
  <2>5. floor <= D /\ floor < D /\ D < n
    BY <1>1, <1>3, <2>3
  <2>6. items[k] = IF hist[D + 1].rec.type = "ItemUpdate" THEN lsn_t(D, hist[D + 1].server) ELSE NoLsn
    BY <1>1, <2>3, <2>4, <2>5 DEF HistItems
  <2>7. Slot(D).rec = hist[D + 1].rec
    <3>1. SUFFICES ASSUME Slot(D).rec = WalEmpty PROVE FALSE
      BY <1>3, <2>3
    <3>2. /\ hist[D + 1].rec.type = "ItemUpdate"
          /\ \A j \in Keys : hist[D + 1].rec = WalItemUpdate(j) => items[j].counter # D
      BY <1>1, <1>3, <2>3, <2>5, <3>1 DEF Kept
    <3>3. hist[D + 1].rec = WalItemUpdate(k)
      <4>1. PICK j \in Keys : hist[D + 1].rec = WalItemUpdate(j)
        BY <1>3, <2>3, <3>2, RecordOf
      <4> QED BY <2>3, <4>1, RecordOf
    <3>4. items[k].counter = D
      BY <2>6, <3>2 DEF lsn_t
    <3> QED BY <3>2, <3>3, <3>4
  <2>8. D \in about
    BY <2>3, <2>7
  <2>9. Max(about) = D
    <3>1. \A y \in about : D >= y
      BY <1>5, <2>2
    <3>2. \A y \in about : y < n
      BY <1>3
    <3>3. Max(about) \in about /\ \A y \in about : Max(about) >= y
      <4>1. n \in Int
        BY <1>2
      <4> HIDE DEF about
      <4>2. about # {}
        BY <2>8
      <4> QED BY <2>1, <3>2, <4>1, <4>2, MaxOf, Zenon
    <3>4. Max(about) \in Int /\ D >= Max(about) /\ Max(about) >= D
      <4> HIDE DEF about
      <4> QED BY <2>1, <2>8, <3>1, <3>3
    <3> HIDE DEF about
    <3> QED BY <2>3, <3>4
  <2>10. about # {}
    BY <2>8
  <2> HIDE DEF about
  <2> QED BY <1>4, <2>6, <2>7, <2>9, <2>10
<1> QED BY <1>7, <1>8

(* The records above any LSN that is_outdated() does not refuse turn the   *)
(* items of that LSN into the items of now, down to the LSN from which a   *)
(* crash, a resize with a restart or a force sync took records away.       *)
THEOREM CompleteReplay == Spec => []CompleteLog
<1>1. LogInv => CompleteLog
  <2>1. SUFFICES ASSUME LogInv, NEW c \in floor .. wal.counter - 1, ~ Outdated(c)
                 PROVE  Replayed(c) = items
    BY DEF CompleteLog
  <2>2. /\ WalInv /\ Shaped(wal) /\ floor \in Nat /\ items \in [Keys -> Lsns]
    BY <2>1 DEF LogInv, WalInv, Agrees, ItemsTrue
  <2>3. wal.counter \in Nat
    BY <2>2, WalFields DEF Shaped
  <2>4. c \in Nat /\ floor <= c /\ c < wal.counter
    BY <2>2, <2>3
  <2>5. \A d \in Nat : c < d /\ d < wal.counter => d \in Window(wal)
    <3>1. SUFFICES ASSUME NEW d \in Nat, c < d, d < wal.counter PROVE d \in Window(wal)
      OBVIOUS
    <3>2. Available(wal, lsn_t(c, hist[c + 1].server), FALSE)
      <4>1. wal.counter # c + 1
        BY <2>3, <2>4, <3>1
      <4> QED BY <2>1, <4>1, Zenon DEF Outdated
    <3>3. wal.counter - c <= RingSize(wal)
      BY <3>2 DEF Available, lsn_t
    <3>4. RingSize(wal) \in Nat
      BY <2>2, WindowOf
    <3> QED BY <2>2, <2>3, <2>4, <3>1, <3>3, <3>4, WindowOf
  <2>6. \A k \in Keys : Replayed(c)[k] = items[k]
    BY <2>1, <2>4, <2>5, ReplayedIs
  <2>7. Replayed(c) = [k \in Keys |-> Replayed(c)[k]]
    BY DEF Replayed
  <2>8. items = [k \in Keys |-> items[k]]
    BY <2>2
  <2> QED BY <2>6, <2>7, <2>8
<1> QED BY <1>1, LogInvariant, PTL
=============================================================================
