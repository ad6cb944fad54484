--------------------------- MODULE StreamsProofs ----------------------------
(***************************************************************************)
(* Proofs about Streams, for any clients and commands: IDs increase, a     *)
(* group skips no entry and hands none out twice, what leaves the pending  *)
(* list was acknowledged or dropped on purpose, and XREAD sleeps over no   *)
(* entry.                                                                  *)
(***************************************************************************)
EXTENDS Streams, FiniteSetTheorems, WellFoundedInduction, TLAPS

\* Most leaves are first-order: Zenon proves them.  The others name SMT.
USE ZenonT(30)

-----------------------------------------------------------------------------
(* IDs and their order.                                                    *)

LEMMA LeastOf ==
  ASSUME NEW S \in SUBSET Nat, S # {}
  PROVE  \E h \in S : \A k \in S : h <= k
<1>1. PICK h \in S : \A k \in S : ~(<<k, h>> \in OpToRel(<, Nat))
  BY NatLessThanWellFounded, WFMin
<1>2. \A k \in S : ~(k < h)
  BY <1>1 DEF OpToRel
<1> QED
  BY <1>2, SMTT(30)

LEMMA WordIs == \A n \in Word64 : n \in Nat /\ n <= MaxWord /\ MaxWord \in Nat /\ MaxWord > 0
  BY WordAssumption, SMTT(30) DEF Word64

LEMMA GreatestWord ==
  ASSUME NEW S \in SUBSET Word64, S # {}
  PROVE  \E h \in S : \A k \in S : k <= h
<1> DEFINE T == {MaxWord - k : k \in S}
<1>1. \A k \in S : MaxWord - k \in Nat
  BY WordIs, SMTT(30)
<1>2. T \in SUBSET Nat /\ T # {}
  BY <1>1
<1>3. PICK m \in T : \A j \in T : m <= j
  BY <1>2, LeastOf
<1>4. PICK h \in S : m = MaxWord - h
  BY <1>3
<1>5. \A k \in S : MaxWord - h <= MaxWord - k
  BY <1>3, <1>4
<1> QED
  BY <1>5, WordIs, SMTT(30)

LEMMA IDIs ==
  /\ \A i \in ID : i[1] \in Word64 /\ i[2] \in Word64 /\ i = <<i[1], i[2]>>
  /\ \A m, n \in Word64 : <<m, n>> \in ID
  BY SMTT(30) DEF ID

LEMMA EndsAreIDs == ZeroID \in ID /\ MaxID \in ID
<1>1. 0 \in Word64 /\ MaxWord \in Word64
  BY WordAssumption, SMTT(30) DEF Word64
<1> QED
  BY <1>1 DEF ID, ZeroID, MaxID

LEMMA Irreflexive == \A i \in ID : ~less(i, i)
  BY IDIs, WordIs, SMTT(30) DEF less

LEMMA Total == \A i, j \in ID : i = j \/ less(i, j) \/ less(j, i)
<1>1. \A m, n \in Word64 : m = n \/ m < n \/ n < m
  BY WordIs, SMTT(30)
<1> QED
  BY <1>1, IDIs DEF less

LEMMA Transitive == \A i, j, k \in ID : less(i, j) /\ less(j, k) => less(i, k)
<1>1. \A l, m, n \in Word64 : (l < m /\ m < n => l < n) /\ (m < n => ~(n < m)) /\ ~(m < m)
  BY WordIs, SMTT(30)
<1> QED
  BY <1>1, IDIs DEF less

LEMMA LeqLess == \A i, j, k \in ID : (leq(i, j) /\ less(j, k) => less(i, k)) /\ (less(i, j) /\ leq(j, k) => less(i, k))
  BY Transitive DEF leq

LEMMA LeqLeq == \A i, j, k \in ID : leq(i, j) /\ leq(j, k) => leq(i, k)
  BY Transitive DEF leq

LEMMA NotLess == \A i, j \in ID : ~less(j, i) <=> leq(i, j)
  BY Total, Transitive, Irreflexive DEF leq

LEMMA Greatest ==
  ASSUME NEW S \in SUBSET ID, S # {}
  PROVE  \E h \in S : \A k \in S : leq(k, h)
<1> DEFINE A == {i[1] : i \in S}
<1>1. A \in SUBSET Word64 /\ A # {}
  BY IDIs
<1>2. PICK m \in A : \A k \in A : k <= m
  BY <1>1, GreatestWord
<1> DEFINE B == {i[2] : i \in {j \in S : j[1] = m}}
<1>3. B \in SUBSET Word64 /\ B # {}
  BY <1>2, IDIs
<1>4. PICK n \in B : \A k \in B : k <= n
  BY <1>3, GreatestWord
<1>5. PICK h \in S : h[1] = m /\ h[2] = n
  BY <1>4
<1>6. \A k \in S : k[1] <= m /\ (k[1] = m => k[2] <= n)
  BY <1>2, <1>4
<1>7. \A p, q \in Word64 : p <= q => p = q \/ p < q
  BY WordIs, SMTT(30)
<1>8. \A k \in S : leq(k, h)
  BY <1>1, <1>3, <1>5, <1>6, <1>7, IDIs DEF leq, less
<1> QED
  BY <1>8

LEMMA IDsFinite == \A S \in SUBSET ID : IsFiniteSet(S) /\ Cardinality(S) \in Nat
<1>1. IsFiniteSet(Word64)
  BY FS_Interval, WordAssumption, SMTT(30) DEF Word64
<1>2. IsFiniteSet(ID)
  BY <1>1, FS_Product DEF ID
<1> QED
  BY <1>2, FS_Subset, FS_CardinalityType

-----------------------------------------------------------------------------
(* Ranges.                                                                 *)

Sorts(q, S) == Range(q) = S /\ \A i, j \in DOMAIN q : i < j => less(q[i], q[j])

Sortable(S) == \E q \in [1..Cardinality(S) -> S] : Sorts(q, S)

\* The newest entry goes to the end of the others in order.
LEMMA SortNewest ==
  ASSUME NEW S \in SUBSET ID, NEW x \in S, \A k \in S : leq(k, x), Sortable(S \ {x})
  PROVE  Sortable(S)
<1> DEFINE n == Cardinality(S)
           R == S \ {x}
<1>1. n \in Nat \ {0} /\ Cardinality(R) = n - 1 /\ Cardinality(R) \in Nat
  <2>1. IsFiniteSet(S) /\ Cardinality(S) \in Nat /\ Cardinality(R) \in Nat
    BY IDsFinite
  <2>2. Cardinality(R) = Cardinality(S) - 1
    BY <2>1, FS_RemoveElement
  <2> QED
    BY <2>1, <2>2, SMTT(30)
<1>2. PICK q \in [1..Cardinality(R) -> R] : Sorts(q, R)
  BY DEF Sortable
<1> HIDE DEF n
<1> DEFINE p == [i \in 1..n |-> IF i = n THEN x ELSE q[i]]
<1>3. DOMAIN q = 1..(n - 1) /\ \A i \in 1..(n - 1) : q[i] \in R
  BY <1>1, <1>2
<1>4. \A i \in 1..n : i = n \/ i \in 1..(n - 1)
  BY <1>1, SMTT(30)
<1>5. n \in 1..n /\ \A i \in 1..(n - 1) : i \in 1..n /\ i # n
  BY <1>1, SMTT(30)
<1>6. p[n] = x /\ \A i \in 1..(n - 1) : p[i] = q[i]
  BY <1>5
<1>7. p \in [1..n -> S]
  BY <1>3, <1>4
<1>8. Range(p) = S
  <2>1. R = {q[i] : i \in 1..(n - 1)}
    BY <1>2, <1>3 DEF Sorts, Range
  <2>2. Range(p) = {p[i] : i \in 1..n}
    BY DEF Range
  <2> HIDE DEF p
  <2>3. \A y \in Range(p) : y \in S
    BY <1>3, <1>4, <1>6, <2>2
  <2>4. \A y \in S : y \in Range(p)
    <3>1. x \in Range(p)
      BY <1>5, <1>6, <2>2
    <3>2. ASSUME NEW y \in R PROVE y \in Range(p)
      <4>1. PICK i \in 1..(n - 1) : y = q[i]
        BY <2>1
      <4> QED
        BY <1>5, <1>6, <2>2, <4>1
    <3> QED
      BY <3>1, <3>2
  <2> QED
    BY <2>3, <2>4
<1>9. ASSUME NEW i \in 1..n, NEW j \in 1..n, i < j
      PROVE  less(p[i], p[j])
  <2>1. i \in 1..(n - 1)
    BY <1>1, <1>9, SMTT(30)
  <2>2. CASE j = n
    BY <1>3, <1>6, <2>1, <2>2 DEF leq
  <2>3. CASE j # n
    BY <1>2, <1>3, <1>4, <1>6, <1>9, <2>1, <2>3 DEF Sorts
  <2> QED
    BY <2>2, <2>3
<1>10. DOMAIN p = 1..n
  OBVIOUS
<1> HIDE DEF p
<1>11. Sorts(p, S)
  BY <1>8, <1>9, <1>10 DEF Sorts
<1> QED
  BY <1>7, <1>11 DEF Sortable, n

LEMMA AllSortable == \A S \in SUBSET ID : Sortable(S)
<1> DEFINE Bad == {n \in Nat : \E S \in SUBSET ID : Cardinality(S) = n /\ ~Sortable(S)}
<1>1. SUFFICES ASSUME Bad # {} PROVE FALSE
  BY IDsFinite
<1>2. PICK m \in Bad : \A n \in Bad : m <= n
  BY <1>1, LeastOf
<1>3. PICK S \in SUBSET ID : Cardinality(S) = m /\ ~Sortable(S)
  BY <1>2
<1>4. CASE S = {}
  <2>1. Cardinality(S) = 0
    BY <1>4, FS_EmptySet
  <2>2. 1..0 = {}
    BY SMTT(30)
  <2> DEFINE q == [i \in {} |-> i]
  <2>3. q \in [{} -> S] /\ DOMAIN q = {}
    OBVIOUS
  <2>4. Sorts(q, S)
    BY <1>4, <2>3 DEF Sorts, Range
  <2> QED
    BY <1>3, <2>1, <2>2, <2>3, <2>4 DEF Sortable
<1>5. CASE S # {}
  <2>1. PICK x \in S : \A k \in S : leq(k, x)
    BY <1>5, Greatest
  <2>2. Cardinality(S \ {x}) = m - 1 /\ Cardinality(S \ {x}) \in Nat /\ S \ {x} \in SUBSET ID
    BY <1>3, IDsFinite, FS_RemoveElement
  <2>3. Sortable(S \ {x})
    <3>1. SUFFICES ASSUME ~Sortable(S \ {x}) PROVE FALSE
      OBVIOUS
    <3>2. Cardinality(S \ {x}) \in Bad
      BY <2>2, <3>1
    <3>3. m <= m - 1 /\ m \in Nat
      BY <1>2, <2>2, <3>2
    <3> QED
      BY <3>3, SMTT(30)
  <2> QED
    BY <1>3, <2>1, <2>3, SortNewest
<1> QED
  BY <1>4, <1>5

\* inOrder is the sequence its definition describes.
LEMMA InOrderIs ==
  ASSUME NEW S \in SUBSET ID
  PROVE  /\ inOrder(S) \in Seq(ID)
         /\ Sorts(inOrder(S), S)
         /\ inOrder(S) = <<>> <=> S = {}
<1> DEFINE q == inOrder(S)
<1>1. q \in [1..Cardinality(S) -> S] /\ Sorts(q, S)
  BY AllSortable DEF Sortable, Sorts, inOrder
<1>2. Cardinality(S) \in Nat
  BY IDsFinite
<1> HIDE DEF q
<1>3. q \in Seq(S) /\ DOMAIN q = 1..Len(q)
  BY <1>1, <1>2, SMTT(30)
<1>4. q \in Seq(ID)
  BY <1>3, SMTT(30)
<1>5. q = <<>> <=> DOMAIN q = {}
  BY <1>3, SMTT(30)
<1>6. DOMAIN q = {} <=> S = {}
  BY <1>1 DEF Sorts, Range
<1> QED
  BY <1>1, <1>4, <1>5, <1>6 DEF q

\* p holds the first IDs of S, some if there are any.
Begins(p, S) ==
  /\ p \in Seq(ID)
  /\ Range(p) \subseteq S
  /\ p = <<>> <=> S = {}
  /\ p # <<>> => Last(p) \in Range(p)
  /\ p # <<>> => \A i \in S : i \in Range(p) <=> leq(i, Last(p))

\* What is cut off a sorted list is how its IDs begin.
LEMMA CutIs ==
  ASSUME NEW q \in Seq(ID), NEW S \in SUBSET ID, Sorts(q, S), q = <<>> <=> S = {}, NEW count \in Int,
         NEW p, p = IF count > 0 /\ Len(q) > count THEN SubSeq(q, 1, count) ELSE q
  PROVE  Begins(p, S)
<1>1. PICK k \in Nat : /\ p \in Seq(ID) /\ Len(p) = k /\ k <= Len(q)
                       /\ \A i \in 1..k : p[i] = q[i]
                       /\ k = 0 <=> Len(q) = 0
  <2>1. CASE count > 0 /\ Len(q) > count
    <3>1. p = SubSeq(q, 1, count)
      BY <2>1
    <3>2. p \in Seq(ID) /\ Len(p) = count /\ \A i \in 1..count : p[i] = q[i]
      BY <2>1, <3>1, SMTT(30)
    <3>3. count \in Nat /\ count <= Len(q) /\ count # 0 /\ Len(q) # 0
      BY <2>1, SMTT(30)
    <3> QED
      BY <3>2, <3>3
  <2>2. CASE ~(count > 0 /\ Len(q) > count)
    <3>1. p = q
      BY <2>2
    <3>2. Len(q) \in Nat /\ Len(q) <= Len(q)
      BY SMTT(30)
    <3> QED
      BY <3>1, <3>2
  <2> QED
    BY <2>1, <2>2
<1>2. DOMAIN p = 1..k /\ DOMAIN q = 1..Len(q) /\ Len(q) \in Nat
  BY <1>1, SMTT(30)
<1>3. 1..k \subseteq 1..Len(q)
  <2>1. \A m, n \in Nat : m <= n => 1..m \subseteq 1..n
    BY SMTT(30)
  <2> QED
    BY <1>1, <1>2, <2>1
<1>4. Range(p) = {p[i] : i \in 1..k} /\ S = {q[i] : i \in 1..Len(q)}
  BY <1>2 DEF Sorts, Range
<1>5. Range(p) \subseteq S
  BY <1>1, <1>3, <1>4
<1>6. (p = <<>> <=> k = 0) /\ (q = <<>> <=> Len(q) = 0)
  BY <1>1, SMTT(30)
<1>7. ASSUME p # <<>>
      PROVE  Last(p) \in Range(p) /\ \A i \in S : i \in Range(p) <=> leq(i, Last(p))
  <2>1. Last(p) = p[k] /\ k \in 1..k
    <3>1. k \in 1..k
      BY <1>6, <1>7, SMTT(30)
    <3> QED
      BY <1>1, <3>1 DEF Last
  <2>2. Last(p) \in Range(p)
    BY <1>4, <2>1
  <2>3. ASSUME NEW i \in Range(p) PROVE leq(i, Last(p))
    <3>1. PICK a \in 1..k : i = q[a]
      BY <1>1, <1>4
    <3>2. a = k \/ a < k
      BY <3>1, SMTT(30)
    <3>3. Last(p) = q[k] /\ a \in DOMAIN q /\ k \in DOMAIN q
      BY <1>1, <1>2, <1>3, <2>1, <3>1
    <3>4. a < k => less(q[a], q[k])
      BY <3>3 DEF Sorts
    <3> QED
      BY <3>1, <3>2, <3>3, <3>4 DEF leq
  <2>4. ASSUME NEW i \in S, leq(i, Last(p)) PROVE i \in Range(p)
    <3>1. PICK a \in 1..Len(q) : i = q[a]
      BY <1>4
    <3>2. a \in 1..k \/ k < a
      BY <1>1, <3>1, SMTT(30)
    <3>3. CASE a \in 1..k
      BY <1>1, <1>4, <3>1, <3>3
    <3>4. CASE k < a
      <4>1. less(Last(p), i)
        BY <1>1, <1>2, <1>3, <2>1, <3>1, <3>4 DEF Sorts
      <4>2. Last(p) \in ID
        BY <1>5, <2>2
      <4> QED
        BY <2>4, <4>1, <4>2, NotLess
    <3> QED
      BY <3>2, <3>3, <3>4
  <2> QED
    BY <2>2, <2>3, <2>4
<1> QED
  BY <1>1, <1>5, <1>6, <1>7 DEF Begins

LEMMA IncIs == \A n \in Word64 : inc(n) \in Word64 /\ inc(n) = IF n = MaxWord THEN 0 ELSE n + 1
<1>1. \A b \in Nat \ {0} : b % b = 0 /\ \A a \in 0..(b - 1) : a % b = a
  BY SMTT(30)
<1>2. MaxWord + 1 \in Nat \ {0} /\ (MaxWord + 1) - 1 = MaxWord /\ 0 \in Word64
  BY WordAssumption, SMTT(30) DEF Word64
<1>3. \A n \in Word64 : n = MaxWord \/ n + 1 \in 0..MaxWord
  BY WordAssumption, SMTT(30) DEF Word64
<1> QED
  BY <1>1, <1>2, <1>3 DEF inc, Word64

LEMMA LessIs == \A i, j : less(i, j) <=> (i[1] # j[1] /\ i[1] < j[1]) \/ (i[1] = j[1] /\ i[2] < j[2])
  BY DEF less

LEMMA LeqIs == \A i, j \in ID : leq(i, j) <=> \/ i[1] # j[1] /\ i[1] < j[1]
                                              \/ i[1] = j[1] /\ (i[2] = j[2] \/ i[2] < j[2])
  BY LessIs, IDIs DEF leq

LEMMA NextIs ==
  ASSUME NEW id \in ID
  PROVE  /\ nextID(id) \in ID
         /\ id # MaxID => \A i \in ID : leq(nextID(id), i) <=> less(id, i)
<1>1. id[1] \in Word64 /\ id[2] \in Word64 /\ id = <<id[1], id[2]>> /\ 0 \in Word64
  BY IDIs, WordAssumption, SMTT(30) DEF Word64
<1> DEFINE j == nextID(id)
<1>2. CASE id[2] # MaxWord
  <2>1. id[2] + 1 \in Word64
    <3>1. \A n \in Word64 : n # MaxWord => n + 1 \in Word64
      BY WordAssumption, SMTT(30) DEF Word64
    <3> QED
      BY <1>1, <1>2, <3>1
  <2>2. j = <<id[1], id[2] + 1>> /\ j \in ID
    BY <1>1, <1>2, <2>1, IDIs DEF nextID
  <2> HIDE DEF j
  <2>3. j[1] = id[1] /\ j[2] = id[2] + 1
    BY <2>2
  <2>4. \A a, b \in Word64 : (a + 1 = b \/ a + 1 < b) <=> a < b
    BY WordIs, SMTT(30)
  <2>5. \A i \in ID : (id[2] + 1 = i[2] \/ id[2] + 1 < i[2]) <=> id[2] < i[2]
    BY <1>1, <2>4, IDIs
  <2>6. \A i \in ID : leq(j, i) <=> less(id, i)
    BY <2>2, <2>3, <2>5, LessIs, LeqIs
  <2> QED
    BY <2>2, <2>6 DEF j
<1>3. CASE id[2] = MaxWord
  <2>1. j = <<inc(id[1]), 0>> /\ j \in ID
    BY <1>1, <1>3, IncIs, IDIs DEF nextID
  <2>2. ASSUME id # MaxID, NEW i \in ID PROVE leq(j, i) <=> less(id, i)
    <3>1. id[1] # MaxWord
      BY <1>1, <1>3, <2>2 DEF MaxID
    <3> HIDE DEF j
    <3>2. j[1] = id[1] + 1 /\ j[2] = 0
      BY <1>1, <2>1, <3>1, IncIs
    <3>3. \A a, u, v \in Word64 :
            (\/ a + 1 # u /\ a + 1 < u
             \/ a + 1 = u /\ (0 = v \/ 0 < v)) <=> (a # u /\ a < u) \/ (a = u /\ MaxWord < v)
      BY WordIs, SMTT(30)
    <3>4. (\/ id[1] + 1 # i[1] /\ id[1] + 1 < i[1]
           \/ id[1] + 1 = i[1] /\ (0 = i[2] \/ 0 < i[2])) <=>
          (id[1] # i[1] /\ id[1] < i[1]) \/ (id[1] = i[1] /\ MaxWord < i[2])
      BY <1>1, <3>3, IDIs
    <3> QED
      BY <1>3, <2>1, <3>2, <3>4, LessIs, LeqIs
  <2> QED
    BY <2>1, <2>2
<1> QED
  BY <1>2, <1>3

-----------------------------------------------------------------------------
(* What a read returns.                                                    *)

After(id) == {i \in entries : leq(nextID(id), i) /\ i[1] < MaxWord}

\* fresh returns the first IDs after id; the scan's end excludes the last millisecond.
LEMMA FreshIs ==
  ASSUME entries \in SUBSET ID, NEW id \in ID, NEW count \in Int
  PROVE  /\ fresh(id, count) \in Seq(ID)
         /\ Range(fresh(id, count)) \subseteq After(id)
         /\ fresh(id, count) = <<>> <=> After(id) = {}
         /\ fresh(id, count) # <<>> => Last(fresh(id, count)) \in Range(fresh(id, count))
         /\ fresh(id, count) # <<>> => \A i \in After(id) : i \in Range(fresh(id, count)) <=> leq(i, Last(fresh(id, count)))
<1>1. MaxID \in ID /\ nextID(id) \in ID
  BY EndsAreIDs, NextIs
<1>2. MaxID[1] = MaxWord /\ MaxID[2] = MaxWord
  BY DEF MaxID
<1>3. \A i \in ID : leq(i, MaxID)
  <2>1. \A n \in Word64 : n = MaxWord \/ n < MaxWord
    BY WordIs, SMTT(30)
  <2>2. ASSUME NEW i \in ID PROVE leq(i, MaxID)
    <3>1. i[1] \in Word64 /\ i[2] \in Word64
      BY IDIs
    <3>2. (i[1] = MaxID[1] \/ i[1] < MaxID[1]) /\ (i[2] = MaxID[2] \/ i[2] < MaxID[2])
      BY <1>2, <2>1, <3>1
    <3> QED
      BY <1>1, <3>2, LeqIs
  <2> QED
    BY <2>2
<1>4. ~less(MaxID, nextID(id))
  BY <1>1, <1>3, NotLess
<1>5. hiEnd(MaxID) = <<MaxWord, 0>>
  BY <1>1, <1>2, IDIs, IncIs DEF hiEnd
<1>6. \A i \in ID : less(i, <<MaxWord, 0>>) <=> i[1] < MaxWord
  <2>1. <<MaxWord, 0>>[1] = MaxWord /\ <<MaxWord, 0>>[2] = 0
    OBVIOUS
  <2>2. \A m, n \in Word64 : ((m # MaxWord /\ m < MaxWord) \/ (m = MaxWord /\ n < 0)) <=> m < MaxWord
    BY WordIs, SMTT(30)
  <2> QED
    BY <2>1, <2>2, LessIs, IDIs
<1> DEFINE S == {i \in entries : leq(nextID(id), i) /\ less(i, hiEnd(MaxID)) /\ leq(i, MaxID)}
           q == inOrder(S)
           p == IF count > 0 /\ Len(q) > count THEN SubSeq(q, 1, count) ELSE q
<1>7. S = After(id) /\ S \in SUBSET ID
  BY <1>3, <1>5, <1>6 DEF After
<1>8. fresh(id, count) = p
  BY <1>4 DEF fresh, xRange
<1> HIDE DEF S
<1>9. q \in Seq(ID) /\ Sorts(q, S) /\ (q = <<>> <=> S = {})
  BY <1>7, InOrderIs
<1> HIDE DEF q
<1>10. p = IF count > 0 /\ Len(q) > count THEN SubSeq(q, 1, count) ELSE q
  OBVIOUS
<1> HIDE DEF p
<1>11. Begins(p, S)
  BY <1>7, <1>9, <1>10, CutIs
<1>12. Begins(fresh(id, count), After(id))
  BY <1>7, <1>8, <1>11
<1> QED
  BY <1>12 DEF Begins

LEMMA PelListIs ==
  ASSUME NEW who, DOMAIN pel \in SUBSET ID, NEW count \in Int
  PROVE  /\ pelList(pel, {who}, ZeroID, MaxID, count) \in Seq(ID)
         /\ Range(pelList(pel, {who}, ZeroID, MaxID, count)) \subseteq {i \in DOMAIN pel : pel[i] = who}
<1> DEFINE S == {i \in DOMAIN pel : pel[i] \in {who} /\ leq(ZeroID, i) /\ less(i, <<MaxID[1], inc(MaxID[2])>>)}
           q == inOrder(S)
           p == IF count > 0 /\ Len(q) > count THEN SubSeq(q, 1, count) ELSE q
<1>1. S \subseteq {i \in DOMAIN pel : pel[i] = who} /\ S \in SUBSET ID
  OBVIOUS
<1>2. pelList(pel, {who}, ZeroID, MaxID, count) = p
  BY DEF pelList
<1> HIDE DEF S
<1>3. q \in Seq(ID) /\ Sorts(q, S) /\ (q = <<>> <=> S = {})
  BY <1>1, InOrderIs
<1> HIDE DEF q
<1>4. p = IF count > 0 /\ Len(q) > count THEN SubSeq(q, 1, count) ELSE q
  OBVIOUS
<1> HIDE DEF p
<1>5. Begins(p, S)
  BY <1>1, <1>3, <1>4, CutIs
<1> QED
  BY <1>1, <1>2, <1>5 DEF Begins

-----------------------------------------------------------------------------
(* The clients' records.                                                   *)

Fields == {"op", "pc", "cmd", "id", "todo", "read", "since"}

PcsOf(op) ==
  IF op = "XADD" THEN {"notify", "trim"}
  ELSE IF op = "XREAD" THEN {"version", "read", "sleep", "parked"}
  ELSE IF op = "XREADGROUP"
       THEN {"fetch", "retry", "version", "sleep", "parked", "pel", "cursor", "reply", "redeliver"}
  ELSE IF op = "XACK" THEN {"ack"}
  ELSE IF op = "XCLAIM" THEN {"claim"}
  ELSE IF op \in {"DESTROY", "DELCONSUMER"} THEN {"drop"}
  ELSE {"idle"}

RecOK(c, r) ==
  /\ DOMAIN r = Fields
  /\ r.op # "idle" => r.cmd \in Commands[c] /\ r.cmd.op = r.op
  /\ r.pc \in PcsOf(r.op)
  /\ r.id \in ID /\ r.todo \in Seq(ID) /\ r.read \in Seq(ID) /\ r.since \in Nat
  /\ r.pc \in {"pel", "ack", "claim"} => r.todo # <<>>
  /\ r.pc \in {"pel", "cursor", "reply"} => r.read # <<>>

Stored ==
  /\ entries \in SUBSET ID /\ cursor \in ID \cup {None} /\ DOMAIN pel \in SUBSET ID
  /\ seq \in Nat /\ top \in ID /\ base \in ID /\ given \in SUBSET ID

Records == DOMAIN cl = Clients /\ \A c \in Clients : RecOK(c, cl[c])

Shape == Stored /\ Records

\* A step of c: its new record, field by field, and the others' old ones.
Turns(c, op, pc, cmd, id, todo, read, since) ==
  /\ DOMAIN cl' = Clients
  /\ \A d \in Clients \ {c} : cl'[d] = cl[d]
  /\ DOMAIN cl'[c] = Fields
  /\ cl'[c].op = op /\ cl'[c].pc = pc /\ cl'[c].cmd = cmd /\ cl'[c].id = id
  /\ cl'[c].todo = todo /\ cl'[c].read = read /\ cl'[c].since = since

Rests(c) == Turns(c, "idle", "idle", None, ZeroID, <<>>, <<>>, 0)

Goes(c, pc) == Turns(c, cl[c].op, pc, cl[c].cmd, cl[c].id, cl[c].todo, cl[c].read, cl[c].since)

Tails(c, pc) == Turns(c, cl[c].op, pc, cl[c].cmd, cl[c].id, Tail(cl[c].todo), cl[c].read, cl[c].since)

LEMMA IdleIs ==
  /\ DOMAIN Idle = Fields
  /\ Idle.op = "idle" /\ Idle.pc = "idle" /\ Idle.cmd = None /\ Idle.id = ZeroID
  /\ Idle.todo = <<>> /\ Idle.read = <<>> /\ Idle.since = 0
  BY DEF Idle, Fields

LEMMA BeginIs ==
  ASSUME Shape, NEW c \in Clients, NEW m, NEW pc, NEW id, NEW todo, Begin(c, m, pc, id, todo)
  PROVE  Turns(c, m.op, pc, m, id, todo, <<>>, 0)
<1> DEFINE r == [Idle EXCEPT !.op = m.op, !.pc = pc, !.cmd = m, !.id = id, !.todo = todo]
<1>1. /\ DOMAIN r = Fields
      /\ r.op = m.op /\ r.pc = pc /\ r.cmd = m /\ r.id = id /\ r.todo = todo /\ r.read = <<>> /\ r.since = 0
  BY IdleIs DEF Fields
<1>2. cl' = [cl EXCEPT ![c] = r] /\ DOMAIN cl = Clients
  BY DEF Begin, Shape, Records
<1> HIDE DEF r
<1>3. DOMAIN cl' = Clients /\ cl'[c] = r /\ \A d \in Clients \ {c} : cl'[d] = cl[d]
  BY <1>2
<1> QED
  BY <1>1, <1>3 DEF Turns

LEMMA ReplyIs == ASSUME Shape, NEW c \in Clients, Reply(c) PROVE Rests(c)
<1>1. DOMAIN cl' = Clients /\ cl'[c] = Idle /\ \A d \in Clients \ {c} : cl'[d] = cl[d]
  BY DEF Reply, Shape, Records
<1> QED
  BY <1>1, IdleIs DEF Rests, Turns

LEMMA GotoIs == ASSUME Shape, NEW c \in Clients, NEW pc, Goto(c, pc) PROVE Goes(c, pc)
<1>1. DOMAIN cl = Clients /\ DOMAIN cl[c] = Fields
  BY DEF Shape, Records, RecOK
<1> QED
  BY <1>1 DEF Goto, Goes, Turns, Fields

LEMMA VersionIs ==
  ASSUME Shape, NEW c \in Clients, NEW pc, cl' = [cl EXCEPT ![c].pc = pc, ![c].since = seq]
  PROVE  Turns(c, cl[c].op, pc, cl[c].cmd, cl[c].id, cl[c].todo, cl[c].read, seq)
<1>1. DOMAIN cl = Clients /\ DOMAIN cl[c] = Fields
  BY DEF Shape, Records, RecOK
<1> QED
  BY <1>1 DEF Turns, Fields

LEMMA FetchIs ==
  ASSUME Shape, NEW c \in Clients, NEW todo, cl' = [cl EXCEPT ![c].pc = "pel", ![c].todo = todo, ![c].read = todo]
  PROVE  Turns(c, cl[c].op, "pel", cl[c].cmd, cl[c].id, todo, todo, cl[c].since)
<1>1. DOMAIN cl = Clients /\ DOMAIN cl[c] = Fields
  BY DEF Shape, Records, RecOK
<1> QED
  BY <1>1 DEF Turns, Fields

LEMMA PelAddIs ==
  ASSUME Shape, NEW c \in Clients, NEW pc, cl' = [cl EXCEPT ![c].todo = Tail(cl[c].todo), ![c].pc = pc]
  PROVE  Tails(c, pc)
<1>1. DOMAIN cl = Clients /\ DOMAIN cl[c] = Fields
  BY DEF Shape, Records, RecOK
<1> QED
  BY <1>1 DEF Tails, Turns, Fields

LEMMA TailIs ==
  ASSUME Shape, NEW c \in Clients, cl' = [cl EXCEPT ![c].todo = Tail(cl[c].todo)]
  PROVE  Tails(c, cl[c].pc)
<1>1. DOMAIN cl = Clients /\ DOMAIN cl[c] = Fields
  BY DEF Shape, Records, RecOK
<1> QED
  BY <1>1 DEF Tails, Turns, Fields

LEMMA AdvanceIs ==
  ASSUME Shape, NEW c \in Clients, Advance(c)
  PROVE  IF Len(cl[c].todo) = 1 THEN Rests(c) ELSE Tails(c, cl[c].pc)
  BY ReplyIs, TailIs DEF Advance

\* notify moves the clients that were parked.
LEMMA NotifyIs ==
  ASSUME Shape, NEW c \in Clients, XAddNotify(c)
  PROVE  /\ DOMAIN cl' = Clients
         /\ \A d \in Clients :
              /\ DOMAIN cl'[d] = Fields
              /\ cl'[d].op = cl[d].op /\ cl'[d].cmd = cl[d].cmd /\ cl'[d].id = cl[d].id
              /\ cl'[d].todo = cl[d].todo /\ cl'[d].read = cl[d].read /\ cl'[d].since = cl[d].since
              /\ cl'[d].pc = IF d = c THEN "trim"
                             ELSE IF cl[d].pc # "parked" THEN cl[d].pc
                             ELSE IF cl[d].op = "XREAD" THEN "version" ELSE "retry"
<1>1. \A d \in Clients : DOMAIN cl[d] = Fields
  BY DEF Shape, Records, RecOK
<1>2. DOMAIN cl' = Clients /\ \A d \in Clients : cl'[d] = IF d = c THEN [cl[c] EXCEPT !.pc = "trim"] ELSE wake(d)
  BY DEF XAddNotify
<1>3. ASSUME NEW d \in Clients
      PROVE  cl'[d] = IF d = c THEN [cl[d] EXCEPT !.pc = "trim"]
                      ELSE IF cl[d].pc # "parked" THEN cl[d]
                      ELSE IF cl[d].op = "XREAD" THEN [cl[d] EXCEPT !.pc = "version"]
                      ELSE [cl[d] EXCEPT !.pc = "retry"]
  BY <1>2 DEF wake
<1>4. ASSUME NEW d \in Clients, NEW v, cl'[d] = [cl[d] EXCEPT !.pc = v]
      PROVE  /\ DOMAIN cl'[d] = Fields /\ cl'[d].pc = v
             /\ cl'[d].op = cl[d].op /\ cl'[d].cmd = cl[d].cmd /\ cl'[d].id = cl[d].id
             /\ cl'[d].todo = cl[d].todo /\ cl'[d].read = cl[d].read /\ cl'[d].since = cl[d].since
  BY <1>1, <1>4 DEF Fields
<1>5. ASSUME NEW d \in Clients
      PROVE  /\ DOMAIN cl'[d] = Fields
             /\ cl'[d].op = cl[d].op /\ cl'[d].cmd = cl[d].cmd /\ cl'[d].id = cl[d].id
             /\ cl'[d].todo = cl[d].todo /\ cl'[d].read = cl[d].read /\ cl'[d].since = cl[d].since
             /\ cl'[d].pc = IF d = c THEN "trim"
                            ELSE IF cl[d].pc # "parked" THEN cl[d].pc
                            ELSE IF cl[d].op = "XREAD" THEN "version" ELSE "retry"
  <2>1. CASE d = c
    <3>1. cl'[d] = [cl[d] EXCEPT !.pc = "trim"]
      BY <1>3, <2>1
    <3>2. cl'[d].pc = "trim"
      BY <1>4, <3>1
    <3> QED
      BY <1>4, <2>1, <3>1, <3>2
  <2>2. CASE d # c /\ cl[d].pc # "parked"
    BY <1>1, <1>3, <2>2
  <2>3. CASE d # c /\ cl[d].pc = "parked" /\ cl[d].op = "XREAD"
    <3>1. cl'[d] = [cl[d] EXCEPT !.pc = "version"]
      BY <1>3, <2>3
    <3>2. cl'[d].pc = "version"
      BY <1>4, <3>1
    <3> QED
      BY <1>4, <2>3, <3>1, <3>2
  <2>4. CASE d # c /\ cl[d].pc = "parked" /\ cl[d].op # "XREAD"
    <3>1. cl'[d] = [cl[d] EXCEPT !.pc = "retry"]
      BY <1>3, <2>4
    <3>2. cl'[d].pc = "retry"
      BY <1>4, <3>1
    <3> QED
      BY <1>4, <2>4, <3>1, <3>2
  <2> QED
    BY <2>1, <2>2, <2>3, <2>4
<1> QED
  BY <1>2, <1>5

LEMMA CrashIs == ASSUME Crash PROVE DOMAIN cl' = Clients /\ \A d \in Clients : cl'[d] = Idle
  BY DEF Crash

LEMMA SeqIs ==
  ASSUME NEW q \in Seq(ID), q # <<>>
  PROVE  /\ Head(q) \in ID /\ Tail(q) \in Seq(ID)
         /\ Len(q) = 1 <=> Tail(q) = <<>>
         /\ Head(q) \in Range(q)
         /\ Range(Tail(q)) \subseteq Range(q)
         /\ Range(q) \subseteq {Head(q)} \cup Range(Tail(q))
<1>1. /\ Len(q) \in Nat \ {0} /\ DOMAIN q = 1..Len(q) /\ Head(q) = q[1] /\ Tail(q) \in Seq(ID)
      /\ Len(Tail(q)) = Len(q) - 1 /\ DOMAIN Tail(q) = 1..(Len(q) - 1)
      /\ \A i \in 1..(Len(q) - 1) : Tail(q)[i] = q[i + 1]
  BY SMTT(30)
<1>2. \A i \in 1..Len(q) : q[i] \in ID
  BY <1>1, SMTT(30)
<1>3. 1 \in 1..Len(q)
  BY <1>1, SMTT(30)
<1>4. Len(q) = 1 <=> Tail(q) = <<>>
  BY <1>1, SMTT(30)
<1>5. \A n \in Nat \ {0} : /\ \A i \in 1..(n - 1) : i + 1 \in 1..n
                           /\ \A i \in 1..n : i # 1 => i - 1 \in 1..(n - 1) /\ (i - 1) + 1 = i
  BY SMTT(30)
<1>6. /\ Range(q) = {q[i] : i \in 1..Len(q)}
      /\ Range(Tail(q)) = {Tail(q)[i] : i \in 1..(Len(q) - 1)}
  BY <1>1 DEF Range
<1>7. ASSUME NEW x \in Range(Tail(q)) PROVE x \in Range(q)
  <2>1. PICK i \in 1..(Len(q) - 1) : x = Tail(q)[i]
    BY <1>6
  <2>2. x = q[i + 1] /\ i + 1 \in 1..Len(q)
    BY <1>1, <1>5, <2>1
  <2> QED
    BY <1>6, <2>2
<1>8. ASSUME NEW x \in Range(q), x # Head(q) PROVE x \in Range(Tail(q))
  <2>1. PICK i \in 1..Len(q) : x = q[i]
    BY <1>6
  <2>2. i # 1
    BY <1>1, <1>8, <2>1
  <2>3. i - 1 \in 1..(Len(q) - 1) /\ (i - 1) + 1 = i
    BY <1>1, <1>5, <2>1, <2>2
  <2>4. Tail(q)[i - 1] = x
    BY <1>1, <2>1, <2>3
  <2> QED
    BY <1>6, <2>3, <2>4
<1> QED
  BY <1>1, <1>2, <1>3, <1>4, <1>6, <1>7, <1>8

LEMMA EmptyIs == <<>> \in Seq(ID) /\ Range(<<>>) = {} /\ 0 \in Nat /\ DOMAIN <<>> = {}
<1>1. <<>> \in Seq(ID) /\ 0 \in Nat /\ DOMAIN <<>> = {}
  BY SMTT(30)
<1> QED
  BY <1>1 DEF Range

LEMMA RecordsTurn ==
  ASSUME Shape, NEW c \in Clients, NEW op, NEW pc, NEW cmd, NEW id, NEW todo, NEW read, NEW since,
         Turns(c, op, pc, cmd, id, todo, read, since),
         op # "idle" => cmd \in Commands[c] /\ cmd.op = op,
         pc \in PcsOf(op), id \in ID, todo \in Seq(ID), read \in Seq(ID), since \in Nat,
         pc \in {"pel", "ack", "claim"} => todo # <<>>,
         pc \in {"pel", "cursor", "reply"} => read # <<>>
  PROVE  Records'
<1>1. RecOK(c, cl'[c])
  BY DEF Turns, RecOK
<1>2. \A d \in Clients \ {c} : RecOK(d, cl'[d])
  BY DEF Turns, Shape, Records
<1>3. DOMAIN cl' = Clients
  BY DEF Turns
<1> QED
  BY <1>1, <1>2, <1>3 DEF Records

LEMMA RecordsRest == ASSUME Shape, NEW c \in Clients, Rests(c) PROVE Records'
<1>1. "idle" \in PcsOf("idle")
  BY DEF PcsOf
<1>2. RecOK(c, cl'[c])
  BY <1>1, EmptyIs, EndsAreIDs DEF Rests, Turns, RecOK
<1> QED
  BY <1>2 DEF Rests, Turns, Shape, Records

LEMMA RecordsBegin ==
  ASSUME Shape, NEW c \in Clients, NEW m \in Commands[c], NEW pc, NEW id \in ID, NEW todo \in Seq(ID),
         Turns(c, m.op, pc, m, id, todo, <<>>, 0),
         pc \in PcsOf(m.op), pc \notin {"pel", "cursor", "reply"}, pc \in {"ack", "claim"} => todo # <<>>
  PROVE  Records'
<1>1. RecOK(c, cl'[c])
  BY EmptyIs DEF Turns, RecOK
<1> QED
  BY <1>1 DEF Turns, Shape, Records

LEMMA RecordsGo ==
  ASSUME Shape, NEW c \in Clients, NEW pc, Goes(c, pc),
         pc \in PcsOf(cl[c].op), pc \notin {"pel", "ack", "claim"},
         pc \in {"cursor", "reply"} => cl[c].read # <<>>
  PROVE  Records'
<1>1. RecOK(c, cl[c])
  BY DEF Shape, Records
<1>2. RecOK(c, cl'[c])
  BY <1>1 DEF Goes, Turns, RecOK
<1> QED
  BY <1>2 DEF Goes, Turns, Shape, Records

LEMMA RecordsTail ==
  ASSUME Shape, NEW c \in Clients, NEW pc, Tails(c, pc), cl[c].todo # <<>>,
         pc \in PcsOf(cl[c].op),
         pc \in {"pel", "ack", "claim"} => Len(cl[c].todo) # 1,
         pc \in {"pel", "cursor", "reply"} => cl[c].read # <<>>
  PROVE  Records'
<1>1. RecOK(c, cl[c])
  BY DEF Shape, Records
<1>2. Tail(cl[c].todo) \in Seq(ID) /\ (Len(cl[c].todo) # 1 => Tail(cl[c].todo) # <<>>)
  BY <1>1, SeqIs DEF RecOK
<1>3. RecOK(c, cl'[c])
  BY <1>1, <1>2 DEF Tails, Turns, RecOK
<1> QED
  BY <1>3 DEF Tails, Turns, Shape, Records

LEMMA Pcs ==
  /\ PcsOf("XADD") = {"notify", "trim"}
  /\ PcsOf("XREAD") = {"version", "read", "sleep", "parked"}
  /\ PcsOf("XREADGROUP") = {"fetch", "retry", "version", "sleep", "parked", "pel", "cursor", "reply", "redeliver"}
  /\ PcsOf("XACK") = {"ack"} /\ PcsOf("XCLAIM") = {"claim"}
  /\ PcsOf("DESTROY") = {"drop"} /\ PcsOf("DELCONSUMER") = {"drop"}
  BY DEF PcsOf

LEMMA RecordsStay == ASSUME Shape, cl' = cl PROVE Records'
  BY DEF Shape, Records

-----------------------------------------------------------------------------
(* The ID of a new entry.                                                  *)

LEMMA LastIs ==
  ASSUME entries \in SUBSET ID
  PROVE  /\ entries = {} => lastStreamEntryID = None
         /\ entries # {} => /\ lastStreamEntryID \in entries /\ lastStreamEntryID # None
                            /\ \A j \in entries : leq(j, lastStreamEntryID)
  BY Greatest, StreamsAssumption DEF lastStreamEntryID

LEMMA ZeroLess == \A i \in ID : i # ZeroID => less(ZeroID, i)
<1>1. ZeroID[1] = 0 /\ ZeroID[2] = 0
  BY DEF ZeroID
<1>2. \A n \in Word64 : n = 0 \/ (0 # n /\ 0 < n)
  BY WordIs, SMTT(30)
<1>3. ASSUME NEW i \in ID, i # ZeroID PROVE less(ZeroID, i)
  <2>1. i[1] \in Word64 /\ i[2] \in Word64 /\ i = <<i[1], i[2]>>
    BY IDIs
  <2>2. i[1] # 0 \/ i[2] # 0
    BY <1>3, <2>1 DEF ZeroID
  <2>3. CASE i[1] # 0
    BY <1>1, <1>2, <2>1, <2>3, LessIs
  <2>4. CASE i[1] = 0
    BY <1>1, <1>2, <2>1, <2>2, <2>4, LessIs
  <2> QED
    BY <2>3, <2>4
<1> QED
  BY <1>3

\* XADD takes no ID that is not above the newest entry's, and 0-0 never.
LEMMA NewIDIs ==
  ASSUME NEW m, m.id \in ID, NEW last \in ID \cup {None}, NEW t \in Word64 \ {0}, newID(m, last, t) # Refused
  PROVE  /\ newID(m, last, t) \in ID
         /\ last = None => less(ZeroID, newID(m, last, t))
         /\ last # None => less(last, newID(m, last, t))
<1> DEFINE ms == m.id[1]
           whole == IF last = None \/ t > last[1] THEN <<t, 0>> ELSE <<last[1], inc(last[2])>>
           half == IF last = None THEN (IF ms = 0 THEN <<0, 1>> ELSE <<ms, 0>>)
                   ELSE IF ms < last[1] THEN Refused
                   ELSE IF ms > last[1] THEN <<ms, 0>>
                   ELSE IF last[2] = MaxWord THEN Refused ELSE <<ms, last[2] + 1>>
           explicit == IF m.id = ZeroID THEN Refused ELSE m.id
           id == IF m.auto = "*" THEN whole ELSE IF m.auto = "ms-*" THEN half ELSE explicit
<1>1. newID(m, last, t) = IF id = Refused \/ (last # None /\ ~less(last, id)) THEN Refused ELSE id
  BY DEF newID
<1>2. 0 \in Word64 /\ 1 \in Word64 /\ 0 # 1
  BY WordAssumption, SMTT(30) DEF Word64
<1>3. \A n \in Word64 : n # MaxWord => n + 1 \in Word64
  BY WordAssumption, SMTT(30) DEF Word64
<1>4. ms \in Word64 /\ t \in Word64 /\ t # 0 /\ (last # None => last[1] \in Word64 /\ last[2] \in Word64)
  BY IDIs
<1>5. whole \in ID /\ (last = None => whole # ZeroID)
  <2>1. <<t, 0>> \in ID /\ <<t, 0>> # ZeroID
    BY <1>2, <1>4, IDIs DEF ZeroID
  <2>2. last # None => <<last[1], inc(last[2])>> \in ID
    BY <1>4, IncIs, IDIs
  <2> QED
    BY <2>1, <2>2
<1>6. half # Refused => half \in ID /\ (last = None => half # ZeroID)
  <2>1. <<0, 1>> \in ID /\ <<0, 1>> # ZeroID /\ <<ms, 0>> \in ID /\ (ms # 0 => <<ms, 0>> # ZeroID)
    BY <1>2, <1>4, IDIs DEF ZeroID
  <2>2. last # None /\ last[2] # MaxWord => <<ms, last[2] + 1>> \in ID
    BY <1>3, <1>4, IDIs
  <2> QED
    BY <2>1, <2>2
<1>7. explicit # Refused => explicit \in ID /\ explicit # ZeroID
  OBVIOUS
<1> HIDE DEF whole, half, explicit
<1>8. id # Refused => id \in ID /\ (last = None => id # ZeroID)
  BY <1>5, <1>6, <1>7
<1> HIDE DEF id
<1> QED
  BY <1>1, <1>8, ZeroLess

LEMMA KeptIs == \A S, m : kept(S, m) \subseteq S
  BY DEF kept

-----------------------------------------------------------------------------
(* Every step keeps the shape.                                             *)

LEMMA SameStore ==
  ASSUME UNCHANGED <<store, history>>
  PROVE  /\ entries' = entries /\ cursor' = cursor /\ pel' = pel
         /\ top' = top /\ adds' = adds /\ base' = base /\ done' = done /\ given' = given
  BY DEF store, history

LEMMA CommandIs ==
  ASSUME NEW c \in Clients, NEW m \in Commands[c]
  PROVE  /\ m.id \in ID /\ m.n \in Int
         /\ m.op \in {"XACK", "XCLAIM"} => m.list \in Seq(ID) /\ m.list # <<>>
  BY StreamsAssumption DEF CommandOK

\* Steps that only change what the clients do.
LEMMA TalkShape ==
  ASSUME Shape, UNCHANGED <<store, history>>, seq' \in Nat, Records'
  PROVE  Shape'
  BY SameStore DEF Shape, Stored

LEMMA XAddShape ==
  ASSUME Shape, NEW c \in Clients, NEW m \in Commands[c], NEW t \in Times, cmdXAdd(c, m, t)
  PROVE  /\ Shape'
         /\ \/ entries' = entries /\ cl' = cl /\ top' = top
            \/ \E id \in ID :
                 /\ id = newID(m, lastStreamEntryID, t) /\ id # Refused
                 /\ entries' = entries \cup {id}
                 /\ top' = IF less(top, id) THEN id ELSE top
                 /\ KeepsTop(entries \cup {id}, kept(entries \cup {id}, m))
                 /\ Turns(c, m.op, "notify", m, id, <<>>, <<>>, 0)
         /\ m.op = "XADD" /\ Free(c, m)
         /\ cursor' = cursor /\ pel' = pel /\ seq' = seq /\ base' = base /\ done' = done /\ given' = given
<1> DEFINE id == newID(m, lastStreamEntryID, t)
<1>1. /\ m.op = "XADD" /\ Free(c, m)
      /\ cursor' = cursor /\ pel' = pel /\ seq' = seq /\ base' = base /\ done' = done /\ given' = given
  BY DEF cmdXAdd
<1>2. entries \in SUBSET ID /\ top \in ID
  BY DEF Shape, Stored
<1>3. CASE id = Refused \/ (m.nomkstream /\ entries = {})
  <2>1. entries' = entries /\ cl' = cl /\ top' = top
    BY <1>3 DEF cmdXAdd
  <2> QED
    BY <1>1, <2>1, RecordsStay DEF Shape, Stored
<1>4. CASE ~(id = Refused \/ (m.nomkstream /\ entries = {}))
  <2>1. /\ KeepsTop(entries \cup {id}, kept(entries \cup {id}, m))
        /\ entries' = entries \cup {id}
        /\ top' = IF less(top, id) THEN id ELSE top
        /\ Begin(c, m, "notify", id, <<>>)
    BY <1>4 DEF cmdXAdd
  <2>2. t \in Word64 \ {0} /\ lastStreamEntryID \in ID \cup {None} /\ m.id \in ID
    BY <1>2, LastIs, StreamsAssumption, CommandIs
  <2>3. id \in ID
    BY <1>4, <2>2, NewIDIs
  <2>4. id # Refused
    BY <1>4
  <2> HIDE DEF id
  <2>5. Turns(c, m.op, "notify", m, id, <<>>, <<>>, 0)
    BY <2>1, BeginIs
  <2>6. Records'
    <3>1. "notify" \in PcsOf(m.op)
      BY <1>1, Pcs
    <3> QED
      BY <2>3, <2>5, <3>1, RecordsBegin, EmptyIs
  <2>7. entries' \in SUBSET ID /\ top' \in ID
    BY <1>2, <2>1, <2>3
  <2>8. Shape'
    BY <1>1, <2>6, <2>7 DEF Shape, Stored
  <2> QED
    BY <1>1, <2>1, <2>3, <2>4, <2>5, <2>8 DEF id
<1> QED
  BY <1>3, <1>4

LEMMA BeginShape ==
  ASSUME Shape, NEW c \in Clients, NEW m \in Commands[c],
         cmdXRead(c, m) \/ cmdXReadGroup(c, m) \/ cmdXAck(c, m) \/ cmdXClaim(c, m) \/ cmdXGroupDelConsumer(c, m)
  PROVE  Shape' /\ UNCHANGED <<store, history>> /\ seq' = seq
<1>1. UNCHANGED <<store, history>> /\ seq' = seq
  BY DEF cmdXRead, cmdXReadGroup, cmdXAck, cmdXClaim, cmdXGroupDelConsumer
<1>2. seq \in Nat /\ entries \in SUBSET ID /\ DOMAIN pel \in SUBSET ID
  BY DEF Shape, Stored
<1>3. Records'
  <2>1. CASE cmdXRead(c, m)
    <3> DEFINE id == IF m.dollar THEN (IF entries = {} THEN ZeroID ELSE lastStreamEntryID) ELSE m.id
    <3>1. id \in ID
      BY <1>2, LastIs, EndsAreIDs, CommandIs
    <3>2. Begin(c, m, "version", id, <<>>) /\ m.op = "XREAD"
      BY <2>1 DEF cmdXRead
    <3> HIDE DEF id
    <3>3. "version" \in PcsOf(m.op)
      BY <3>2, Pcs
    <3>4. Turns(c, m.op, "version", m, id, <<>>, <<>>, 0)
      BY <3>2, BeginIs
    <3> QED
      BY <3>1, <3>3, <3>4, RecordsBegin, EmptyIs
  <2>2. CASE cmdXReadGroup(c, m)
    <3> DEFINE todo == pelList(pel, {m.consumer}, ZeroID, MaxID, m.n)
    <3>1. todo \in Seq(ID) /\ ZeroID \in ID /\ m.op = "XREADGROUP"
      BY <1>2, <2>2, CommandIs, PelListIs, EndsAreIDs DEF cmdXReadGroup
    <3>2. Begin(c, m, "redeliver", ZeroID, todo) \/ Begin(c, m, "fetch", ZeroID, <<>>)
      BY <2>2 DEF cmdXReadGroup
    <3> HIDE DEF todo
    <3>3. "redeliver" \in PcsOf(m.op) /\ "fetch" \in PcsOf(m.op)
      BY <3>1, Pcs
    <3>4. CASE Begin(c, m, "redeliver", ZeroID, todo)
      <4>1. Turns(c, m.op, "redeliver", m, ZeroID, todo, <<>>, 0)
        BY <3>4, BeginIs
      <4> QED
        BY <3>1, <3>3, <4>1, RecordsBegin
    <3>5. CASE Begin(c, m, "fetch", ZeroID, <<>>)
      <4>1. Turns(c, m.op, "fetch", m, ZeroID, <<>>, <<>>, 0)
        BY <3>5, BeginIs
      <4> QED
        BY <3>1, <3>3, <4>1, RecordsBegin, EmptyIs
    <3> QED
      BY <3>2, <3>4, <3>5
  <2>3. CASE cmdXAck(c, m)
    <3>1. Begin(c, m, "ack", ZeroID, m.list) /\ m.op = "XACK" /\ m.list \in Seq(ID) /\ m.list # <<>>
      BY <2>3, CommandIs DEF cmdXAck
    <3>2. "ack" \in PcsOf(m.op)
      BY <3>1, Pcs
    <3>3. Turns(c, m.op, "ack", m, ZeroID, m.list, <<>>, 0)
      BY <3>1, BeginIs
    <3> QED
      BY <3>1, <3>2, <3>3, RecordsBegin, EndsAreIDs
  <2>4. CASE cmdXClaim(c, m)
    <3>1. Begin(c, m, "claim", ZeroID, m.list) /\ m.op = "XCLAIM" /\ m.list \in Seq(ID) /\ m.list # <<>>
      BY <2>4, CommandIs DEF cmdXClaim
    <3>2. "claim" \in PcsOf(m.op)
      BY <3>1, Pcs
    <3>3. Turns(c, m.op, "claim", m, ZeroID, m.list, <<>>, 0)
      BY <3>1, BeginIs
    <3> QED
      BY <3>1, <3>2, <3>3, RecordsBegin, EndsAreIDs
  <2>5. CASE cmdXGroupDelConsumer(c, m)
    <3> DEFINE todo == pelList(pel, {m.consumer}, ZeroID, MaxID, 0)
    <3>1. 0 \in Int
      BY SMTT(30)
    <3>2. todo \in Seq(ID) /\ ZeroID \in ID /\ m.op = "DELCONSUMER" /\ Begin(c, m, "drop", ZeroID, todo)
      BY <1>2, <2>5, <3>1, PelListIs, EndsAreIDs DEF cmdXGroupDelConsumer
    <3> HIDE DEF todo
    <3>3. "drop" \in PcsOf(m.op)
      BY <3>2, Pcs
    <3>4. Turns(c, m.op, "drop", m, ZeroID, todo, <<>>, 0)
      BY <3>2, BeginIs
    <3> QED
      BY <3>2, <3>3, <3>4, RecordsBegin
  <2> QED
    BY <2>1, <2>2, <2>3, <2>4, <2>5
<1> QED
  BY <1>1, <1>2, <1>3, TalkShape

\* XREAD's steps, those of XREADGROUP before it writes, a time-out, the notification and a
\* crash leave the store alone.
LEMMA TalkKeeps ==
  ASSUME NEW c \in Clients,
         \/ XAddNotify(c) \/ XReadVersion(c) \/ XReadEntries(c) \/ sleepSince(c) \/ TimesOut(c)
         \/ XReadGroupFetch(c, "fetch") \/ XReadGroupFetch(c, "retry") \/ XReadGroupVersion(c)
         \/ Crash
  PROVE  UNCHANGED <<store, history>>
  BY DEF XAddNotify, XReadVersion, XReadEntries, sleepSince, TimesOut, XReadGroupFetch, XReadGroupVersion, Crash

LEMMA NotifyShape == ASSUME Shape, NEW c \in Clients, XAddNotify(c) PROVE Shape'
<1>1. seq' = seq + 1 /\ seq \in Nat /\ cl[c].op = "XADD"
  BY DEF XAddNotify, Busy, Shape, Stored
<1>2. seq' \in Nat
  BY <1>1, SMTT(30)
<1>3. ASSUME NEW d \in Clients PROVE RecOK(d, cl'[d])
  <2>1. RecOK(d, cl[d])
    BY DEF Shape, Records
  <2>2. \/ cl'[d].pc \in PcsOf(cl[d].op) /\ cl'[d].pc \notin {"pel", "ack", "claim", "cursor", "reply"}
        \/ cl'[d].pc = cl[d].pc
    <3>1. cl[d].pc = "parked" /\ cl[d].op # "XREAD" => cl[d].op = "XREADGROUP"
      BY <2>1 DEF RecOK, PcsOf
    <3>2. CASE d = c
      <4>1. cl'[d].pc = "trim"
        BY <3>2, NotifyIs
      <4> QED
        BY <1>1, <3>2, <4>1, Pcs
    <3>3. CASE d # c /\ cl[d].pc # "parked"
      BY <3>3, NotifyIs
    <3>4. CASE d # c /\ cl[d].pc = "parked" /\ cl[d].op = "XREAD"
      <4>1. cl'[d].pc = "version"
        BY <3>4, NotifyIs
      <4> QED
        BY <3>4, <4>1, Pcs
    <3>5. CASE d # c /\ cl[d].pc = "parked" /\ cl[d].op # "XREAD"
      <4>1. cl'[d].pc = "retry"
        BY <3>5, NotifyIs
      <4> QED
        BY <3>1, <3>5, <4>1, Pcs
    <3> QED
      BY <3>2, <3>3, <3>4, <3>5
  <2> QED
    BY <2>1, <2>2, NotifyIs DEF RecOK
<1>4. Records'
  BY <1>3, NotifyIs DEF Records
<1> QED
  BY <1>2, <1>4, TalkKeeps, TalkShape

LEMMA CrashShape == ASSUME Shape, NEW c \in Clients, Crash PROVE Shape'
<1>1. \A d \in Clients : RecOK(d, Idle)
  BY IdleIs, EmptyIs, EndsAreIDs DEF RecOK, PcsOf
<1>2. Records'
  BY <1>1, CrashIs DEF Records
<1>3. seq' \in Nat
  BY EmptyIs DEF Crash
<1> QED
  BY <1>2, <1>3, TalkKeeps, TalkShape

LEMMA ReadShape ==
  ASSUME Shape, NEW c \in Clients,
         XReadVersion(c) \/ XReadEntries(c) \/ sleepSince(c) \/ TimesOut(c) \/ XReadGroupVersion(c)
  PROVE  Shape'
<1>1. seq' = seq /\ seq \in Nat /\ RecOK(c, cl[c])
  BY DEF XReadVersion, XReadEntries, sleepSince, TimesOut, XReadGroupVersion, Shape, Stored, Records
<1>2. cl[c].id \in ID /\ cl[c].todo \in Seq(ID) /\ cl[c].read \in Seq(ID) /\ cl[c].pc \in PcsOf(cl[c].op)
      /\ (cl[c].op # "idle" => cl[c].cmd \in Commands[c] /\ cl[c].cmd.op = cl[c].op)
  BY <1>1 DEF RecOK
<1>3. Records'
  <2>1. CASE XReadVersion(c)
    <3>1. cl[c].op = "XREAD" /\ "read" \in PcsOf(cl[c].op)
      BY <2>1, Pcs DEF XReadVersion, Busy
    <3>2. Turns(c, cl[c].op, "read", cl[c].cmd, cl[c].id, cl[c].todo, cl[c].read, seq)
      BY <2>1, VersionIs DEF XReadVersion
    <3> QED
      BY <1>1, <1>2, <3>1, <3>2, RecordsTurn
  <2>2. CASE XReadGroupVersion(c)
    <3>1. cl[c].op = "XREADGROUP" /\ "sleep" \in PcsOf(cl[c].op)
      BY <2>2, Pcs DEF XReadGroupVersion, Busy
    <3>2. Turns(c, cl[c].op, "sleep", cl[c].cmd, cl[c].id, cl[c].todo, cl[c].read, seq)
      BY <2>2, VersionIs DEF XReadGroupVersion
    <3> QED
      BY <1>1, <1>2, <3>1, <3>2, RecordsTurn
  <2>3. CASE XReadEntries(c)
    <3>1. "sleep" \in PcsOf(cl[c].op)
      BY <2>3, Pcs DEF XReadEntries, Busy
    <3>2. Rests(c) \/ Goes(c, "sleep")
      BY <2>3, ReplyIs, GotoIs DEF XReadEntries
    <3> QED
      BY <3>1, <3>2, RecordsRest, RecordsGo
  <2>4. CASE sleepSince(c)
    <3>1. cl[c].op \in {"XREAD", "XREADGROUP"}
      BY <1>2, <2>4 DEF sleepSince, PcsOf
    <3>2. \/ cl[c].op = "XREAD" /\ Goes(c, "version")
          \/ cl[c].op # "XREAD" /\ Goes(c, "retry")
          \/ Goes(c, "parked")
      BY <2>4, GotoIs DEF sleepSince
    <3>3. "parked" \in PcsOf(cl[c].op)
      BY <3>1, Pcs
    <3>4. cl[c].op = "XREAD" => "version" \in PcsOf(cl[c].op)
      BY Pcs
    <3>5. cl[c].op # "XREAD" => "retry" \in PcsOf(cl[c].op)
      BY <3>1, Pcs
    <3> QED
      BY <3>2, <3>3, <3>4, <3>5, RecordsGo
  <2>5. CASE TimesOut(c)
    BY <2>5, ReplyIs, RecordsRest DEF TimesOut
  <2> QED
    BY <1>3, <2>1, <2>2, <2>3, <2>4, <2>5
<1> QED
  BY <1>1, <1>3, TalkKeeps, TalkShape

\* The read of a group: c is idle, back at its version, or holds the first entries past the
\* cursor.
LEMMA FetchStep ==
  ASSUME Shape, NEW c \in Clients, NEW pc, pc \in {"fetch", "retry"}, XReadGroupFetch(c, pc)
  PROVE  /\ Shape' /\ UNCHANGED <<store, history>> /\ seq' = seq /\ cl[c].op = "XREADGROUP" /\ cl[c].pc = pc
         /\ \/ Rests(c)
            \/ Goes(c, "version") /\ (cursor = None => pc = "retry")
            \/ \E todo \in Seq(ID) :
                 /\ todo # <<>> /\ (cursor = None => pc = "retry")
                 /\ todo = fresh(IF cursor = None THEN ZeroID ELSE cursor, cl[c].cmd.n)
                 /\ Turns(c, cl[c].op, "pel", cl[c].cmd, cl[c].id, todo, todo, cl[c].since)
<1> DEFINE at == IF cursor = None THEN ZeroID ELSE cursor
           todo == fresh(at, cl[c].cmd.n)
<1>1. /\ UNCHANGED <<store, history>> /\ seq' = seq /\ cl[c].op = "XREADGROUP" /\ cl[c].pc = pc
      /\ RecOK(c, cl[c]) /\ seq \in Nat /\ entries \in SUBSET ID /\ at \in ID
  BY EndsAreIDs DEF XReadGroupFetch, Busy, Shape, Stored, Records
<1>2. cl[c].cmd \in Commands[c] /\ cl[c].cmd.n \in Int
  BY <1>1, CommandIs DEF RecOK
<1>3. todo \in Seq(ID)
  BY <1>1, <1>2, FreshIs
<1>4. \/ Reply(c)
      \/ Goto(c, "version") /\ ~(cursor = None /\ pc = "fetch")
      \/ /\ todo # <<>> /\ ~(cursor = None /\ pc = "fetch")
         /\ cl' = [cl EXCEPT ![c].pc = "pel", ![c].todo = todo, ![c].read = todo]
  BY DEF XReadGroupFetch
<1>5. "version" \in PcsOf(cl[c].op) /\ "pel" \in PcsOf(cl[c].op)
  BY <1>1, Pcs
<1>6. CASE Reply(c)
  BY <1>1, <1>6, ReplyIs, RecordsRest, TalkShape
<1>7. CASE Goto(c, "version") /\ ~(cursor = None /\ pc = "fetch")
  <2>1. Goes(c, "version")
    BY <1>7, GotoIs
  <2>2. Records'
    BY <1>5, <2>1, RecordsGo
  <2> QED
    BY <1>1, <1>7, <2>1, <2>2, TalkShape
<1>8. CASE /\ todo # <<>> /\ ~(cursor = None /\ pc = "fetch")
           /\ cl' = [cl EXCEPT ![c].pc = "pel", ![c].todo = todo, ![c].read = todo]
  <2>1. todo = fresh(IF cursor = None THEN ZeroID ELSE cursor, cl[c].cmd.n)
    OBVIOUS
  <2> HIDE DEF todo
  <2>2. Turns(c, cl[c].op, "pel", cl[c].cmd, cl[c].id, todo, todo, cl[c].since)
    BY <1>8, FetchIs
  <2>3. cl[c].id \in ID /\ cl[c].since \in Nat /\ (cl[c].op # "idle" => cl[c].cmd \in Commands[c] /\ cl[c].cmd.op = cl[c].op)
    BY <1>1 DEF RecOK
  <2>4. Records'
    BY <1>3, <1>5, <1>8, <2>2, <2>3, RecordsTurn
  <2>5. Shape'
    BY <1>1, <2>4, TalkShape
  <2> QED
    BY <1>1, <1>3, <1>8, <2>1, <2>2, <2>5
<1> QED
  BY <1>4, <1>6, <1>7, <1>8

LEMMA PutIs ==
  ASSUME NEW id, NEW who, pel' = put(id, who)
  PROVE  DOMAIN pel' = DOMAIN pel \cup {id} /\ \A i \in DOMAIN pel' : pel'[i] = IF i = id THEN who ELSE pel[i]
  BY DEF put

\* What the steps that write the pending list or move the group do.
LEMMA PelAddStep ==
  ASSUME Shape, NEW c \in Clients, pelAdd(c)
  PROVE  /\ Shape' /\ entries' = entries /\ cursor' = cursor /\ seq' = seq /\ UNCHANGED history
         /\ cl[c].op = "XREADGROUP" /\ cl[c].pc = "pel" /\ cl[c].todo # <<>>
         /\ DOMAIN pel' = DOMAIN pel \cup {Head(cl[c].todo)}
         /\ Tails(c, IF Len(cl[c].todo) = 1 THEN "cursor" ELSE "pel")
<1> DEFINE pc == IF Len(cl[c].todo) = 1 THEN "cursor" ELSE "pel"
<1>1. /\ entries' = entries /\ cursor' = cursor /\ seq' = seq /\ UNCHANGED history
      /\ cl[c].op = "XREADGROUP" /\ cl[c].pc = "pel" /\ RecOK(c, cl[c]) /\ DOMAIN pel \in SUBSET ID
      /\ pel' = put(Head(cl[c].todo), cl[c].cmd.consumer)
      /\ cl' = [cl EXCEPT ![c].todo = Tail(cl[c].todo), ![c].pc = pc]
  BY DEF pelAdd, Busy, Shape, Stored, Records
<1>2. cl[c].todo # <<>> /\ cl[c].read # <<>> /\ cl[c].todo \in Seq(ID)
  BY <1>1 DEF RecOK
<1>3. Head(cl[c].todo) \in ID
  BY <1>2, SeqIs
<1>4. pc \in PcsOf(cl[c].op) /\ (pc \in {"pel", "ack", "claim"} => Len(cl[c].todo) # 1)
  BY <1>1, Pcs
<1>5. Tails(c, pc)
  <2> HIDE DEF pc
  <2> QED
    BY <1>1, PelAddIs
<1>6. Records'
  <2> HIDE DEF pc
  <2> QED
    BY <1>2, <1>4, <1>5, RecordsTail
<1>7. DOMAIN pel' = DOMAIN pel \cup {Head(cl[c].todo)}
  BY <1>1, PutIs
<1>8. Shape'
  BY <1>1, <1>3, <1>6, <1>7 DEF Shape, Stored, history
<1> QED
  BY <1>1, <1>2, <1>5, <1>7, <1>8

LEMMA OwnedStep ==
  ASSUME Shape, NEW c \in Clients, pelOwned(c)
  PROVE  /\ Shape' /\ entries' = entries /\ cursor' = cursor /\ seq' = seq /\ UNCHANGED history
         /\ cl[c].op = "XREADGROUP" /\ cl[c].pc = "redeliver" /\ DOMAIN pel \subseteq DOMAIN pel'
         /\ Rests(c) \/ Tails(c, "redeliver")
<1>1. /\ entries' = entries /\ cursor' = cursor /\ seq' = seq /\ UNCHANGED history
      /\ cl[c].op = "XREADGROUP" /\ cl[c].pc = "redeliver" /\ RecOK(c, cl[c]) /\ DOMAIN pel \in SUBSET ID
  BY DEF pelOwned, Busy, Shape, Stored, Records
<1>2. CASE cl[c].todo = <<>>
  <2>1. Rests(c) /\ pel' = pel
    BY <1>2, ReplyIs DEF pelOwned
  <2>2. Shape'
    BY <1>1, <2>1, RecordsRest DEF Shape, Stored, history
  <2> QED
    BY <1>1, <2>1, <2>2
<1>3. CASE cl[c].todo # <<>>
  <2>1. pel' = put(Head(cl[c].todo), cl[c].cmd.consumer) /\ cl' = [cl EXCEPT ![c].todo = Tail(cl[c].todo)]
    BY <1>3 DEF pelOwned
  <2>2. Tails(c, "redeliver")
    BY <1>1, <2>1, TailIs
  <2>3. Head(cl[c].todo) \in ID
    BY <1>1, <1>3, SeqIs DEF RecOK
  <2>4. "redeliver" \in PcsOf(cl[c].op)
    BY <1>1, Pcs
  <2>5. Records'
    BY <1>3, <2>2, <2>4, RecordsTail
  <2>6. DOMAIN pel' = DOMAIN pel \cup {Head(cl[c].todo)}
    BY <2>1, PutIs
  <2>7. Shape'
    BY <1>1, <2>3, <2>5, <2>6 DEF Shape, Stored, history
  <2> QED
    BY <1>1, <2>2, <2>6, <2>7
<1> QED
  BY <1>2, <1>3

LEMMA SetStep ==
  ASSUME Shape, NEW c \in Clients, groupSet(c)
  PROVE  /\ Shape' /\ entries' = entries /\ pel' = pel /\ seq' = seq /\ UNCHANGED history
         /\ cl[c].op = "XREADGROUP" /\ cl[c].pc = "cursor" /\ cl[c].read # <<>>
         /\ cursor' = Last(cl[c].read) /\ Goes(c, "reply")
<1>1. /\ entries' = entries /\ pel' = pel /\ seq' = seq /\ UNCHANGED history
      /\ cl[c].op = "XREADGROUP" /\ cl[c].pc = "cursor" /\ RecOK(c, cl[c])
      /\ cursor' = Last(cl[c].read) /\ Goto(c, "reply")
  BY DEF groupSet, Busy, Shape, Records
<1>2. cl[c].read # <<>> /\ cl[c].read \in Seq(ID)
  BY <1>1 DEF RecOK
<1>3. Last(cl[c].read) \in ID
  BY <1>2, SMTT(30) DEF Last
<1>4. Goes(c, "reply") /\ "reply" \in PcsOf(cl[c].op)
  BY <1>1, GotoIs, Pcs
<1>5. Records'
  BY <1>2, <1>4, RecordsGo
<1> QED
  BY <1>1, <1>2, <1>3, <1>4, <1>5 DEF Shape, Stored, history

LEMMA GroupReplyStep ==
  ASSUME Shape, NEW c \in Clients, XReadGroupReply(c)
  PROVE  /\ Shape' /\ entries' = entries /\ cursor' = cursor /\ pel' = pel /\ seq' = seq
         /\ top' = top /\ base' = base /\ done' = done
         /\ cl[c].op = "XREADGROUP" /\ cl[c].pc = "reply"
         /\ given' = given \cup Range(cl[c].read) /\ Rests(c)
<1>1. /\ entries' = entries /\ cursor' = cursor /\ pel' = pel /\ seq' = seq
      /\ top' = top /\ base' = base /\ done' = done
      /\ cl[c].op = "XREADGROUP" /\ cl[c].pc = "reply" /\ RecOK(c, cl[c])
      /\ given' = given \cup Range(cl[c].read) /\ Reply(c)
  BY DEF XReadGroupReply, Busy, Shape, Records, store
<1>2. Range(cl[c].read) \in SUBSET ID
  <2>1. \A q \in Seq(ID) : \A i \in DOMAIN q : q[i] \in ID
    BY SMTT(30)
  <2> QED
    BY <1>1, <2>1 DEF RecOK, Range
<1>3. Rests(c) /\ Records'
  BY <1>1, ReplyIs, RecordsRest
<1> QED
  BY <1>1, <1>2, <1>3 DEF Shape, Stored

LEMMA RemoveStep ==
  ASSUME Shape, NEW c \in Clients, pelRemove(c)
  PROVE  /\ Shape' /\ entries' = entries /\ cursor' = cursor /\ seq' = seq
         /\ top' = top /\ base' = base /\ given' = given
         /\ cl[c].op = "XACK" /\ cl[c].pc = "ack" /\ cl[c].todo \in Seq(ID) /\ cl[c].todo # <<>>
         /\ DOMAIN pel' = DOMAIN pel \ {Head(cl[c].todo)} /\ done' = done \cup {Head(cl[c].todo)}
         /\ Rests(c) \/ Tails(c, "ack")
<1>1. /\ entries' = entries /\ cursor' = cursor /\ seq' = seq
      /\ top' = top /\ base' = base /\ given' = given
      /\ cl[c].op = "XACK" /\ cl[c].pc = "ack" /\ RecOK(c, cl[c])
      /\ DOMAIN pel' = DOMAIN pel \ {Head(cl[c].todo)} /\ done' = done \cup {Head(cl[c].todo)}
      /\ Advance(c)
  BY DEF pelRemove, Busy, Shape, Records
<1>2. cl[c].todo \in Seq(ID) /\ cl[c].todo # <<>> /\ "ack" \in PcsOf(cl[c].op)
  BY <1>1, Pcs DEF RecOK
<1>3. IF Len(cl[c].todo) = 1 THEN Rests(c) ELSE Tails(c, "ack")
  BY <1>1, AdvanceIs
<1>4. Records'
  BY <1>2, <1>3, RecordsRest, RecordsTail
<1> QED
  BY <1>1, <1>2, <1>3, <1>4 DEF Shape, Stored

LEMMA MoveStep ==
  ASSUME Shape, NEW c \in Clients, pelMoveTo(c)
  PROVE  /\ Shape' /\ entries' = entries /\ cursor' = cursor /\ seq' = seq /\ UNCHANGED history
         /\ cl[c].op = "XCLAIM" /\ cl[c].pc = "claim"
         /\ DOMAIN pel \subseteq DOMAIN pel'
         /\ Rests(c) \/ Tails(c, "claim")
<1>1. /\ entries' = entries /\ cursor' = cursor /\ seq' = seq /\ UNCHANGED history
      /\ cl[c].op = "XCLAIM" /\ cl[c].pc = "claim" /\ RecOK(c, cl[c]) /\ DOMAIN pel \in SUBSET ID
      /\ pel' = put(Head(cl[c].todo), cl[c].cmd.consumer) /\ Advance(c)
  BY DEF pelMoveTo, Busy, Shape, Stored, Records
<1>2. cl[c].todo \in Seq(ID) /\ cl[c].todo # <<>> /\ "claim" \in PcsOf(cl[c].op)
  BY <1>1, Pcs DEF RecOK
<1>3. IF Len(cl[c].todo) = 1 THEN Rests(c) ELSE Tails(c, "claim")
  BY <1>1, AdvanceIs
<1>4. Records'
  BY <1>2, <1>3, RecordsRest, RecordsTail
<1>5. DOMAIN pel' = DOMAIN pel \cup {Head(cl[c].todo)} /\ Head(cl[c].todo) \in ID
  BY <1>1, <1>2, PutIs, SeqIs
<1> QED
  BY <1>1, <1>3, <1>4, <1>5 DEF Shape, Stored, history

LEMMA TrimStep ==
  ASSUME Shape, NEW c \in Clients, XAddTrim(c)
  PROVE  /\ Shape' /\ entries' = kept(entries, cl[c].cmd) /\ cursor' = cursor /\ pel' = pel /\ seq' = seq
         /\ UNCHANGED history /\ cl[c].op = "XADD" /\ cl[c].pc = "trim" /\ Rests(c)
<1>1. /\ entries' = kept(entries, cl[c].cmd) /\ cursor' = cursor /\ pel' = pel /\ seq' = seq
      /\ UNCHANGED history /\ cl[c].op = "XADD" /\ cl[c].pc = "trim" /\ Reply(c)
  BY DEF XAddTrim, Busy
<1>2. Rests(c) /\ Records'
  BY <1>1, ReplyIs, RecordsRest
<1>3. entries' \subseteq entries
  BY <1>1, KeptIs
<1> QED
  BY <1>1, <1>2, <1>3 DEF Shape, Stored, history

LEMMA DelStep ==
  ASSUME Shape, NEW c \in Clients, NEW m \in Commands[c], cmdXTrim(c, m)
  PROVE  /\ Shape' /\ entries' \subseteq entries /\ cursor' = cursor /\ pel' = pel /\ seq' = seq /\ cl' = cl
         /\ UNCHANGED history /\ KeepsTop(entries, entries') /\ m.op \in {"XDEL", "XTRIM"} /\ Free(c, m)
<1>1. /\ cursor' = cursor /\ pel' = pel /\ seq' = seq /\ cl' = cl /\ UNCHANGED history
      /\ KeepsTop(entries, entries') /\ m.op \in {"XDEL", "XTRIM"} /\ Free(c, m)
      /\ entries' = IF m.op = "XDEL" THEN entries \ m.ids ELSE kept(entries, m)
  BY DEF cmdXTrim
<1>2. entries' \subseteq entries
  BY <1>1, KeptIs
<1> QED
  BY <1>1, <1>2, RecordsStay DEF Shape, Stored, history

LEMMA RestartStep ==
  ASSUME Shape, NEW c \in Clients, NEW m \in Commands[c], cmdXGroupCreate(c, m) \/ cmdXGroupSetID(c, m)
  PROVE  /\ Shape' /\ entries' = entries /\ pel' = pel /\ seq' = seq /\ cl' = cl /\ top' = top
         /\ cursor' \in ID /\ base' = cursor' /\ done' = {} /\ given' = {}
         /\ isAdmin(m.op) /\ Free(c, m)
<1>1. entries \in SUBSET ID /\ m.id \in ID
  BY CommandIs DEF Shape, Stored
<1>2. /\ entries' = entries /\ pel' = pel /\ seq' = seq /\ cl' = cl /\ top' = top
      /\ isAdmin(m.op) /\ Free(c, m)
      /\ base' = cursor' /\ done' = {} /\ given' = {}
  BY DEF cmdXGroupCreate, cmdXGroupSetID, Restart, isAdmin
<1>3. CASE cmdXGroupCreate(c, m)
  <2>1. cursor' \in ID
    BY <1>1, <1>3, LastIs, EndsAreIDs DEF cmdXGroupCreate, Restart
  <2> QED
    BY <1>2, <2>1, RecordsStay DEF Shape, Stored
<1>4. CASE cmdXGroupSetID(c, m)
  <2>1. cursor' \in ID
    BY <1>1, <1>4 DEF cmdXGroupSetID, Restart
  <2> QED
    BY <1>2, <2>1, RecordsStay DEF Shape, Stored
<1> QED
  BY <1>3, <1>4

LEMMA DestroyStep ==
  ASSUME Shape, NEW c \in Clients, NEW m \in Commands[c], cmdXGroupDestroy(c, m)
  PROVE  /\ Shape' /\ entries' = entries /\ pel' = pel /\ seq' = seq /\ UNCHANGED history
         /\ cursor' = None /\ m.op = "DESTROY" /\ Free(c, m)
         /\ Turns(c, m.op, "drop", m, ZeroID, <<>>, <<>>, 0)
<1>1. /\ entries' = entries /\ pel' = pel /\ seq' = seq /\ UNCHANGED history
      /\ cursor' = None /\ m.op = "DESTROY" /\ Free(c, m) /\ Begin(c, m, "drop", ZeroID, <<>>)
  BY DEF cmdXGroupDestroy
<1>2. Turns(c, m.op, "drop", m, ZeroID, <<>>, <<>>, 0) /\ "drop" \in PcsOf(m.op)
  BY <1>1, BeginIs, Pcs
<1>3. Records'
  BY <1>2, RecordsBegin, EmptyIs, EndsAreIDs
<1> QED
  BY <1>1, <1>2, <1>3 DEF Shape, Stored, history

LEMMA DropStep ==
  ASSUME Shape, NEW c \in Clients, groupDestroy(c)
  PROVE  /\ Shape' /\ entries' = entries /\ cursor' = cursor /\ seq' = seq /\ UNCHANGED history
         /\ cl[c].op = "DESTROY" /\ cl[c].pc = "drop" /\ Rests(c)
<1>1. /\ entries' = entries /\ cursor' = cursor /\ seq' = seq /\ UNCHANGED history
      /\ cl[c].op = "DESTROY" /\ cl[c].pc = "drop" /\ Reply(c) /\ pel' = <<>>
  BY DEF groupDestroy, Busy
<1>2. Rests(c) /\ Records'
  BY <1>1, ReplyIs, RecordsRest
<1>3. DOMAIN pel' \in SUBSET ID
  BY <1>1, EmptyIs
<1> QED
  BY <1>1, <1>2, <1>3 DEF Shape, Stored, history

LEMMA DropConsumerStep ==
  ASSUME Shape, NEW c \in Clients, dropConsumer(c)
  PROVE  /\ Shape' /\ entries' = entries /\ cursor' = cursor /\ seq' = seq
         /\ top' = top /\ base' = base /\ given' = given
         /\ cl[c].op = "DELCONSUMER" /\ cl[c].pc = "drop" /\ Rests(c)
         /\ DOMAIN pel' = DOMAIN pel \ Range(cl[c].todo) /\ done' = done \cup Range(cl[c].todo)
<1>1. /\ entries' = entries /\ cursor' = cursor /\ seq' = seq
      /\ top' = top /\ base' = base /\ given' = given
      /\ cl[c].op = "DELCONSUMER" /\ cl[c].pc = "drop" /\ Reply(c)
      /\ DOMAIN pel' = DOMAIN pel \ Range(cl[c].todo) /\ done' = done \cup Range(cl[c].todo)
  BY DEF dropConsumer, Busy
<1>2. Rests(c) /\ Records'
  BY <1>1, ReplyIs, RecordsRest
<1> QED
  BY <1>1, <1>2 DEF Shape, Stored

LEMMA Same ==
  ASSUME UNCHANGED vars
  PROVE  UNCHANGED <<store, history>> /\ seq' = seq /\ cl' = cl
  BY DEF vars

\* The two ways a command meets its locks: it starts while they are free, or it goes on.
Starts(c) == \E m \in Commands[c] :
  /\ Free(c, m) /\ cl'[c].op = m.op /\ cl'[c].cmd = m
  /\ \A d \in Clients \ {c} : cl'[d] = cl[d]

GoesOn == \A d \in Clients : cl'[d].op = "idle" \/ (cl'[d].op = cl[d].op /\ cl'[d].cmd = cl[d].cmd)

LEMMA StepShape ==
  ASSUME Shape, [Next]_vars
  PROVE  Shape' /\ (GoesOn \/ \E c \in Clients : Starts(c))
<1>1. CASE UNCHANGED vars
  BY <1>1, Same, TalkShape, RecordsStay DEF GoesOn, Shape, Stored
<1>2. ASSUME NEW c \in Clients, Crash PROVE Shape' /\ GoesOn
  BY <1>2, CrashShape, CrashIs, IdleIs DEF GoesOn
<1>3. ASSUME NEW c \in Clients, Rests(c) PROVE GoesOn
  BY <1>3 DEF Rests, Turns, GoesOn
<1>4. ASSUME NEW c \in Clients, NEW pc, NEW todo, NEW read, NEW since,
             Turns(c, cl[c].op, pc, cl[c].cmd, cl[c].id, todo, read, since)
      PROVE  GoesOn
  BY <1>4 DEF Turns, GoesOn
<1>5. ASSUME NEW c \in Clients, NEW pc, Goes(c, pc) \/ Tails(c, pc) PROVE GoesOn
  BY <1>4, <1>5 DEF Goes, Tails
<1>6. ASSUME NEW c \in Clients, NEW m \in Commands[c], Free(c, m), NEW pc, NEW id, NEW todo,
             Turns(c, m.op, pc, m, id, todo, <<>>, 0)
      PROVE  Starts(c)
  BY <1>6 DEF Turns, Starts
<1>7. ASSUME NEW c \in Clients, Start(c) PROVE Shape' /\ (GoesOn \/ Starts(c))
  <2>1. PICK m \in Commands[c] :
          \/ (\E t \in Times : cmdXAdd(c, m, t)) \/ cmdXTrim(c, m) \/ cmdXRead(c, m) \/ cmdXReadGroup(c, m)
          \/ cmdXAck(c, m) \/ cmdXClaim(c, m)
          \/ cmdXGroupCreate(c, m) \/ cmdXGroupSetID(c, m) \/ cmdXGroupDestroy(c, m)
          \/ cmdXGroupDelConsumer(c, m)
    BY <1>7 DEF Start
  <2>2. cl' = cl => GoesOn
    BY DEF GoesOn
  <2>3. CASE \E t \in Times : cmdXAdd(c, m, t)
    BY <1>6, <2>2, <2>3, XAddShape
  <2>4. CASE cmdXTrim(c, m)
    BY <2>2, <2>4, DelStep
  <2>5. CASE cmdXRead(c, m) \/ cmdXReadGroup(c, m) \/ cmdXAck(c, m) \/ cmdXClaim(c, m) \/ cmdXGroupDelConsumer(c, m)
    <3>1. /\ Free(c, m)
          /\ \E pc, id, todo : Begin(c, m, pc, id, todo)
      BY <2>5 DEF cmdXRead, cmdXReadGroup, cmdXAck, cmdXClaim, cmdXGroupDelConsumer
    <3> QED
      BY <1>6, <2>5, <3>1, BeginShape, BeginIs
  <2>6. CASE cmdXGroupCreate(c, m) \/ cmdXGroupSetID(c, m)
    BY <2>2, <2>6, RestartStep
  <2>7. CASE cmdXGroupDestroy(c, m)
    BY <1>6, <2>7, DestroyStep
  <2> QED
    BY <2>1, <2>3, <2>4, <2>5, <2>6, <2>7
<1>8. ASSUME NEW c \in Clients, Continue(c) \/ TimesOut(c) PROVE Shape' /\ GoesOn
  <2>1. CASE XAddNotify(c)
    BY <2>1, NotifyShape, NotifyIs DEF GoesOn
  <2>2. CASE XAddTrim(c)
    BY <1>3, <2>2, TrimStep
  <2>3. CASE XReadVersion(c)
    BY <1>4, <2>3, ReadShape, VersionIs DEF XReadVersion
  <2>4. CASE XReadGroupVersion(c)
    BY <1>4, <2>4, ReadShape, VersionIs DEF XReadGroupVersion
  <2>5. CASE XReadEntries(c)
    BY <1>3, <1>5, <2>5, ReadShape, ReplyIs, GotoIs DEF XReadEntries
  <2>6. CASE sleepSince(c)
    BY <1>5, <2>6, ReadShape, GotoIs DEF sleepSince
  <2>7. CASE TimesOut(c)
    BY <1>3, <2>7, ReadShape, ReplyIs DEF TimesOut
  <2>8. CASE XReadGroupFetch(c, "fetch") \/ XReadGroupFetch(c, "retry")
    BY <1>3, <1>4, <1>5, <2>8, FetchStep
  <2>9. CASE pelAdd(c)
    BY <1>5, <2>9, PelAddStep
  <2>10. CASE groupSet(c)
    BY <1>5, <2>10, SetStep
  <2>11. CASE XReadGroupReply(c)
    BY <1>3, <2>11, GroupReplyStep
  <2>12. CASE pelOwned(c)
    BY <1>3, <1>5, <2>12, OwnedStep
  <2>13. CASE pelRemove(c)
    BY <1>3, <1>5, <2>13, RemoveStep
  <2>14. CASE pelMoveTo(c)
    BY <1>3, <1>5, <2>14, MoveStep
  <2>15. CASE groupDestroy(c)
    BY <1>3, <2>15, DropStep
  <2>16. CASE dropConsumer(c)
    BY <1>3, <2>16, DropConsumerStep
  <2> QED
    BY <1>8, <2>1, <2>2, <2>3, <2>4, <2>5, <2>6, <2>7, <2>8, <2>9, <2>10, <2>11, <2>12, <2>13, <2>14,
       <2>15, <2>16 DEF Continue
<1>9. CASE Clients = {}
  <2>1. CASE Crash
    BY <1>9, <2>1, TalkShape, CrashIs, EmptyIs DEF GoesOn, Records, Crash
  <2> QED
    BY <1>1, <1>9, <2>1 DEF Next
<1> QED
  BY <1>1, <1>2, <1>7, <1>8, <1>9 DEF Next

LEMMA InitShape == Init => Shape
<1>1. \A d \in Clients : RecOK(d, Idle)
  BY IdleIs, EmptyIs, EndsAreIDs DEF RecOK, PcsOf
<1> QED
  BY <1>1, EmptyIs, EndsAreIDs DEF Init, Shape, Stored, Records

-----------------------------------------------------------------------------
(* Locks.                                                                  *)

\* Two commands in flight hold different locks, and XGROUP, when Quiet, runs alone.
Locked ==
  \A c, d \in Clients : c # d =>
    /\ lockOf(cl[c].op) = lockOf(cl[d].op) => lockOf(cl[c].op) = "none"
    /\ Quiet /\ isAdmin(cl[c].op) => cl[d].op = "idle"

LEMMA LocksAre ==
  /\ lockOf("idle") = "none" /\ ~isAdmin("idle")
  /\ \A op \in {"XADD", "XDEL", "XTRIM", "XACK", "XCLAIM"} : lockOf(op) = "stream"
  /\ lockOf("XREADGROUP") = "GROUP"
  /\ "stream" # "none" /\ "GROUP" # "none"
  BY DEF lockOf, isAdmin

LEMMA StepLocked ==
  ASSUME Shape, Locked, [Next]_vars
  PROVE  Locked'
<1>1. CASE GoesOn
  <2>1. \A d \in Clients : cl'[d].op = cl[d].op \/ cl'[d].op = "idle"
    BY <1>1 DEF GoesOn
  <2>2. ASSUME NEW c \in Clients, NEW d \in Clients, c # d
        PROVE  /\ lockOf(cl'[c].op) = lockOf(cl'[d].op) => lockOf(cl'[c].op) = "none"
               /\ Quiet /\ isAdmin(cl'[c].op) => cl'[d].op = "idle"
    BY <2>1, <2>2, LocksAre DEF Locked
  <2> QED
    BY <2>2 DEF Locked
<1>2. ASSUME NEW a \in Clients, Starts(a) PROVE Locked'
  <2>1. PICK m \in Commands[a] : /\ Free(a, m) /\ cl'[a].op = m.op
                                 /\ \A d \in Clients \ {a} : cl'[d] = cl[d]
    BY <1>2 DEF Starts
  <2>2. ASSUME NEW d \in Clients, d # a
        PROVE  /\ lockOf(cl'[d].op) = lockOf(m.op) => lockOf(m.op) = "none"
               /\ Quiet /\ isAdmin(m.op) => cl'[d].op = "idle"
               /\ Quiet /\ isAdmin(cl'[d].op) => m.op = "idle"
    <3>1. cl'[d].op = cl[d].op
      BY <2>1, <2>2
    <3>2. CASE cl[d].op = "idle"
      BY <3>1, <3>2, LocksAre
    <3>3. CASE cl[d].op # "idle"
      <4>1. d \in Others(a)
        BY <2>2, <3>3 DEF Others
      <4> QED
        BY <2>1, <3>1, <4>1 DEF Free
    <3> QED
      BY <3>2, <3>3
  <2>3. ASSUME NEW c \in Clients, NEW d \in Clients, c # d
        PROVE  /\ lockOf(cl'[c].op) = lockOf(cl'[d].op) => lockOf(cl'[c].op) = "none"
               /\ Quiet /\ isAdmin(cl'[c].op) => cl'[d].op = "idle"
    <3>1. CASE c = a
      BY <2>1, <2>2, <2>3, <3>1
    <3>2. CASE d = a
      BY <2>1, <2>2, <2>3, <3>2
    <3>3. CASE c # a /\ d # a
      BY <2>1, <2>3, <3>3 DEF Locked
    <3> QED
      BY <3>1, <3>2, <3>3
  <2> QED
    BY <2>3 DEF Locked
<1> QED
  BY <1>1, <1>2, StepShape

LEMMA InitLocked == Init => Locked
  BY IdleIs, LocksAre DEF Init, Locked

\* Who starts a command that takes the stream's lock meets no other holder of it.
LEMMA StreamFree ==
  ASSUME NEW c \in Clients, NEW m, Free(c, m), lockOf(m.op) = "stream"
  PROVE  \A d \in Clients : lockOf(cl[d].op) # "stream"
<1>1. cl[c].op = "idle"
  BY IdleIs DEF Free
<1> QED
  BY <1>1, LocksAre DEF Free, Others

\* XGROUP, when Quiet, meets no command in flight.
LEMMA AdminFree ==
  ASSUME NEW c \in Clients, NEW m, Free(c, m), isAdmin(m.op), Quiet
  PROVE  \A d \in Clients : cl[d].op = "idle"
  BY IdleIs DEF Free, Others

\* Nothing starts while XGROUP, when Quiet, is in flight.
LEMMA AdminAlone ==
  ASSUME NEW a \in Clients, isAdmin(cl[a].op), NEW c \in Clients, NEW m, Free(c, m), Quiet
  PROVE  FALSE
<1>1. cl[c].op = "idle" /\ cl[a].op # "idle"
  BY IdleIs, LocksAre DEF Free
<1> QED
  BY <1>1 DEF Free, Others

-----------------------------------------------------------------------------
(* The newest entry.                                                       *)

Tops ==
  /\ \A j \in entries : leq(j, top)
  /\ ~MayTakeTop => (entries = {} /\ top = ZeroID) \/ top \in entries
  /\ \A c \in Clients : cl[c].op = "XADD" => KeepsTop(entries, kept(entries, cl[c].cmd))

\* The steps that leave the stream alone.
Elsewhere ==
  /\ entries' = entries /\ top' = top
  /\ \A d \in Clients : cl'[d].op = "XADD" => cl[d].op = "XADD" /\ cl'[d].cmd = cl[d].cmd

LEMMA StepElsewhere ==
  ASSUME Shape, [Next]_vars
  PROVE  \/ Elsewhere
         \/ \E c \in Clients : XAddTrim(c)
         \/ \E c \in Clients : \E m \in Commands[c] : cmdXTrim(c, m) \/ \E t \in Times : cmdXAdd(c, m, t)
<1>1. CASE UNCHANGED vars
  BY <1>1, Same, SameStore DEF Elsewhere
<1>2. CASE Crash
  <2>1. entries' = entries /\ top' = top
    BY <1>2 DEF Crash, store, history
  <2> QED
    BY <1>2, <2>1, CrashIs, IdleIs DEF Elsewhere
<1>3. ASSUME NEW c \in Clients, Rests(c), entries' = entries, top' = top PROVE Elsewhere
  BY <1>3 DEF Rests, Turns, Elsewhere
<1>4. ASSUME NEW c \in Clients, NEW pc, NEW todo, NEW read, NEW since, entries' = entries, top' = top,
             Turns(c, cl[c].op, pc, cl[c].cmd, cl[c].id, todo, read, since)
      PROVE  Elsewhere
  BY <1>4 DEF Turns, Elsewhere
<1>5. ASSUME NEW c \in Clients, NEW pc, Goes(c, pc) \/ Tails(c, pc), entries' = entries, top' = top PROVE Elsewhere
  BY <1>4, <1>5 DEF Goes, Tails
<1>6. ASSUME NEW c \in Clients, NEW m, m.op # "XADD", NEW pc, NEW id, NEW todo, entries' = entries, top' = top,
             Turns(c, m.op, pc, m, id, todo, <<>>, 0)
      PROVE  Elsewhere
  BY <1>6 DEF Turns, Elsewhere
<1>7. UNCHANGED history => top' = top
  BY DEF history
<1>8. ASSUME NEW c \in Clients, NEW m \in Commands[c],
             \/ cmdXRead(c, m) \/ cmdXReadGroup(c, m) \/ cmdXAck(c, m) \/ cmdXClaim(c, m)
             \/ cmdXGroupCreate(c, m) \/ cmdXGroupSetID(c, m) \/ cmdXGroupDestroy(c, m)
             \/ cmdXGroupDelConsumer(c, m)
      PROVE  Elsewhere
  <2>1. CASE cmdXRead(c, m) \/ cmdXReadGroup(c, m) \/ cmdXAck(c, m) \/ cmdXClaim(c, m) \/ cmdXGroupDelConsumer(c, m)
    <3>1. m.op # "XADD" /\ \E pc, id, todo : Begin(c, m, pc, id, todo)
      BY <2>1 DEF cmdXRead, cmdXReadGroup, cmdXAck, cmdXClaim, cmdXGroupDelConsumer
    <3>2. entries' = entries /\ top' = top
      BY <2>1, BeginShape, SameStore
    <3> QED
      BY <1>6, <3>1, <3>2, BeginIs
  <2>2. CASE cmdXGroupCreate(c, m) \/ cmdXGroupSetID(c, m)
    BY <2>2, RestartStep DEF Elsewhere
  <2>3. CASE cmdXGroupDestroy(c, m)
    BY <1>6, <1>7, <2>3, DestroyStep
  <2> QED
    BY <1>8, <2>1, <2>2, <2>3
<1>9. ASSUME NEW c \in Clients, Continue(c) \/ TimesOut(c) PROVE Elsewhere \/ XAddTrim(c)
  <2>1. CASE XAddNotify(c)
    <3>1. entries' = entries /\ top' = top
      BY <2>1, TalkKeeps, SameStore
    <3> QED
      BY <2>1, <3>1, NotifyIs DEF Elsewhere
  <2>2. CASE XReadVersion(c) \/ XReadEntries(c) \/ sleepSince(c) \/ TimesOut(c) \/ XReadGroupVersion(c)
    <3>1. entries' = entries /\ top' = top
      BY <2>2, TalkKeeps, SameStore
    <3>2. CASE XReadVersion(c)
      BY <1>4, <3>1, <3>2, VersionIs DEF XReadVersion
    <3>3. CASE XReadGroupVersion(c)
      BY <1>4, <3>1, <3>3, VersionIs DEF XReadGroupVersion
    <3>4. CASE XReadEntries(c)
      BY <1>3, <1>5, <3>1, <3>4, ReplyIs, GotoIs DEF XReadEntries
    <3>5. CASE sleepSince(c)
      BY <1>5, <3>1, <3>5, GotoIs DEF sleepSince
    <3>6. CASE TimesOut(c)
      BY <1>3, <3>1, <3>6, ReplyIs DEF TimesOut
    <3> QED
      BY <2>2, <3>2, <3>3, <3>4, <3>5, <3>6
  <2>3. CASE XReadGroupFetch(c, "fetch") \/ XReadGroupFetch(c, "retry")
    BY <1>3, <1>4, <1>5, <2>3, FetchStep, SameStore
  <2>4. CASE pelAdd(c)
    BY <1>5, <1>7, <2>4, PelAddStep
  <2>5. CASE groupSet(c)
    BY <1>5, <1>7, <2>5, SetStep
  <2>6. CASE XReadGroupReply(c)
    BY <1>3, <2>6, GroupReplyStep
  <2>7. CASE pelOwned(c)
    BY <1>3, <1>5, <1>7, <2>7, OwnedStep
  <2>8. CASE pelRemove(c)
    BY <1>3, <1>5, <2>8, RemoveStep
  <2>9. CASE pelMoveTo(c)
    BY <1>3, <1>5, <1>7, <2>9, MoveStep
  <2>10. CASE groupDestroy(c)
    BY <1>3, <1>7, <2>10, DropStep
  <2>11. CASE dropConsumer(c)
    BY <1>3, <2>11, DropConsumerStep
  <2> QED
    BY <1>9, <2>1, <2>2, <2>3, <2>4, <2>5, <2>6, <2>7, <2>8, <2>9, <2>10, <2>11 DEF Continue
<1> QED
  BY <1>1, <1>2, <1>8, <1>9 DEF Next, Start

LEMMA Antisymmetric == \A i, j \in ID : leq(i, j) /\ leq(j, i) => i = j
  BY Transitive, Irreflexive DEF leq

\* Taking entries away and leaving the newest.
LEMMA TopStays ==
  ASSUME Shape, Tops, entries' \subseteq entries, top' = top, KeepsTop(entries, entries'), ~MayTakeTop
  PROVE  (entries' = {} /\ top' = ZeroID) \/ top' \in entries'
<1>1. entries \in SUBSET ID /\ top \in ID
  BY DEF Shape, Stored
<1>2. CASE entries = {}
  BY <1>2 DEF Tops
<1>3. CASE entries # {}
  <2>1. PICK i \in entries' : \A j \in entries : leq(j, i)
    BY <1>3 DEF KeepsTop
  <2>2. CASE top \in entries
    <3>1. i = top
      BY <1>1, <2>1, <2>2, Antisymmetric DEF Tops
    <3> QED
      BY <2>1, <3>1
  <2> QED
    BY <1>3, <2>2 DEF Tops
<1> QED
  BY <1>2, <1>3

LEMMA AddTops ==
  ASSUME Shape, Locked, Tops, NEW c \in Clients, NEW m \in Commands[c], NEW t \in Times, cmdXAdd(c, m, t)
  PROVE  /\ Tops' /\ leq(top, top')
         /\ ~MayTakeTop => \A i \in entries' \ entries : less(top, i)
<1>1. entries \in SUBSET ID /\ top \in ID /\ m.op = "XADD" /\ Free(c, m)
  BY XAddShape DEF Shape, Stored
<1>2. CASE entries' = entries /\ cl' = cl /\ top' = top
  BY <1>2 DEF Tops, leq
<1>3. ASSUME NEW id \in ID,
             id = newID(m, lastStreamEntryID, t), id # Refused,
             entries' = entries \cup {id},
             top' = IF less(top, id) THEN id ELSE top,
             KeepsTop(entries \cup {id}, kept(entries \cup {id}, m)),
             Turns(c, m.op, "notify", m, id, <<>>, <<>>, 0)
      PROVE  /\ Tops' /\ leq(top, top')
             /\ ~MayTakeTop => \A i \in entries' \ entries : less(top, i)
  <2>1. t \in Word64 \ {0} /\ lastStreamEntryID \in ID \cup {None} /\ m.id \in ID
    BY <1>1, LastIs, StreamsAssumption, CommandIs
  <2>2. /\ lastStreamEntryID = None => less(ZeroID, id)
        /\ lastStreamEntryID # None => less(lastStreamEntryID, id)
    BY <1>3, <2>1, NewIDIs
  <2>3. top' \in ID /\ leq(top, top') /\ leq(id, top')
    BY <1>1, <1>3, NotLess DEF leq
  <2>4. \A j \in entries' : leq(j, top')
    BY <1>1, <1>3, <2>3, LeqLeq DEF Tops
  <2>5. ~MayTakeTop => less(top, id)
    <3>1. CASE entries = {} /\ top = ZeroID
      BY <1>1, <2>2, <3>1, LastIs
    <3>2. CASE top \in entries
      <4>1. lastStreamEntryID = top /\ lastStreamEntryID # None
        BY <1>1, <3>2, LastIs, Antisymmetric DEF Tops
      <4> QED
        BY <2>2, <4>1
    <3> QED
      BY <3>1, <3>2 DEF Tops
  <2>6. ASSUME NEW d \in Clients, cl'[d].op = "XADD" PROVE KeepsTop(entries', kept(entries', cl'[d].cmd))
    <3>1. CASE d = c
      BY <1>3, <3>1 DEF Turns
    <3>2. CASE d # c
      BY <1>1, <1>3, <2>6, <3>2, StreamFree, LocksAre DEF Turns
    <3> QED
      BY <3>1, <3>2
  <2>7. Tops'
    BY <1>3, <2>4, <2>5, <2>6 DEF Tops, KeepsTop
  <2> QED
    BY <1>3, <2>3, <2>5, <2>7
<1> QED
  BY <1>2, <1>3, XAddShape

LEMMA StepTops ==
  ASSUME Shape, Locked, Tops, [Next]_vars
  PROVE  /\ Tops' /\ leq(top, top')
         /\ ~MayTakeTop => \A i \in entries' \ entries : less(top, i)
<1>1. CASE Elsewhere
  BY <1>1 DEF Elsewhere, Tops, leq
<1>2. ASSUME entries' \subseteq entries, top' = top, KeepsTop(entries, entries'),
             \A d \in Clients : cl'[d].op # "XADD"
      PROVE  Tops' /\ leq(top, top') /\ \A i \in entries' \ entries : less(top, i)
  BY <1>2, TopStays DEF Tops, leq
<1>3. ASSUME NEW c \in Clients, XAddTrim(c)
      PROVE  Tops' /\ leq(top, top') /\ \A i \in entries' \ entries : less(top, i)
  <2>1. entries' = kept(entries, cl[c].cmd) /\ top' = top /\ cl[c].op = "XADD" /\ Rests(c)
    BY <1>3, TrimStep DEF history
  <2>2. KeepsTop(entries, entries') /\ entries' \subseteq entries
    BY <2>1, KeptIs DEF Tops
  <2>3. \A d \in Clients : cl'[d].op # "XADD"
    BY <2>1, LocksAre DEF Rests, Turns, Locked
  <2> QED
    BY <1>2, <2>1, <2>2, <2>3
<1>4. ASSUME NEW c \in Clients, NEW m \in Commands[c], cmdXTrim(c, m)
      PROVE  Tops' /\ leq(top, top') /\ \A i \in entries' \ entries : less(top, i)
  <2>1. /\ entries' \subseteq entries /\ KeepsTop(entries, entries') /\ top' = top /\ cl' = cl
        /\ m.op \in {"XDEL", "XTRIM"} /\ Free(c, m)
    BY <1>4, DelStep DEF history
  <2>2. \A d \in Clients : cl'[d].op # "XADD"
    BY <2>1, StreamFree, LocksAre
  <2> QED
    BY <1>2, <2>1, <2>2
<1> QED
  BY <1>1, <1>3, <1>4, AddTops, StepElsewhere

LEMMA InitTops == Init => Tops
  BY IdleIs DEF Init, Tops

-----------------------------------------------------------------------------
(* Wake-ups.                                                               *)

NotifyDue == \E d \in Clients : Busy(d, "XADD", "notify")

\* An XREAD that is parked, or about to park on the current version, sleeps over no entry
\* whose XADD has notified.
WakeOK(c) == cl[c].op = "XREAD" =>
  /\ cl[c].since <= seq
  /\ cl[c].pc = "parked" \/ (cl[c].pc = "sleep" /\ cl[c].since = seq) => After(cl[c].id) = {} \/ NotifyDue

Wakes == \A c \in Clients : WakeOK(c)

\* c takes a step that is no notification and adds no entry.
LEMMA WakeOne ==
  ASSUME Shape, Wakes, NEW c \in Clients, \A d \in Clients \ {c} : cl'[d] = cl[d], seq' = seq,
         entries' \subseteq entries, cl[c].pc # "notify", WakeOK(c)'
  PROVE  Wakes'
<1>1. NotifyDue => NotifyDue'
  BY DEF NotifyDue, Busy
<1>2. \A id : After(id) = {} => After(id)' = {}
  BY DEF After
<1>3. ASSUME NEW d \in Clients, d # c PROVE WakeOK(d)'
  <2>1. cl'[d] = cl[d] /\ WakeOK(d)
    BY <1>3 DEF Wakes
  <2>2. After(cl[d].id) = {} => After(cl[d].id)' = {}
    BY <2>1 DEF After
  <2> QED
    BY <1>1, <2>1, <2>2 DEF WakeOK
<1> QED
  BY <1>3 DEF Wakes

LEMMA WakeNone ==
  ASSUME Shape, Wakes, cl' = cl, seq' = seq, entries' \subseteq entries
  PROVE  Wakes'
<1>1. NotifyDue => NotifyDue'
  BY DEF NotifyDue, Busy
<1>2. ASSUME NEW d \in Clients PROVE WakeOK(d)'
  <2>1. cl'[d] = cl[d] /\ WakeOK(d)
    BY DEF Wakes
  <2>2. After(cl[d].id) = {} => After(cl[d].id)' = {}
    BY <2>1 DEF After
  <2> QED
    BY <1>1, <2>1, <2>2 DEF WakeOK
<1> QED
  BY <1>2 DEF Wakes

LEMMA StepWakes ==
  ASSUME Shape, Wakes, [Next]_vars
  PROVE  Wakes'
<1>1. CASE UNCHANGED vars
  BY <1>1, Same, SameStore, WakeNone
<1>2. CASE Crash
  BY <1>2, CrashIs, IdleIs DEF Wakes, WakeOK
<1>3. ASSUME NEW c \in Clients, cl[c].pc # "notify", entries' \subseteq entries, seq' = seq, Rests(c) PROVE Wakes'
  BY <1>3, WakeOne DEF Rests, Turns, WakeOK
<1>4. ASSUME NEW c \in Clients, cl[c].pc # "notify", cl[c].op # "XREAD", entries' = entries, seq' = seq,
             NEW pc, NEW todo, NEW read, NEW since, Turns(c, cl[c].op, pc, cl[c].cmd, cl[c].id, todo, read, since)
      PROVE  Wakes'
  BY <1>4, WakeOne DEF Turns, WakeOK
<1>5. ASSUME NEW c \in Clients, cl[c].pc # "notify", cl[c].op # "XREAD", entries' = entries, seq' = seq,
             NEW pc, Goes(c, pc) \/ Tails(c, pc)
      PROVE  Wakes'
  BY <1>4, <1>5 DEF Goes, Tails
<1>6. ASSUME NEW c \in Clients, NEW m, Free(c, m), m.op # "XREAD", entries' = entries, seq' = seq,
             NEW pc, NEW id, NEW todo, Turns(c, m.op, pc, m, id, todo, <<>>, 0)
      PROVE  Wakes'
  <2>1. cl[c].pc # "notify"
    BY <1>6, IdleIs DEF Free
  <2> QED
    BY <1>6, <2>1, WakeOne DEF Turns, WakeOK
<1>7. ASSUME NEW c \in Clients, NEW m \in Commands[c], NEW t \in Times, cmdXAdd(c, m, t) PROVE Wakes'
  <2>1. seq' = seq /\ m.op = "XADD"
    BY <1>7, XAddShape
  <2>2. CASE entries' = entries /\ cl' = cl
    BY <2>1, <2>2, WakeNone
  <2>3. ASSUME NEW id, Turns(c, m.op, "notify", m, id, <<>>, <<>>, 0) PROVE Wakes'
    <3>1. NotifyDue'
      BY <2>1, <2>3 DEF Turns, NotifyDue, Busy
    <3> QED
      BY <2>1, <2>3, <3>1 DEF Turns, Wakes, WakeOK
  <2> QED
    BY <1>7, <2>2, <2>3, XAddShape
<1>8. ASSUME NEW c \in Clients, NEW m \in Commands[c],
             \/ cmdXTrim(c, m) \/ cmdXRead(c, m) \/ cmdXReadGroup(c, m) \/ cmdXAck(c, m) \/ cmdXClaim(c, m)
             \/ cmdXGroupCreate(c, m) \/ cmdXGroupSetID(c, m) \/ cmdXGroupDestroy(c, m)
             \/ cmdXGroupDelConsumer(c, m)
      PROVE  Wakes'
  <2>1. CASE cmdXTrim(c, m)
    BY <2>1, DelStep, WakeNone
  <2>2. CASE cmdXRead(c, m)
    <3>1. PICK id : Begin(c, m, "version", id, <<>>)
      BY <2>2 DEF cmdXRead
    <3>2. seq' = seq /\ entries' = entries /\ cl[c].pc # "notify"
      BY <2>2, BeginShape, SameStore, IdleIs DEF cmdXRead, Free
    <3>3. Turns(c, m.op, "version", m, id, <<>>, <<>>, 0)
      BY <3>1, BeginIs
    <3>4. 0 <= seq
      BY SMTT(30) DEF Shape, Stored
    <3>5. WakeOK(c)'
      BY <3>2, <3>3, <3>4 DEF Turns, WakeOK
    <3> QED
      BY <3>2, <3>3, <3>5, WakeOne DEF Turns
  <2>3. CASE cmdXReadGroup(c, m) \/ cmdXAck(c, m) \/ cmdXClaim(c, m) \/ cmdXGroupDelConsumer(c, m)
    <3>1. Free(c, m) /\ m.op # "XREAD" /\ \E pc, id, todo : Begin(c, m, pc, id, todo)
      BY <2>3 DEF cmdXReadGroup, cmdXAck, cmdXClaim, cmdXGroupDelConsumer
    <3>2. entries' = entries /\ seq' = seq
      BY <2>3, BeginShape, SameStore
    <3> QED
      BY <1>6, <3>1, <3>2, BeginIs
  <2>4. CASE cmdXGroupCreate(c, m) \/ cmdXGroupSetID(c, m)
    BY <2>4, RestartStep, WakeNone
  <2>5. CASE cmdXGroupDestroy(c, m)
    BY <1>6, <2>5, DestroyStep
  <2> QED
    BY <1>8, <2>1, <2>2, <2>3, <2>4, <2>5
<1>9. ASSUME NEW c \in Clients, XAddNotify(c) PROVE Wakes'
  <2>1. seq' = seq + 1 /\ seq \in Nat /\ cl[c].op = "XADD"
    BY <1>9 DEF XAddNotify, Busy, Shape, Stored
  <2>2. \A n \in Nat : n <= seq => n <= seq + 1 /\ n # seq + 1
    BY <2>1, SMTT(30)
  <2>3. ASSUME NEW d \in Clients, cl'[d].op = "XREAD"
        PROVE  cl'[d].since <= seq' /\ cl'[d].since # seq' /\ cl'[d].pc # "parked"
    <3>1. cl[d].op = "XREAD" /\ d # c /\ cl'[d].since = cl[d].since
      <4>1. cl'[d].op = cl[d].op /\ cl'[d].since = cl[d].since
        BY <1>9, NotifyIs
      <4> QED
        BY <2>1, <2>3, <4>1
    <3>2. cl[d].since \in Nat /\ cl[d].since <= seq
      <4>1. RecOK(d, cl[d]) /\ WakeOK(d)
        BY DEF Shape, Records, Wakes
      <4> QED
        BY <3>1, <4>1 DEF RecOK, WakeOK
    <3>3. cl'[d].pc # "parked"
      <4>1. cl'[d].pc = IF cl[d].pc # "parked" THEN cl[d].pc ELSE "version"
        BY <1>9, <3>1, NotifyIs
      <4> QED
        BY <4>1
    <3> QED
      BY <2>1, <2>2, <3>1, <3>2, <3>3
  <2> QED
    BY <2>3 DEF Wakes, WakeOK
<1>10. ASSUME NEW c \in Clients, XReadVersion(c) \/ XReadEntries(c) \/ sleepSince(c) \/ TimesOut(c) PROVE Wakes'
  <2>1. seq' = seq /\ entries' = entries /\ cl[c].pc # "notify"
    <3>1. entries' = entries
      BY <1>10, TalkKeeps, SameStore
    <3> QED
      BY <1>10, <3>1 DEF XReadVersion, XReadEntries, sleepSince, TimesOut, Busy
  <2>2. CASE XReadVersion(c)
    <3>1. Turns(c, cl[c].op, "read", cl[c].cmd, cl[c].id, cl[c].todo, cl[c].read, seq)
      BY <2>2, VersionIs DEF XReadVersion
    <3>2. seq <= seq
      BY SMTT(30) DEF Shape, Stored
    <3> QED
      BY <2>1, <3>1, <3>2, WakeOne DEF Turns, WakeOK
  <2>3. CASE TimesOut(c)
    BY <1>3, <2>1, <2>3, ReplyIs DEF TimesOut
  <2>4. CASE XReadEntries(c)
    <3>1. CASE Reply(c)
      BY <1>3, <2>1, <3>1, ReplyIs
    <3>2. CASE Goto(c, "sleep") /\ fresh(cl[c].id, 0) = <<>>
      <4>1. cl[c].id \in ID /\ entries \in SUBSET ID /\ WakeOK(c)
        BY DEF Shape, Stored, Records, RecOK, Wakes
      <4>2. 0 \in Int
        BY SMTT(30)
      <4>3. After(cl[c].id) = {}
        BY <3>2, <4>1, <4>2, FreshIs
      <4>4. Goes(c, "sleep")
        BY <3>2, GotoIs
      <4>5. After(cl[c].id)' = {}
        BY <2>1, <4>3, <4>4 DEF After, Goes, Turns
      <4>6. WakeOK(c)'
        BY <2>1, <4>1, <4>4, <4>5 DEF WakeOK, Goes, Turns
      <4> QED
        BY <2>1, <4>4, <4>6, WakeOne DEF Goes, Turns
    <3> QED
      BY <2>4, <3>1, <3>2 DEF XReadEntries
  <2>5. CASE sleepSince(c)
    <3>1. CASE cl[c].op # "XREAD"
      BY <1>5, <2>1, <2>5, <3>1, GotoIs DEF sleepSince
    <3>2. CASE cl[c].op = "XREAD" /\ seq # cl[c].since
      <4>1. Goes(c, "version") /\ WakeOK(c)
        BY <2>5, <3>2, GotoIs DEF sleepSince, Wakes
      <4> QED
        BY <2>1, <4>1, WakeOne DEF Goes, Turns, WakeOK
    <3>3. CASE cl[c].op = "XREAD" /\ seq = cl[c].since
      <4>1. Goes(c, "parked") /\ WakeOK(c) /\ cl[c].pc = "sleep"
        BY <2>5, <3>3, GotoIs DEF sleepSince, Wakes
      <4>2. After(cl[c].id) = {} \/ NotifyDue
        BY <3>3, <4>1 DEF WakeOK
      <4>3. After(cl[c].id)' = {} \/ NotifyDue'
        BY <2>1, <4>1, <4>2 DEF After, NotifyDue, Busy, Goes, Turns
      <4>4. WakeOK(c)'
        BY <2>1, <3>3, <4>1, <4>3 DEF WakeOK, Goes, Turns
      <4> QED
        BY <2>1, <4>1, <4>4, WakeOne DEF Goes, Turns
    <3> QED
      BY <3>1, <3>2, <3>3
  <2> QED
    BY <1>10, <2>2, <2>3, <2>4, <2>5
<1>11. ASSUME NEW c \in Clients, Continue(c) PROVE Wakes'
  <2>1. CASE XAddTrim(c)
    BY <1>3, <2>1, TrimStep, KeptIs
  <2>2. CASE XReadGroupVersion(c)
    <3>1. entries' = entries /\ seq' = seq /\ cl[c].op = "XREADGROUP" /\ cl[c].pc = "version"
      BY <2>2, TalkKeeps, SameStore DEF XReadGroupVersion, Busy
    <3> QED
      BY <1>4, <2>2, <3>1, VersionIs DEF XReadGroupVersion
  <2>3. CASE XReadGroupFetch(c, "fetch") \/ XReadGroupFetch(c, "retry")
    <3>1. entries' = entries /\ seq' = seq /\ cl[c].op = "XREADGROUP" /\ cl[c].pc # "notify"
      BY <2>3, FetchStep, SameStore
    <3> QED
      BY <1>3, <1>4, <1>5, <2>3, <3>1, FetchStep
  <2>4. CASE pelAdd(c)
    BY <1>5, <2>4, PelAddStep
  <2>5. CASE groupSet(c)
    BY <1>5, <2>5, SetStep
  <2>6. CASE XReadGroupReply(c)
    BY <1>3, <2>6, GroupReplyStep
  <2>7. CASE pelOwned(c)
    BY <1>3, <1>5, <2>7, OwnedStep
  <2>8. CASE pelRemove(c)
    BY <1>3, <1>5, <2>8, RemoveStep
  <2>9. CASE pelMoveTo(c)
    BY <1>3, <1>5, <2>9, MoveStep
  <2>10. CASE groupDestroy(c)
    BY <1>3, <2>10, DropStep
  <2>11. CASE dropConsumer(c)
    BY <1>3, <2>11, DropConsumerStep
  <2> QED
    BY <1>9, <1>10, <1>11, <2>1, <2>2, <2>3, <2>4, <2>5, <2>6, <2>7, <2>8, <2>9, <2>10, <2>11 DEF Continue
<1> QED
  BY <1>1, <1>2, <1>7, <1>8, <1>10, <1>11 DEF Next, Start

LEMMA InitWakes == Init => Wakes
  BY IdleIs DEF Init, Wakes, WakeOK

-----------------------------------------------------------------------------
(* What leaves the pending list.                                           *)

\* XACK has only its own IDs to remove, XGROUP DELCONSUMER only its consumer's.
PendOK(c) ==
  /\ cl[c].op = "XACK" => Range(cl[c].todo) \subseteq Range(cl[c].cmd.list)
  /\ cl[c].op = "DELCONSUMER" => \A i \in DOMAIN pel : i \in Range(cl[c].todo) => pel[i] = cl[c].cmd.consumer

Pends == \A c \in Clients : PendOK(c)

LeavesOK(i) == \E c \in Clients :
  \/ Busy(c, "XACK", "ack") /\ i \in Range(cl[c].cmd.list)
  \/ Busy(c, "DELCONSUMER", "drop") /\ pel[i] = cl[c].cmd.consumer
  \/ Busy(c, "DESTROY", "drop")

LEMMA PendOne ==
  ASSUME Quiet, Locked, Pends, NEW c \in Clients, \A d \in Clients \ {c} : cl'[d] = cl[d],
         pel' = pel \/ cl[c].op # "idle", PendOK(c)'
  PROVE  Pends'
<1>1. ASSUME NEW d \in Clients, d # c PROVE PendOK(d)'
  <2>1. cl'[d] = cl[d] /\ PendOK(d)
    BY <1>1 DEF Pends
  <2>2. cl[d].op = "DELCONSUMER" => pel' = pel
    BY <1>1 DEF Locked, isAdmin
  <2> QED
    BY <2>1, <2>2 DEF PendOK
<1> QED
  BY <1>1 DEF Pends

LEMMA StepPends ==
  ASSUME Quiet, Shape, Locked, Pends, [Next]_vars
  PROVE  Pends' /\ \A i \in DOMAIN pel \ DOMAIN pel' : LeavesOK(i)
<1>1. ASSUME cl' = cl, pel' = pel PROVE Pends'
  BY <1>1 DEF Pends, PendOK
<1>2. CASE UNCHANGED vars
  BY <1>1, <1>2, Same, SameStore
<1>3. CASE Crash
  <2>1. pel' = pel
    BY <1>3 DEF Crash, store
  <2> QED
    BY <1>3, <2>1, CrashIs, IdleIs DEF Pends, PendOK
<1>4. ASSUME NEW c \in Clients, pel' = pel \/ cl[c].op # "idle", Rests(c) PROVE Pends'
  BY <1>4, PendOne DEF Rests, Turns, PendOK
<1>5. ASSUME NEW c \in Clients, pel' = pel \/ cl[c].op # "idle", NEW op, op \notin {"XACK", "DELCONSUMER"},
             NEW cmd, NEW pc, NEW id, NEW todo, NEW read, NEW since, Turns(c, op, pc, cmd, id, todo, read, since)
      PROVE  Pends'
  BY <1>5, PendOne DEF Turns, PendOK
<1>6. ASSUME NEW c \in Clients, cl[c].op \in {"XADD", "XREAD", "XREADGROUP", "XCLAIM"}, NEW pc, Goes(c, pc) \/ Tails(c, pc)
      PROVE  Pends'
  BY <1>5, <1>6 DEF Goes, Tails
<1>7. ASSUME NEW c \in Clients, Start(c) PROVE Pends' /\ DOMAIN pel' = DOMAIN pel
  <2>1. PICK m \in Commands[c] :
          \/ (\E t \in Times : cmdXAdd(c, m, t)) \/ cmdXTrim(c, m) \/ cmdXRead(c, m) \/ cmdXReadGroup(c, m)
          \/ cmdXAck(c, m) \/ cmdXClaim(c, m)
          \/ cmdXGroupCreate(c, m) \/ cmdXGroupSetID(c, m) \/ cmdXGroupDestroy(c, m)
          \/ cmdXGroupDelConsumer(c, m)
    BY <1>7 DEF Start
  <2>2. CASE \E t \in Times : cmdXAdd(c, m, t)
    BY <1>1, <1>5, <2>2, XAddShape
  <2>3. CASE cmdXTrim(c, m)
    BY <1>1, <2>3, DelStep
  <2>4. CASE cmdXRead(c, m) \/ cmdXReadGroup(c, m) \/ cmdXClaim(c, m)
    <3>1. m.op \notin {"XACK", "DELCONSUMER"} /\ \E pc, id, todo : Begin(c, m, pc, id, todo)
      BY <2>4 DEF cmdXRead, cmdXReadGroup, cmdXClaim
    <3>2. pel' = pel
      BY <2>4, BeginShape, SameStore
    <3> QED
      BY <1>5, <3>1, <3>2, BeginIs
  <2>5. CASE cmdXAck(c, m)
    <3>1. Turns(c, m.op, "ack", m, ZeroID, m.list, <<>>, 0) /\ m.op = "XACK"
      BY <2>5, BeginIs DEF cmdXAck
    <3>2. pel' = pel
      BY <2>5, BeginShape, SameStore
    <3>3. PendOK(c)'
      BY <3>1 DEF Turns, PendOK
    <3> QED
      BY <3>1, <3>2, <3>3, PendOne DEF Turns
  <2>6. CASE cmdXGroupDelConsumer(c, m)
    <3> DEFINE todo == pelList(pel, {m.consumer}, ZeroID, MaxID, 0)
    <3>1. 0 \in Int /\ DOMAIN pel \in SUBSET ID
      <4>1. 0 \in Int
        BY SMTT(30)
      <4> QED
        BY <4>1 DEF Shape, Stored
    <3>2. Range(todo) \subseteq {i \in DOMAIN pel : pel[i] = m.consumer}
      BY <3>1, PelListIs
    <3>3. Begin(c, m, "drop", ZeroID, todo) /\ m.op = "DELCONSUMER"
      BY <2>6 DEF cmdXGroupDelConsumer
    <3> HIDE DEF todo
    <3>4. Turns(c, m.op, "drop", m, ZeroID, todo, <<>>, 0)
      BY <3>3, BeginIs
    <3>5. pel' = pel
      BY <2>6, BeginShape, SameStore
    <3>6. PendOK(c)'
      BY <3>2, <3>3, <3>4, <3>5 DEF Turns, PendOK
    <3> QED
      BY <3>4, <3>5, <3>6, PendOne DEF Turns
  <2>7. CASE cmdXGroupCreate(c, m) \/ cmdXGroupSetID(c, m)
    BY <1>1, <2>7, RestartStep
  <2>8. CASE cmdXGroupDestroy(c, m)
    BY <1>5, <2>8, DestroyStep
  <2> QED
    BY <2>1, <2>2, <2>3, <2>4, <2>5, <2>6, <2>7, <2>8
<1>8. ASSUME NEW c \in Clients, Continue(c) \/ TimesOut(c)
      PROVE  Pends' /\ \A i \in DOMAIN pel \ DOMAIN pel' : LeavesOK(i)
  <2>1. CASE XAddNotify(c)
    <3>1. pel' = pel
      BY <2>1, TalkKeeps, SameStore
    <3>2. \A d \in Clients : cl'[d].op = cl[d].op /\ cl'[d].cmd = cl[d].cmd /\ cl'[d].todo = cl[d].todo
      BY <2>1, NotifyIs
    <3>3. ASSUME NEW d \in Clients PROVE PendOK(d)'
      <4>1. PendOK(d)
        BY DEF Pends
      <4> QED
        BY <3>1, <3>2, <4>1 DEF PendOK
    <3> QED
      BY <3>1, <3>3 DEF Pends
  <2>2. CASE XAddTrim(c)
    BY <1>4, <2>2, TrimStep
  <2>3. CASE XReadVersion(c) \/ XReadEntries(c) \/ sleepSince(c) \/ TimesOut(c) \/ XReadGroupVersion(c)
    <3>1. pel' = pel
      BY <2>3, TalkKeeps, SameStore
    <3>2. CASE TimesOut(c)
      BY <1>4, <3>1, <3>2, ReplyIs DEF TimesOut
    <3>3. CASE XReadVersion(c)
      BY <1>5, <3>1, <3>3, VersionIs DEF XReadVersion, Busy
    <3>4. CASE XReadGroupVersion(c)
      BY <1>5, <3>1, <3>4, VersionIs DEF XReadGroupVersion, Busy
    <3>5. CASE XReadEntries(c)
      BY <1>4, <1>6, <3>1, <3>5, ReplyIs, GotoIs DEF XReadEntries, Busy
    <3>6. CASE sleepSince(c)
      <4>1. RecOK(c, cl[c]) /\ cl[c].pc = "sleep"
        BY <3>6 DEF Shape, Records, sleepSince
      <4>2. cl[c].op \in {"XREAD", "XREADGROUP"}
        BY <4>1 DEF RecOK, PcsOf
      <4> QED
        BY <1>6, <3>1, <3>6, <4>2, GotoIs DEF sleepSince
    <3> QED
      BY <2>3, <3>1, <3>2, <3>3, <3>4, <3>5, <3>6
  <2>4. CASE XReadGroupFetch(c, "fetch") \/ XReadGroupFetch(c, "retry")
    <3>1. pel' = pel /\ cl[c].op = "XREADGROUP"
      BY <2>4, FetchStep, SameStore
    <3> QED
      BY <1>4, <1>5, <1>6, <2>4, <3>1, FetchStep
  <2>5. CASE pelAdd(c)
    BY <1>6, <2>5, PelAddStep
  <2>6. CASE groupSet(c)
    BY <1>6, <2>6, SetStep
  <2>7. CASE XReadGroupReply(c)
    BY <1>4, <2>7, GroupReplyStep
  <2>8. CASE pelOwned(c)
    BY <1>4, <1>6, <2>8, OwnedStep
  <2>9. CASE pelRemove(c)
    <3>1. /\ cl[c].op = "XACK" /\ cl[c].pc = "ack" /\ cl[c].todo \in Seq(ID) /\ cl[c].todo # <<>>
          /\ DOMAIN pel' = DOMAIN pel \ {Head(cl[c].todo)}
          /\ Rests(c) \/ Tails(c, "ack")
      BY <2>9, RemoveStep
    <3>2. /\ Head(cl[c].todo) \in Range(cl[c].cmd.list)
          /\ Range(Tail(cl[c].todo)) \subseteq Range(cl[c].cmd.list)
      BY <3>1, SeqIs DEF Pends, PendOK
    <3>3. \A i \in DOMAIN pel \ DOMAIN pel' : LeavesOK(i)
      BY <3>1, <3>2 DEF LeavesOK, Busy
    <3>4. CASE Rests(c)
      BY <1>4, <3>1, <3>3, <3>4
    <3>5. CASE Tails(c, "ack")
      <4>1. PendOK(c)'
        BY <3>1, <3>2, <3>5 DEF Tails, Turns, PendOK
      <4> QED
        BY <3>1, <3>3, <3>5, <4>1, PendOne DEF Tails, Turns
    <3> QED
      BY <3>1, <3>4, <3>5
  <2>10. CASE pelMoveTo(c)
    BY <1>4, <1>6, <2>10, MoveStep
  <2>11. CASE groupDestroy(c)
    <3>1. cl[c].op = "DESTROY" /\ cl[c].pc = "drop" /\ Rests(c)
      BY <2>11, DropStep
    <3> QED
      BY <1>4, <3>1 DEF LeavesOK, Busy
  <2>12. CASE dropConsumer(c)
    <3>1. cl[c].op = "DELCONSUMER" /\ cl[c].pc = "drop" /\ Rests(c) /\ DOMAIN pel' = DOMAIN pel \ Range(cl[c].todo)
      BY <2>12, DropConsumerStep
    <3>2. PendOK(c)
      BY DEF Pends
    <3> QED
      BY <1>4, <3>1, <3>2 DEF LeavesOK, Busy, PendOK
  <2> QED
    BY <1>8, <2>1, <2>2, <2>3, <2>4, <2>5, <2>6, <2>7, <2>8, <2>9, <2>10, <2>11, <2>12 DEF Continue
<1> QED
  BY <1>2, <1>3, <1>7, <1>8, SameStore, Same DEF Next, Crash, store

LEMMA InitPends == Init => Pends
  BY IdleIs DEF Init, Pends, PendOK

-----------------------------------------------------------------------------
(* What a group hands out.                                                 *)

Awake == {"version", "sleep", "parked", "retry", "pel", "cursor", "reply"}

Holding == {"pel", "cursor", "reply"}

\* A read in flight found the group; what it holds is in order, stored once, and newer than
\* all that was handed out.
HandOK(c) == cl[c].op = "XREADGROUP" =>
  /\ cl[c].pc \in Awake => cursor # None
  /\ cl[c].pc \in Holding =>
       /\ Last(cl[c].read) \in Range(cl[c].read)
       /\ \A i \in Range(cl[c].read) : leq(i, Last(cl[c].read))
       /\ Last(cl[c].read)[1] < MaxWord /\ leq(Last(cl[c].read), top)
       /\ \A i \in Range(cl[c].read) : \A j \in given : less(j, i)
  /\ cl[c].pc = "reply" => cursor = Last(cl[c].read)

\* The group is where it was told to start or at an entry that was stored, and at or past
\* all it has handed out.
GroupOK == cursor # None =>
  /\ cursor = base \/ (cursor[1] < MaxWord /\ leq(cursor, top))
  /\ \A j \in given : leq(j, cursor) /\ cursor[1] < MaxWord

Hands == GroupOK /\ \A c \in Clients : HandOK(c)

\* The group and what it has handed out stay, as does what each other client holds.
LEMMA HandKept ==
  ASSUME Shape, Shape', Hands, cursor' = cursor, base' = base, given' = given, leq(top, top')
  PROVE  /\ GroupOK'
         /\ \A d \in Clients : cl'[d] = cl[d] => HandOK(d)'
<1>1. top \in ID /\ top' \in ID /\ cursor \in ID \cup {None}
  BY DEF Shape, Stored
<1>2. \A i \in ID : leq(i, top) => leq(i, top')
  BY <1>1, LeqLeq
<1>3. GroupOK'
  BY <1>1, <1>2 DEF Hands, GroupOK
<1>4. ASSUME NEW d \in Clients, cl'[d] = cl[d] PROVE HandOK(d)'
  <2>1. HandOK(d) /\ RecOK(d, cl[d])
    BY DEF Hands, Shape, Records
  <2>2. cl[d].op = "XREADGROUP" /\ cl[d].pc \in Holding => Last(cl[d].read) \in ID
    <3>1. \A q \in Seq(ID) : \A i \in DOMAIN q : q[i] \in ID
      BY SMTT(30)
    <3> QED
      BY <2>1, <3>1 DEF HandOK, RecOK, Range
  <2>3. cl[d].op = "XREADGROUP" /\ cl[d].pc \in Holding => leq(Last(cl[d].read), top')
    BY <1>2, <2>1, <2>2 DEF HandOK
  <2> QED
    BY <1>4, <2>1, <2>3 DEF HandOK
<1> QED
  BY <1>3, <1>4

LEMMA HandOne ==
  ASSUME Shape, Shape', Hands, NEW c \in Clients, \A d \in Clients \ {c} : cl'[d] = cl[d],
         cursor' = cursor, base' = base, given' = given, leq(top, top'), HandOK(c)'
  PROVE  Hands'
  BY HandKept DEF Hands

\* Only one client reads the group, and none while XGROUP is at work.
LEMMA OneReader ==
  ASSUME Locked, NEW c \in Clients, cl[c].op = "XREADGROUP"
  PROVE  \A d \in Clients \ {c} : cl[d].op # "XREADGROUP"
  BY LocksAre DEF Locked

\* A read that has just been made.
LEMMA FetchHolds ==
  ASSUME Shape, Tops, Hands, cursor # None, NEW n \in Int, NEW todo, todo = fresh(cursor, n), todo # <<>>
  PROVE  /\ Last(todo) \in Range(todo) /\ Range(todo) \in SUBSET ID
         /\ \A i \in Range(todo) : leq(i, Last(todo))
         /\ Last(todo)[1] < MaxWord /\ leq(Last(todo), top)
         /\ \A i \in Range(todo) : \A j \in given : less(j, i)
<1>1. cursor \in ID /\ entries \in SUBSET ID /\ given \in SUBSET ID
  BY DEF Shape, Stored
<1>2. /\ Range(todo) \subseteq After(cursor) /\ Last(todo) \in Range(todo)
      /\ \A i \in After(cursor) : i \in Range(todo) <=> leq(i, Last(todo))
  BY <1>1, FreshIs
<1>3. \A i \in After(cursor) : i \in entries /\ i \in ID /\ leq(nextID(cursor), i) /\ i[1] < MaxWord
  BY <1>1 DEF After
<1>4. ASSUME NEW i \in Range(todo), NEW j \in given PROVE less(j, i)
  <2>1. leq(j, cursor) /\ cursor[1] < MaxWord
    BY DEF Hands, GroupOK
  <2>2. cursor # MaxID
    <3>1. ~(MaxWord < MaxWord)
      BY WordAssumption, SMTT(30)
    <3>2. MaxID[1] = MaxWord
      BY DEF MaxID
    <3> QED
      BY <2>1, <3>1, <3>2
  <2>3. less(cursor, i)
    BY <1>1, <1>2, <1>3, <2>2, NextIs
  <2> QED
    BY <1>1, <1>2, <1>3, <2>1, <2>3, LeqLess
<1> QED
  BY <1>2, <1>3, <1>4 DEF Tops

LEMMA StepHands ==
  ASSUME Quiet, Shape, Shape', Locked, Tops, leq(top, top'), Hands, [Next]_vars
  PROVE  Hands'
<1>1. ASSUME cl' = cl, cursor' = cursor, base' = base, given' = given PROVE Hands'
  BY <1>1, HandKept DEF Hands
<1>2. CASE UNCHANGED vars
  BY <1>1, <1>2, Same, SameStore
<1>3. CASE Crash
  <2>1. cursor' = cursor /\ base' = base /\ given' = given
    BY <1>3 DEF Crash, store, history
  <2> QED
    BY <1>3, <2>1, HandKept, CrashIs, IdleIs DEF Hands, HandOK
<1>4. ASSUME NEW c \in Clients, cursor' = cursor, base' = base, given' = given, Rests(c) PROVE Hands'
  BY <1>4, HandOne DEF Rests, Turns, HandOK
<1>5. ASSUME NEW c \in Clients, cursor' = cursor, base' = base, given' = given, NEW op, op # "XREADGROUP",
             NEW cmd, NEW pc, NEW id, NEW todo, NEW read, NEW since, Turns(c, op, pc, cmd, id, todo, read, since)
      PROVE  Hands'
  BY <1>5, HandOne DEF Turns, HandOK
<1>6. ASSUME NEW c \in Clients, cursor' = cursor, base' = base, given' = given, cl[c].op # "XREADGROUP",
             NEW pc, Goes(c, pc) \/ Tails(c, pc)
      PROVE  Hands'
  BY <1>5, <1>6 DEF Goes, Tails
\* XREADGROUP before it holds anything.
<1>7. ASSUME NEW c \in Clients, cursor' = cursor, base' = base, given' = given,
             NEW op, NEW cmd, NEW pc, pc \notin Holding, pc \in Awake => cursor # None,
             NEW id, NEW todo, NEW read, NEW since, Turns(c, op, pc, cmd, id, todo, read, since)
      PROVE  Hands'
  <2>1. HandOK(c)'
    BY <1>7 DEF Turns, HandOK, Holding
  <2> QED
    BY <1>7, <2>1, HandOne DEF Turns
<1>8. UNCHANGED history => base' = base /\ given' = given
  BY DEF history
<1>9. ASSUME NEW c \in Clients, Start(c) PROVE Hands'
  <2>1. PICK m \in Commands[c] :
          \/ (\E t \in Times : cmdXAdd(c, m, t)) \/ cmdXTrim(c, m) \/ cmdXRead(c, m) \/ cmdXReadGroup(c, m)
          \/ cmdXAck(c, m) \/ cmdXClaim(c, m)
          \/ cmdXGroupCreate(c, m) \/ cmdXGroupSetID(c, m) \/ cmdXGroupDestroy(c, m)
          \/ cmdXGroupDelConsumer(c, m)
    BY <1>9 DEF Start
  <2>2. CASE \E t \in Times : cmdXAdd(c, m, t)
    BY <1>1, <1>5, <2>2, XAddShape
  <2>3. CASE cmdXTrim(c, m)
    BY <1>1, <1>8, <2>3, DelStep
  <2>4. CASE cmdXRead(c, m) \/ cmdXAck(c, m) \/ cmdXClaim(c, m) \/ cmdXGroupDelConsumer(c, m)
    <3>1. m.op # "XREADGROUP" /\ \E pc, id, todo : Begin(c, m, pc, id, todo)
      BY <2>4 DEF cmdXRead, cmdXAck, cmdXClaim, cmdXGroupDelConsumer
    <3>2. cursor' = cursor /\ base' = base /\ given' = given
      BY <2>4, BeginShape, SameStore
    <3> QED
      BY <1>5, <3>1, <3>2, BeginIs
  <2>5. CASE cmdXReadGroup(c, m)
    <3>1. cursor' = cursor /\ base' = base /\ given' = given
      BY <2>5, BeginShape, SameStore
    <3>2. PICK pc \in {"redeliver", "fetch"} : \E todo : Begin(c, m, pc, ZeroID, todo)
      BY <2>5 DEF cmdXReadGroup
    <3>3. pc \notin Holding /\ pc \notin Awake
      BY DEF Holding, Awake
    <3> QED
      BY <1>7, <3>1, <3>2, <3>3, BeginIs
  <2>6. CASE cmdXGroupCreate(c, m) \/ cmdXGroupSetID(c, m)
    <3>1. cl' = cl /\ base' = cursor' /\ given' = {} /\ \A d \in Clients : cl[d].op = "idle"
      BY <2>6, RestartStep, AdminFree
    <3> QED
      BY <3>1 DEF Hands, GroupOK, HandOK
  <2>7. CASE cmdXGroupDestroy(c, m)
    <3>1. /\ cursor' = None /\ m.op = "DESTROY" /\ Free(c, m)
          /\ Turns(c, m.op, "drop", m, ZeroID, <<>>, <<>>, 0)
      BY <2>7, DestroyStep
    <3>2. \A d \in Clients : cl[d].op = "idle"
      BY <3>1, AdminFree DEF isAdmin
    <3>3. \A d \in Clients : cl'[d].op # "XREADGROUP"
      BY <3>1, <3>2 DEF Turns
    <3> QED
      BY <3>1, <3>3 DEF Hands, GroupOK, HandOK
  <2> QED
    BY <2>1, <2>2, <2>3, <2>4, <2>5, <2>6, <2>7
<1>10. ASSUME NEW c \in Clients, \/ XAddNotify(c) \/ XReadVersion(c) \/ XReadEntries(c) \/ sleepSince(c) \/ TimesOut(c)
                                 \/ XReadGroupVersion(c)
       PROVE  Hands'
  <2>1. cursor' = cursor /\ base' = base /\ given' = given /\ top' = top
    BY <1>10, TalkKeeps, SameStore
  <2>2. CASE XAddNotify(c)
    <3>1. ASSUME NEW d \in Clients PROVE HandOK(d)'
      <4>1. cl'[d].op = cl[d].op /\ cl'[d].read = cl[d].read
        BY <2>2, NotifyIs
      <4>2. cl[d].op = "XREADGROUP" => (cl'[d].pc = cl[d].pc \/ (cl[d].pc = "parked" /\ cl'[d].pc = "retry"))
        BY <2>2, NotifyIs DEF XAddNotify, Busy
      <4>3. HandOK(d)
        BY DEF Hands
      <4> QED
        BY <2>1, <4>1, <4>2, <4>3 DEF HandOK, Awake, Holding
    <3> QED
      BY <2>1, <3>1, HandKept DEF Hands
  <2>3. CASE XReadVersion(c)
    BY <1>5, <2>1, <2>3, VersionIs DEF XReadVersion, Busy
  <2>4. CASE XReadEntries(c)
    BY <1>4, <1>6, <2>1, <2>4, ReplyIs, GotoIs DEF XReadEntries, Busy
  <2>5. CASE TimesOut(c)
    BY <1>4, <2>1, <2>5, ReplyIs DEF TimesOut
  <2>6. CASE XReadGroupVersion(c)
    <3>1. cursor # None
      BY <2>6 DEF Hands, HandOK, XReadGroupVersion, Busy, Awake
    <3>2. "sleep" \notin Holding
      BY DEF Holding
    <3> QED
      BY <1>7, <2>1, <2>6, <3>1, <3>2, VersionIs DEF XReadGroupVersion
  <2>7. CASE sleepSince(c)
    <3>1. CASE cl[c].op # "XREADGROUP"
      BY <1>6, <2>1, <2>7, <3>1, GotoIs DEF sleepSince
    <3>2. CASE cl[c].op = "XREADGROUP"
      <4>1. cursor # None
        BY <2>7, <3>2 DEF Hands, HandOK, sleepSince, Awake
      <4>2. Goes(c, "retry") \/ Goes(c, "parked")
        BY <2>7, <3>2, GotoIs DEF sleepSince
      <4>3. "retry" \notin Holding /\ "parked" \notin Holding
        BY DEF Holding
      <4> QED
        BY <1>7, <2>1, <4>1, <4>2, <4>3 DEF Goes
    <3> QED
      BY <3>1, <3>2
  <2> QED
    BY <1>10, <2>2, <2>3, <2>4, <2>5, <2>6, <2>7
<1>11. ASSUME NEW c \in Clients, XReadGroupFetch(c, "fetch") \/ XReadGroupFetch(c, "retry") PROVE Hands'
  <2>1. PICK pc \in {"fetch", "retry"} : XReadGroupFetch(c, pc)
    BY <1>11
  <2>2. cursor' = cursor /\ base' = base /\ given' = given /\ top' = top /\ cl[c].op = "XREADGROUP" /\ cl[c].pc = pc
    BY <2>1, FetchStep, SameStore
  <2>3. pc = "retry" => cursor # None
    BY <2>2 DEF Hands, HandOK, Awake
  <2>4. CASE Rests(c)
    BY <1>4, <2>2, <2>4
  <2>5. CASE Goes(c, "version") /\ (cursor = None => pc = "retry")
    <3>1. "version" \notin Holding
      BY DEF Holding
    <3> QED
      BY <1>7, <2>2, <2>3, <2>5, <3>1 DEF Goes
  <2>6. ASSUME NEW todo \in Seq(ID), todo # <<>>, cursor = None => pc = "retry",
               todo = fresh(IF cursor = None THEN ZeroID ELSE cursor, cl[c].cmd.n),
               Turns(c, cl[c].op, "pel", cl[c].cmd, cl[c].id, todo, todo, cl[c].since)
        PROVE  Hands'
    <3>1. cursor # None /\ todo = fresh(cursor, cl[c].cmd.n)
      BY <2>3, <2>6
    <3>2. cl[c].cmd.n \in Int
      BY <2>2, CommandIs DEF Shape, Records, RecOK
    <3>3. /\ Last(todo) \in Range(todo) /\ \A i \in Range(todo) : leq(i, Last(todo))
          /\ Last(todo)[1] < MaxWord /\ leq(Last(todo), top)
          /\ \A i \in Range(todo) : \A j \in given : less(j, i)
      BY <2>6, <3>1, <3>2, FetchHolds
    <3>4. HandOK(c)'
      BY <2>2, <2>6, <3>1, <3>3 DEF HandOK, Turns
    <3> QED
      BY <2>2, <2>6, <3>4, HandOne DEF Turns
  <2> QED
    BY <2>1, <2>4, <2>5, <2>6, FetchStep
<1>12. ASSUME NEW c \in Clients, pelAdd(c) PROVE Hands'
  <2>1. /\ cursor' = cursor /\ base' = base /\ given' = given /\ top' = top
        /\ cl[c].op = "XREADGROUP" /\ cl[c].pc = "pel"
        /\ Tails(c, IF Len(cl[c].todo) = 1 THEN "cursor" ELSE "pel")
    BY <1>12, PelAddStep DEF history
  <2>2. cl'[c].pc \in {"pel", "cursor"} /\ cl'[c].op = cl[c].op /\ cl'[c].read = cl[c].read
    BY <2>1 DEF Tails, Turns
  <2>3. HandOK(c)
    BY DEF Hands
  <2>4. HandOK(c)'
    BY <2>1, <2>2, <2>3 DEF HandOK, Holding, Awake
  <2> QED
    BY <2>1, <2>4, HandOne DEF Tails, Turns
<1>13. ASSUME NEW c \in Clients, groupSet(c) PROVE Hands'
  <2>1. /\ base' = base /\ given' = given /\ top' = top /\ cl[c].op = "XREADGROUP" /\ cl[c].pc = "cursor"
        /\ cursor' = Last(cl[c].read) /\ Goes(c, "reply")
    BY <1>13, SetStep DEF history
  <2>2. HandOK(c)
    BY DEF Hands
  <2>3. cursor' # None
    BY <1>13, SetStep, SMTT(30), StreamsAssumption DEF Shape, Records, RecOK, Last
  <2>4. HandOK(c)'
    BY <2>1, <2>2, <2>3 DEF HandOK, Goes, Turns, Holding
  <2>5. GroupOK'
    BY <2>1, <2>2 DEF HandOK, GroupOK, Holding, leq
  <2>6. \A d \in Clients \ {c} : cl'[d].op # "XREADGROUP"
    BY <2>1, OneReader DEF Goes, Turns
  <2> QED
    BY <2>4, <2>5, <2>6 DEF Hands, HandOK
<1>14. ASSUME NEW c \in Clients, XReadGroupReply(c) PROVE Hands'
  <2>1. /\ cursor' = cursor /\ base' = base /\ top' = top /\ cl[c].op = "XREADGROUP" /\ cl[c].pc = "reply"
        /\ given' = given \cup Range(cl[c].read) /\ Rests(c)
    BY <1>14, GroupReplyStep
  <2>2. HandOK(c)
    BY DEF Hands
  <2>3. GroupOK'
    BY <2>1, <2>2 DEF Hands, HandOK, GroupOK, Holding
  <2>4. \A d \in Clients : cl'[d].op # "XREADGROUP"
    BY <2>1, OneReader DEF Rests, Turns
  <2> QED
    BY <2>3, <2>4 DEF Hands, HandOK
<1>15. ASSUME NEW c \in Clients, pelOwned(c) PROVE Hands'
  <2>1. cursor' = cursor /\ base' = base /\ given' = given /\ (Rests(c) \/ Tails(c, "redeliver"))
    BY <1>8, <1>15, OwnedStep
  <2>2. "redeliver" \notin Holding /\ "redeliver" \notin Awake
    BY DEF Holding, Awake
  <2> QED
    BY <1>4, <1>7, <2>1, <2>2 DEF Tails
<1>16. ASSUME NEW c \in Clients, Continue(c) PROVE Hands'
  <2>1. CASE XAddTrim(c)
    BY <1>4, <1>8, <2>1, TrimStep
  <2>2. CASE pelRemove(c)
    BY <1>4, <1>6, <2>2, RemoveStep
  <2>3. CASE pelMoveTo(c)
    BY <1>4, <1>6, <1>8, <2>3, MoveStep
  <2>4. CASE groupDestroy(c)
    BY <1>4, <1>8, <2>4, DropStep
  <2>5. CASE dropConsumer(c)
    BY <1>4, <2>5, DropConsumerStep
  <2> QED
    BY <1>10, <1>11, <1>12, <1>13, <1>14, <1>15, <1>16, <2>1, <2>2, <2>3, <2>4, <2>5 DEF Continue
<1> QED
  BY <1>2, <1>3, <1>9, <1>10, <1>16 DEF Next

LEMMA InitHands == Init => Hands
  BY IdleIs DEF Init, Hands, GroupOK, HandOK

-----------------------------------------------------------------------------
(* What a group passes over.                                               *)

Kept == DOMAIN pel \cup done

\* What lies between the group and the end of a read in flight was read, and what was read
\* is pending or still to be made pending; XGROUP DESTROY has taken the group away.
SkipOK(c) ==
  /\ cl[c].op = "DESTROY" => cursor = None
  /\ cl[c].op = "XREADGROUP" /\ cl[c].pc \in {"pel", "cursor"} =>
       /\ \A i \in entries : less(base, i) /\ leq(i, Last(cl[c].read)) /\ ~leq(i, cursor) => i \in Range(cl[c].read)
       /\ Range(cl[c].read) \subseteq Kept \cup Range(cl[c].todo)
       /\ cl[c].pc = "cursor" => cl[c].todo = <<>>

Skips == NothingSkipped /\ \A c \in Clients : SkipOK(c)

\* New entries are past the group and past every read in flight.
LEMMA SkipKept ==
  ASSUME Shape, Shape', Hands, Skips, cursor' = cursor, base' = base, Kept \subseteq Kept',
         \A i \in entries' \ entries : less(top, i)
  PROVE  /\ NothingSkipped'
         /\ \A d \in Clients : cl'[d] = cl[d] => SkipOK(d)'
<1>1. /\ top \in ID /\ base \in ID /\ entries \in SUBSET ID /\ entries' \in SUBSET ID /\ cursor \in ID \cup {None}
  BY DEF Shape, Stored
<1>2. ASSUME NEW i \in entries' \ entries, NEW j \in ID, leq(j, top) PROVE ~leq(i, j)
  <2>1. i \in ID /\ less(top, i)
    BY <1>1
  <2>2. less(j, i)
    BY <1>1, <1>2, <2>1, LeqLess
  <2> QED
    BY <1>2, <2>1, <2>2, NotLess
<1>3. NothingSkipped'
  <2>1. SUFFICES ASSUME cursor # None, NEW i \in entries', less(base, i), leq(i, cursor) PROVE i \in Kept'
    BY DEF NothingSkipped, Kept
  <2>2. CASE i \in entries
    BY <2>1, <2>2 DEF Skips, NothingSkipped, Kept
  <2>3. CASE i \notin entries
    <3>1. cursor # base
      BY <1>1, <2>1, NotLess
    <3>2. leq(cursor, top) /\ cursor \in ID
      BY <1>1, <2>1, <3>1 DEF Hands, GroupOK
    <3> QED
      BY <1>2, <2>1, <2>3, <3>2
  <2> QED
    BY <2>2, <2>3
<1>4. ASSUME NEW d \in Clients, cl'[d] = cl[d] PROVE SkipOK(d)'
  <2>1. SkipOK(d) /\ HandOK(d) /\ RecOK(d, cl[d])
    BY DEF Skips, Hands, Shape, Records
  <2>2. ASSUME cl[d].op = "XREADGROUP", cl[d].pc \in {"pel", "cursor"}, NEW i \in entries',
               less(base, i), leq(i, Last(cl[d].read)), ~leq(i, cursor)
        PROVE  i \in Range(cl[d].read)
    <3>1. CASE i \in entries
      BY <2>1, <2>2, <3>1 DEF SkipOK
    <3>2. CASE i \notin entries
      <4>1. \A q \in Seq(ID) : \A n \in DOMAIN q : q[n] \in ID
        BY SMTT(30)
      <4>2. Last(cl[d].read) \in ID /\ leq(Last(cl[d].read), top)
        BY <2>1, <2>2, <4>1 DEF HandOK, Holding, RecOK, Range
      <4> QED
        BY <1>2, <2>2, <3>2, <4>2
    <3> QED
      BY <3>1, <3>2
  <2> QED
    BY <1>4, <2>1, <2>2 DEF SkipOK
<1> QED
  BY <1>3, <1>4

LEMMA SkipOne ==
  ASSUME Shape, Shape', Hands, Skips, cursor' = cursor, base' = base, Kept \subseteq Kept',
         \A i \in entries' \ entries : less(top, i),
         NEW c \in Clients, \A d \in Clients \ {c} : cl'[d] = cl[d], SkipOK(c)'
  PROVE  Skips'
  BY SkipKept DEF Skips

\* The read takes every entry from the cursor to the last it takes.
LEMMA FetchAll ==
  ASSUME Shape, Hands, cursor # None, NEW n \in Int, NEW todo, todo = fresh(cursor, n), todo # <<>>,
         NEW i \in entries, less(base, i), leq(i, Last(todo)), ~leq(i, cursor)
  PROVE  i \in Range(todo)
<1>1. cursor \in ID /\ entries \in SUBSET ID /\ i \in ID /\ base \in ID
  BY DEF Shape, Stored
<1>2. /\ Range(todo) \subseteq After(cursor) /\ Last(todo) \in Range(todo)
      /\ \A j \in After(cursor) : j \in Range(todo) <=> leq(j, Last(todo))
  BY <1>1, FreshIs
<1>3. Last(todo) \in ID /\ Last(todo)[1] < MaxWord
  BY <1>1, <1>2 DEF After
<1>4. i[1] < MaxWord
  <2>1. \A m, k \in Word64 : (m < k \/ m = k) /\ k < MaxWord => m < MaxWord
    BY WordIs, SMTT(30)
  <2>2. i[1] < Last(todo)[1] \/ i[1] = Last(todo)[1]
    BY <1>1, <1>3, LeqIs
  <2> QED
    BY <1>1, <1>3, <2>1, <2>2, IDIs
<1>5. less(cursor, i)
  BY <1>1, NotLess
<1>6. cursor # MaxID
  <2>1. SUFFICES ASSUME cursor = MaxID PROVE FALSE
    OBVIOUS
  <2>2. MaxID[1] = MaxWord
    BY DEF MaxID
  <2>3. \A k \in Word64 : ~(MaxWord < k)
    BY WordIs, SMTT(30)
  <2>4. i[1] \in Word64 /\ (MaxWord < i[1] \/ MaxWord = i[1])
    BY <1>1, <1>5, <2>1, <2>2, LessIs, IDIs
  <2>5. ~(MaxWord < MaxWord)
    BY WordAssumption, SMTT(30)
  <2> QED
    BY <1>4, <2>3, <2>4, <2>5
<1>7. i \in After(cursor)
  BY <1>1, <1>4, <1>5, <1>6, NextIs DEF After
<1> QED
  BY <1>2, <1>7

LEMMA StepSkips ==
  ASSUME Quiet, Shape, Shape', Locked, Hands, Skips, \A i \in entries' \ entries : less(top, i), [Next]_vars
  PROVE  Skips'
<1>1. ASSUME cl' = cl, cursor' = cursor, base' = base, Kept' = Kept PROVE Skips'
  BY <1>1, SkipKept DEF Skips
<1>2. CASE UNCHANGED vars
  BY <1>1, <1>2, Same, SameStore DEF Kept
<1>3. CASE Crash
  <2>1. cursor' = cursor /\ base' = base /\ pel' = pel /\ done' = done
    BY <1>3 DEF Crash, store, history
  <2>2. Kept \subseteq Kept'
    BY <2>1 DEF Kept
  <2> QED
    BY <1>3, <2>1, <2>2, SkipKept, CrashIs, IdleIs DEF Skips, SkipOK
<1>4. ASSUME NEW c \in Clients, cursor' = cursor, base' = base, Kept \subseteq Kept', Rests(c) PROVE Skips'
  BY <1>4, SkipOne DEF Rests, Turns, SkipOK
<1>5. ASSUME NEW c \in Clients, cursor' = cursor, base' = base, Kept \subseteq Kept',
             NEW op, op # "DESTROY", NEW pc, op # "XREADGROUP" \/ pc \notin {"pel", "cursor"},
             NEW cmd, NEW id, NEW todo, NEW read, NEW since, Turns(c, op, pc, cmd, id, todo, read, since)
      PROVE  Skips'
  <2>1. SkipOK(c)'
    BY <1>5 DEF Turns, SkipOK
  <2> QED
    BY <1>5, <2>1, SkipOne DEF Turns
<1>6. ASSUME NEW c \in Clients, cursor' = cursor, base' = base, Kept \subseteq Kept',
             cl[c].op # "DESTROY", NEW pc, cl[c].op # "XREADGROUP" \/ pc \notin {"pel", "cursor"}, Goes(c, pc) \/ Tails(c, pc)
      PROVE  Skips'
  BY <1>5, <1>6 DEF Goes, Tails
<1>7. UNCHANGED history => base' = base /\ done' = done
  BY DEF history
<1>8. DOMAIN pel \subseteq DOMAIN pel' /\ done' = done => Kept \subseteq Kept'
  BY DEF Kept
<1>9. ASSUME NEW c \in Clients, Start(c) PROVE Skips'
  <2>1. PICK m \in Commands[c] :
          \/ (\E t \in Times : cmdXAdd(c, m, t)) \/ cmdXTrim(c, m) \/ cmdXRead(c, m) \/ cmdXReadGroup(c, m)
          \/ cmdXAck(c, m) \/ cmdXClaim(c, m)
          \/ cmdXGroupCreate(c, m) \/ cmdXGroupSetID(c, m) \/ cmdXGroupDestroy(c, m)
          \/ cmdXGroupDelConsumer(c, m)
    BY <1>9 DEF Start
  <2>2. CASE \E t \in Times : cmdXAdd(c, m, t)
    <3>1. /\ cursor' = cursor /\ pel' = pel /\ base' = base /\ done' = done /\ m.op = "XADD"
          /\ cl' = cl \/ \E id \in ID : Turns(c, m.op, "notify", m, id, <<>>, <<>>, 0)
      BY <2>2, XAddShape
    <3>2. Kept' = Kept
      BY <3>1 DEF Kept
    <3> QED
      BY <1>1, <1>5, <3>1, <3>2
  <2>3. CASE cmdXTrim(c, m)
    <3>1. cl' = cl /\ cursor' = cursor /\ pel' = pel /\ base' = base /\ done' = done
      BY <1>7, <2>3, DelStep
    <3>2. Kept' = Kept
      BY <3>1 DEF Kept
    <3> QED
      BY <1>1, <3>1, <3>2
  <2>4. CASE cmdXRead(c, m) \/ cmdXReadGroup(c, m) \/ cmdXAck(c, m) \/ cmdXClaim(c, m) \/ cmdXGroupDelConsumer(c, m)
    <3>1. /\ m.op # "DESTROY"
          /\ \E pc, id, todo : pc \notin {"pel", "cursor"} /\ Begin(c, m, pc, id, todo)
      BY <2>4 DEF cmdXRead, cmdXReadGroup, cmdXAck, cmdXClaim, cmdXGroupDelConsumer
    <3>2. cursor' = cursor /\ pel' = pel /\ base' = base /\ done' = done
      BY <2>4, BeginShape, SameStore
    <3>3. Kept \subseteq Kept'
      BY <3>2 DEF Kept
    <3> QED
      BY <1>5, <3>1, <3>2, <3>3, BeginIs
  <2>5. CASE cmdXGroupCreate(c, m) \/ cmdXGroupSetID(c, m)
    <3>1. /\ cl' = cl /\ cursor' \in ID /\ base' = cursor' /\ entries' \in SUBSET ID
          /\ \A d \in Clients : cl[d].op = "idle"
      BY <2>5, RestartStep, AdminFree DEF Shape, Stored
    <3>2. NothingSkipped'
      BY <3>1, NotLess DEF NothingSkipped
    <3> QED
      BY <3>1, <3>2 DEF Skips, SkipOK
  <2>6. CASE cmdXGroupDestroy(c, m)
    <3>1. /\ cursor' = None /\ m.op = "DESTROY" /\ Free(c, m)
          /\ Turns(c, m.op, "drop", m, ZeroID, <<>>, <<>>, 0)
      BY <2>6, DestroyStep
    <3>2. \A d \in Clients : cl[d].op = "idle"
      BY <3>1, AdminFree DEF isAdmin
    <3>3. \A d \in Clients : cl'[d].op # "XREADGROUP"
      BY <3>1, <3>2 DEF Turns
    <3> QED
      BY <3>1, <3>3 DEF Skips, NothingSkipped, SkipOK
  <2> QED
    BY <2>1, <2>2, <2>3, <2>4, <2>5, <2>6
<1>10. ASSUME NEW c \in Clients, \/ XAddNotify(c) \/ XReadVersion(c) \/ XReadEntries(c) \/ sleepSince(c) \/ TimesOut(c)
                                 \/ XReadGroupVersion(c)
       PROVE  Skips'
  <2>1. cursor' = cursor /\ base' = base /\ pel' = pel /\ done' = done /\ entries' = entries
    BY <1>10, TalkKeeps, SameStore
  <2>2. Kept' = Kept
    BY <2>1 DEF Kept
  <2>3. CASE XAddNotify(c)
    <3>1. ASSUME NEW d \in Clients PROVE SkipOK(d)'
      <4>1. cl'[d].op = cl[d].op /\ cl'[d].read = cl[d].read /\ cl'[d].todo = cl[d].todo
        BY <2>3, NotifyIs
      <4>2. cl[d].op = "XREADGROUP" => (cl'[d].pc = cl[d].pc \/ cl'[d].pc = "retry")
        BY <2>3, NotifyIs DEF XAddNotify, Busy
      <4>3. SkipOK(d)
        BY DEF Skips
      <4> QED
        BY <2>1, <2>2, <4>1, <4>2, <4>3 DEF SkipOK
    <3> QED
      BY <2>1, <2>2, <3>1, SkipKept DEF Skips
  <2>4. CASE XReadVersion(c)
    BY <1>5, <2>1, <2>2, <2>4, VersionIs DEF XReadVersion, Busy
  <2>5. CASE XReadEntries(c)
    BY <1>4, <1>6, <2>1, <2>2, <2>5, ReplyIs, GotoIs DEF XReadEntries, Busy
  <2>6. CASE TimesOut(c)
    BY <1>4, <2>1, <2>2, <2>6, ReplyIs DEF TimesOut
  <2>7. CASE XReadGroupVersion(c)
    BY <1>5, <2>1, <2>2, <2>7, VersionIs DEF XReadGroupVersion, Busy
  <2>8. CASE sleepSince(c)
    <3>1. RecOK(c, cl[c]) /\ cl[c].pc = "sleep"
      BY <2>8 DEF Shape, Records, sleepSince
    <3>2. cl[c].op # "DESTROY"
      BY <3>1 DEF RecOK, PcsOf
    <3>3. Goes(c, "version") \/ Goes(c, "retry") \/ Goes(c, "parked")
      BY <2>8, GotoIs DEF sleepSince
    <3> QED
      BY <1>6, <2>1, <2>2, <3>2, <3>3
  <2> QED
    BY <1>10, <2>3, <2>4, <2>5, <2>6, <2>7, <2>8
<1>11. ASSUME NEW c \in Clients, XReadGroupFetch(c, "fetch") \/ XReadGroupFetch(c, "retry") PROVE Skips'
  <2>1. PICK pc \in {"fetch", "retry"} : XReadGroupFetch(c, pc)
    BY <1>11
  <2>2. /\ cursor' = cursor /\ base' = base /\ pel' = pel /\ done' = done /\ entries' = entries
        /\ cl[c].op = "XREADGROUP" /\ cl[c].pc = pc
    BY <2>1, FetchStep, SameStore
  <2>3. Kept' = Kept
    BY <2>2 DEF Kept
  <2>4. pc = "retry" => cursor # None
    BY <2>2 DEF Hands, HandOK, Awake
  <2>5. CASE Rests(c)
    BY <1>4, <2>2, <2>3, <2>5
  <2>6. CASE Goes(c, "version")
    BY <1>6, <2>2, <2>3, <2>6
  <2>7. ASSUME NEW todo \in Seq(ID), todo # <<>>, cursor = None => pc = "retry",
               todo = fresh(IF cursor = None THEN ZeroID ELSE cursor, cl[c].cmd.n),
               Turns(c, cl[c].op, "pel", cl[c].cmd, cl[c].id, todo, todo, cl[c].since)
        PROVE  Skips'
    <3>1. cursor # None /\ todo = fresh(cursor, cl[c].cmd.n)
      BY <2>4, <2>7
    <3>2. cl[c].cmd.n \in Int
      BY <2>2, CommandIs DEF Shape, Records, RecOK
    <3>3. \A i \in entries : less(base, i) /\ leq(i, Last(todo)) /\ ~leq(i, cursor) => i \in Range(todo)
      BY <2>7, <3>1, <3>2, FetchAll
    <3>4. SkipOK(c)'
      BY <2>2, <2>3, <2>7, <3>3 DEF SkipOK, Turns
    <3> QED
      BY <2>2, <2>3, <2>7, <3>4, SkipOne DEF Turns
  <2> QED
    BY <2>1, <2>5, <2>6, <2>7, FetchStep
<1>12. ASSUME NEW c \in Clients, pelAdd(c) PROVE Skips'
  <2>1. /\ entries' = entries /\ cursor' = cursor /\ base' = base /\ done' = done
        /\ cl[c].op = "XREADGROUP" /\ cl[c].pc = "pel" /\ cl[c].todo # <<>>
        /\ DOMAIN pel' = DOMAIN pel \cup {Head(cl[c].todo)}
        /\ Tails(c, IF Len(cl[c].todo) = 1 THEN "cursor" ELSE "pel")
    BY <1>7, <1>12, PelAddStep
  <2>2. /\ cl'[c].pc = IF Len(cl[c].todo) = 1 THEN "cursor" ELSE "pel"
        /\ cl'[c].op = cl[c].op /\ cl'[c].read = cl[c].read /\ cl'[c].todo = Tail(cl[c].todo)
    BY <2>1 DEF Tails, Turns
  <2>3. cl[c].todo \in Seq(ID) /\ SkipOK(c)
    BY DEF Shape, Records, RecOK, Skips
  <2>4. /\ Len(cl[c].todo) = 1 <=> Tail(cl[c].todo) = <<>>
        /\ Range(cl[c].todo) \subseteq {Head(cl[c].todo)} \cup Range(Tail(cl[c].todo))
    BY <2>1, <2>3, SeqIs
  <2>5. Kept' = Kept \cup {Head(cl[c].todo)}
    BY <2>1 DEF Kept
  <2>6. Range(cl'[c].read) \subseteq Kept' \cup Range(cl'[c].todo)
    BY <2>1, <2>2, <2>3, <2>4, <2>5 DEF SkipOK
  <2>7. cl'[c].pc = "cursor" => cl'[c].todo = <<>>
    BY <2>2, <2>4
  <2>8. SkipOK(c)'
    BY <2>1, <2>2, <2>3, <2>6, <2>7 DEF SkipOK
  <2> QED
    BY <2>1, <2>5, <2>8, SkipOne DEF Tails, Turns
<1>13. ASSUME NEW c \in Clients, groupSet(c) PROVE Skips'
  <2>1. /\ base' = base /\ done' = done /\ pel' = pel /\ entries' = entries
        /\ cl[c].op = "XREADGROUP" /\ cl[c].pc = "cursor"
        /\ cursor' = Last(cl[c].read) /\ Goes(c, "reply")
    BY <1>7, <1>13, SetStep
  <2>2. SkipOK(c) /\ HandOK(c)
    BY DEF Skips, Hands
  <2>3. cursor # None
    BY <2>1, <2>2 DEF HandOK, Awake
  <2>4. Range(cl[c].read) \subseteq Kept
    BY <2>1, <2>2, EmptyIs DEF SkipOK
  <2>5. NothingSkipped'
    <3>1. ASSUME NEW i \in entries, less(base, i), leq(i, Last(cl[c].read)) PROVE i \in Kept
      BY <2>1, <2>2, <2>3, <2>4, <3>1 DEF SkipOK, Skips, NothingSkipped, Kept
    <3> QED
      BY <2>1, <3>1 DEF NothingSkipped, Kept
  <2>6. ASSUME NEW d \in Clients PROVE SkipOK(d)'
    <3>1. CASE d = c
      BY <2>1, <3>1 DEF SkipOK, Goes, Turns
    <3>2. CASE d # c
      <4>1. cl[d].op # "XREADGROUP" /\ cl'[d] = cl[d]
        BY <2>1, <3>2, OneReader DEF Goes, Turns
      <4>2. cl[d].op # "DESTROY"
        BY <2>3 DEF Skips, SkipOK
      <4> QED
        BY <4>1, <4>2 DEF SkipOK
    <3> QED
      BY <3>1, <3>2
  <2> QED
    BY <2>5, <2>6 DEF Skips
<1>14. ASSUME NEW c \in Clients, groupDestroy(c) PROVE Skips'
  <2>1. cursor' = cursor /\ cl[c].op = "DESTROY" /\ Rests(c)
    BY <1>14, DropStep
  <2>2. cursor = None
    BY <2>1 DEF Skips, SkipOK
  <2>3. \A d \in Clients \ {c} : cl[d].op = "idle"
    BY <2>1 DEF Locked, isAdmin
  <2>4. \A d \in Clients : cl'[d].op = "idle"
    BY <2>1, <2>3 DEF Rests, Turns
  <2> QED
    BY <2>1, <2>2, <2>4 DEF Skips, NothingSkipped, SkipOK
<1>15. ASSUME NEW c \in Clients, Continue(c) PROVE Skips'
  <2>1. CASE XAddTrim(c)
    <3>1. cursor' = cursor /\ base' = base /\ pel' = pel /\ done' = done /\ Rests(c)
      BY <1>7, <2>1, TrimStep
    <3> QED
      BY <1>4, <1>8, <3>1
  <2>2. CASE XReadGroupReply(c)
    <3>1. cursor' = cursor /\ base' = base /\ pel' = pel /\ done' = done /\ Rests(c)
      BY <2>2, GroupReplyStep
    <3> QED
      BY <1>4, <1>8, <3>1
  <2>3. CASE pelOwned(c)
    <3>1. /\ cursor' = cursor /\ base' = base /\ DOMAIN pel \subseteq DOMAIN pel' /\ done' = done
          /\ cl[c].op = "XREADGROUP" /\ (Rests(c) \/ Tails(c, "redeliver"))
      BY <1>7, <2>3, OwnedStep
    <3> QED
      BY <1>4, <1>6, <1>8, <3>1
  <2>4. CASE pelMoveTo(c)
    <3>1. /\ cursor' = cursor /\ base' = base /\ DOMAIN pel \subseteq DOMAIN pel' /\ done' = done
          /\ cl[c].op = "XCLAIM" /\ (Rests(c) \/ Tails(c, "claim"))
      BY <1>7, <2>4, MoveStep
    <3> QED
      BY <1>4, <1>6, <1>8, <3>1
  <2>5. CASE pelRemove(c)
    <3>1. /\ cursor' = cursor /\ base' = base /\ cl[c].op = "XACK" /\ (Rests(c) \/ Tails(c, "ack"))
          /\ DOMAIN pel' = DOMAIN pel \ {Head(cl[c].todo)} /\ done' = done \cup {Head(cl[c].todo)}
      BY <2>5, RemoveStep
    <3>2. Kept \subseteq Kept'
      BY <3>1 DEF Kept
    <3> QED
      BY <1>4, <1>6, <3>1, <3>2
  <2>6. CASE dropConsumer(c)
    <3>1. /\ cursor' = cursor /\ base' = base /\ Rests(c)
          /\ DOMAIN pel' = DOMAIN pel \ Range(cl[c].todo) /\ done' = done \cup Range(cl[c].todo)
      BY <2>6, DropConsumerStep
    <3>2. Kept \subseteq Kept'
      BY <3>1 DEF Kept
    <3> QED
      BY <1>4, <3>1, <3>2
  <2> QED
    BY <1>10, <1>11, <1>12, <1>13, <1>14, <1>15, <2>1, <2>2, <2>3, <2>4, <2>5, <2>6 DEF Continue
<1> QED
  BY <1>2, <1>3, <1>9, <1>10, <1>15 DEF Next

LEMMA InitSkips == Init => Skips
  BY IdleIs DEF Init, Skips, NothingSkipped, SkipOK

-----------------------------------------------------------------------------
(* The results.                                                            *)

Inv == Shape /\ Locked /\ Tops /\ Wakes

LEMMA StepInv == Inv /\ [Next]_vars => Inv'
  BY StepShape, StepLocked, StepTops, StepWakes DEF Inv

\* The commands, whatever they are, keep their records whole, their locks apart, the newest
\* entry known and the parked readers reachable.
THEOREM InvHolds == Spec => []Inv
<1>1. Init => Inv
  BY InitShape, InitLocked, InitTops, InitWakes DEF Inv
<1> QED
  BY <1>1, StepInv, PTL DEF Spec

\* stream.go:205-264, xAdd.  As long as deletions leave the newest entry, the ID of an entry is
\* above every ID the stream ever had: for any commands, any clock, going back or not, any
\* number of clients and crashes.
THEOREM NewestLast ==
  ASSUME ~MayTakeTop
  PROVE  Spec => IdsIncrease
<1>1. Inv /\ [Next]_vars => [\A i \in entries' \ entries : less(top, i)]_vars
  BY StepTops DEF Inv
<1> QED
  BY <1>1, InvHolds, PTL DEF Spec, IdsIncrease

\* cmd_stream.go:404-457 with blocking.go:50-78.  XREAD BLOCK never sleeps over an entry it asked
\* for, unless the XADD that stored the entry has still to notify.
THEOREM ReadersWoken == Spec => []NoLostWakeUp
<1>1. Inv => NoLostWakeUp
  <2>1. 0 \in Int
    BY SMTT(30)
  <2>2. SUFFICES ASSUME Inv, NEW c \in Clients, Busy(c, "XREAD", "parked"), fresh(cl[c].id, 0) # <<>>
                 PROVE  NotifyDue
    BY DEF NoLostWakeUp, NotifyDue
  <2>3. cl[c].id \in ID /\ entries \in SUBSET ID /\ WakeOK(c)
    BY <2>2 DEF Inv, Shape, Stored, Records, RecOK, Wakes
  <2>4. After(cl[c].id) # {}
    BY <2>1, <2>2, <2>3, FreshIs
  <2> QED
    BY <2>2, <2>3, <2>4 DEF WakeOK, Busy
<1> QED
  BY <1>1, InvHolds, PTL

\* stream.go:483-507, cmd_stream.go:531-552.  With XGROUP running alone, an entry leaves the
\* pending list only when it is acknowledged, with its own consumer, or with the group.
THEOREM LeavesOnPurpose ==
  ASSUME Quiet
  PROVE  Spec => PendingLeaves
<1>1. Init => Pends
  BY InitPends
<1>2. Inv /\ Pends /\ [Next]_vars => Pends'
  BY StepPends DEF Inv
<1>3. Inv /\ Pends /\ [Next]_vars => [\A i \in DOMAIN pel \ DOMAIN pel' : LeavesOK(i)]_vars
  BY StepPends DEF Inv
<1>4. PendingLeaves <=> [][\A i \in DOMAIN pel \ DOMAIN pel' : LeavesOK(i)]_vars
  BY DEF PendingLeaves, LeavesOK
<1> QED
  BY <1>1, <1>2, <1>3, <1>4, InvHolds, PTL DEF Spec

LEMMA HandsHold == ASSUME Quiet PROVE Spec => []Hands
<1>1. Init => Hands
  BY InitHands
<1>2. Inv /\ Inv' /\ Hands /\ [Next]_vars => Hands'
  BY StepHands, StepTops DEF Inv
<1> QED
  BY <1>1, <1>2, InvHolds, PTL DEF Spec

\* cmd_stream.go:620-647.  With XGROUP running alone, ">" hands every entry to one consumer,
\* once, and in ID order.
THEOREM HandedOnce ==
  ASSUME Quiet
  PROVE  Spec => []HandedOutOnce
<1>1. Hands => HandedOutOnce
  BY DEF Hands, HandOK, HandedOutOnce, Busy, Holding
<1> QED
  BY <1>1, HandsHold, PTL

\* stream.go:13-17.  With XGROUP running alone and the newest entry left by deletions, an entry
\* the group has moved past is pending, acknowledged or gone with its consumer, wherever a
\* crash falls.
THEOREM NoneSkipped ==
  ASSUME Quiet, ~MayTakeTop
  PROVE  Spec => []NothingSkipped
<1>1. Init => Skips
  BY InitSkips
<1>2. Inv /\ Inv' /\ Hands /\ Skips /\ [Next]_vars => Skips'
  BY StepSkips, StepTops DEF Inv
<1>3. Skips => NothingSkipped
  BY DEF Skips
<1> QED
  BY <1>1, <1>2, <1>3, InvHolds, HandsHold, PTL DEF Spec

=============================================================================
