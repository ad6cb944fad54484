----------------------------- MODULE ScanProofs -----------------------------
(***************************************************************************)
(* Proofs about Scan, for any number of keys, clients and cursors: the     *)
(* cursor table keeps within its limit and keeps its newest half, a scan   *)
(* returns every key that was there all along, and returns one twice only  *)
(* if its cursor was lost.                                                 *)
(***************************************************************************)
EXTENDS Scan, FiniteSetTheorems, WellFoundedInduction, TLAPS

\* Most leaves are first-order: Zenon proves them.  The others name SMT.
USE ZenonT(30)

-----------------------------------------------------------------------------
(* The inductive invariant.                                                *)

Fields == {"pc", "left", "filter", "cursor", "snap", "got", "matching", "whole", "restarted", "repeated"}

\* The keys iteration x has to return.
Wanted(x) == x.whole \cap x.matching

\* x has every wanted key up to l, and, unless it began again, no key after l.
UpTo(x, l) ==
    /\ \A k \in Wanted(x) : k <= l => k \in x.got
    /\ x.restarted \/ \A k \in x.got : k <= l

\* What x is still to be given is in the iterator that stands open, and after what it was given.
Ahead(x) ==
    /\ DOMAIN x.snap \subseteq Keys
    /\ \A k \in Wanted(x) : k \in x.got \/ k \in DOMAIN x.snap
    /\ x.restarted \/ \A k \in x.got, j \in DOMAIN x.snap : k < j

\* Iteration x of client c, over store d, with cursors t of which n were handed out.
IterOK(c, x, d, t, n) ==
    /\ DOMAIN x = Fields
    /\ x.pc \in {"idle", "call", "page", "done"}
    /\ x.filter \in Filters[c]
    /\ x.cursor \in 0..n
    /\ x.restarted \in BOOLEAN /\ x.repeated \in BOOLEAN
    /\ x.got \subseteq x.matching /\ x.matching \subseteq Keys
    /\ x.pc # "idle" => x.matching = {k \in Keys : match(x.filter.pattern, Names[k])}
    /\ \A k \in x.whole : k \in Keys /\ TypeAdmits(x.filter, d[k])
    /\ x.pc = "call" => /\ x.cursor = 0 => x.got = {}
                        /\ x.cursor \in DOMAIN t => UpTo(x, t[x.cursor].key)
    /\ x.pc = "page" => Ahead(x)
    /\ x.pc = "done" => Wanted(x) \subseteq x.got
    /\ x.repeated => x.restarted

IterationsOK == DOMAIN iter = Clients /\ \A c \in Clients : IterOK(c, iter[c], disk, byID, next)

TableOK ==
    /\ CursorTable
    /\ expiries \in Nat
    /\ \A id \in DOMAIN byID : DOMAIN byID[id] = {"key", "expired"} /\ (byID[id].expired => expiries > 0)

Inv == DOMAIN disk = Keys /\ TableOK /\ IterationsOK

-----------------------------------------------------------------------------
(* Sets of keys.                                                           *)

LEMMA KeysAre == Keys \subseteq Nat \ {0} /\ IsFiniteSet(Keys) /\ Cardinality(Keys) \in Nat
  BY KeysAssumption, FS_CardinalityType, SMTT(30)

LEMMA LeastOf ==
  ASSUME NEW S \in SUBSET Nat, S # {}
  PROVE  \E h \in S : \A k \in S : h <= k
<1>1. PICK h \in S : \A k \in S : ~(<<k, h>> \in OpToRel(<, Nat))
  BY NatLessThanWellFounded, WFMin
<1>2. \A k \in S : ~(k < h)
  BY <1>1 DEF OpToRel
<1> QED
  BY <1>2, SMTT(30)

LEMMA GreatestOf ==
  ASSUME NEW S \in SUBSET Keys, S # {}
  PROVE  \E h \in S : \A k \in S : k <= h
<1> DEFINE n == Cardinality(Keys)
           T == {n - k : k \in S}
<1>1. n \in Nat /\ S \subseteq 1..n
  BY KeysAssumption, KeysAre
<1> HIDE DEF n
<1>2. \A k \in 1..n : n - k \in Nat
  BY <1>1, SMTT(30)
<1>3. T \in SUBSET Nat /\ T # {}
  BY <1>1, <1>2
<1>4. PICK m \in T : \A j \in T : m <= j
  BY <1>3, LeastOf
<1>5. PICK h \in S : m = n - h
  BY <1>4
<1>6. \A k \in S : n - k \in T
  OBVIOUS
<1>7. \A k \in S : n - h <= n - k
  BY <1>4, <1>5, <1>6
<1> QED
  BY <1>1, <1>7, SMTT(30)

\* A page is a beginning of the keys that qualify.
LEMMA FirstIs ==
  ASSUME NEW S \in SUBSET Keys, NEW n \in Nat \ {0}
  PROVE  /\ firstN(S, n) \subseteq S
         /\ \A h \in firstN(S, n), k \in S : k <= h => k \in firstN(S, n)
         /\ Cardinality(S) < n => firstN(S, n) = S
         /\ S # {} => firstN(S, n) # {}
<1> DEFINE before(k) == {j \in S : j < k}
<1>1. IsFiniteSet(S) /\ Cardinality(S) \in Nat /\ S \subseteq Nat
  BY KeysAre, FS_Subset, FS_CardinalityType
<1>2. \A k : IsFiniteSet(before(k)) /\ Cardinality(before(k)) \in Nat /\ Cardinality(before(k)) <= Cardinality(S)
  BY <1>1, FS_Subset, FS_CardinalityType
<1>3. firstN(S, n) = {k \in S : Cardinality(before(k)) < n}
  BY DEF firstN
<1>4. ASSUME NEW h \in firstN(S, n), NEW k \in S, k <= h PROVE k \in firstN(S, n)
  <2>1. before(k) \subseteq before(h)
    <3>1. \A i, j, l \in Nat : i < j /\ j <= l => i < l
      BY SMTT(30)
    <3> QED
      BY <1>1, <1>3, <1>4, <3>1
  <2>2. Cardinality(before(k)) <= Cardinality(before(h))
    BY <1>2, <2>1, FS_Subset
  <2>3. Cardinality(before(h)) < n
    BY <1>3
  <2>4. Cardinality(before(k)) < n
    BY <1>2, <2>2, <2>3, SMTT(30)
  <2> QED
    BY <1>3, <2>4
<1>5. ASSUME Cardinality(S) < n PROVE firstN(S, n) = S
  <2>1. \A k : Cardinality(before(k)) < n
    BY <1>1, <1>2, <1>5, SMTT(30)
  <2> QED
    BY <1>3, <2>1
<1>6. ASSUME S # {} PROVE firstN(S, n) # {}
  <2>1. PICK h \in S : \A k \in S : h <= k
    BY <1>1, <1>6, LeastOf
  <2>2. before(h) = {}
    <3>1. \A i, j \in Nat : i <= j => ~(j < i)
      BY SMTT(30)
    <3> QED
      BY <1>1, <2>1, <3>1
  <2>3. Cardinality(before(h)) < n
    BY <2>2, FS_EmptySet, SMTT(30)
  <2> QED
    BY <1>3, <2>3
<1> QED
  BY <1>3, <1>4, <1>5, <1>6

-----------------------------------------------------------------------------
(* An iteration that does not move stays right while keys and cursors come *)
(* and go.                                                                 *)

LEMMA IterKept ==
  ASSUME NEW c, NEW x, NEW d, NEW t, NEW n \in Nat, IterOK(c, x, d, t, n),
         NEW e, NEW u, NEW m \in Nat, n <= m,
         \A k \in x.whole : TypeAdmits(x.filter, e[k]),
         \A id \in DOMAIN u : id \in 0..n => id \in DOMAIN t /\ u[id].key = t[id].key
  PROVE  IterOK(c, x, e, u, m)
<1>1. x.cursor \in 0..n /\ x.cursor \in 0..m
  <2>1. x.cursor \in 0..n
    BY DEF IterOK
  <2> QED
    BY <2>1, SMTT(30)
<1>2. x.pc = "call" /\ x.cursor \in DOMAIN u => UpTo(x, u[x.cursor].key)
  BY <1>1 DEF IterOK
<1> QED
  BY <1>1, <1>2 DEF IterOK

\* Client c moves its iteration on to y.
LEMMA MoveInv ==
  ASSUME Inv, NEW c \in Clients, NEW y, iter' = [iter EXCEPT ![c] = y], IterOK(c, y, disk, byID, next),
         UNCHANGED <<disk, table, expiries>>
  PROVE  Inv'
<1>1. disk' = disk /\ byID' = byID /\ next' = next /\ expiries' = expiries
  BY DEF table
<1>2. DOMAIN iter' = Clients /\ \A d \in Clients : iter'[d] = IF d = c THEN y ELSE iter[d]
  BY DEF Inv, IterationsOK
<1>3. IterationsOK'
  BY <1>1, <1>2 DEF Inv, IterationsOK
<1>4. TableOK'
  BY <1>1 DEF Inv, TableOK, CursorTable
<1> QED
  BY <1>1, <1>3, <1>4 DEF Inv

LEMMA BeginInv ==
  ASSUME Inv, NEW c \in Clients, Begin(c)
  PROVE  Inv'
<1>1. PICK f \in Filters[c] :
         iter' = [iter EXCEPT ![c] =
                    [@ EXCEPT !.pc = "call", !.filter = f, !.cursor = 0, !.got = {},
                              !.left = iter[c].left - 1,
                              !.matching = {k \in Keys : match(f.pattern, Names[k])},
                              !.whole = {k \in Keys : TypeAdmits(f, disk[k])}]]
  BY DEF Begin
<1> DEFINE y == [iter[c] EXCEPT !.pc = "call", !.filter = f, !.cursor = 0, !.got = {},
                                !.left = iter[c].left - 1,
                                !.matching = {k \in Keys : match(f.pattern, Names[k])},
                                !.whole = {k \in Keys : TypeAdmits(f, disk[k])}]
<1>2. /\ DOMAIN iter = Clients /\ IterOK(c, iter[c], disk, byID, next) /\ DOMAIN iter[c] = Fields
      /\ next \in Nat /\ DOMAIN byID \subseteq 1..next
  BY DEF Inv, IterationsOK, IterOK, TableOK, CursorTable
<1>3. iter' = [iter EXCEPT ![c] = y]
  BY <1>1, <1>2
<1>4. /\ DOMAIN y = Fields
      /\ y.pc = "call" /\ y.filter = f /\ y.cursor = 0 /\ y.got = {}
      /\ y.matching = {k \in Keys : match(f.pattern, Names[k])}
      /\ y.whole = {k \in Keys : TypeAdmits(f, disk[k])}
      /\ y.restarted = iter[c].restarted /\ y.repeated = iter[c].repeated
  BY <1>2, SMTT(30) DEF Fields
<1> HIDE DEF y
<1>5. 0 \in 0..next /\ 0 \notin DOMAIN byID
  BY <1>2, SMTT(30)
<1>6. IterOK(c, y, disk, byID, next)
  BY <1>2, <1>4, <1>5 DEF IterOK
<1> QED
  BY <1>3, <1>6, MoveInv DEF Begin

LEMMA FinishInv ==
  ASSUME Inv, NEW c \in Clients, Finish(c)
  PROVE  Inv'
<1> DEFINE y == [iter[c] EXCEPT !.pc = "idle", !.got = {}, !.whole = {}, !.matching = {},
                                !.restarted = FALSE, !.repeated = FALSE]
<1>1. DOMAIN iter = Clients /\ IterOK(c, iter[c], disk, byID, next) /\ DOMAIN iter[c] = Fields
  BY DEF Inv, IterationsOK, IterOK
<1>2. iter' = [iter EXCEPT ![c] = y]
  BY <1>1 DEF Finish
<1>3. /\ DOMAIN y = Fields
      /\ y.pc = "idle" /\ y.filter = iter[c].filter /\ y.cursor = iter[c].cursor
      /\ y.got = {} /\ y.whole = {} /\ y.matching = {} /\ y.restarted = FALSE /\ y.repeated = FALSE
  BY <1>1 DEF Fields
<1> HIDE DEF y
<1>4. IterOK(c, y, disk, byID, next)
  BY <1>1, <1>3 DEF IterOK
<1> QED
  BY <1>2, <1>4, MoveInv DEF Finish

\* The iterator shows what comes after the cursor's key, or everything when the cursor is lost.
LEMMA ScanKeysFromInv ==
  ASSUME Inv, NEW c \in Clients, ScanKeysFrom(c)
  PROVE  Inv'
<1> DEFINE start == lookup(iter[c].cursor)
           x == iter[c]
           again == iter[c].restarted \/ (iter[c].cursor # 0 /\ start = 0)
           y == [iter[c] EXCEPT !.pc = "page", !.snap = [k \in seek(start) |-> disk[k]], !.restarted = again]
<1>1. /\ DOMAIN iter = Clients /\ IterOK(c, x, disk, byID, next) /\ DOMAIN x = Fields
      /\ next \in Nat /\ DOMAIN byID \subseteq 1..next
      /\ \A id \in DOMAIN byID : byID[id].key \in Keys
  BY DEF Inv, IterationsOK, IterOK, TableOK, CursorTable
<1>2. iter' = [iter EXCEPT ![c] = y] /\ x.pc = "call"
  BY <1>1 DEF ScanKeysFrom
<1> HIDE DEF again
<1>3. /\ DOMAIN y = Fields
      /\ y.pc = "page" /\ y.filter = x.filter /\ y.cursor = x.cursor /\ y.got = x.got
      /\ y.matching = x.matching /\ y.whole = x.whole /\ y.repeated = x.repeated
      /\ y.snap = [k \in seek(start) |-> disk[k]]
      /\ y.restarted = again
  BY <1>1 DEF Fields
<1> HIDE DEF y
<1>4. DOMAIN y.snap = {k \in Keys : disk[k] # Gone /\ k > start}
  BY <1>3 DEF seek
<1>5. \A k \in x.whole : k \in Keys /\ disk[k] # Gone
  BY <1>1 DEF IterOK, TypeAdmits
<1>6. 0 \notin DOMAIN byID
  BY <1>1, SMTT(30)
<1>7. Ahead(y)
  <2>1. CASE start = 0
    <3>1. \A k \in Keys : k > start
      BY <2>1, KeysAre, SMTT(30)
    <3>2. y.restarted \/ y.got = {}
      BY <1>1, <1>2, <1>3, <2>1 DEF IterOK, again
    <3> QED
      BY <1>3, <1>4, <1>5, <3>1, <3>2 DEF Ahead, Wanted
  <2>2. CASE start # 0
    <3>1. x.cursor \in DOMAIN byID /\ start = byID[x.cursor].key /\ start \in Keys
      BY <1>1, <2>2 DEF lookup
    <3>2. UpTo(x, start)
      BY <1>1, <1>2, <3>1 DEF IterOK
    <3>3. \A k, s \in Nat : k <= s \/ k > s
      BY SMTT(30)
    <3>4. \A k, j, s \in Nat : k <= s /\ j > s => k < j
      BY SMTT(30)
    <3>5. x.got \subseteq Keys
      BY <1>1 DEF IterOK
    <3>6. \A k \in Wanted(y) : k \in y.got \/ k \in DOMAIN y.snap
      BY <1>3, <1>4, <1>5, <3>1, <3>2, <3>3, KeysAre DEF UpTo, Wanted
    <3>7. y.restarted \/ \A k \in y.got, j \in DOMAIN y.snap : k < j
      BY <1>3, <1>4, <3>1, <3>2, <3>4, <3>5, KeysAre DEF UpTo, again
    <3> QED
      BY <1>4, <3>6, <3>7 DEF Ahead
  <2> QED
    BY <2>1, <2>2
<1>8. y.restarted \in BOOLEAN
  BY <1>3 DEF again
<1>9. y.repeated => y.restarted
  BY <1>1, <1>3 DEF IterOK, again
<1>10. IterOK(c, y, disk, byID, next)
  BY <1>1, <1>2, <1>3, <1>7, <1>8, <1>9 DEF IterOK
<1> QED
  BY <1>2, <1>10, MoveInv DEF ScanKeysFrom

-----------------------------------------------------------------------------
(* alloc: the table keeps to its limit.                                    *)

LEMMA HalfFits == MaxCursors \div 2 \in Nat /\ MaxCursors \div 2 + 2 <= MaxCursors
  BY LimitAssumption, SMTT(30)

LEMMA AllocInv ==
  ASSUME TableOK, NEW key \in Keys, alloc(key), expiries' = expiries
  PROVE  /\ TableOK'
         /\ next' = next + 1 /\ next + 1 \in DOMAIN byID' /\ byID'[next + 1].key = key
         /\ \A id \in DOMAIN byID' : id \in 0..next => id \in DOMAIN byID /\ byID'[id].key = byID[id].key
<1> DEFINE half == MaxCursors \div 2
           dropped == {id \in DOMAIN byID : byID[id].expired \/ id < next - half}
           keeps == IF Cardinality(DOMAIN byID) >= MaxCursors THEN DOMAIN byID \ dropped ELSE DOMAIN byID
           new == [key |-> key, expired |-> FALSE]
<1>1. /\ next \in Nat /\ DOMAIN byID \subseteq 1..next
      /\ \A id \in DOMAIN byID : /\ byID[id].key \in Keys /\ byID[id].expired \in BOOLEAN
                                 /\ DOMAIN byID[id] = {"key", "expired"} /\ (byID[id].expired => expiries > 0)
      /\ Cardinality(DOMAIN byID) <= MaxCursors
      /\ \A id \in 1..next : id > next - half => id \in DOMAIN byID \/ expiries > 0
  BY DEF TableOK, CursorTable
<1>2. /\ next' = next + 1
      /\ byID' = [id \in keeps \cup {next + 1} |-> IF id = next + 1 THEN new ELSE byID[id]]
  BY DEF alloc
<1>3. half \in Nat /\ half + 2 <= MaxCursors /\ MaxCursors \in Nat
  BY HalfFits, LimitAssumption
<1>4. IsFiniteSet(DOMAIN byID) /\ Cardinality(DOMAIN byID) \in Nat
  <2>1. 1 \in Int /\ next \in Int
    BY <1>1, SMTT(30)
  <2> QED
    BY <1>1, <2>1, FS_Interval, FS_Subset, FS_CardinalityType
<1> HIDE DEF half, new
<1>5. keeps \subseteq DOMAIN byID
  OBVIOUS
<1>6. IsFiniteSet(keeps) /\ Cardinality(keeps) \in Nat
  BY <1>4, <1>5, FS_Subset, FS_CardinalityType
<1>7. Cardinality(keeps) + 1 <= MaxCursors
  <2>1. CASE Cardinality(DOMAIN byID) >= MaxCursors
    <3>1. next - half \in Int /\ next \in Int
      BY <1>1, <1>3, SMTT(30)
    <3>2. keeps \subseteq (next - half)..next
      <4>1. \A id \in 1..next : ~(id < next - half) => id \in (next - half)..next
        BY <1>1, <1>3, SMTT(30)
      <4> QED
        BY <1>1, <2>1, <4>1
    <3>3. IsFiniteSet((next - half)..next) /\ Cardinality((next - half)..next) = half + 1
      <4>1. ~(next - half > next) /\ next - (next - half) + 1 = half + 1
        BY <1>1, <1>3, SMTT(30)
      <4> QED
        BY <3>1, <4>1, FS_Interval
    <3>4. Cardinality(keeps) <= Cardinality((next - half)..next)
      BY <3>2, <3>3, FS_Subset
    <3> QED
      BY <1>3, <1>6, <3>3, <3>4, SMTT(30)
  <2>2. CASE ~(Cardinality(DOMAIN byID) >= MaxCursors)
    <3>1. keeps = DOMAIN byID
      BY <2>2
    <3> QED
      BY <1>3, <1>4, <2>2, <3>1, SMTT(30)
  <2> QED
    BY <2>1, <2>2
<1>8. \A id \in 1..next : id > next + 1 - half => id \in keeps \/ expiries > 0
  <2>1. \A id \in 1..next : id > next + 1 - half => id > next - half /\ ~(id < next - half)
    BY <1>1, <1>3, SMTT(30)
  <2> QED
    BY <1>1, <2>1
<1> HIDE DEF keeps
<1>9. DOMAIN byID' = keeps \cup {next + 1} /\ \A id \in DOMAIN byID' : byID'[id] = IF id = next + 1 THEN new ELSE byID[id]
  BY <1>2
<1>10. new.key = key /\ new.expired = FALSE /\ DOMAIN new = {"key", "expired"}
  BY DEF new
<1>11. next + 1 \in Nat /\ next + 1 \notin 0..next /\ 1..(next + 1) = 1..next \cup {next + 1}
  BY <1>1, SMTT(30)
<1>12. DOMAIN byID' \subseteq 1..(next + 1)
  BY <1>1, <1>5, <1>9, <1>11
<1>13. Cardinality(DOMAIN byID') <= MaxCursors
  <2>1. Cardinality(keeps \cup {next + 1}) = IF next + 1 \in keeps THEN Cardinality(keeps) ELSE Cardinality(keeps) + 1
    BY <1>6, FS_AddElement
  <2>2. \A n \in Nat : n + 1 <= MaxCursors => n <= MaxCursors
    BY <1>3, SMTT(30)
  <2> QED
    BY <1>6, <1>7, <1>9, <2>1, <2>2
<1>14. \A id \in DOMAIN byID' : /\ byID'[id].key \in Keys /\ byID'[id].expired \in BOOLEAN
                                /\ DOMAIN byID'[id] = {"key", "expired"} /\ (byID'[id].expired => expiries > 0)
  BY <1>1, <1>5, <1>9, <1>10
<1>15. \A id \in 1..(next + 1) : id > next + 1 - half => id \in DOMAIN byID' \/ expiries > 0
  BY <1>8, <1>9, <1>11
<1>16. TableOK'
  <2>1. expiries' \in Nat
    BY DEF TableOK
  <2>2. \A id \in 1..next' : id > next' - half => id \in DOMAIN byID' \/ expiries' > 0
    <3>1. next' = next + 1 /\ next \in Nat /\ half \in Nat
      BY <1>1, <1>2, <1>3
    <3> QED
      BY <1>15, <3>1, SMTT(30)
  <2>3. CursorTable'
    BY <1>2, <1>11, <1>12, <1>13, <1>14, <2>2 DEF CursorTable, half
  <2> QED
    BY <1>14, <2>1, <2>3 DEF TableOK
<1>17. \A id \in DOMAIN byID' : id \in 0..next => id \in DOMAIN byID /\ byID'[id].key = byID[id].key
  BY <1>5, <1>9, <1>11
<1> QED
  BY <1>2, <1>9, <1>10, <1>16, <1>17

-----------------------------------------------------------------------------
(* cmdScan.                                                                *)

\* The page of iteration x: hits are the keys that qualify, batch the first of them.
LEMMA PageIs ==
  ASSUME NEW c \in Clients, NEW x, NEW t, NEW n, IterOK(c, x, disk, t, n), x.pc = "page", NEW cached,
         NEW hits, hits = hitsOf(x, cached), NEW batch, batch = firstN(hits, x.filter.count)
  PROVE  /\ batch \subseteq DOMAIN x.snap /\ batch \subseteq x.matching /\ batch \subseteq Keys
         /\ ranOff(x.snap, hits, x.filter.count) => \A k \in Wanted(x) : k \in x.got \cup batch
         /\ ~ranOff(x.snap, hits, x.filter.count) =>
               \E m \in batch : /\ \A k \in batch : k <= m
                                /\ \A k \in Wanted(x) : k <= m => k \in x.got \cup batch
<1>1. Ahead(x) /\ x.matching \subseteq Keys /\ x.filter \in Filters[c]
      /\ \A k \in x.whole : k \in Keys /\ TypeAdmits(x.filter, disk[k])
  BY DEF IterOK
<1>2. hits \subseteq DOMAIN x.snap /\ hits \subseteq x.matching /\ hits \in SUBSET Keys
  BY <1>1 DEF hitsOf
<1>3. x.filter.count \in Nat \ {0}
  BY <1>1, FiltersAssumption
<1>4. /\ batch \subseteq hits
      /\ \A h \in batch, k \in hits : k <= h => k \in batch
      /\ Cardinality(hits) < x.filter.count => batch = hits
      /\ hits # {} => batch # {}
  <2>1. \A S \in SUBSET Keys, i \in Nat \ {0} :
          /\ firstN(S, i) \subseteq S
          /\ \A h \in firstN(S, i), k \in S : k <= h => k \in firstN(S, i)
          /\ Cardinality(S) < i => firstN(S, i) = S
          /\ S # {} => firstN(S, i) # {}
    BY FirstIs
  <2> QED
    BY <1>2, <1>3, <2>1, SMTT(30)
<1>5. \A k \in Wanted(x) : k \in x.got \/ k \in hits
  BY <1>1 DEF Ahead, Wanted, hitsOf
<1>6. ASSUME ranOff(x.snap, hits, x.filter.count), NEW k \in Wanted(x) PROVE k \in x.got \cup batch
  BY <1>2, <1>4, <1>5, <1>6 DEF ranOff
<1>7. ASSUME ~ranOff(x.snap, hits, x.filter.count)
      PROVE  \E m \in batch : /\ \A k \in batch : k <= m
                              /\ \A k \in Wanted(x) : k <= m => k \in x.got \cup batch
  <2>1. hits # {}
    <3>1. 0 < x.filter.count
      BY <1>3, SMTT(30)
    <3> QED
      BY <1>7, <3>1, FS_EmptySet DEF ranOff
  <2>2. batch \in SUBSET Keys /\ batch # {}
    BY <1>2, <1>4, <2>1
  <2>3. PICK m \in batch : \A k \in batch : k <= m
    BY <2>2, GreatestOf
  <2> QED
    BY <1>4, <1>5, <2>3
<1> QED
  BY <1>2, <1>4, <1>6, <1>7

\* Keys that are removed because they had expired were wanted by nobody.
LEMMA RemovedUnwanted ==
  ASSUME NEW f, NEW d, NEW e, NEW k, TypeAdmits(f, d[k]), e[k] = d[k] \/ d[k] = Dead
  PROVE  TypeAdmits(f, e[k])
  BY DEF TypeAdmits

\* Client c moves on to y while the store and the table change around the other clients.
LEMMA MoveAll ==
  ASSUME Inv, NEW c \in Clients, NEW y, iter' = [iter EXCEPT ![c] = y], IterOK(c, y, disk', byID', next'),
         DOMAIN disk' = Keys, TableOK', next' \in Nat, next <= next',
         \A k \in Keys : disk'[k] = disk[k] \/ disk[k] = Dead,
         \A id \in DOMAIN byID' : id \in 0..next => id \in DOMAIN byID /\ byID'[id].key = byID[id].key
  PROVE  Inv'
<1>1. DOMAIN iter' = Clients /\ (\A d \in Clients : iter'[d] = IF d = c THEN y ELSE iter[d]) /\ next \in Nat
  BY DEF Inv, IterationsOK, TableOK, CursorTable
<1>2. ASSUME NEW d \in Clients PROVE IterOK(d, iter'[d], disk', byID', next')
  <2>1. CASE d = c
    BY <1>1, <2>1
  <2>2. CASE d # c
    <3>1. iter'[d] = iter[d] /\ IterOK(d, iter[d], disk, byID, next)
      BY <1>1, <2>2 DEF Inv, IterationsOK
    <3>2. ASSUME NEW k \in iter[d].whole PROVE TypeAdmits(iter[d].filter, disk'[k])
      <4>1. k \in Keys /\ TypeAdmits(iter[d].filter, disk[k])
        BY <3>1 DEF IterOK
      <4> QED
        BY <4>1, RemovedUnwanted
    <3> QED
      BY <1>1, <3>1, <3>2, IterKept, SMTT(30)
  <2> QED
    BY <2>1, <2>2
<1>3. IterationsOK'
  BY <1>1, <1>2 DEF IterationsOK
<1> QED
  BY <1>3 DEF Inv

LEMMA cmdScanInv ==
  ASSUME Inv, NEW c \in Clients, cmdScan(c)
  PROVE  Inv'
<1> DEFINE x == iter[c]
<1>1. x.pc = "page" /\ UNCHANGED <<changes, expiries, probe>>
  BY DEF cmdScan
<1>2. PICK cached : \E hits \in {hitsOf(x, cached)} :
                       answer(c, cached, firstN(hits, x.filter.count), ranOff(x.snap, hits, x.filter.count))
  BY DEF cmdScan
<1> DEFINE hits == hitsOf(x, cached)
           batch == firstN(hits, x.filter.count)
           over == ranOff(x.snap, hits, x.filter.count)
           rep == x.repeated \/ batch \cap x.got # {}
           top == CHOOSE h \in batch : \A k \in batch : k <= h
           y == [x EXCEPT !.pc = IF over THEN "done" ELSE "call", !.cursor = IF over THEN 0 ELSE next + 1,
                          !.got = x.got \cup batch, !.repeated = rep, !.snap = <<>>]
<1>3. answer(c, cached, batch, over)
  BY <1>2
<1>4. /\ DOMAIN iter = Clients /\ IterOK(c, x, disk, byID, next) /\ DOMAIN x = Fields
      /\ next \in Nat /\ DOMAIN byID \subseteq 1..next /\ TableOK /\ DOMAIN disk = Keys
  BY DEF Inv, IterationsOK, IterOK, TableOK, CursorTable
<1>5. iter' = [iter EXCEPT ![c] = y]
  BY <1>3, <1>4 DEF answer
<1>6. DOMAIN disk' = Keys /\ \A k \in Keys : disk'[k] = disk[k] \/ disk[k] = Dead
  BY <1>3 DEF answer
<1>7. IF over THEN UNCHANGED table ELSE alloc(top)
  BY <1>3 DEF answer
<1>8. /\ batch \subseteq DOMAIN x.snap /\ batch \subseteq x.matching /\ batch \subseteq Keys
      /\ over => \A k \in Wanted(x) : k \in x.got \cup batch
      /\ ~over => \E m \in batch : /\ \A k \in batch : k <= m
                                   /\ \A k \in Wanted(x) : k <= m => k \in x.got \cup batch
  BY <1>1, <1>4, PageIs
<1> HIDE DEF batch, over, rep
<1>9. /\ DOMAIN y = Fields /\ y.pc = (IF over THEN "done" ELSE "call") /\ y.cursor = (IF over THEN 0 ELSE next + 1)
      /\ y.filter = x.filter /\ y.got = x.got \cup batch /\ y.matching = x.matching /\ y.whole = x.whole
      /\ y.restarted = x.restarted /\ y.repeated = rep
  BY <1>4 DEF Fields
<1> HIDE DEF y
<1>10. y.repeated => y.restarted
  <2>1. x.restarted \/ \A k \in x.got, j \in DOMAIN x.snap : k < j
    BY <1>1, <1>4 DEF IterOK, Ahead
  <2>2. x.got \subseteq Keys /\ \A k \in Keys : ~(k < k)
    <3>1. x.got \subseteq Keys
      BY <1>4 DEF IterOK
    <3>2. \A k \in Nat : ~(k < k)
      BY SMTT(30)
    <3> QED
      BY <3>1, <3>2, KeysAre
  <2>3. x.restarted \/ batch \cap x.got = {}
    BY <1>8, <2>1, <2>2
  <2> QED
    BY <1>4, <1>9, <2>3 DEF rep, IterOK
<1>11. rep \in BOOLEAN
  BY DEF rep
<1>12. /\ \A k \in y.whole : k \in Keys /\ TypeAdmits(y.filter, disk'[k])
       /\ y.got \subseteq y.matching /\ Wanted(y) = Wanted(x)
  BY <1>4, <1>6, <1>8, <1>9, RemovedUnwanted DEF IterOK, Wanted
<1>13. CASE over
  <2>1. next' = next /\ byID' = byID /\ expiries' = expiries
    BY <1>1, <1>7, <1>13 DEF table
  <2>2. TableOK'
    BY <1>4, <2>1 DEF TableOK, CursorTable
  <2>3. 0 \in 0..next /\ next <= next
    BY <1>4, SMTT(30)
  <2>4. IterOK(c, y, disk', byID', next')
    BY <1>1, <1>4, <1>8, <1>9, <1>10, <1>11, <1>12, <1>13, <2>1, <2>3 DEF IterOK
  <2> QED
    BY <1>4, <1>5, <1>6, <2>1, <2>2, <2>3, <2>4, MoveAll
<1>14. CASE ~over
  <2>1. top \in batch /\ (\A k \in batch : k <= top) /\ \A k \in Wanted(x) : k <= top => k \in x.got \cup batch
    <3>1. PICK m \in batch : /\ \A k \in batch : k <= m
                             /\ \A k \in Wanted(x) : k <= m => k \in x.got \cup batch
      BY <1>8, <1>14
    <3>2. top \in batch /\ \A k \in batch : k <= top
      BY <3>1
    <3>3. \A i, j \in Nat : i <= j /\ j <= i => i = j
      BY SMTT(30)
    <3>4. top = m
      BY <1>8, <3>1, <3>2, <3>3, KeysAre
    <3> QED
      BY <3>1, <3>4
  <2> HIDE DEF top
  <2>2. /\ TableOK' /\ next' = next + 1 /\ next + 1 \in DOMAIN byID' /\ byID'[next + 1].key = top
        /\ \A id \in DOMAIN byID' : id \in 0..next => id \in DOMAIN byID /\ byID'[id].key = byID[id].key
    BY <1>1, <1>4, <1>7, <1>8, <1>14, <2>1, AllocInv
  <2>3. next + 1 \in Nat /\ next <= next + 1 /\ next + 1 \in 0..(next + 1) /\ next + 1 # 0
    BY <1>4, SMTT(30)
  <2>4. UpTo(y, top)
    <3>1. x.restarted \/ \A k \in x.got : k <= top
      <4>1. x.restarted \/ \A k \in x.got : k < top
        BY <1>1, <1>4, <1>8, <2>1 DEF IterOK, Ahead
      <4>2. \A i, j \in Nat : i < j => i <= j
        BY SMTT(30)
      <4>3. x.got \subseteq Keys
        BY <1>4 DEF IterOK
      <4> QED
        BY <1>8, <2>1, <4>1, <4>2, <4>3, KeysAre
    <3> QED
      BY <1>9, <1>12, <2>1, <3>1 DEF UpTo
  <2>5. IterOK(c, y, disk', byID', next')
    BY <1>1, <1>4, <1>9, <1>10, <1>11, <1>12, <1>14, <2>2, <2>3, <2>4 DEF IterOK
  <2> QED
    BY <1>4, <1>5, <1>6, <2>2, <2>3, <2>5, MoveAll
<1> QED
  BY <1>13, <1>14

-----------------------------------------------------------------------------
(* Other commands, time, and the whole.                                    *)

LEMMA ChangeInv ==
  ASSUME Inv, NEW k \in Keys, Change(k)
  PROVE  Inv'
<1>1. PICK v : /\ disk' = [disk EXCEPT ![k] = v]
               /\ iter' = [c \in Clients |-> IF TypeAdmits(iter[c].filter, v) THEN iter[c]
                                             ELSE [iter[c] EXCEPT !.whole = @ \ {k}]]
  BY DEF Change
<1>2. byID' = byID /\ next' = next /\ expiries' = expiries
  BY DEF Change, table
<1>3. DOMAIN disk' = Keys /\ \A j \in Keys : disk'[j] = IF j = k THEN v ELSE disk[j]
  BY <1>1 DEF Inv
<1>4. TableOK'
  BY <1>2 DEF Inv, TableOK, CursorTable
<1>5. ASSUME NEW c \in Clients PROVE IterOK(c, iter'[c], disk', byID', next')
  <2> DEFINE x == iter[c]
             y == iter'[c]
  <2>1. IterOK(c, x, disk, byID, next) /\ DOMAIN x = Fields
    BY DEF Inv, IterationsOK, IterOK
  <2>2. y = IF TypeAdmits(x.filter, v) THEN x ELSE [x EXCEPT !.whole = @ \ {k}]
    BY <1>1
  <2>3. /\ DOMAIN y = Fields /\ y.pc = x.pc /\ y.filter = x.filter /\ y.cursor = x.cursor /\ y.snap = x.snap
        /\ y.got = x.got /\ y.matching = x.matching /\ y.restarted = x.restarted /\ y.repeated = x.repeated
        /\ y.whole = IF TypeAdmits(x.filter, v) THEN x.whole ELSE x.whole \ {k}
    BY <2>1, <2>2 DEF Fields
  <2> HIDE DEF x, y
  <2>4. Wanted(y) \subseteq Wanted(x)
    BY <2>3 DEF Wanted
  <2>5. \A j \in y.whole : j \in Keys /\ TypeAdmits(y.filter, disk'[j])
    BY <1>3, <2>1, <2>3 DEF IterOK
  <2>6. y.pc = "call" => /\ y.cursor = 0 => y.got = {}
                         /\ y.cursor \in DOMAIN byID => UpTo(y, byID[y.cursor].key)
    BY <2>1, <2>3, <2>4 DEF IterOK, UpTo
  <2>7. (y.pc = "page" => Ahead(y)) /\ (y.pc = "done" => Wanted(y) \subseteq y.got)
    BY <2>1, <2>3, <2>4 DEF IterOK, Ahead
  <2>8. IterOK(c, y, disk', byID', next')
    BY <1>2, <2>1, <2>3, <2>5, <2>6, <2>7 DEF IterOK
  <2> QED
    BY <2>8 DEF y
<1>6. DOMAIN iter' = Clients
  BY <1>1
<1> QED
  BY <1>3, <1>4, <1>5, <1>6 DEF Inv, IterationsOK

LEMMA ExpireCursorInv ==
  ASSUME Inv, NEW id \in DOMAIN byID, ExpireCursor(id)
  PROVE  Inv'
<1>1. /\ expiries \in Nat /\ expiries' = expiries + 1 /\ disk' = disk /\ iter' = iter /\ next' = next
      /\ byID' = [i \in DOMAIN byID |-> [byID[i] EXCEPT !.expired = @ \/ i <= id]]
      /\ TableOK /\ IterationsOK
  BY DEF ExpireCursor, Inv, TableOK
<1>2. expiries' \in Nat /\ expiries' > 0
  BY <1>1, SMTT(30)
<1>3. ASSUME NEW i \in DOMAIN byID
      PROVE  /\ byID'[i].key = byID[i].key /\ byID'[i].expired \in BOOLEAN /\ DOMAIN byID'[i] = {"key", "expired"}
  <2> DEFINE gone == byID[i].expired \/ i <= id
  <2>1. DOMAIN byID[i] = {"key", "expired"}
    BY <1>1 DEF TableOK
  <2>2. byID'[i] = [byID[i] EXCEPT !.expired = gone]
    BY <1>1
  <2>3. gone \in BOOLEAN
    OBVIOUS
  <2> HIDE DEF gone
  <2> QED
    BY <2>1, <2>2, <2>3
<1>4. DOMAIN byID' = DOMAIN byID
  BY <1>1
<1>5. CursorTable'
  BY <1>1, <1>2, <1>3, <1>4 DEF TableOK, CursorTable
<1>6. TableOK'
  BY <1>2, <1>3, <1>4, <1>5 DEF TableOK
<1>7. next \in Nat /\ next <= next
  <2>1. next \in Nat
    BY <1>1 DEF TableOK, CursorTable
  <2> QED
    BY <2>1, SMTT(30)
<1>8. ASSUME NEW c \in Clients PROVE IterOK(c, iter[c], disk, byID', next)
  <2>1. IterOK(c, iter[c], disk, byID, next)
    BY <1>1 DEF IterationsOK
  <2>2. \A k \in iter[c].whole : TypeAdmits(iter[c].filter, disk[k])
    BY <2>1 DEF IterOK
  <2> QED
    BY <1>3, <1>4, <1>7, <2>1, <2>2, IterKept
<1>9. IterationsOK'
  BY <1>1, <1>8 DEF IterationsOK
<1> QED
  BY <1>1, <1>6, <1>9 DEF Inv

LEMMA InitInv ==
  ASSUME Init
  PROVE  Inv
<1>1. DOMAIN disk = Keys
  BY DisksAssumption DEF Init
<1>2. next = 0 /\ byID = <<>> /\ expiries = 0
  BY DEF Init
<1>3. DOMAIN byID = {} /\ DOMAIN byID \subseteq 1..next /\ next \in Nat /\ expiries \in Nat /\ 1..next = {} /\ 0 \in 0..next
  BY <1>2, SMTT(30)
<1>4. Cardinality(DOMAIN byID) <= MaxCursors
  <2>1. 0 <= MaxCursors
    BY LimitAssumption, SMTT(30)
  <2> QED
    BY <1>3, <2>1, FS_EmptySet
<1>5. TableOK
  BY <1>3, <1>4 DEF TableOK, CursorTable
<1>6. ASSUME NEW c \in Clients PROVE IterOK(c, iter[c], disk, byID, next)
  <2> DEFINE x == iter[c]
             f == CHOOSE g \in Filters[c] : TRUE
  <2>1. f \in Filters[c]
    BY FiltersAssumption
  <2>2. x = [pc |-> "idle", left |-> Iterations[c], filter |-> f,
             cursor |-> 0, snap |-> <<>>, got |-> {}, matching |-> {}, whole |-> {},
             restarted |-> FALSE, repeated |-> FALSE]
    BY DEF Init
  <2> HIDE DEF x, f
  <2>3. /\ DOMAIN x = Fields /\ x.pc = "idle" /\ x.filter \in Filters[c] /\ x.cursor = 0 /\ x.got = {} /\ x.matching = {}
        /\ x.whole = {} /\ x.restarted = FALSE /\ x.repeated = FALSE
    BY <2>1, <2>2 DEF Fields
  <2>4. IterOK(c, x, disk, byID, next)
    BY <1>2, <1>3, <2>3 DEF IterOK
  <2> QED
    BY <2>4 DEF x
<1>7. DOMAIN iter = Clients
  BY DEF Init
<1> QED
  BY <1>1, <1>5, <1>6, <1>7 DEF Inv, IterationsOK

LEMMA NextInv ==
  ASSUME Inv, [Next]_vars
  PROVE  Inv'
<1>1. CASE \E c \in Clients : Begin(c) \/ ScanKeysFrom(c) \/ cmdScan(c) \/ Finish(c)
  BY <1>1, BeginInv, ScanKeysFromInv, cmdScanInv, FinishInv
<1>2. CASE \E k \in Keys : Change(k)
  BY <1>2, ChangeInv
<1>3. CASE \E id \in DOMAIN byID : ExpireCursor(id)
  BY <1>3, ExpireCursorInv
<1>4. CASE UNCHANGED vars
  <2>1. disk' = disk /\ next' = next /\ byID' = byID /\ iter' = iter /\ expiries' = expiries
    BY <1>4 DEF vars, table
  <2> QED
    BY <2>1 DEF Inv, TableOK, CursorTable, IterationsOK
<1> QED
  BY <1>1, <1>2, <1>3, <1>4 DEF Next, Page

LEMMA InvHolds == Spec => []Inv
<1>1. Init => Inv
  BY InitInv
<1>2. Inv /\ [Next]_vars => Inv'
  BY NextInv
<1> QED
  BY <1>1, <1>2, PTL DEF Spec

-----------------------------------------------------------------------------

\* The cursor table never holds more than maxScanCursors entries, however many
\* clients scan, and dropping the older half in alloc never costs a cursor of
\* the newest half.
THEOREM TableKeepsLimit == Spec => []CursorTable
<1>1. Inv => CursorTable
  BY DEF Inv, TableOK
<1> QED
  BY <1>1, InvHolds, PTL

\* SCAN returns a key twice in one iteration only after lookup lost its cursor
\* and the scan began again.
THEOREM RepeatsAreRestarts == Spec => []RepeatsOnlyAfterRestart
<1>1. Inv => RepeatsOnlyAfterRestart
  BY DEF Inv, IterationsOK, IterOK, RepeatsOnlyAfterRestart
<1> QED
  BY <1>1, InvHolds, PTL

\* The matcher of glob.go agrees with the meaning of the patterns that are used.
MatcherRight ==
    \A c \in Clients : \A f \in Filters[c], k \in Keys : match(f.pattern, Names[k]) <=> Means(f.pattern, Names[k])

\* An iteration that came back to cursor 0 has returned every key that was there
\* all along, whatever other commands did and however often its cursor was lost:
\* ScanKeysFrom resumes after the last key answered, or from the start.
THEOREM ScansComplete == ASSUME MatcherRight PROVE Spec => []ScanComplete
<1>1. Inv => ScanComplete
  <2> SUFFICES ASSUME Inv, NEW c \in Clients, iter[c].pc = "done"
               PROVE  /\ {k \in iter[c].whole : Means(iter[c].filter.pattern, Names[k])} \subseteq iter[c].got
                      /\ \A k \in iter[c].got : Means(iter[c].filter.pattern, Names[k])
    BY DEF ScanComplete
  <2>1. IterOK(c, iter[c], disk, byID, next)
    BY DEF Inv, IterationsOK
  <2>2. iter[c].filter \in Filters[c] /\ iter[c].matching = {k \in Keys : match(iter[c].filter.pattern, Names[k])}
    BY <2>1 DEF IterOK
  <2>3. iter[c].matching = {k \in Keys : Means(iter[c].filter.pattern, Names[k])}
    BY <2>2 DEF MatcherRight
  <2> QED
    BY <2>1, <2>3 DEF IterOK, Wanted
<1> QED
  BY <1>1, InvHolds, PTL

=============================================================================
