----------------------------- MODULE DictProofs -----------------------------
(***************************************************************************)
(* Proofs about Dict, for any threads, keys, hash and operations: the list *)
(* of shards that hold keys stays the inverse of the slots beside it, and  *)
(* lists every shard it should, however late its updates arrive.           *)
(***************************************************************************)
EXTENDS Dict, SequenceTheorems, TLAPS

\* Most leaves are first-order: Zenon proves them.  The others name SMT.
USE ZenonT(30)

-----------------------------------------------------------------------------
(* The two updates of the list.                                            *)

\* trackInsert: a shard that is not listed goes to the end.
LEMMA AppendKeepsInverse ==
  ASSUME NEW list, NEW slot, IsInverse(list, slot), NEW s \in 1..Shards, s \notin DOMAIN slot
  PROVE  IsInverse(Append(list, s),
                   [i \in DOMAIN slot \cup {s} |-> IF i = s THEN Len(list) + 1 ELSE slot[i]])
<1> DEFINE new == Append(list, s)
           at == [i \in DOMAIN slot \cup {s} |-> IF i = s THEN Len(list) + 1 ELSE slot[i]]
<1>1. list \in Seq(1..Shards) /\ Len(list) \in Nat
  BY SMTT(30) DEF IsInverse
<1>2. /\ new \in Seq(1..Shards)
      /\ Len(new) = Len(list) + 1
      /\ new[Len(list) + 1] = s
      /\ \A i \in 1..Len(list) : new[i] = list[i]
  BY <1>1, SMTT(30)
<1>3. /\ DOMAIN at = DOMAIN slot \cup {s}
      /\ at[s] = Len(list) + 1
      /\ \A i \in DOMAIN slot : at[i] = slot[i]
  OBVIOUS
<1>4. \A r \in DOMAIN at : at[r] \in 1..Len(new) /\ new[at[r]] = r
  BY <1>1, <1>2, <1>3, SMTT(30) DEF IsInverse
<1>5. \A i \in 1..Len(new) : new[i] \in DOMAIN at /\ at[new[i]] = i
  BY <1>1, <1>2, <1>3, SMTT(30) DEF IsInverse
<1> QED
  BY <1>2, <1>3, <1>4, <1>5 DEF IsInverse

\* trackEmpty: the last shard of the list takes the slot of the one that goes, also when it is that one.
ListWithout(list, p) == SubSeq([list EXCEPT ![p] = list[Len(list)]], 1, Len(list) - 1)

SlotsWithout(list, slot, s) == [i \in DOMAIN slot \ {s} |-> IF i = list[Len(list)] THEN slot[s] ELSE slot[i]]

LEMMA SwapKeepsInverse ==
  ASSUME NEW list, NEW slot, IsInverse(list, slot), NEW s \in DOMAIN slot
  PROVE  IsInverse(ListWithout(list, slot[s]), SlotsWithout(list, slot, s))
<1> DEFINE last == Len(list)
           moved == list[last]
           swapped == [list EXCEPT ![slot[s]] = moved]
           new == SubSeq(swapped, 1, last - 1)
           at == [i \in DOMAIN slot \ {s} |-> IF i = moved THEN slot[s] ELSE slot[i]]
<1>1. list \in Seq(1..Shards) /\ last \in Nat /\ slot[s] \in 1..last /\ list[slot[s]] = s
  BY SMTT(30) DEF IsInverse
<1>2. last \in 1..last /\ moved \in 1..Shards /\ moved \in DOMAIN slot /\ slot[moved] = last
  BY <1>1, SMTT(30) DEF IsInverse
<1>3. /\ swapped \in Seq(1..Shards) /\ Len(swapped) = last
      /\ swapped[slot[s]] = moved
      /\ \A i \in 1..last : i # slot[s] => swapped[i] = list[i]
  BY <1>1, <1>2, SMTT(30)
<1>4. /\ new \in Seq(1..Shards) /\ Len(new) = last - 1
      /\ \A i \in 1..(last - 1) : new[i] = swapped[i]
  <2> HIDE DEF swapped, last
  <2>1. 1 \in Int /\ last - 1 \in Int /\ \A i \in 1..(last - 1) : swapped[i] \in 1..Shards
    BY <1>1, <1>3, DictAssumption, ElementOfSeq, SMTT(30)
  <2>2. /\ new \in Seq(1..Shards)
        /\ Len(new) = IF 1 <= last - 1 THEN (last - 1) - 1 + 1 ELSE 0
        /\ \A i \in 1..((last - 1) - 1 + 1) : new[i] = swapped[1 + i - 1]
    BY <2>1, SubSeqProperties, SMTT(30)
  <2> HIDE DEF new
  <2> QED
    BY <1>1, <1>2, <2>2, SMTT(30)
<1>5. /\ DOMAIN at = DOMAIN slot \ {s}
      /\ \A i \in DOMAIN at : at[i] = IF i = moved THEN slot[s] ELSE slot[i]
  OBVIOUS
<1> HIDE DEF last, moved, swapped, new, at
<1>6. \A r \in DOMAIN at : at[r] \in 1..Len(new) /\ new[at[r]] = r
  <2> TAKE r \in DOMAIN at
  <2>1. slot[r] \in 1..last /\ list[slot[r]] = r /\ r # s
    BY <1>5 DEF IsInverse, last
  <2>2. CASE r = moved
    BY <1>1, <1>2, <1>3, <1>4, <1>5, <2>1, <2>2, SMTT(30)
  <2>3. CASE r # moved
    <3>1. slot[r] # last /\ slot[r] # slot[s]
      BY <2>1, <2>3, <1>1 DEF moved
    <3> QED
      BY <1>1, <1>2, <1>3, <1>4, <1>5, <2>1, <2>3, <3>1, SMTT(30)
  <2> QED
    BY <2>2, <2>3
<1>7. \A i \in 1..Len(new) : new[i] \in DOMAIN at /\ at[new[i]] = i
  <2> TAKE i \in 1..Len(new)
  <2>1. i \in 1..last /\ i # last /\ list[i] \in DOMAIN slot /\ slot[list[i]] = i
    BY <1>1, <1>4, SMTT(30) DEF IsInverse, last
  <2>2. CASE i = slot[s]
    BY <1>1, <1>2, <1>3, <1>4, <1>5, <2>1, <2>2
  <2>3. CASE i # slot[s]
    BY <1>1, <1>2, <1>3, <1>4, <1>5, <2>1, <2>3, SMTT(30)
  <2> QED
    BY <2>2, <2>3
<1> QED
  BY <1>4, <1>5, <1>6, <1>7 DEF IsInverse, last, moved, swapped, new, at, ListWithout, SlotsWithout

-----------------------------------------------------------------------------
(* Steps.                                                                  *)

\* A thread inside an operation on a key has that key, a shard set that exists and a shard.
LEMMA Working ==
  ASSUME TypeOK, NEW t \in Threads, th[t].op \notin {"none", "Flush"}
  PROVE  /\ th[t].key \in Keys /\ th[t].g \in Gens /\ th[t].g \in 0..gen /\ shardFor[th[t].key] \in 1..Shards
         /\ th[t].size \in Nat /\ th[t].exp \in {0, 1}
  BY DictAssumption, SMTT(30) DEF TypeOK, ThreadOK, Gens

\* A step of thread t that moves it on to x.
LEMMA Moves ==
  ASSUME TypeOK, NEW t \in Threads, NEW x, ThreadOK(x), th' = [th EXCEPT ![t] = x], gen' = gen
  PROVE  /\ DOMAIN th' = Threads /\ \A u \in Threads : ThreadOK(th[u])'
         /\ th'[t] = x /\ \A u \in Threads \ {t} : th'[u] = th[u]
  BY SMTT(30) DEF TypeOK, ThreadOK

LEMMA InitInv == Init => Inv
<1> SUFFICES ASSUME Init PROVE Inv
  OBVIOUS
<1>1. TypeOK
  BY DictAssumption, OperationsAssumption, SMTT(30) DEF Init, TypeOK, Gens, NoEntries, Idle, ThreadOK
<1>2. DOMAIN nonEmpty = Gens /\ DOMAIN pos = Gens /\ IndexConsistent
  BY SMTT(30) DEF Init, IndexConsistent, IsInverse
<1>3. \A g \in (gen + 1)..MaxFlushes : ent[g] = NoEntries
  BY DictAssumption, SMTT(30) DEF Init, Gens
<1>4. \A s \in 1..Shards : ~OwesEmpty(gen, s) /\ Vacant(gen, s)
  BY DictAssumption, SMTT(30) DEF Init, OwesEmpty, Vacant, Gens, NoEntries, Idle
<1> QED
  BY <1>1, <1>2, <1>3, <1>4 DEF Inv, ListedWhenFull

\* A step that changes no shard and no list, and takes on or drops no debt.
LEMMA QuietInv ==
  ASSUME Inv, TypeOK', gen' = gen, ent' = ent, nonEmpty' = nonEmpty, pos' = pos, late' = late,
         \A u \in Threads : \/ th'[u] = th[u]
                            \/ th[u].pc \notin {"insert", "empty"} /\ th'[u].pc \notin {"insert", "empty"}
  PROVE  Inv'
<1>1. (DOMAIN nonEmpty = Gens /\ DOMAIN pos = Gens /\ IndexConsistent)'
  BY DEF Inv, IndexConsistent
<1>2. (\A g \in (gen + 1)..MaxFlushes : ent[g] = NoEntries)'
  BY DEF Inv
<1>3. \A s \in 1..Shards : OwesEmpty(gen, s)' => OwesEmpty(gen, s)
  BY DEF OwesEmpty
<1>4. \A s \in 1..Shards : OwesInsert(gen, s) => OwesInsert(gen, s)'
  BY DEF OwesInsert
<1>5. \A s \in 1..Shards : (Vacant(gen, s) <=> Vacant(gen, s)')
  BY DEF Vacant
<1> QED
  BY <1>1, <1>2, <1>3, <1>4, <1>5 DEF Inv, ListedWhenFull

\* The same for a thread that moves on to x.
LEMMA QuietStep ==
  ASSUME Inv, NEW t \in Threads, NEW x, ThreadOK(x), th' = [th EXCEPT ![t] = x],
         th[t].pc \notin {"insert", "empty"}, x.pc \notin {"insert", "empty"},
         gen' = gen, ent' = ent, nonEmpty' = nonEmpty, pos' = pos, late' = late,
         now' = now, left' \in [Threads -> Nat]
  PROVE  Inv'
<1>1. TypeOK
  BY DEF Inv
<1>2. /\ DOMAIN th' = Threads /\ \A u \in Threads : ThreadOK(th[u])'
      /\ th'[t] = x /\ \A u \in Threads \ {t} : th'[u] = th[u]
  BY <1>1, Moves
<1>3. TypeOK'
  BY <1>1, <1>2 DEF TypeOK
<1>4. \A u \in Threads : \/ th'[u] = th[u]
                         \/ th[u].pc \notin {"insert", "empty"} /\ th'[u].pc \notin {"insert", "empty"}
  BY <1>2
<1> QED
  BY <1>3, <1>4, QuietInv

LEMMA IdleOK == TypeOK => ThreadOK(Idle) /\ Idle.pc = "idle"
  BY SMTT(30) DEF TypeOK, ThreadOK, Idle, Gens

LEMMA StartInv ==
  ASSUME Inv, NEW t \in Threads, NEW o \in Operations[t], Start(t, o)
  PROVE  Inv'
<1> DEFINE x == Entering(o.op, o.key, o.size, o.exp)
<1>1. TypeOK
  BY DEF Inv
<1>2. ThreadOK(x)
  BY <1>1, OperationsAssumption, SMTT(30) DEF ThreadOK, Start, Entering, Idle, TypeOK, Gens
<1>3. th' = [th EXCEPT ![t] = x] /\ th[t].pc = "idle" /\ x.pc = "enter"
  BY DEF Start, Entering
<1> HIDE DEF x
<1>4. /\ gen' = gen /\ ent' = ent /\ nonEmpty' = nonEmpty /\ pos' = pos /\ late' = late
      /\ now' = now /\ left' \in [Threads -> Nat]
  BY <1>1, SMTT(30) DEF Start, index, history, TypeOK
<1> QED
  BY <1>2, <1>3, <1>4, QuietStep

LEMMA LookupInv ==
  ASSUME Inv, NEW t \in Threads, Lookup(t)
  PROVE  Inv'
<1> DEFINE x == [th[t] EXCEPT !.op = "Delete", !.g = gen]
<1>1. TypeOK
  BY DEF Inv
<1>2. ThreadOK(x) /\ x.pc = "enter" /\ th[t].pc = "enter"
  BY <1>1, SMTT(30) DEF ThreadOK, Lookup, At, Idle, TypeOK, Gens
<1>3. th' = [th EXCEPT ![t] = x] \/ th' = [th EXCEPT ![t] = Idle]
  BY <1>1 DEF Lookup, Done, TypeOK
<1> HIDE DEF x
<1>4. /\ gen' = gen /\ ent' = ent /\ nonEmpty' = nonEmpty /\ pos' = pos /\ late' = late
      /\ now' = now /\ left' \in [Threads -> Nat]
  BY <1>1 DEF Lookup, index, history, TypeOK
<1>5. CASE th' = [th EXCEPT ![t] = x]
  BY <1>2, <1>4, <1>5, QuietStep
<1>6. CASE th' = [th EXCEPT ![t] = Idle]
  BY <1>1, <1>2, <1>4, <1>6, IdleOK, QuietStep
<1> QED
  BY <1>3, <1>5, <1>6

LEMMA RecomputeInv ==
  ASSUME Inv, NEW t \in Threads, recomputeUsed(t)
  PROVE  Inv'
<1>1. TypeOK
  BY DEF Inv
<1>2. /\ gen' = gen /\ ent' = ent /\ nonEmpty' = nonEmpty /\ pos' = pos /\ late' = late
      /\ now' = now /\ left' \in [Threads -> Nat]
  BY <1>1 DEF recomputeUsed, index, history, TypeOK
<1>3. CASE At(t, "Flush", "count")
  <2> DEFINE sum == th[t].total + sizeOf(th[t].g, keysIn(th[t].g, th[t].todo))
             next == IF th[t].todo = Shards THEN "store" ELSE "count"
             x == [th[t] EXCEPT !.total = sum, !.todo = th[t].todo + 1, !.pc = next]
  <2>1. th' = [th EXCEPT ![t] = x]
    BY <1>1, <1>3 DEF recomputeUsed, At, TypeOK
  <2>2. next \in {"count", "store"}
    OBVIOUS
  <2> HIDE DEF sum, next
  <2>3. ThreadOK(x) /\ x.pc \in {"count", "store"}
    BY <1>1, <1>3, <2>2, SMTT(30) DEF At, TypeOK, ThreadOK, Idle
  <2> HIDE DEF x
  <2> QED
    BY <1>2, <1>3, <2>1, <2>3, QuietStep DEF At
<1>4. CASE At(t, "Flush", "store")
  <2>1. th' = [th EXCEPT ![t] = Idle]
    BY <1>4 DEF recomputeUsed, At, Done
  <2> QED
    BY <1>1, <1>2, <1>4, <2>1, IdleOK, QuietStep DEF At
<1> QED
  BY <1>3, <1>4 DEF recomputeUsed

LEMMA MaybeEvictInv ==
  ASSUME Inv, NEW t \in Threads, MaybeEvict(t)
  PROVE  Inv'
<1>1. TypeOK
  BY DEF Inv
<1>2. PICK k \in Keys : th' = [th EXCEPT ![t] = Entering("Delete", k, 0, 0)]
  BY DEF MaybeEvict, candidates, keysIn
<1> DEFINE x == Entering("Delete", k, 0, 0)
<1>3. ThreadOK(x) /\ x.pc = "enter"
  BY <1>1, SMTT(30) DEF ThreadOK, Entering, Idle, TypeOK, Gens
<1>4. th[t].pc = "idle" /\ th' = [th EXCEPT ![t] = x]
  BY <1>2 DEF MaybeEvict
<1> HIDE DEF x
<1>5. /\ gen' = gen /\ ent' = ent /\ nonEmpty' = nonEmpty /\ pos' = pos /\ late' = late
      /\ now' = now /\ left' \in [Threads -> Nat]
  BY <1>1 DEF MaybeEvict, index, history, TypeOK
<1> QED
  BY <1>3, <1>4, <1>5, QuietStep

LEMMA TickInv == Inv /\ Tick => Inv'
<1> SUFFICES ASSUME Inv, Tick PROVE Inv'
  OBVIOUS
<1>1. TypeOK
  BY DEF Inv
<1>2. gen' = gen /\ ent' = ent /\ nonEmpty' = nonEmpty /\ pos' = pos /\ late' = late /\ th' = th /\ left' = left /\ now' = 1
  BY DEF Tick, index, history
<1>3. TypeOK'
  BY <1>1, <1>2, SMTT(30) DEF TypeOK, ThreadOK
<1>4. \A u \in Threads : \/ th'[u] = th[u]
                         \/ th[u].pc \notin {"insert", "empty"} /\ th'[u].pc \notin {"insert", "empty"}
  BY <1>2
<1> QED
  BY <1>2, <1>3, <1>4, QuietInv

-----------------------------------------------------------------------------
(* Steps that change a shard: a thread at "enter" writes e to its key, and  *)
(* moves on to x.                                                          *)

Write(g, k, e) == ent' = [ent EXCEPT ![g][k] = e]

\* What such a step keeps of the types.
LEMMA WriteType ==
  ASSUME Inv, DOMAIN th' = Threads, \A u \in Threads : ThreadOK(th[u])',
         NEW g \in 0..gen, NEW k \in Keys, NEW e \in Entries \cup {None}, Write(g, k, e),
         gen' = gen, nonEmpty' = nonEmpty, pos' = pos, now' = now, left' = left, late' \subseteq 1..Shards
  PROVE  /\ TypeOK'
         /\ (DOMAIN nonEmpty = Gens /\ DOMAIN pos = Gens /\ IndexConsistent)'
         /\ (\A i \in (gen + 1)..MaxFlushes : ent[i] = NoEntries)'
         /\ ent'[g][k] = e
         /\ \A i \in Gens, j \in Keys : (i # g \/ j # k) => ent'[i][j] = ent[i][j]
<1>1. TypeOK /\ g \in Gens
  BY DictAssumption, SMTT(30) DEF Inv, TypeOK, Gens
<1>2. ent' \in [Gens -> [Keys -> Entries \cup {None}]]
  BY <1>1 DEF TypeOK, Write
<1>3. TypeOK'
  BY <1>1, <1>2 DEF TypeOK
<1>4. /\ ent'[g][k] = e
      /\ \A i \in Gens, j \in Keys : (i # g \/ j # k) => ent'[i][j] = ent[i][j]
  BY <1>1 DEF TypeOK, Write
<1>5. \A i \in (gen + 1)..MaxFlushes : ent'[i] = ent[i]
  BY <1>1, SMTT(30) DEF TypeOK, Gens, Write
<1> QED
  BY <1>3, <1>4, <1>5 DEF Inv, IndexConsistent

\* A thread that adds or overwrites an entry: if the shard was empty, the thread owes the list an insert,
\* and a thread that is about to take the shard off the list is too late.
LEMMA FillInv ==
  ASSUME Inv, NEW t \in Threads, th[t].pc = "enter", th[t].op \in {"Set", "SetCounter"},
         NEW e \in Entries, Write(th[t].g, th[t].key, e),
         IF ent[th[t].g][th[t].key] = None THEN Goto(t, "insert") ELSE Done(t),
         Refilled(th[t].g, shardFor[th[t].key]),
         gen' = gen, nonEmpty' = nonEmpty, pos' = pos, now' = now, left' = left
  PROVE  Inv'
<1>1. TypeOK
  BY DEF Inv
<1>2. PICK g \in 0..gen, k \in Keys, sh \in 1..Shards : g = th[t].g /\ k = th[t].key /\ sh = shardFor[k] /\ g \in Gens
  BY <1>1, Working
<1> DEFINE x == IF ent[g][k] = None THEN [th[t] EXCEPT !.pc = "insert"] ELSE Idle
<1>3. ThreadOK(x) /\ x.pc \in {"idle", "insert"} /\ (x.pc = "insert" => x.g = g /\ x.key = k)
      /\ (ent[g][k] = None => x.pc = "insert")
  BY <1>1, <1>2, IdleOK, SMTT(30) DEF ThreadOK, TypeOK, Idle
<1>4. th' = [th EXCEPT ![t] = x]
  BY <1>1, <1>2 DEF Goto, Done, TypeOK
<1>5. late' = IF g = gen /\ OwesEmpty(g, sh) THEN late \cup {sh} ELSE late
  BY <1>2 DEF Refilled
<1>6. late' \subseteq 1..Shards /\ late \subseteq late'
  BY <1>1, <1>2, <1>5 DEF TypeOK
<1>7. Write(g, k, e) /\ e \in Entries \cup {None}
  BY <1>2
<1> HIDE DEF x
<1>8. /\ DOMAIN th' = Threads /\ \A u \in Threads : ThreadOK(th[u])'
      /\ th'[t] = x /\ \A u \in Threads \ {t} : th'[u] = th[u]
  BY <1>1, <1>3, <1>4, Moves
<1>9. /\ TypeOK'
      /\ (DOMAIN nonEmpty = Gens /\ DOMAIN pos = Gens /\ IndexConsistent)'
      /\ (\A i \in (gen + 1)..MaxFlushes : ent[i] = NoEntries)'
      /\ ent'[g][k] = e
      /\ \A i \in Gens, j \in Keys : (i # g \/ j # k) => ent'[i][j] = ent[i][j]
  BY <1>6, <1>7, <1>8, WriteType
<1>10. \A s \in 1..Shards : OwesEmpty(gen, s)' => OwesEmpty(gen, s)
  BY <1>3, <1>8 DEF OwesEmpty
<1>11. \A s \in 1..Shards : OwesInsert(gen, s) => OwesInsert(gen, s)'
  BY <1>8 DEF OwesInsert
<1>12. \A s \in 1..Shards : Vacant(gen, s) /\ (s # sh \/ g # gen) => Vacant(gen, s)'
  BY <1>1, <1>2, <1>9 DEF Vacant, TypeOK
<1>13. \A s \in 1..Shards : OwesEmpty(gen, s)' => Vacant(gen, s)' \/ s \in late'
  <2>1. \A s \in 1..Shards : OwesEmpty(gen, s) => Vacant(gen, s) \/ s \in late
    BY DEF Inv
  <2> QED
    BY <1>5, <1>6, <1>10, <1>12, <2>1
<1>14. \A s \in 1..Shards : s = sh /\ g = gen /\ Vacant(gen, s) => OwesInsert(gen, s)'
  BY <1>2, <1>3, <1>8 DEF OwesInsert, Vacant
<1>15. ListedWhenFull'
  BY <1>6, <1>11, <1>12, <1>14 DEF Inv, ListedWhenFull
<1> QED
  BY <1>9, <1>13, <1>15 DEF Inv

LEMMA SetInv ==
  ASSUME Inv, NEW t \in Threads, Set(t) \/ SetCounter(t)
  PROVE  Inv'
<1>1. TypeOK
  BY DEF Inv
<1>2. th[t].pc = "enter" /\ th[t].op \in {"Set", "SetCounter"}
  BY DEF Set, SetCounter, At
<1>3. /\ th[t].key \in Keys /\ th[t].g \in Gens /\ th[t].size \in Nat /\ th[t].exp \in {0, 1}
  BY <1>1, <1>2, Working
<1>4. PICK e \in Entries : Write(th[t].g, th[t].key, e)
  <2> DEFINE old == ent[th[t].g][th[t].key]
  <2>1. old # None => old.size \in Nat
    <3>1. old \in Entries \cup {None}
      BY <1>1, <1>3 DEF TypeOK
    <3> QED
      BY <3>1 DEF Entries
  <2>2. CASE Set(t)
    <3>1. [size |-> th[t].size, exp |-> th[t].exp] \in Entries
      BY <1>3 DEF Entries
    <3> QED
      BY <2>2, <3>1 DEF Set, Write
  <2>3. CASE SetCounter(t)
    <3>1. [size |-> IF old = None THEN th[t].size ELSE old.size, exp |-> th[t].exp] \in Entries
      BY <1>3, <2>1 DEF Entries
    <3> QED
      BY <2>3, <3>1 DEF SetCounter, Write
  <2> QED
    BY <2>2, <2>3
<1>5. /\ IF ent[th[t].g][th[t].key] = None THEN Goto(t, "insert") ELSE Done(t)
      /\ Refilled(th[t].g, shardFor[th[t].key])
      /\ gen' = gen /\ nonEmpty' = nonEmpty /\ pos' = pos /\ now' = now /\ left' = left
  BY DEF Set, SetCounter, index
<1> QED
  BY <1>2, <1>4, <1>5, FillInv

\* A thread that removes an entry, or overwrites one that is there: it owes the list a removal only if it
\* leaves the shard empty.
LEMMA ShrinkInv ==
  ASSUME Inv, NEW t \in Threads, th[t].pc = "enter", th[t].op \in {"Delete", "SetExpiry"},
         NEW g, NEW k, g = th[t].g, k = th[t].key,
         NEW e \in Entries \cup {None}, Write(g, k, e), ent[g][k] # None,
         \/ Done(t)
         \/ Goto(t, "empty") /\ e = None /\ keysIn(g, shardFor[k]) = {k},
         gen' = gen, nonEmpty' = nonEmpty, pos' = pos, now' = now, left' = left, late' = late
  PROVE  Inv'
<1> DEFINE x == IF Done(t) THEN Idle ELSE [th[t] EXCEPT !.pc = "empty"]
<1>1. TypeOK
  BY DEF Inv
<1>2. g \in 0..gen /\ g \in Gens /\ k \in Keys /\ shardFor[k] \in 1..Shards
  BY <1>1, Working
<1>3. ThreadOK(x) /\ x.pc \in {"idle", "empty"}
      /\ (x.pc = "empty" => x.g = g /\ x.key = k /\ e = None /\ keysIn(g, shardFor[k]) = {k})
  BY <1>1, IdleOK, SMTT(30) DEF ThreadOK, TypeOK, Idle
<1>4. th' = [th EXCEPT ![t] = x]
  BY <1>1 DEF Goto, Done, TypeOK
<1>5. late' \subseteq 1..Shards
  BY <1>1 DEF TypeOK
<1> HIDE DEF x
<1>6. /\ DOMAIN th' = Threads /\ \A u \in Threads : ThreadOK(th[u])'
      /\ th'[t] = x /\ \A u \in Threads \ {t} : th'[u] = th[u]
  BY <1>1, <1>3, <1>4, Moves
<1>7. /\ TypeOK'
      /\ (DOMAIN nonEmpty = Gens /\ DOMAIN pos = Gens /\ IndexConsistent)'
      /\ (\A i \in (gen + 1)..MaxFlushes : ent[i] = NoEntries)'
      /\ ent'[g][k] = e
      /\ \A i \in Gens, j \in Keys : (i # g \/ j # k) => ent'[i][j] = ent[i][j]
  BY <1>2, <1>5, <1>6, WriteType, SMTT(30)
<1>8. \A s \in 1..Shards : Vacant(gen, s) => Vacant(gen, s)'
  <2>1. gen \in Gens
    BY <1>1 DEF TypeOK
  <2>2. \A j \in Keys : ent[gen][j] = None => ent'[gen][j] = None
    BY <1>7, <2>1
  <2> QED
    BY <2>2 DEF Vacant
<1>9. \A s \in 1..Shards : x.pc = "empty" /\ g = gen /\ shardFor[k] = s => Vacant(gen, s)'
  <2> SUFFICES ASSUME x.pc = "empty", g = gen, NEW j \in Keys, shardFor[j] = shardFor[k]
               PROVE  ent'[g][j] = None
    BY DEF Vacant
  <2>1. j # k => ent[g][j] = None
    BY <1>3 DEF keysIn
  <2> QED
    BY <1>2, <1>3, <1>7, <2>1
<1>10. \A s \in 1..Shards : OwesEmpty(gen, s)' => OwesEmpty(gen, s) \/ Vacant(gen, s)'
  <2> SUFFICES ASSUME NEW s \in 1..Shards, NEW u \in Threads,
                      th'[u].pc = "empty", th'[u].g = gen, shardFor[th'[u].key] = s
               PROVE  OwesEmpty(gen, s) \/ Vacant(gen, s)'
    BY DEF OwesEmpty
  <2>1. CASE u = t
    BY <1>3, <1>6, <1>9, <2>1
  <2>2. CASE u # t
    BY <1>6, <2>2 DEF OwesEmpty
  <2> QED
    BY <2>1, <2>2
<1>11. \A s \in 1..Shards : OwesInsert(gen, s) => OwesInsert(gen, s)'
  BY <1>6 DEF OwesInsert
<1>12. \A s \in 1..Shards : OwesEmpty(gen, s)' => Vacant(gen, s)' \/ s \in late'
  BY <1>8, <1>10 DEF Inv
<1>13. ListedWhenFull'
  BY <1>8, <1>11 DEF Inv, ListedWhenFull
<1> QED
  BY <1>7, <1>12, <1>13 DEF Inv

\* remove is such a step.
LEMMA RemoveInv ==
  ASSUME Inv, NEW t \in Threads, th[t].pc = "enter", th[t].op \in {"Delete", "SetExpiry"}, remove(t),
         ent[th[t].g][th[t].key] # None,
         gen' = gen, nonEmpty' = nonEmpty, pos' = pos, now' = now, left' = left, late' = late
  PROVE  Inv'
<1>1. Write(th[t].g, th[t].key, None)
  BY DEF remove, Write
<1>2. \/ Done(t)
      \/ Goto(t, "empty") /\ None = None /\ keysIn(th[t].g, shardFor[th[t].key]) = {th[t].key}
  BY DEF remove
<1>3. None \in Entries \cup {None}
  OBVIOUS
<1> QED
  BY <1>1, <1>2, <1>3, ShrinkInv

\* A step that only ends the operation.
LEMMA DoneInv ==
  ASSUME Inv, NEW t \in Threads, th[t].pc = "enter", Done(t),
         gen' = gen, ent' = ent, nonEmpty' = nonEmpty, pos' = pos, now' = now, left' = left, late' = late
  PROVE  Inv'
<1>1. TypeOK /\ left' \in [Threads -> Nat]
  BY DEF Inv, TypeOK
<1>2. th' = [th EXCEPT ![t] = Idle]
  BY DEF Done
<1> QED
  BY <1>1, <1>2, IdleOK, QuietStep

LEMMA DeleteInv ==
  ASSUME Inv, NEW t \in Threads, Delete(t)
  PROVE  Inv'
<1>1. th[t].pc = "enter" /\ th[t].op \in {"Delete", "SetExpiry"}
  BY DEF Delete, At
<1>2. gen' = gen /\ nonEmpty' = nonEmpty /\ pos' = pos /\ now' = now /\ left' = left /\ late' = late
  BY DEF Delete, index
<1>3. CASE ent[th[t].g][th[t].key] = None
  BY <1>1, <1>2, <1>3, DoneInv DEF Delete
<1>4. CASE ent[th[t].g][th[t].key] # None
  BY <1>1, <1>2, <1>4, RemoveInv DEF Delete
<1> QED
  BY <1>3, <1>4

LEMMA SetExpiryInv ==
  ASSUME Inv, NEW t \in Threads, SetExpiry(t)
  PROVE  Inv'
<1> DEFINE old == ent[th[t].g][th[t].key]
           e == [old EXCEPT !.exp = th[t].exp]
<1>1. th[t].pc = "enter" /\ th[t].op \in {"Delete", "SetExpiry"}
  BY DEF SetExpiry, At
<1>2. gen' = gen /\ nonEmpty' = nonEmpty /\ pos' = pos /\ now' = now /\ left' = left /\ late' = late
  BY DEF SetExpiry, index
<1>3. CASE old = None
  BY <1>1, <1>2, <1>3, DoneInv DEF SetExpiry
<1>4. CASE old # None /\ expired(old)
  BY <1>1, <1>2, <1>4, RemoveInv DEF SetExpiry
<1>5. CASE old # None /\ ~expired(old)
  <2>1. TypeOK
    BY DEF Inv
  <2>2. th[t].key \in Keys /\ th[t].g \in Gens /\ th[t].exp \in {0, 1}
    BY <1>1, <2>1, Working
  <2>3. old \in Entries
    BY <1>5, <2>1, <2>2, SMTT(30) DEF TypeOK
  <2>4. e \in Entries \cup {None}
    BY <2>2, <2>3 DEF Entries
  <2>5. Write(th[t].g, th[t].key, e) /\ Done(t)
    BY <1>5, <2>1, <2>2 DEF SetExpiry, Write, TypeOK
  <2> HIDE DEF e
  <2> QED
    BY <1>1, <1>2, <1>5, <2>4, <2>5, ShrinkInv
<1> QED
  BY <1>3, <1>4, <1>5

-----------------------------------------------------------------------------
(* Steps that bring the list up to date.                                   *)

Relist(g, list, slot) == nonEmpty' = [nonEmpty EXCEPT ![g] = list] /\ pos' = [pos EXCEPT ![g] = slot]

\* A list of one generation replaced by another that pos inverts.
LEMMA RelistInv ==
  ASSUME Inv, NEW g \in Gens, NEW list, NEW slot, IsInverse(list, slot), Relist(g, list, slot)
  PROVE  /\ (DOMAIN nonEmpty = Gens /\ DOMAIN pos = Gens /\ IndexConsistent)'
         /\ pos'[g] = slot /\ \A i \in Gens : i # g => pos'[i] = pos[i]
<1>1. DOMAIN nonEmpty = Gens /\ DOMAIN pos = Gens /\ \A i \in Gens : IsInverse(nonEmpty[i], pos[i])
  BY DEF Inv, IndexConsistent
<1>2. /\ DOMAIN nonEmpty' = Gens /\ DOMAIN pos' = Gens
      /\ nonEmpty'[g] = list /\ pos'[g] = slot
      /\ \A i \in Gens : i # g => nonEmpty'[i] = nonEmpty[i] /\ pos'[i] = pos[i]
  BY <1>1 DEF Relist
<1>3. \A i \in Gens : IsInverse(nonEmpty'[i], pos'[i])
  BY <1>1, <1>2
<1> QED
  BY <1>2, <1>3 DEF IndexConsistent, Gens, IsInverse

\* A thread that has told the list is idle; what others owe stays.
LEMMA ToldInv ==
  ASSUME Inv, NEW t \in Threads, th[t].pc \in {"insert", "empty"}, Done(t),
         gen' = gen, ent' = ent, now' = now, left' = left, late' \subseteq late
  PROVE  /\ TypeOK' /\ (\A i \in (gen + 1)..MaxFlushes : ent[i] = NoEntries)'
         /\ \A s \in 1..Shards :
              /\ OwesEmpty(gen, s)' => OwesEmpty(gen, s)
              /\ Vacant(gen, s)' <=> Vacant(gen, s)
              /\ OwesInsert(gen, s) => \/ OwesInsert(gen, s)'
                                       \/ th[t].pc = "insert" /\ th[t].g = gen /\ shardFor[th[t].key] = s
<1>1. TypeOK /\ ThreadOK(Idle) /\ Idle.pc = "idle"
  BY IdleOK DEF Inv
<1>2. th' = [th EXCEPT ![t] = Idle]
  BY DEF Done
<1>3. /\ DOMAIN th' = Threads /\ \A u \in Threads : ThreadOK(th[u])'
      /\ th'[t] = Idle /\ \A u \in Threads \ {t} : th'[u] = th[u]
  BY <1>1, <1>2, Moves
<1>4. TypeOK'
  BY <1>1, <1>3 DEF TypeOK
<1>5. (\A i \in (gen + 1)..MaxFlushes : ent[i] = NoEntries)'
  BY DEF Inv
<1>6. \A s \in 1..Shards : OwesEmpty(gen, s)' => OwesEmpty(gen, s)
  BY <1>1, <1>3 DEF OwesEmpty
<1>7. \A s \in 1..Shards : Vacant(gen, s)' <=> Vacant(gen, s)
  BY DEF Vacant
<1>8. \A s \in 1..Shards :
        OwesInsert(gen, s) => \/ OwesInsert(gen, s)'
                              \/ th[t].pc = "insert" /\ th[t].g = gen /\ shardFor[th[t].key] = s
  BY <1>3 DEF OwesInsert
<1> QED
  BY <1>4, <1>5, <1>6, <1>7, <1>8

LEMMA TrackInsertInv ==
  ASSUME Inv, NEW t \in Threads, trackInsert(t)
  PROVE  Inv'
<1>1. TypeOK
  BY DEF Inv
<1>2. th[t].op \notin {"none", "Flush"}
  BY <1>1 DEF trackInsert, TypeOK, ThreadOK
<1>3. PICK g \in Gens, k \in Keys, r \in 1..Shards : g = th[t].g /\ k = th[t].key /\ r = shardFor[k]
  BY <1>1, <1>2, Working
<1>4. /\ th[t].pc = "insert" /\ Done(t)
      /\ late' = (IF g # gen \/ OwesEmpty(g, r) THEN late ELSE late \ {r})
      /\ gen' = gen /\ ent' = ent /\ now' = now /\ left' = left
  BY <1>3 DEF trackInsert
<1>5. /\ TypeOK' /\ (\A i \in (gen + 1)..MaxFlushes : ent[i] = NoEntries)'
      /\ \A s \in 1..Shards :
           /\ OwesEmpty(gen, s)' => OwesEmpty(gen, s)
           /\ Vacant(gen, s)' <=> Vacant(gen, s)
           /\ OwesInsert(gen, s) => \/ OwesInsert(gen, s)'
                                    \/ th[t].pc = "insert" /\ th[t].g = gen /\ shardFor[th[t].key] = s
  BY <1>4, ToldInv
<1>6. /\ (DOMAIN nonEmpty = Gens /\ DOMAIN pos = Gens /\ IndexConsistent)'
      /\ r \in DOMAIN pos'[g] /\ \A i \in Gens : DOMAIN pos[i] \subseteq DOMAIN pos'[i]
  <2>1. CASE r \in DOMAIN pos[g]
    BY <1>3, <2>1 DEF trackInsert, index, Inv, IndexConsistent
  <2>2. CASE r \notin DOMAIN pos[g]
    <3> DEFINE list == Append(nonEmpty[g], r)
               slot == [i \in DOMAIN pos[g] \cup {r} |-> IF i = r THEN Len(nonEmpty[g]) + 1 ELSE pos[g][i]]
    <3>1. IsInverse(nonEmpty[g], pos[g]) /\ DOMAIN nonEmpty = Gens /\ DOMAIN pos = Gens
      BY DEF Inv, IndexConsistent
    <3>2. IsInverse(list, slot)
      BY <2>2, <3>1, AppendKeepsInverse
    <3>3. Relist(g, list, slot)
      BY <1>3, <2>2, <3>1 DEF trackInsert, Relist
    <3>4. DOMAIN slot = DOMAIN pos[g] \cup {r}
      OBVIOUS
    <3> HIDE DEF list, slot
    <3> QED
      BY <3>2, <3>3, <3>4, RelistInv
  <2> QED
    BY <2>1, <2>2
<1>7. \A s \in 1..Shards : OwesEmpty(gen, s)' => Vacant(gen, s)' \/ s \in late'
  <2>1. \A s \in 1..Shards : OwesEmpty(gen, s) => Vacant(gen, s) \/ s \in late
    BY DEF Inv
  <2> QED
    BY <1>4, <1>5, <2>1
<1>8. ListedWhenFull'
  <2>1. gen \in Gens
    BY <1>1 DEF TypeOK
  <2>2. \A s \in 1..Shards : Vacant(gen, s) \/ s \in DOMAIN pos[gen] \/ s \in late \/ OwesInsert(gen, s)
    BY DEF Inv, ListedWhenFull
  <2> QED
    BY <1>3, <1>4, <1>5, <1>6, <2>1, <2>2 DEF ListedWhenFull
<1> QED
  BY <1>5, <1>6, <1>7, <1>8 DEF Inv

LEMMA TrackEmptyInv ==
  ASSUME Inv, NEW t \in Threads, trackEmpty(t)
  PROVE  Inv'
<1>1. TypeOK
  BY DEF Inv
<1>2. th[t].op \notin {"none", "Flush"}
  BY <1>1 DEF trackEmpty, TypeOK, ThreadOK
<1>3. PICK g \in Gens, k \in Keys, r \in 1..Shards : g = th[t].g /\ k = th[t].key /\ r = shardFor[k]
  BY <1>1, <1>2, Working
<1>4. /\ th[t].pc = "empty" /\ Done(t) /\ late' = late
      /\ gen' = gen /\ ent' = ent /\ now' = now /\ left' = left
  BY DEF trackEmpty, history
<1>5. /\ TypeOK' /\ (\A i \in (gen + 1)..MaxFlushes : ent[i] = NoEntries)'
      /\ \A s \in 1..Shards :
           /\ OwesEmpty(gen, s)' => OwesEmpty(gen, s)
           /\ Vacant(gen, s)' <=> Vacant(gen, s)
           /\ OwesInsert(gen, s) => \/ OwesInsert(gen, s)'
                                    \/ th[t].pc = "insert" /\ th[t].g = gen /\ shardFor[th[t].key] = s
  BY <1>4, ToldInv
<1>6. /\ (DOMAIN nonEmpty = Gens /\ DOMAIN pos = Gens /\ IndexConsistent)'
      /\ \A i \in Gens : \A s \in DOMAIN pos[i] : s \in DOMAIN pos'[i] \/ (i = g /\ s = r)
  <2>1. CASE r \notin DOMAIN pos[g]
    BY <1>3, <2>1 DEF trackEmpty, index, Inv, IndexConsistent
  <2>2. CASE r \in DOMAIN pos[g]
    <3> DEFINE list == ListWithout(nonEmpty[g], pos[g][r])
               slot == SlotsWithout(nonEmpty[g], pos[g], r)
    <3>1. IsInverse(nonEmpty[g], pos[g]) /\ DOMAIN nonEmpty = Gens /\ DOMAIN pos = Gens
      BY DEF Inv, IndexConsistent
    <3>2. IsInverse(list, slot)
      BY <2>2, <3>1, SwapKeepsInverse
    <3>3. Relist(g, list, slot)
      <4>1. nonEmpty' = [nonEmpty EXCEPT ![g] = list]
        BY <1>3, <2>2, <3>1 DEF trackEmpty, ListWithout
      <4>2. pos' = [pos EXCEPT ![g] = slot]
        BY <1>3, <2>2, <3>1 DEF trackEmpty, SlotsWithout
      <4> QED
        BY <4>1, <4>2 DEF Relist
    <3>4. DOMAIN slot = DOMAIN pos[g] \ {r}
      BY DEF SlotsWithout
    <3> HIDE DEF list, slot
    <3> QED
      BY <3>2, <3>3, <3>4, RelistInv
  <2> QED
    BY <2>1, <2>2
<1>7. \A s \in 1..Shards : OwesEmpty(gen, s) => Vacant(gen, s) \/ s \in late
  BY DEF Inv
<1>8. g = gen => OwesEmpty(gen, r)
  BY <1>3, <1>4 DEF OwesEmpty
<1>9. ListedWhenFull'
  <2>1. gen \in Gens
    BY <1>1 DEF TypeOK
  <2>2. \A s \in 1..Shards : Vacant(gen, s) \/ s \in DOMAIN pos[gen] \/ s \in late \/ OwesInsert(gen, s)
    BY DEF Inv, ListedWhenFull
  <2> QED
    BY <1>4, <1>5, <1>6, <1>7, <1>8, <2>1, <2>2 DEF ListedWhenFull
<1>10. \A s \in 1..Shards : OwesEmpty(gen, s)' => Vacant(gen, s)' \/ s \in late'
  BY <1>4, <1>5, <1>7
<1> QED
  BY <1>5, <1>6, <1>9, <1>10 DEF Inv

\* A flush: the new shard set is empty, no thread works on it yet, and the list is that of Init.
LEMMA FlushInv ==
  ASSUME Inv, NEW t \in Threads, Flush(t)
  PROVE  Inv'
<1> DEFINE x == [pc |-> "count", op |-> "Flush", key |-> None, g |-> gen + 1, size |-> 0, exp |-> 0, total |-> 0, todo |-> 1]
<1>1. TypeOK
  BY DEF Inv
<1>2. gen \in 0..MaxFlushes /\ gen' \in Gens /\ gen' = gen + 1 /\ gen < MaxFlushes
  BY <1>1, DictAssumption, SMTT(30) DEF Flush, TypeOK, Gens
<1>3. /\ ent' = ent /\ nonEmpty' = nonEmpty /\ pos' = pos /\ now' = now /\ late' = {}
      /\ left' \in [Threads -> Nat] /\ th' = [th EXCEPT ![t] = x]
  BY <1>1, SMTT(30) DEF Flush, index, TypeOK
<1>4. DOMAIN th' = Threads /\ th'[t] = x /\ \A u \in Threads \ {t} : th'[u] = th[u]
  BY <1>1, <1>3 DEF TypeOK
<1>5. \A u \in Threads : ThreadOK(th[u])'
  <2> TAKE u \in Threads
  <2>1. CASE u = t
    BY <1>2, <1>4, <2>1, SMTT(30) DEF ThreadOK, Idle
  <2>2. CASE u # t
    BY <1>1, <1>2, <1>4, <2>2, SMTT(30) DEF ThreadOK, TypeOK
  <2> QED
    BY <2>1, <2>2
<1>6. TypeOK'
  BY <1>1, <1>2, <1>3, <1>4, <1>5 DEF TypeOK
<1>7. (DOMAIN nonEmpty = Gens /\ DOMAIN pos = Gens /\ IndexConsistent)'
  BY <1>3 DEF Inv, IndexConsistent
<1>8. \A i \in (gen + 1)..MaxFlushes : ent[i] = NoEntries
  BY DEF Inv
<1>9. (\A i \in (gen + 1)..MaxFlushes : ent[i] = NoEntries)'
  BY <1>2, <1>3, <1>8, SMTT(30)
<1>10. ent'[gen'] = NoEntries
  <2>1. gen + 1 \in (gen + 1)..MaxFlushes
    BY <1>2, DictAssumption, SMTT(30)
  <2> QED
    BY <1>2, <1>3, <1>8, <2>1
<1>11. \A s \in 1..Shards : Vacant(gen, s)'
  BY <1>10 DEF Vacant, NoEntries
<1> QED
  BY <1>6, <1>7, <1>9, <1>11 DEF Inv, ListedWhenFull

-----------------------------------------------------------------------------
LEMMA NextInv == Inv /\ [Next]_vars => Inv'
<1> SUFFICES ASSUME Inv, [Next]_vars PROVE Inv'
  OBVIOUS
<1>1. ASSUME NEW t \in Threads, Step(t) PROVE Inv'
  BY <1>1, SetInv, DeleteInv, SetExpiryInv, LookupInv, TrackInsertInv, TrackEmptyInv, RecomputeInv, MaybeEvictInv DEF Step
<1>2. ASSUME NEW t \in Threads, Flush(t) PROVE Inv'
  BY <1>2, FlushInv
<1>3. ASSUME NEW t \in Threads, NEW o \in Operations[t], Start(t, o) PROVE Inv'
  BY <1>3, StartInv
<1>4. CASE UNCHANGED vars
  <2>1. /\ gen' = gen /\ ent' = ent /\ nonEmpty' = nonEmpty /\ pos' = pos /\ late' = late
        /\ th' = th /\ left' = left /\ now' = now
    BY <1>4 DEF vars, index, history
  <2>2. TypeOK'
    BY <2>1, SMTT(30) DEF Inv, TypeOK, ThreadOK
  <2>3. \A u \in Threads : \/ th'[u] = th[u]
                           \/ th[u].pc \notin {"insert", "empty"} /\ th'[u].pc \notin {"insert", "empty"}
    BY <2>1
  <2> QED
    BY <2>1, <2>2, <2>3, QuietInv
<1> QED
  BY <1>1, <1>2, <1>3, <1>4, TickInv DEF Next

\* The inductive invariant holds throughout.
THEOREM InvHolds == Spec => []Inv
<1> QED
  BY InitInv, NextInv, PTL DEF Spec

\* pos and nonEmpty (memory/dict.go) stay inverse to each other, for any number of threads and shards and
\* however late trackInsert and trackEmpty arrive after the shard was unlocked.
THEOREM IndexStaysConsistent == Spec => []IndexConsistent
<1>1. Inv => IndexConsistent
  BY DEF Inv
<1> QED
  BY <1>1, InvHolds, PTL

\* No shard with keys is missing from the list for longer than the thread that filled it needs, but for the
\* shards that were filled while a trackEmpty was on its way.
THEOREM FullShardsListed == Spec => []ListedWhenFull
<1>1. Inv => ListedWhenFull
  BY DEF Inv
<1> QED
  BY <1>1, InvHolds, PTL

=============================================================================
