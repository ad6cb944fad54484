-------------------------------- MODULE Dict --------------------------------
(***************************************************************************)
(* The sharded index (memory/dict.go) and the evictor that lives off it    *)
(* (memory/evict.go).  An operation finds the shard set of its database,   *)
(* changes one shard and the memory counter under the shard's mutex, and   *)
(* updates the list of shards that hold keys, under a mutex of its own,    *)
(* after the shard is unlocked.  Flush puts a new shard set in place and   *)
(* counts again; operations that found the old one go on with it.          *)
(***************************************************************************)
EXTENDS Integers, Sequences, FiniteSets, FiniteSetsExt

CONSTANTS Threads, Keys,
          Shards,       \* how many shards a database has
          shardFor,     \* [Keys -> 1..Shards]: the hash
          Operations,   \* [Threads -> set of operations: op, key, size, exp]
          MaxOps,       \* [Threads -> bound on the operations a thread starts]
          MaxFlushes,
          Target,       \* the memory the evictor brings usage down to
          VolatileOnly, \* the policy spares keys without a deadline
          None

ASSUME DictAssumption ==
    /\ Shards \in Nat \ {0} /\ shardFor \in [Keys -> 1..Shards] /\ MaxFlushes \in Nat /\ Target \in Nat
    /\ VolatileOnly \in BOOLEAN /\ None \notin Keys
ASSUME OperationsAssumption ==
    /\ MaxOps \in [Threads -> Nat]
    /\ \A t \in Threads : \A o \in Operations[t] :
          /\ o.op \in {"Set", "SetCounter", "Delete", "SetExpiry", "Lookup", "Flush", "MaybeEvict"}
          /\ o.op \notin {"Flush", "MaybeEvict"} => o.key \in Keys /\ o.size \in Nat /\ o.exp \in {0, 1}

VARIABLES gen,          \* which shard set is in place
          ent,          \* [generation -> [Keys -> entry or None]]
          nonEmpty,     \* [generation -> sequence of shards]
          pos,          \* [generation -> [shard -> slot in nonEmpty], partial]
          used,         \* the memory counter
          now,          \* the clock: a deadline is 1
          th,           \* [Threads -> what the thread is doing]
          left,         \* operations each thread may still start
          drifted,      \* history: a change to the counter fell between Flush's swap and its count
          late          \* history: shards filled again while a thread was about to take them off the list

index == <<nonEmpty, pos>>

history == <<drifted, late>>

vars == <<gen, ent, index, used, now, th, left, history>>

Gens == 0..MaxFlushes

NoEntries == [k \in Keys |-> None]

Idle == [pc |-> "idle", op |-> "none", key |-> None, g |-> 0, size |-> 0, exp |-> 0, total |-> 0, todo |-> 0]

\* An operation that has found the shard set in place.
Entering(op, key, size, exp) ==
    [pc |-> "enter", op |-> op, key |-> key, g |-> gen, size |-> size, exp |-> exp, total |-> 0, todo |-> 0]

At(t, op, pc) == th[t].op = op /\ th[t].pc = pc

expired(e) == e.exp # 0 /\ e.exp <= now

keysIn(g, s) == {k \in Keys : shardFor[k] = s /\ ent[g][k] # None}

sizeOf(g, S) == FoldSet(LAMBDA k, n : n + ent[g][k].size, 0, S)

counted(g) == sizeOf(g, {k \in Keys : ent[g][k] # None})

Goto(t, pc) == th' = [th EXCEPT ![t].pc = pc]

Done(t) == th' = [th EXCEPT ![t] = Idle]

\* A Flush has swapped the shards and not stored its count yet.
Counting == \E t \in Threads : th[t].op = "Flush" /\ th[t].pc \in {"count", "store"}

\* The counter moves by d for an entry of generation g.
Account(g, d) == used' = used + d /\ drifted' = (drifted \/ (d # 0 /\ (g # gen \/ Counting)))

\* A thread found shard s empty and has not told the list yet.
OwesEmpty(g, s) == \E t \in Threads : th[t].pc = "empty" /\ th[t].g = g /\ shardFor[th[t].key] = s

Refilled(g, s) == late' = IF g = gen /\ OwesEmpty(g, s) THEN late \cup {s} ELSE late

-----------------------------------------------------------------------------
(* Operations: dbShards and the start, the critical section, the list.     *)

Start(t, o) ==
    /\ th[t].pc = "idle" /\ left[t] > 0 /\ o.op \notin {"Flush", "MaybeEvict"}
    /\ th' = [th EXCEPT ![t] = Entering(o.op, o.key, o.size, o.exp)]
    /\ left' = [left EXCEPT ![t] = @ - 1]
    /\ UNCHANGED <<gen, ent, index, used, now, history>>

\* Slip: an overwrite counts the new entry and keeps the old one's share.
SetKeepsOld(t) ==
    LET k == th[t].key  g == th[t].g  e == ent[g][k]
    IN  /\ At(t, "Set", "enter")
        /\ ent' = [ent EXCEPT ![g][k] = [size |-> th[t].size, exp |-> th[t].exp]]
        /\ Account(g, th[t].size)
        /\ IF e = None THEN Goto(t, "insert") ELSE Done(t)
        /\ Refilled(g, shardFor[k])
        /\ UNCHANGED <<gen, index, now, left>>

Set(t) ==
    LET k == th[t].key  g == th[t].g  e == ent[g][k]
    IN  /\ At(t, "Set", "enter")
        /\ ent' = [ent EXCEPT ![g][k] = [size |-> th[t].size, exp |-> th[t].exp]]
        /\ Account(g, IF e = None THEN th[t].size ELSE th[t].size - e.size)
        /\ IF e = None THEN Goto(t, "insert") ELSE Done(t)
        /\ Refilled(g, shardFor[k])
        /\ UNCHANGED <<gen, index, now, left>>

\* A counter's entry keeps the size it had.
SetCounter(t) ==
    LET k == th[t].key  g == th[t].g  e == ent[g][k]
    IN  /\ At(t, "SetCounter", "enter")
        /\ ent' = [ent EXCEPT ![g][k] = [size |-> IF e = None THEN th[t].size ELSE e.size, exp |-> th[t].exp]]
        /\ Account(g, IF e = None THEN th[t].size ELSE 0)
        /\ IF e = None THEN Goto(t, "insert") ELSE Done(t)
        /\ Refilled(g, shardFor[k])
        /\ UNCHANGED <<gen, index, now, left>>

\* Slip: the list is told when one key is left.
removeEarly(t) ==
    LET k == th[t].key  g == th[t].g
    IN  /\ ent' = [ent EXCEPT ![g][k] = None]
        /\ Account(g, -ent[g][k].size)
        /\ IF Cardinality(keysIn(g, shardFor[k])) <= 2 THEN Goto(t, "empty") ELSE Done(t)

\* The entry of thread t's key goes; the list is told when the shard is empty.
remove(t) ==
    LET k == th[t].key  g == th[t].g
    IN  /\ ent' = [ent EXCEPT ![g][k] = None]
        /\ Account(g, -ent[g][k].size)
        /\ IF keysIn(g, shardFor[k]) = {k} THEN Goto(t, "empty") ELSE Done(t)

Delete(t) ==
    /\ At(t, "Delete", "enter")
    /\ IF ent[th[t].g][th[t].key] = None THEN Done(t) /\ UNCHANGED <<ent, used, drifted>> ELSE remove(t)
    /\ UNCHANGED <<gen, index, now, left, late>>

\* SetExpiry drops an entry that has expired already.
SetExpiry(t) ==
    LET k == th[t].key  g == th[t].g  e == ent[g][k]
    IN  /\ At(t, "SetExpiry", "enter")
        /\ IF e = None THEN Done(t) /\ UNCHANGED <<ent, used, drifted>>
           ELSE IF expired(e) THEN remove(t)
           ELSE ent' = [ent EXCEPT ![g][k].exp = th[t].exp] /\ Done(t) /\ UNCHANGED <<used, drifted>>
        /\ UNCHANGED <<gen, index, now, left, late>>

\* Lookup reads under the shared lock, and deletes an expired entry in a critical section of its own,
\* over whatever shard set is in place by then.
Lookup(t) ==
    LET e == ent[th[t].g][th[t].key]
    IN  /\ At(t, "Lookup", "enter")
        /\ IF e # None /\ expired(e) THEN th' = [th EXCEPT ![t].op = "Delete", ![t].g = gen] ELSE Done(t)
        /\ UNCHANGED <<gen, ent, index, used, now, left, history>>

trackInsert(t) ==
    LET g == th[t].g  s == shardFor[th[t].key]
    IN  /\ th[t].pc = "insert"
        /\ IF s \in DOMAIN pos[g] THEN UNCHANGED index
           ELSE /\ nonEmpty' = [nonEmpty EXCEPT ![g] = Append(@, s)]
                /\ pos' = [pos EXCEPT ![g] = [i \in DOMAIN @ \cup {s} |-> IF i = s THEN Len(nonEmpty[g]) + 1 ELSE @[i]]]
        /\ Done(t)
        /\ late' = IF g # gen \/ OwesEmpty(g, s) THEN late ELSE late \ {s}
        /\ UNCHANGED <<gen, ent, used, now, left, drifted>>

\* Slip: the shard moved into the gap keeps its old slot.
trackEmptyKeepsSlot(t) ==
    LET g == th[t].g  s == shardFor[th[t].key]  last == Len(nonEmpty[g])
    IN  /\ th[t].pc = "empty"
        /\ IF s \notin DOMAIN pos[g] THEN UNCHANGED index
           ELSE /\ nonEmpty' = [nonEmpty EXCEPT ![g] = SubSeq([@ EXCEPT ![pos[g][s]] = nonEmpty[g][last]], 1, last - 1)]
                /\ pos' = [pos EXCEPT ![g] = [i \in DOMAIN @ \ {s} |-> @[i]]]
        /\ Done(t)
        /\ UNCHANGED <<gen, ent, used, now, left, history>>

\* The last shard of the list takes the slot of the one that goes.
trackEmpty(t) ==
    LET g == th[t].g  s == shardFor[th[t].key]  last == Len(nonEmpty[g])
    IN  /\ th[t].pc = "empty"
        /\ IF s \notin DOMAIN pos[g] THEN UNCHANGED index
           ELSE LET p == pos[g][s]  moved == nonEmpty[g][last]
                IN  /\ nonEmpty' = [nonEmpty EXCEPT ![g] = SubSeq([@ EXCEPT ![p] = moved], 1, last - 1)]
                    /\ pos' = [pos EXCEPT ![g] = [i \in DOMAIN @ \ {s} |-> IF i = moved THEN p ELSE @[i]]]
        /\ Done(t)
        /\ UNCHANGED <<gen, ent, used, now, left, history>>

-----------------------------------------------------------------------------
(* Flush and recomputeUsed.                                                *)

Flush(t) ==
    /\ th[t].pc = "idle" /\ left[t] > 0 /\ gen < MaxFlushes
    /\ \E o \in Operations[t] : o.op = "Flush"
    /\ gen' = gen + 1
    /\ th' = [th EXCEPT ![t] = [pc |-> "count", op |-> "Flush", key |-> None, g |-> gen + 1, size |-> 0, exp |-> 0, total |-> 0, todo |-> 1]]
    /\ left' = [left EXCEPT ![t] = @ - 1]
    /\ late' = {}
    /\ UNCHANGED <<ent, index, used, now, drifted>>

\* One shard after the other, each under its lock; then the counter is overwritten.
recomputeUsed(t) ==
    \/ /\ At(t, "Flush", "count")
       /\ th' = [th EXCEPT ![t].total = @ + sizeOf(th[t].g, keysIn(th[t].g, th[t].todo)), ![t].todo = @ + 1,
                           ![t].pc = IF th[t].todo = Shards THEN "store" ELSE "count"]
       /\ UNCHANGED <<gen, ent, index, used, now, left, history>>
    \/ /\ At(t, "Flush", "store")
       /\ used' = th[t].total
       /\ Done(t)
       /\ UNCHANGED <<gen, ent, index, now, left, history>>

-----------------------------------------------------------------------------
(* The evictor.                                                            *)

\* What pickFromShard may return for a shard: any key that is due, or that the policy may take.
candidates(s) == {k \in keysIn(gen, s) : VolatileOnly => ent[gen][k].exp # 0}

\* Slip: rounds start at the limit and not at the target below it.
MaybeEvictLate(t) ==
    /\ th[t].pc = "idle" /\ \E o \in Operations[t] : o.op = "MaybeEvict"
    /\ used > Target + 1
    /\ \E i \in 1..Len(nonEmpty[gen]) : \E k \in candidates(nonEmpty[gen][i]) :
          th' = [th EXCEPT ![t] = Entering("Delete", k, 0, 0)]
    /\ UNCHANGED <<gen, ent, index, used, now, left, history>>

\* A round: over the target, a victim from a listed shard; a shard that is empty by now gives none.
MaybeEvict(t) ==
    /\ th[t].pc = "idle" /\ \E o \in Operations[t] : o.op = "MaybeEvict"
    /\ used > Target
    /\ \E i \in 1..Len(nonEmpty[gen]) : \E k \in candidates(nonEmpty[gen][i]) :
          th' = [th EXCEPT ![t] = Entering("Delete", k, 0, 0)]
    /\ UNCHANGED <<gen, ent, index, used, now, left, history>>

Tick ==
    /\ now = 0
    /\ \E k \in Keys : ent[gen][k] # None /\ ent[gen][k].exp = 1
    /\ now' = 1
    /\ UNCHANGED <<gen, ent, index, used, th, left, history>>

-----------------------------------------------------------------------------
Init ==
    /\ gen = 0 /\ ent = [g \in Gens |-> NoEntries]
    /\ nonEmpty = [g \in Gens |-> <<>>] /\ pos = [g \in Gens |-> <<>>]
    /\ used = 0 /\ now = 0
    /\ th = [t \in Threads |-> Idle] /\ left = MaxOps
    /\ drifted = FALSE /\ late = {}

Step(t) ==
    \/ Set(t) \/ SetCounter(t) \/ Delete(t) \/ SetExpiry(t) \/ Lookup(t)
    \/ trackInsert(t) \/ trackEmpty(t)
    \/ recomputeUsed(t) \/ MaybeEvict(t)

Next == (\E t \in Threads : Step(t) \/ Flush(t) \/ \E o \in Operations[t] : Start(t, o)) \/ Tick

\* A goroutine that runs is scheduled; Evictor.Run is driven by a ticker.
Spec == Init /\ [][Next]_vars /\ \A t \in Threads : WF_vars(Step(t))

-----------------------------------------------------------------------------
(* Properties.                                                             *)

Entries == [size : Nat, exp : {0, 1}]

\* A thread is at a place its operation has, with arguments of the right type.
ThreadOK(x) ==
    /\ DOMAIN x = DOMAIN Idle
    /\ x.op \in {"none", "Flush", "Set", "SetCounter", "Delete", "SetExpiry", "Lookup"}
    /\ x.pc \in {"idle", "enter", "insert", "empty", "count", "store"}
    /\ x.pc = "idle" <=> x.op = "none"
    /\ x.pc \in {"count", "store"} <=> x.op = "Flush"
    /\ x.pc = "insert" => x.op \in {"Set", "SetCounter"}
    /\ x.pc = "empty" => x.op \in {"Delete", "SetExpiry"}
    /\ x.g \in 0..gen
    /\ x.op \notin {"none", "Flush"} => x.key \in Keys /\ x.size \in Nat /\ x.exp \in {0, 1}

\* Every variable has its type, and a thread that owes the list an update did change a shard.
TypeOK ==
    /\ gen \in Gens /\ now \in {0, 1}
    /\ ent \in [Gens -> [Keys -> Entries \cup {None}]]
    /\ late \subseteq 1..Shards
    /\ left \in [Threads -> Nat]
    /\ DOMAIN th = Threads /\ \A t \in Threads : ThreadOK(th[t])

IsInverse(list, slot) ==
    /\ list \in Seq(1..Shards)
    /\ DOMAIN slot \subseteq 1..Shards
    /\ \A s \in DOMAIN slot : slot[s] \in 1..Len(list) /\ list[slot[s]] = s
    /\ \A i \in 1..Len(list) : list[i] \in DOMAIN slot /\ slot[list[i]] = i

\* pos is the inverse of nonEmpty: trackInsert lists no shard twice, and trackEmpty, which fills the gap
\* with the last shard, leaves every other one where pos says it is.  randomShard and the O(1) removal
\* rest on it, whatever the order in which late updates arrive.
IndexConsistent == \A g \in Gens : IsInverse(nonEmpty[g], pos[g])

\* Shard s of generation g holds nothing.
Vacant(g, s) == \A k \in Keys : shardFor[k] = s => ent[g][k] = None

\* A thread that filled shard s has not told the list yet.
OwesInsert(g, s) == \E t \in Threads : th[t].pc = "insert" /\ th[t].g = g /\ shardFor[th[t].key] = s

\* The evictor and RANDOMKEY find every key: a shard that holds keys is listed, once the thread that
\* filled it has told the list, unless it was filled while another thread, which had found it empty, was
\* about to take it off the list; the next key inserted puts such a shard back.
ListedWhenFull ==
    \A s \in 1..Shards : Vacant(gen, s) \/ s \in DOMAIN pos[gen] \/ s \in late \/ OwesInsert(gen, s)

\* What these two rest on: the shard sets to come are empty, and a thread that is about to take a shard
\* off the list found it empty, or someone has filled it since.
Inv ==
    /\ TypeOK
    /\ DOMAIN nonEmpty = Gens /\ DOMAIN pos = Gens
    /\ IndexConsistent
    /\ \A g \in (gen + 1)..MaxFlushes : ent[g] = NoEntries
    /\ \A s \in 1..Shards : OwesEmpty(gen, s) => Vacant(gen, s) \/ s \in late
    /\ ListedWhenFull

\* The counter MaxMemory is compared with is the memory of the entries, at every moment, unless an
\* operation met a Flush (recomputeUsed stores a count that others may have changed since).
UsedExact == drifted \/ Counting \/ used = counted(gen)

\* Eviction makes progress: once the threads have no more to do, usage is at the target for good,
\* unless the policy may not take what is left, a Flush spoiled the counter or a shard went off the list.
MemoryReclaimed == <>[](drifted \/ late # {} \/ used <= Target \/ \A s \in 1..Shards : candidates(s) = {})

=============================================================================
