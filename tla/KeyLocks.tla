------------------------------ MODULE KeyLocks ------------------------------
(***************************************************************************)
(* The sharded key locks of store.go: keyLockTable, its lockAll, and the   *)
(* second table aggMu that the aggregate layer takes inside a command.     *)
(*                                                                         *)
(* A shard is one sync.RWMutex.  Go's RWMutex has a writer queue (w), lets *)
(* a waiting writer stop new readers, and on Unlock admits the readers     *)
(* that had queued behind it; all three decide whether commands can block  *)
(* each other for ever, so all three are modelled.                         *)
(***************************************************************************)
EXTENDS Integers, FiniteSets

CONSTANTS Clients,        \* command goroutines
          Keys,
          KeySets,        \* the key arguments commands are called with
          Shards,         \* indexes of keyLockTable.shards
          shardIndex,     \* the FNV-1a hash of (db, key), an arbitrary function
          None

ASSUME KeySetsAssumption == KeySets \subseteq (SUBSET Keys) \ {{}}
ASSUME ShardsAssumption == Shards \subseteq Nat
ASSUME HashAssumption == shardIndex \in [Keys -> Shards]

VARIABLES pc,         \* pc[c]: where c is in handle()
          keys,       \* keys[c]: the keys of c's command (commandKeys)
          write,      \* write[c]: command.write, the lock mode
          todo,       \* todo[c]: shards of idxs that lockAll has still to lock
          held,       \* held[c]: mutexes c has locked
          want,       \* want[c]: the mutex c is inside Lock()/RLock() on
          mode,       \* mode[c]: TRUE if that call is Lock()
          w,          \* w[m]: the writer holding or announced on mutex m
          readers,    \* readers[m]: the clients holding m shared
          parked      \* parked[m]: the readers queued behind w[m]

vars == <<pc, keys, write, todo, held, want, mode, w, readers, parked>>

\* A mutex is a table and an index; keyMu and aggMu are separate arrays.
Mutexes == {"key", "agg"} \X Shards

ASSUME NoneAssumption == None \notin Clients /\ \A m \in Mutexes : m # None

\* "lock" before the next shard of lockAll, "call"/"wait" inside Lock()/RLock(),
\* "run" in the command's body, "aggcall"/"aggwait"/"agg" inside and after an
\* aggMu call of the body, "unlock" in the deferred closure.
PCs == {"idle", "lock", "call", "wait", "run", "aggcall", "aggwait", "agg", "unlock"}

Init == /\ pc = [c \in Clients |-> "idle"]
        /\ keys = [c \in Clients |-> {}]
        /\ write = [c \in Clients |-> FALSE]
        /\ todo = [c \in Clients |-> {}]
        /\ held = [c \in Clients |-> {}]
        /\ want = [c \in Clients |-> None]
        /\ mode = [c \in Clients |-> FALSE]
        /\ w = [m \in Mutexes |-> None]
        /\ readers = [m \in Mutexes |-> {}]
        /\ parked = [m \in Mutexes |-> {}]

-----------------------------------------------------------------------------
(* sync.RWMutex *)

\* Slip: a lock that prefers readers, which overtake a waiting writer.
EnqueueOvertaking(c, m, excl) ==
  \/ /\ excl
     /\ w[m] = None
     /\ w' = [w EXCEPT ![m] = c]
     /\ UNCHANGED <<readers, parked>>
  \/ /\ ~excl
     /\ \A d \in Clients : w[m] = d => m \notin held[d]
     /\ readers' = [readers EXCEPT ![m] = @ \cup {c}]
     /\ UNCHANGED <<w, parked>>
  \/ /\ ~excl
     /\ \E d \in Clients : w[m] = d /\ m \in held[d]
     /\ parked' = [parked EXCEPT ![m] = @ \cup {c}]
     /\ UNCHANGED <<w, readers>>

\* Lock(): take the writer queue and announce, which stops new readers.
\* RLock(): join the readers, or queue behind an announced writer.
Enqueue(c, m, excl) ==
  \/ /\ excl
     /\ w[m] = None
     /\ w' = [w EXCEPT ![m] = c]
     /\ UNCHANGED <<readers, parked>>
  \/ /\ ~excl
     /\ w[m] = None
     /\ readers' = [readers EXCEPT ![m] = @ \cup {c}]
     /\ UNCHANGED <<w, parked>>
  \/ /\ ~excl
     /\ w[m] # None
     /\ parked' = [parked EXCEPT ![m] = @ \cup {c}]
     /\ UNCHANGED <<w, readers>>

\* The call returns: the readers a writer waited for have left, or the writer a
\* reader queued behind has unlocked.
Granted(c) == IF mode[c] THEN readers[want[c]] = {} ELSE c \in readers[want[c]]

Return(c) == /\ Granted(c)
             /\ held' = [held EXCEPT ![c] = @ \cup {want[c]}]
             /\ want' = [want EXCEPT ![c] = None]
             /\ mode' = [mode EXCEPT ![c] = FALSE]
             /\ UNCHANGED <<w, readers, parked>>

\* Unlock() admits every queued reader before the next writer; RUnlock() leaves.
Release(c, m) ==
  /\ IF w[m] = c
     THEN /\ w' = [w EXCEPT ![m] = None]
          /\ readers' = [readers EXCEPT ![m] = parked[m]]
          /\ parked' = [parked EXCEPT ![m] = {}]
     ELSE /\ readers' = [readers EXCEPT ![m] = @ \ {c}]
          /\ UNCHANGED <<w, parked>>
  /\ held' = [held EXCEPT ![c] = @ \ {m}]
  /\ UNCHANGED <<want, mode>>

-----------------------------------------------------------------------------
(* keyLockTable.lockAll and handle() *)

\* The first half of a Lock() or RLock() call, of either table.
Call(c) ==
  /\ pc[c] \in {"call", "aggcall"}
  /\ Enqueue(c, want[c], mode[c])
  /\ pc' = [pc EXCEPT ![c] = IF pc[c] = "call" THEN "wait" ELSE "aggwait"]
  /\ UNCHANGED <<keys, write, todo, held, want, mode>>

\* Slip: only the first key is locked.
FirstKeyOnly(ks) == {shardIndex[CHOOSE k \in ks : TRUE]}

\* The seen map drops duplicate shards: colliding keys are locked once.
shardSet(ks) == {shardIndex[k] : k \in ks}

\* Slip: the sort left out, shards locked as the keys come.
Unsorted(i, S) == i \in S

\* lockAll's next index: idxs is sorted in descending order.
IsNext(i, S) == i \in S /\ \A j \in S : j <= i

\* The closure releases in the reverse order.
IsLast(m, S) == m \in S /\ \A n \in S : m[2] <= n[2]

Dispatch(c) ==
  /\ pc[c] = "idle"
  /\ \E ks \in KeySets, excl \in BOOLEAN :
       /\ keys' = [keys EXCEPT ![c] = ks]
       /\ write' = [write EXCEPT ![c] = excl]
       /\ todo' = [todo EXCEPT ![c] = shardSet(ks)]
  /\ pc' = [pc EXCEPT ![c] = "lock"]
  /\ UNCHANGED <<held, want, mode, w, readers, parked>>

\* blockingCmds (BLPOP, ...) and the commands EXEC replays take no key lock.
DispatchExempt(c) ==
  /\ pc[c] = "idle"
  /\ \E ks \in KeySets : keys' = [keys EXCEPT ![c] = ks]
  /\ write' = [write EXCEPT ![c] = TRUE]
  /\ pc' = [pc EXCEPT ![c] = "run"]
  /\ UNCHANGED <<todo, held, want, mode, w, readers, parked>>

\* Slip: RLock() for a write command.
LockShardShared(c) ==
  /\ pc[c] = "lock"
  /\ \E i \in Shards : /\ IsNext(i, todo[c])
                      /\ want' = [want EXCEPT ![c] = <<"key", i>>]
  /\ mode' = [mode EXCEPT ![c] = FALSE]
  /\ pc' = [pc EXCEPT ![c] = "call"]
  /\ UNCHANGED <<keys, write, todo, held, w, readers, parked>>

LockShard(c) ==
  /\ pc[c] = "lock"
  /\ \E i \in Shards : /\ IsNext(i, todo[c])
                      /\ want' = [want EXCEPT ![c] = <<"key", i>>]
  /\ mode' = [mode EXCEPT ![c] = write[c]]
  /\ pc' = [pc EXCEPT ![c] = "call"]
  /\ UNCHANGED <<keys, write, todo, held, w, readers, parked>>

ShardLocked(c) ==
  /\ pc[c] = "wait"
  /\ Return(c)
  /\ todo' = [todo EXCEPT ![c] = @ \ {want[c][2]}]
  /\ pc' = [pc EXCEPT ![c] = IF todo[c] = {want[c][2]} THEN "run" ELSE "lock"]
  /\ UNCHANGED <<keys, write>>

Finish(c) ==
  /\ pc[c] = "run"
  /\ pc' = [pc EXCEPT ![c] = IF held[c] = {} THEN "idle" ELSE "unlock"]
  /\ keys' = [keys EXCEPT ![c] = IF held[c] = {} THEN {} ELSE @]
  /\ write' = [write EXCEPT ![c] = held[c] # {} /\ @]
  /\ UNCHANGED <<todo, held, want, mode, w, readers, parked>>

UnlockShard(c) ==
  /\ pc[c] = "unlock"
  /\ \E m \in Mutexes :
       /\ IsLast(m, held[c])
       /\ Release(c, m)
       /\ pc' = [pc EXCEPT ![c] = IF held[c] = {m} THEN "idle" ELSE "unlock"]
       /\ keys' = [keys EXCEPT ![c] = IF held[c] = {m} THEN {} ELSE @]
       /\ write' = [write EXCEPT ![c] = held[c] # {m} /\ @]
  /\ UNCHANGED todo

-----------------------------------------------------------------------------
(* aggMu: scanHash/scanSet/scanZSet/scanList take it shared, saveAgg and the *)
(* list writers exclusively; each call is released before the next is made.  *)

aggTable == "agg"

AggLock(c) ==
  /\ pc[c] = "run"
  /\ \E k \in keys[c] : want' = [want EXCEPT ![c] = <<aggTable, shardIndex[k]>>]
  /\ \E excl \in BOOLEAN : /\ excl => write[c]
                          /\ mode' = [mode EXCEPT ![c] = excl]
  /\ pc' = [pc EXCEPT ![c] = "aggcall"]
  /\ UNCHANGED <<keys, write, todo, held, w, readers, parked>>

AggLocked(c) ==
  /\ pc[c] = "aggwait"
  /\ Return(c)
  /\ pc' = [pc EXCEPT ![c] = "agg"]
  /\ UNCHANGED <<keys, write, todo>>

AggUnlock(c) ==
  /\ pc[c] = "agg"
  /\ \E m \in held[c] : m[1] = aggTable /\ Release(c, m)
  /\ pc' = [pc EXCEPT ![c] = "run"]
  /\ UNCHANGED <<keys, write, todo>>

Step(c) == \/ LockShard(c)
           \/ Call(c)
           \/ ShardLocked(c)
           \/ Finish(c)
           \/ UnlockShard(c)
           \/ AggLock(c)
           \/ AggLocked(c)
           \/ AggUnlock(c)

Next == \E c \in Clients : Dispatch(c) \/ DispatchExempt(c) \/ Step(c)

Spec == Init /\ [][Next]_vars

\* Goroutines are scheduled and command bodies end.  A Lock() or RLock() call is
\* served even under contention: the writer queue of an RWMutex is a sync.Mutex,
\* whose starvation mode hands it to the oldest waiter.
Running(c) == LockShard(c) \/ ShardLocked(c) \/ UnlockShard(c) \/ AggLocked(c) \/ AggUnlock(c)

Fairness == \A c \in Clients : /\ WF_vars(Running(c))
                              /\ SF_vars(Call(c))
                              /\ SF_vars(Finish(c))

FairSpec == Spec /\ Fairness

-----------------------------------------------------------------------------
(* Properties *)

\* Every variable keeps its type; in particular lockAll indexes only shards of
\* the table.
TypeOK == /\ pc \in [Clients -> PCs]
          /\ keys \in [Clients -> SUBSET Keys]
          /\ write \in [Clients -> BOOLEAN]
          /\ todo \in [Clients -> SUBSET Shards]
          /\ held \in [Clients -> SUBSET Mutexes]
          /\ want \in [Clients -> Mutexes \cup {None}]
          /\ mode \in [Clients -> BOOLEAN]
          /\ w \in [Mutexes -> Clients \cup {None}]
          /\ readers \in [Mutexes -> SUBSET Clients]
          /\ parked \in [Mutexes -> SUBSET Clients]

\* What c's command has locked while its body runs; exempt commands hold nothing.
Body == {"run", "aggcall", "aggwait", "agg"}

ClaimOf(c) == IF pc[c] \in Body /\ \E i \in Shards : <<"key", i>> \in held[c]
              THEN [keys |-> keys[c], write |-> write[c]]
              ELSE [keys |-> {}, write |-> FALSE]

claims == [c \in Clients |-> ClaimOf(c)]

Promise == INSTANCE KeyLockSpec WITH claim <- claims

\* The locks implement KeyLockSpec: the body of a command that went through
\* lockAll never overlaps the body of a conflicting one, whatever keys collide.
ImplementsPromise == Promise!Spec

\* Two command bodies that run at the same time, both dispatched through lockAll,
\* share no key unless both are reads (server.go:337-343, "serialising writers to
\* the same key").
MutualExclusion ==
  \A c, d \in Clients :
    c # d => Promise!Compatible(ClaimOf(c), ClaimOf(d))

\* m is acquired before n by every command: keyMu before aggMu, and within a
\* table in descending order of shard.
Before(m, n) == \/ m[1] = "key" /\ n[1] = "agg"
                \/ m[1] = n[1] /\ m[2] > n[2]

\* A client inside Lock() or RLock() waits for a mutex that comes after every
\* mutex it holds, so no cycle of clients waiting for each other can form, and no
\* client waits for itself (store.go:121-126 and 62-66, RWMutex not reentrant).
OrderedWaits ==
  \A c \in Clients : want[c] # None => \A m \in held[c] : Before(m, want[c])

\* c went through lockAll and has not reached its closure.
Locked(c) == \/ pc[c] \in {"lock", "call", "wait"}
             \/ pc[c] \in Body /\ \E i \in Shards : <<"key", i>> \in held[c]

\* Why the two above hold.  A mutex counts as held by those it admits, a writer
\* that is in holds it alone, the mutexes of lockAll go from todo to held in
\* descending order until every key of the command is covered, and aggMu is
\* only ever taken last.
LockInv(c) ==
  /\ want[c] # None <=> pc[c] \in {"call", "wait", "aggcall", "aggwait"}
  /\ pc[c] \in {"call", "wait"} => /\ want[c][1] = "key"
                                  /\ IsNext(want[c][2], todo[c])
                                  /\ mode[c] = write[c]
  /\ pc[c] \in {"aggcall", "aggwait"} => want[c][1] = "agg"
  /\ pc[c] \in {"wait", "aggwait"} /\ mode[c] => w[want[c]] = c
  /\ pc[c] = "idle" => held[c] = {}
  /\ pc[c] # "idle" => keys[c] # {}
  /\ pc[c] \notin {"lock", "call", "wait"} => todo[c] = {}
  /\ pc[c] # "agg" => \A m \in held[c] : m[1] = "key"
  /\ \A m, n \in held[c] : m[1] = "agg" /\ n[1] = "agg" => m = n
  /\ \A m \in held[c] :
       /\ w[m] = c \/ c \in readers[m]
       /\ w[m] = c => readers[m] = {}
       /\ m[1] = "key" /\ write[c] => w[m] = c
       /\ \A j \in todo[c] : m[2] > j
  /\ \A m \in Mutexes :
       w[m] = c => m \in held[c] \/ (want[c] = m /\ mode[c] /\ pc[c] \in {"wait", "aggwait"})
  /\ Locked(c) => \A k \in keys[c] : shardIndex[k] \in todo[c] \/ <<"key", shardIndex[k]>> \in held[c]

\* The inductive invariant of the lock protocol: readers and writers of a shard
\* exclude each other because LockInv holds of every client.
Inv == TypeOK /\ \A c \in Clients : LockInv(c)

\* Every dispatched command gets its locks and finishes, whatever the other
\* commands lock: no deadlock, and no starvation of readers or writers.
CommandsFinish == \A c \in Clients : pc[c] # "idle" ~> pc[c] = "idle"

=============================================================================
