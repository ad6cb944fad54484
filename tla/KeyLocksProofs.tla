--------------------------- MODULE KeyLocksProofs ---------------------------
(***************************************************************************)
(* Proofs about KeyLocks, for any number of clients, keys and shards and   *)
(* any hash: the inductive invariant Inv, and from it mutual exclusion,    *)
(* the lock order and the refinement of KeyLockSpec.                       *)
(***************************************************************************)
EXTENDS KeyLocks, TLAPS

\* Most leaves are first-order: Zenon proves them.  The others name SMT.
USE ZenonT(30)

\* What another client's step leaves alone of d: its locals ...
Same(d) == /\ pc'[d] = pc[d]
           /\ keys'[d] = keys[d]
           /\ write'[d] = write[d]
           /\ todo'[d] = todo[d]
           /\ held'[d] = held[d]
           /\ want'[d] = want[d]
           /\ mode'[d] = mode[d]

\* ... and d's part in the mutexes.
Undisturbed(d) == /\ \A n \in Mutexes : w'[n] = d <=> w[n] = d
                  /\ \A n \in held[d] : /\ d \in readers[n] => d \in readers'[n]
                                        /\ w[n] = d => readers'[n] = readers[n]

\* A client keeps its invariant through a step of another one that leaves its
\* locals and its part in the mutexes alone.
LEMMA Frame ==
  ASSUME NEW d \in Clients, TypeOK, LockInv(d), Same(d), Undisturbed(d)
  PROVE  LockInv(d)'
<1>1. held[d] \subseteq Mutexes /\ want[d] \in Mutexes \cup {None}
  BY DEF TypeOK
<1>2. Locked(d)' <=> Locked(d)
  BY DEF Locked, Same
<1>3. \A m \in held'[d] : /\ w'[m] = d \/ d \in readers'[m]
                          /\ w'[m] = d => readers'[m] = {}
                          /\ m[1] = "key" /\ write'[d] => w'[m] = d
                          /\ \A j \in todo'[d] : m[2] > j
  BY <1>1 DEF LockInv, Same, Undisturbed
<1>4. \A m \in Mutexes :
        w'[m] = d => m \in held'[d] \/ (want'[d] = m /\ mode'[d] /\ pc'[d] \in {"wait", "aggwait"})
  BY DEF LockInv, Same, Undisturbed
<1>5. pc'[d] \in {"wait", "aggwait"} /\ mode'[d] => w'[want'[d]] = d
  <2>1. pc[d] \in {"wait", "aggwait"} => want[d] \in Mutexes
    BY <1>1 DEF LockInv
  <2> QED
    BY <2>1 DEF LockInv, Same, Undisturbed
<1>6. /\ want'[d] # None <=> pc'[d] \in {"call", "wait", "aggcall", "aggwait"}
      /\ pc'[d] \in {"call", "wait"} => /\ want'[d][1] = "key"
                                       /\ IsNext(want'[d][2], todo'[d])
                                       /\ mode'[d] = write'[d]
      /\ pc'[d] \in {"aggcall", "aggwait"} => want'[d][1] = "agg"
      /\ pc'[d] = "idle" => held'[d] = {}
      /\ pc'[d] # "idle" => keys'[d] # {}
      /\ pc'[d] \notin {"lock", "call", "wait"} => todo'[d] = {}
      /\ pc'[d] # "agg" => \A m \in held'[d] : m[1] = "key"
      /\ \A m, n \in held'[d] : m[1] = "agg" /\ n[1] = "agg" => m = n
  BY DEF LockInv, Same
<1>7. Locked(d)' => \A k \in keys'[d] : shardIndex[k] \in todo'[d] \/ <<"key", shardIndex[k]>> \in held'[d]
  BY <1>2 DEF LockInv, Same
<1> QED
  BY <1>3, <1>4, <1>5, <1>6, <1>7 DEF LockInv, IsNext

\* Lock() and RLock() of c disturb nobody's hold on a mutex.
LEMMA EnqueueFrame ==
  ASSUME TypeOK, NEW c \in Clients, NEW d \in Clients, c # d, LockInv(d),
         NEW m \in Mutexes, NEW excl \in BOOLEAN, Enqueue(c, m, excl)
  PROVE  Undisturbed(d)
<1>1. /\ w \in [Mutexes -> Clients \cup {None}]
      /\ readers \in [Mutexes -> SUBSET Clients]
      /\ held[d] \subseteq Mutexes
      /\ d # None
  BY NoneAssumption DEF TypeOK
<1>2. CASE excl /\ w[m] = None /\ w' = [w EXCEPT ![m] = c] /\ readers' = readers
  BY <1>1, <1>2 DEF Undisturbed
<1>3. CASE ~excl /\ w[m] = None /\ readers' = [readers EXCEPT ![m] = @ \cup {c}] /\ w' = w
  BY <1>1, <1>3 DEF Undisturbed
<1>4. CASE readers' = readers /\ w' = w
  BY <1>1, <1>4 DEF Undisturbed
<1> QED
  BY <1>2, <1>3, <1>4 DEF Enqueue

\* Unlock() and RUnlock() of a mutex c holds disturb nobody else's hold: a
\* writer that is in is alone, so the readers it admits take nobody's place.
LEMMA ReleaseFrame ==
  ASSUME TypeOK, NEW c \in Clients, NEW d \in Clients, c # d, LockInv(c), LockInv(d),
         NEW m \in held[c], Release(c, m)
  PROVE  Undisturbed(d)
<1>1. /\ w \in [Mutexes -> Clients \cup {None}]
      /\ readers \in [Mutexes -> SUBSET Clients]
      /\ held[d] \subseteq Mutexes
      /\ m \in Mutexes
      /\ d # None
  BY NoneAssumption DEF TypeOK
<1>2. CASE w[m] = c
  <2>1. readers[m] = {}
    BY <1>2 DEF LockInv
  <2>2. m \notin held[d]
    BY <1>2, <2>1 DEF LockInv
  <2>3. w' = [w EXCEPT ![m] = None] /\ readers' = [readers EXCEPT ![m] = parked[m]]
    BY <1>2 DEF Release
  <2> QED
    BY <1>1, <1>2, <2>2, <2>3 DEF Undisturbed
<1>3. CASE w[m] # c
  <2>1. w' = w /\ readers' = [readers EXCEPT ![m] = @ \ {c}]
    BY <1>3 DEF Release
  <2>2. \A n \in held[d] : w[n] = d => readers'[n] = readers[n]
    <3>1. \A n \in held[d] : w[n] = d => readers[n] = {}
      BY DEF LockInv
    <3> QED
      BY <1>1, <2>1, <3>1
  <2> QED
    BY <1>1, <2>1, <2>2 DEF Undisturbed
<1> QED
  BY <1>2, <1>3

-----------------------------------------------------------------------------
(* One lemma per group of actions: a step of c keeps every client's LockInv. *)

\* The initial state satisfies the invariant: nobody wants or holds anything.
LEMMA InitInv == Init => Inv
  BY NoneAssumption, SMTT(30) DEF Init, Inv, TypeOK, LockInv, Locked, Body, PCs, Mutexes

\* A step that leaves the mutexes alone leaves every other client alone.
LEMMA LocalFrame ==
  ASSUME Inv, NEW c \in Clients, UNCHANGED <<w, readers>>,
         \A d \in Clients \ {c} : Same(d)
  PROVE  \A d \in Clients \ {c} : LockInv(d)'
<1> SUFFICES ASSUME NEW d \in Clients \ {c}
             PROVE  LockInv(d)'
  OBVIOUS
<1>1. Undisturbed(d)
  BY DEF Undisturbed
<1> QED
  BY <1>1, Frame DEF Inv

\* Dispatch and DispatchExempt start from a client that holds nothing.
LEMMA DispatchInv ==
  ASSUME Inv, NEW c \in Clients, Dispatch(c) \/ DispatchExempt(c)
  PROVE  Inv'
<1> TypeOK /\ LockInv(c)
  BY DEF Inv
<1>1. PICK ks \in KeySets : /\ keys' = [keys EXCEPT ![c] = ks]
                            /\ \/ /\ Dispatch(c)
                                  /\ todo' = [todo EXCEPT ![c] = shardSet(ks)]
                                  /\ pc' = [pc EXCEPT ![c] = "lock"]
                               \/ /\ DispatchExempt(c)
                                  /\ todo' = todo
                                  /\ pc' = [pc EXCEPT ![c] = "run"]
  BY DEF Dispatch, DispatchExempt
<1>2. /\ ks \subseteq Keys
      /\ ks # {}
      /\ shardSet(ks) \subseteq Shards
      /\ \A k \in ks : shardIndex[k] \in shardSet(ks)
  BY KeySetsAssumption, HashAssumption DEF shardSet
<1>3. TypeOK'
  <2>1. write' \in [Clients -> BOOLEAN]
    BY DEF TypeOK, Dispatch, DispatchExempt
  <2>2. pc' \in [Clients -> PCs]
    BY <1>1 DEF TypeOK, PCs
  <2>3. keys' \in [Clients -> SUBSET Keys]
    BY <1>1, <1>2 DEF TypeOK
  <2>4. todo' \in [Clients -> SUBSET Shards]
    BY <1>1, <1>2, SMTT(30) DEF TypeOK
  <2>5. UNCHANGED <<held, want, mode, w, readers, parked>>
    BY DEF Dispatch, DispatchExempt
  <2> QED
    BY <2>1, <2>2, <2>3, <2>4, <2>5 DEF TypeOK
<1>4. LockInv(c)'
  <2>1. /\ pc[c] = "idle"
        /\ held[c] = {}
        /\ todo[c] = {}
        /\ want[c] = None
        /\ UNCHANGED <<held, want, mode, w, readers, parked>>
    BY DEF LockInv, Dispatch, DispatchExempt
  <2>2. pc'[c] \in {"lock", "run"} /\ keys'[c] = ks
    BY <1>1 DEF TypeOK
  <2>3. pc'[c] = "lock" => todo'[c] = shardSet(ks)
    BY <1>1 DEF TypeOK
  <2>4. pc'[c] = "run" => todo'[c] = {} /\ ~Locked(c)'
    BY <1>1, <2>1 DEF TypeOK, Locked
  <2> QED
    BY <1>2, <2>1, <2>2, <2>3, <2>4 DEF LockInv
<1>5. \A d \in Clients \ {c} : Same(d)
  BY SMTT(30) DEF TypeOK, Dispatch, DispatchExempt, Same
<1>6. \A d \in Clients \ {c} : LockInv(d)'
  BY <1>5, LocalFrame DEF Dispatch, DispatchExempt
<1> QED
  BY <1>3, <1>4, <1>6 DEF Inv

\* lockAll's next shard, a body's aggMu call, and the end of the body.
LEMMA ChooseInv ==
  ASSUME Inv, NEW c \in Clients, LockShard(c) \/ AggLock(c) \/ Finish(c)
  PROVE  Inv'
<1> TypeOK /\ LockInv(c)
  BY DEF Inv
<1>1. TypeOK'
  <2>1. CASE LockShard(c)
    BY <2>1, SMTT(30) DEF TypeOK, LockShard, PCs, Mutexes
  <2>2. CASE AggLock(c)
    BY <2>2, HashAssumption, SMTT(30) DEF TypeOK, AggLock, PCs, Mutexes, aggTable
  <2>3. CASE Finish(c)
    BY <2>3 DEF TypeOK, Finish, PCs
  <2> QED
    BY <2>1, <2>2, <2>3
<1>2. LockInv(c)'
  <2>1. CASE LockShard(c)
    <3>1. /\ pc[c] = "lock"
          /\ pc'[c] = "call"
          /\ mode'[c] = write[c]
          /\ UNCHANGED <<keys, write, todo, held, w, readers>>
      BY <2>1 DEF LockShard, TypeOK
    <3>2. /\ want'[c] \in Mutexes
          /\ want'[c][1] = "key"
          /\ want'[c][2] \in todo[c]
          /\ \A j \in todo[c] : j <= want'[c][2]
      BY <2>1, SMTT(30) DEF LockShard, IsNext, TypeOK, Mutexes
    <3>3. Locked(c)' <=> Locked(c)
      BY <3>1 DEF Locked, Body
    <3> QED
      BY <3>1, <3>2, <3>3, NoneAssumption DEF LockInv, IsNext
  <2>2. CASE AggLock(c)
    <3>1. /\ pc[c] = "run"
          /\ pc'[c] = "aggcall"
          /\ UNCHANGED <<keys, write, todo, held, w, readers>>
      BY <2>2 DEF AggLock, TypeOK
    <3>2. want'[c] \in Mutexes /\ want'[c][1] = "agg"
      BY <2>2, HashAssumption, SMTT(30) DEF AggLock, TypeOK, Mutexes, aggTable
    <3>3. Locked(c)' <=> Locked(c)
      BY <3>1 DEF Locked, Body
    <3> QED
      BY <3>1, <3>2, <3>3, NoneAssumption DEF LockInv
  <2>3. CASE Finish(c)
    <3>1. /\ pc[c] = "run"
          /\ pc'[c] = IF held[c] = {} THEN "idle" ELSE "unlock"
          /\ keys'[c] = IF held[c] = {} THEN {} ELSE keys[c]
          /\ write'[c] => write[c]
          /\ UNCHANGED <<todo, held, want, mode, w, readers>>
      BY <2>3 DEF Finish, TypeOK
    <3>2. ~Locked(c)'
      BY <3>1 DEF Locked, Body
    <3> QED
      BY <3>1, <3>2 DEF LockInv, IsNext
  <2> QED
    BY <2>1, <2>2, <2>3
<1>3. \A d \in Clients \ {c} : Same(d)
  BY SMTT(30) DEF TypeOK, LockShard, AggLock, Finish, Same
<1>4. \A d \in Clients \ {c} : LockInv(d)'
  BY <1>3, LocalFrame DEF LockShard, AggLock, Finish
<1> QED
  BY <1>1, <1>2, <1>4 DEF Inv

\* A client inside Lock() or RLock() is after a mutex it does not hold, and one
\* that comes after all those it holds.
LEMMA WantedIsNext ==
  ASSUME Inv, NEW c \in Clients, pc[c] \in {"call", "wait", "aggcall", "aggwait"}
  PROVE  /\ want[c] \in Mutexes
         /\ want[c] \notin held[c]
         /\ \A m \in held[c] : Before(m, want[c])
<1> TypeOK /\ LockInv(c)
  BY DEF Inv
<1>1. want[c] \in Mutexes
  BY SMTT(30) DEF TypeOK, LockInv
<1>2. held[c] \subseteq Mutexes /\ \A m \in Mutexes : m[2] \in Nat
  BY ShardsAssumption DEF TypeOK, Mutexes
<1>3. CASE pc[c] \in {"call", "wait"}
  <2>1. want[c][1] = "key" /\ want[c][2] \in todo[c]
    BY <1>3 DEF LockInv, IsNext
  <2>2. \A m \in held[c] : m[1] = "key" /\ m[2] > want[c][2]
    BY <1>3, <2>1 DEF LockInv
  <2>3. want[c] \notin held[c]
    BY <1>1, <1>2, <2>2, SMTT(30)
  <2>4. \A m \in held[c] : Before(m, want[c])
    BY <2>1, <2>2 DEF Before
  <2> QED
    BY <1>1, <2>3, <2>4
<1>4. CASE pc[c] \in {"aggcall", "aggwait"}
  <2>1. want[c][1] = "agg" /\ \A m \in held[c] : m[1] = "key"
    BY <1>4 DEF LockInv
  <2> QED
    BY <1>1, <2>1 DEF Before
<1> QED
  BY <1>3, <1>4

\* Entering Lock() or RLock().
LEMMA CallInv ==
  ASSUME Inv, NEW c \in Clients, Call(c)
  PROVE  Inv'
<1> TypeOK /\ LockInv(c)
  BY DEF Inv
<1>1. /\ pc[c] \in {"call", "aggcall"}
      /\ Enqueue(c, want[c], mode[c])
      /\ pc' = [pc EXCEPT ![c] = IF pc[c] = "call" THEN "wait" ELSE "aggwait"]
      /\ UNCHANGED <<keys, write, todo, held, want, mode>>
  BY DEF Call
<1>2. want[c] \in Mutexes /\ want[c] \notin held[c] /\ mode[c] \in BOOLEAN
  BY <1>1, WantedIsNext DEF TypeOK
<1>3. TypeOK'
  <2>1. /\ w' \in [Mutexes -> Clients \cup {None}]
        /\ readers' \in [Mutexes -> SUBSET Clients]
        /\ parked' \in [Mutexes -> SUBSET Clients]
    BY <1>1, <1>2, SMTT(30) DEF TypeOK, Enqueue
  <2>2. pc' \in [Clients -> PCs]
    BY <1>1 DEF TypeOK, PCs
  <2> QED
    BY <1>1, <2>1, <2>2 DEF TypeOK
<1>4. \A d \in Clients \ {c} : LockInv(d)'
  <2> SUFFICES ASSUME NEW d \in Clients \ {c}
               PROVE  LockInv(d)'
    OBVIOUS
  <2>1. Same(d)
    BY <1>1 DEF TypeOK, Same
  <2>2. Undisturbed(d)
    BY <1>1, <1>2, EnqueueFrame DEF Inv
  <2> QED
    BY <2>1, <2>2, Frame DEF Inv
<1>5. LockInv(c)'
  <2>1. pc'[c] = IF pc[c] = "call" THEN "wait" ELSE "aggwait"
    BY <1>1 DEF TypeOK
  <2>2. /\ w \in [Mutexes -> Clients \cup {None}]
        /\ readers \in [Mutexes -> SUBSET Clients]
        /\ held[c] \subseteq Mutexes
    BY DEF TypeOK
  <2>3. \A n \in held[c] : w'[n] = w[n] /\ readers'[n] = readers[n]
    BY <1>1, <1>2, <2>2 DEF Enqueue
  <2>4. mode[c] => w'[want[c]] = c
    BY <1>1, <1>2, <2>2 DEF Enqueue
  <2>5. \A n \in Mutexes : w'[n] = c => n \in held[c] \/ (n = want[c] /\ mode[c])
    <3>1. \A n \in Mutexes : w[n] = c => n \in held[c]
      BY <1>1 DEF LockInv
    <3>2. \A n \in Mutexes : w'[n] # w[n] => n = want[c] /\ mode[c]
      BY <1>1, <1>2, <2>2 DEF Enqueue
    <3> QED
      BY <3>1, <3>2
  <2>6. Locked(c)' <=> Locked(c)
    BY <1>1, <2>1, SMTT(30) DEF Locked, Body
  <2>7. \A n \in held'[c] : /\ w'[n] = c \/ c \in readers'[n]
                            /\ w'[n] = c => readers'[n] = {}
                            /\ n[1] = "key" /\ write'[c] => w'[n] = c
                            /\ n[1] = "key"
                            /\ \A j \in todo'[c] : n[2] > j
    <3>1. \A n \in held[c] : /\ w[n] = c \/ c \in readers[n]
                             /\ w[n] = c => readers[n] = {}
                             /\ n[1] = "key" /\ write[c] => w[n] = c
                             /\ \A j \in todo[c] : n[2] > j
      BY DEF LockInv
    <3>2. \A n \in held[c] : n[1] = "key"
      BY <1>1 DEF LockInv
    <3> QED
      BY <1>1, <2>3, <3>1, <3>2
  <2>8. /\ want'[c] # None
        /\ pc'[c] \in {"wait", "aggwait"}
        /\ pc'[c] = "wait" => want'[c][1] = "key" /\ IsNext(want'[c][2], todo'[c]) /\ mode'[c] = write'[c]
        /\ pc'[c] = "aggwait" => want'[c][1] = "agg" /\ todo'[c] = {}
        /\ keys'[c] # {}
    <3>1. /\ want[c] # None
          /\ pc[c] = "call" => want[c][1] = "key" /\ IsNext(want[c][2], todo[c]) /\ mode[c] = write[c]
          /\ pc[c] = "aggcall" => want[c][1] = "agg" /\ todo[c] = {}
          /\ keys[c] # {}
      BY <1>1 DEF LockInv
    <3>2. IsNext(want'[c][2], todo'[c]) <=> IsNext(want[c][2], todo[c])
      BY <1>1 DEF IsNext
    <3> QED
      BY <1>1, <2>1, <3>1, <3>2, SMTT(30)
  <2>9. Locked(c)' => \A k \in keys'[c] :
          shardIndex[k] \in todo'[c] \/ <<"key", shardIndex[k]>> \in held'[c]
    BY <1>1, <2>6 DEF LockInv
  <2> QED
    BY <1>1, <2>4, <2>5, <2>7, <2>8, <2>9 DEF LockInv, IsNext
<1> QED
  BY <1>3, <1>4, <1>5 DEF Inv

\* Returning from Lock() or RLock(): a writer is let in once the readers before
\* it have left, a reader once it is among the readers.
LEMMA ReturnInv ==
  ASSUME Inv, NEW c \in Clients, ShardLocked(c) \/ AggLocked(c)
  PROVE  Inv'
<1> TypeOK /\ LockInv(c)
  BY DEF Inv
<1> DEFINE m == want[c]
<1>1. /\ pc[c] \in {"wait", "aggwait"}
      /\ Granted(c)
      /\ held' = [held EXCEPT ![c] = @ \cup {m}]
      /\ want' = [want EXCEPT ![c] = None]
      /\ mode' = [mode EXCEPT ![c] = FALSE]
      /\ UNCHANGED <<keys, write, w, readers, parked>>
  BY DEF ShardLocked, AggLocked, Return
<1>2. m \in Mutexes /\ m \notin held[c] /\ mode[c] \in BOOLEAN
  BY <1>1, WantedIsNext DEF TypeOK
<1>3. TypeOK'
  BY <1>1, <1>2, SMTT(30) DEF TypeOK, ShardLocked, AggLocked, PCs
<1>4. \A d \in Clients \ {c} : Same(d)
  BY <1>1, SMTT(30) DEF TypeOK, ShardLocked, AggLocked, Same
<1>5. \A d \in Clients \ {c} : LockInv(d)'
  BY <1>1, <1>4, LocalFrame
<1>6. held'[c] = held[c] \cup {m} /\ want'[c] = None /\ mode'[c] = FALSE
  BY <1>1 DEF TypeOK
<1>7. /\ w[m] = c \/ c \in readers[m]
      /\ w[m] = c => readers[m] = {}
      /\ mode[c] => w[m] = c
  BY <1>1, <1>2 DEF LockInv, Granted
<1>8. CASE ShardLocked(c)
  <2>1. /\ pc[c] = "wait"
        /\ todo'[c] = todo[c] \ {m[2]}
        /\ pc'[c] = IF todo[c] = {m[2]} THEN "run" ELSE "lock"
    BY <1>8 DEF ShardLocked, TypeOK
  <2>2. m[1] = "key" /\ IsNext(m[2], todo[c]) /\ mode[c] = write[c] /\ m = <<"key", m[2]>>
    BY <1>2, <2>1, SMTT(30) DEF LockInv, Mutexes
  <2>3. \A j \in todo'[c] : m[2] > j
    <3>1. todo[c] \subseteq Nat
      BY ShardsAssumption DEF TypeOK
    <3> HIDE DEF m
    <3> QED
      BY <2>1, <2>2, <3>1, SMTT(30) DEF IsNext
  <2>4. \A k \in keys[c] : shardIndex[k] \in todo'[c] \/ <<"key", shardIndex[k]>> \in held'[c]
    BY <1>6, <2>1, <2>2 DEF LockInv, Locked
  <2>5. \A n \in held'[c] : /\ w[n] = c \/ c \in readers[n]
                            /\ w[n] = c => readers[n] = {}
                            /\ n[1] = "key" /\ write[c] => w[n] = c
                            /\ \A j \in todo'[c] : n[2] > j
                            /\ n[1] = "key"
    BY <1>6, <1>7, <2>1, <2>2, <2>3 DEF LockInv
  <2>6. \A n \in Mutexes : w[n] = c => n \in held'[c]
    BY <1>6 DEF LockInv
  <2>7. pc'[c] \in {"run", "lock"} /\ keys'[c] # {} /\ (pc'[c] = "run" => todo'[c] = {})
    BY <1>1, <2>1 DEF LockInv
  <2>8. LockInv(c)'
    BY <1>1, <1>6, <2>4, <2>5, <2>6, <2>7 DEF LockInv, IsNext
  <2> QED
    BY <1>3, <1>5, <2>8 DEF Inv
<1>9. CASE AggLocked(c)
  <2>1. /\ pc[c] = "aggwait"
        /\ pc'[c] = "agg"
        /\ todo' = todo
    BY <1>9 DEF AggLocked, TypeOK
  <2>2. m[1] = "agg" /\ todo[c] = {}
    BY <2>1 DEF LockInv
  <2>3. \A i \in Shards : <<"key", i>> \in held'[c] <=> <<"key", i>> \in held[c]
    BY <1>6, <2>2, SMTT(30)
  <2>4. Locked(c)' <=> Locked(c)
    BY <2>1, <2>3 DEF Locked, Body
  <2>5. \A n \in held'[c] : /\ w[n] = c \/ c \in readers[n]
                            /\ w[n] = c => readers[n] = {}
                            /\ n[1] = "key" /\ write[c] => w[n] = c
                            /\ n[1] = "agg" => n = m
    BY <1>6, <1>7, <2>1, <2>2 DEF LockInv
  <2>6. \A n \in Mutexes : w[n] = c => n \in held'[c]
    BY <1>6 DEF LockInv
  <2>7. \A k \in keys[c] : Locked(c) =>
          shardIndex[k] \in todo[c] \/ <<"key", shardIndex[k]>> \in held'[c]
    BY <1>6 DEF LockInv
  <2>8. LockInv(c)'
    <3>1. keys'[c] # {}
      BY <1>1, <2>1 DEF LockInv
    <3> QED
      BY <1>1, <1>6, <2>1, <2>2, <2>4, <2>5, <2>6, <2>7, <3>1 DEF LockInv, IsNext
  <2> QED
    BY <1>3, <1>5, <2>8 DEF Inv
<1> QED
  BY <1>8, <1>9

\* Unlock() and RUnlock(), by the closure of lockAll or inside the body.
LEMMA ReleaseInv ==
  ASSUME Inv, NEW c \in Clients, UnlockShard(c) \/ AggUnlock(c)
  PROVE  Inv'
<1> TypeOK /\ LockInv(c)
  BY DEF Inv
<1>1. PICK m \in held[c] : /\ Release(c, m)
                           /\ UnlockShard(c) => pc'[c] = IF held[c] = {m} THEN "idle" ELSE "unlock"
                           /\ UnlockShard(c) => keys'[c] = IF held[c] = {m} THEN {} ELSE keys[c]
                           /\ UnlockShard(c) => write'[c] = (held[c] # {m} /\ write[c])
                           /\ AggUnlock(c) => m[1] = "agg"
  BY DEF UnlockShard, AggUnlock, IsLast, TypeOK, aggTable
<1>2. /\ pc[c] \in {"unlock", "agg"}
      /\ want[c] = None
      /\ todo[c] = {}
      /\ m \in Mutexes
      /\ UNCHANGED <<todo, want, mode>>
      /\ held' = [held EXCEPT ![c] = @ \ {m}]
  BY <1>1 DEF UnlockShard, AggUnlock, Release, TypeOK, LockInv
<1>3. TypeOK'
  <2>1. w' \in [Mutexes -> Clients \cup {None}] /\ readers' \in [Mutexes -> SUBSET Clients]
        /\ parked' \in [Mutexes -> SUBSET Clients]
    <3>1. \/ /\ w' = [w EXCEPT ![m] = None]
             /\ readers' = [readers EXCEPT ![m] = parked[m]]
             /\ parked' = [parked EXCEPT ![m] = {}]
          \/ /\ readers' = [readers EXCEPT ![m] = @ \ {c}]
             /\ UNCHANGED <<w, parked>>
      BY <1>1 DEF Release
    <3> QED
      BY <1>2, <3>1, SMTT(30) DEF TypeOK
  <2>2. pc' \in [Clients -> PCs] /\ keys' \in [Clients -> SUBSET Keys] /\ write' \in [Clients -> BOOLEAN]
    <3>1. CASE UnlockShard(c)
      <4>1. PICK n \in Mutexes :
              /\ pc' = [pc EXCEPT ![c] = IF held[c] = {n} THEN "idle" ELSE "unlock"]
              /\ keys' = [keys EXCEPT ![c] = IF held[c] = {n} THEN {} ELSE @]
              /\ write' = [write EXCEPT ![c] = held[c] # {n} /\ @]
        BY <3>1 DEF UnlockShard
      <4> QED
        BY <4>1 DEF TypeOK, PCs
    <3>2. CASE AggUnlock(c)
      BY <3>2 DEF AggUnlock, TypeOK, PCs
    <3> QED
      BY <3>1, <3>2
  <2> QED
    BY <1>2, <2>1, <2>2 DEF TypeOK
<1>4. \A d \in Clients \ {c} : LockInv(d)'
  <2> SUFFICES ASSUME NEW d \in Clients \ {c}
               PROVE  LockInv(d)'
    OBVIOUS
  <2>1. Same(d)
    BY <1>2, SMTT(30) DEF UnlockShard, AggUnlock, TypeOK, Same
  <2>2. Undisturbed(d)
    BY <1>1, ReleaseFrame DEF Inv
  <2> QED
    BY <2>1, <2>2, Frame DEF Inv
<1>5. held'[c] = held[c] \ {m}
  BY <1>2 DEF TypeOK
<1>6. /\ \A n \in held'[c] : w'[n] = w[n] /\ readers'[n] = readers[n]
      /\ \A n \in Mutexes : w'[n] = c => n \in held'[c]
  <2>1. /\ w \in [Mutexes -> Clients \cup {None}]
        /\ readers \in [Mutexes -> SUBSET Clients]
        /\ held[c] \subseteq Mutexes
        /\ c # None
    BY NoneAssumption DEF TypeOK
  <2>2. \A n \in Mutexes : w[n] = c => n \in held[c]
    BY <1>2 DEF LockInv
  <2>3. \A n \in Mutexes \ {m} : w'[n] = w[n] /\ readers'[n] = readers[n]
    BY <1>1, <2>1 DEF Release
  <2>4. w'[m] # c
    BY <1>1, <1>2, <2>1 DEF Release
  <2> QED
    BY <1>5, <2>1, <2>2, <2>3, <2>4
<1>7. \A n \in held'[c] : /\ w'[n] = c \/ c \in readers'[n]
                          /\ w'[n] = c => readers'[n] = {}
                          /\ n[1] = "key" /\ write[c] => w'[n] = c
  <2>1. \A n \in held[c] : /\ w[n] = c \/ c \in readers[n]
                           /\ w[n] = c => readers[n] = {}
                           /\ n[1] = "key" /\ write[c] => w[n] = c
    BY DEF LockInv
  <2> QED
    BY <1>5, <1>6, <2>1
<1>8. CASE UnlockShard(c)
  <2>1. pc[c] = "unlock" /\ \A n \in held[c] : n[1] = "key"
    BY <1>8 DEF UnlockShard, LockInv
  <2>2. pc'[c] \in {"idle", "unlock"} /\ (pc'[c] = "idle" => held'[c] = {})
    BY <1>1, <1>5, <1>8
  <2>3. pc'[c] # "idle" => keys'[c] # {}
    BY <1>1, <1>8, <2>1 DEF LockInv
  <2>4. write'[c] => write[c]
    BY <1>1, <1>8
  <2>5. \A n \in held'[c] : /\ w'[n] = c \/ c \in readers'[n]
                            /\ w'[n] = c => readers'[n] = {}
                            /\ n[1] = "key" /\ write'[c] => w'[n] = c
                            /\ n[1] = "key"
    BY <1>5, <1>7, <2>1, <2>4
  <2>6. ~Locked(c)'
    BY <2>2 DEF Locked, Body
  <2>7. LockInv(c)'
    BY <1>2, <1>6, <2>2, <2>3, <2>5, <2>6 DEF LockInv, IsNext
  <2> QED
    BY <1>3, <1>4, <2>7 DEF Inv
<1>9. CASE AggUnlock(c)
  <2>1. pc[c] = "agg" /\ pc'[c] = "run" /\ UNCHANGED <<keys, write>> /\ m[1] = "agg"
    BY <1>1, <1>9 DEF AggUnlock, TypeOK
  <2>2. \A i \in Shards : <<"key", i>> \in held'[c] <=> <<"key", i>> \in held[c]
    <3>1. \A i \in Shards : <<"key", i>> # m
      BY <2>1, SMTT(30)
    <3> QED
      BY <1>5, <3>1
  <2>3. Locked(c)' <=> Locked(c)
    BY <2>1, <2>2 DEF Locked, Body
  <2>4. Locked(c) => \A k \in keys[c] : <<"key", shardIndex[k]>> \in held'[c]
    <3>1. Locked(c) => \A k \in keys[c] : <<"key", shardIndex[k]>> \in held[c]
      BY <1>2 DEF LockInv
    <3>2. \A k \in keys[c] : <<"key", shardIndex[k]>> # m
      BY <2>1, SMTT(30)
    <3> QED
      BY <1>5, <3>1, <3>2
  <2>5. \A n \in held'[c] : n[1] = "key"
    <3>1. \A n \in held[c] : n[1] = "agg" => n = m
      BY <2>1 DEF LockInv
    <3>2. \A n \in held[c] : n[1] \in {"key", "agg"}
      BY SMTT(30) DEF TypeOK, Mutexes
    <3> QED
      BY <1>5, <3>1, <3>2
  <2>6. \A n \in held'[c] : /\ w'[n] = c \/ c \in readers'[n]
                            /\ w'[n] = c => readers'[n] = {}
                            /\ n[1] = "key" /\ write'[c] => w'[n] = c
    BY <1>7, <2>1
  <2>7. keys'[c] # {}
    BY <2>1 DEF LockInv
  <2>8. LockInv(c)'
    BY <1>2, <1>6, <2>1, <2>3, <2>4, <2>5, <2>6, <2>7 DEF LockInv, IsNext
  <2> QED
    BY <1>3, <1>4, <2>8 DEF Inv
<1> QED
  BY <1>8, <1>9

-----------------------------------------------------------------------------
(* The theorems *)

\* Inv is inductive: it holds of every reachable state, whatever the number of
\* clients, keys and shards and whatever keys the hash makes collide.
THEOREM InvHolds == Spec => []Inv
<1>1. Init => Inv
  BY InitInv
<1>2. Inv /\ [Next]_vars => Inv'
  <2> SUFFICES ASSUME Inv, [Next]_vars
               PROVE  Inv'
    OBVIOUS
  <2>1. CASE Next
    <3>1. PICK c \in Clients : Dispatch(c) \/ DispatchExempt(c) \/ Step(c)
      BY <2>1 DEF Next
    <3> QED
      BY <3>1, DispatchInv, ChooseInv, CallInv, ReturnInv, ReleaseInv DEF Step
  <2>2. CASE UNCHANGED vars
    <3>1. \A c \in Clients : Same(c) /\ Undisturbed(c)
      BY <2>2 DEF vars, Same, Undisturbed
    <3>2. TypeOK'
      BY <2>2 DEF vars, Inv, TypeOK
    <3> QED
      BY <3>1, <3>2, Frame DEF Inv
  <2> QED
    BY <2>1, <2>2
<1> QED
  BY <1>1, <1>2, PTL DEF Spec

\* Every variable keeps its type; lockAll never indexes outside the table.
THEOREM TypeCorrect == Spec => []TypeOK
<1>1. Inv => TypeOK
  BY DEF Inv
<1> QED
  BY <1>1, InvHolds, PTL

\* Two commands that both hold key locks on a shared key are both readers: the
\* writer that is in has the shard to itself.
LEMMA InvExcludes == Inv => MutualExclusion
<1> SUFFICES ASSUME Inv, NEW c \in Clients, NEW d \in Clients, c # d,
                    NEW k \in ClaimOf(c).keys \cap ClaimOf(d).keys,
                    ClaimOf(c).write
             PROVE  FALSE
  BY DEF MutualExclusion, Promise!Compatible
<1> LockInv(c) /\ LockInv(d)
  BY DEF Inv
<1>1. /\ ClaimOf(c) = [keys |-> keys[c], write |-> write[c]]
      /\ pc[c] \in Body
      /\ Locked(c)
  BY DEF ClaimOf, Locked
<1>2. /\ ClaimOf(d) = [keys |-> keys[d], write |-> write[d]]
      /\ pc[d] \in Body
      /\ Locked(d)
  BY DEF ClaimOf, Locked
<1>3. k \in keys[c] /\ write[c]
  BY <1>1, SMTT(30)
<1>4. k \in keys[d]
  BY <1>2, SMTT(30)
<1> DEFINE m == <<"key", shardIndex[k]>>
<1>5. m \in held[c]
  <2>1. todo[c] = {}
    BY <1>1 DEF LockInv, Body
  <2>2. \A l \in keys[c] : shardIndex[l] \in todo[c] \/ <<"key", shardIndex[l]>> \in held[c]
    BY <1>1 DEF LockInv
  <2> QED
    BY <1>3, <2>1, <2>2
<1>6. m \in held[d]
  <2>1. todo[d] = {}
    BY <1>2 DEF LockInv, Body
  <2>2. \A l \in keys[d] : shardIndex[l] \in todo[d] \/ <<"key", shardIndex[l]>> \in held[d]
    BY <1>2 DEF LockInv
  <2> QED
    BY <1>4, <2>1, <2>2
<1>7. w[m] = c
  <2>1. m[1] = "key"
    OBVIOUS
  <2> HIDE DEF m
  <2> QED
    BY <1>5, <1>3, <2>1 DEF LockInv
<1>8. readers[m] = {}
  <2> HIDE DEF m
  <2> QED
    BY <1>5, <1>7 DEF LockInv
<1>9. w[m] = d \/ d \in readers[m]
  <2> HIDE DEF m
  <2> QED
    BY <1>6 DEF LockInv
<1> QED
  BY <1>7, <1>8, <1>9

\* Conflicting commands never run their bodies at the same time.
THEOREM ExclusionHolds == Spec => []MutualExclusion
  BY InvHolds, InvExcludes, PTL

\* Mutexes are acquired in one global order, so no cycle of waiting commands can
\* form and no command waits for a mutex it holds.
THEOREM OrderHolds == Spec => []OrderedWaits
<1>1. Inv => OrderedWaits
  BY WantedIsNext DEF OrderedWaits, Inv, LockInv
<1> QED
  BY <1>1, InvHolds, PTL

-----------------------------------------------------------------------------
(* The refinement of KeyLockSpec *)

\* A step of c changes no other client's claim.
LEMMA OthersClaims ==
  ASSUME NEW c \in Clients, \A d \in Clients \ {c} : Same(d)
  PROVE  claims' = [claims EXCEPT ![c] = ClaimOf(c)']
<1>1. \A d \in Clients \ {c} : ClaimOf(d)' = ClaimOf(d)
  BY DEF Same, ClaimOf
<1> QED
  BY <1>1 DEF claims

\* Each step of the locks is a step of the promise or leaves the claims alone:
\* the return from lockAll's last Lock() is Enter, the end of the body is Leave.
LEMMA StepRefines ==
  ASSUME Inv, Inv', NEW c \in Clients, Dispatch(c) \/ DispatchExempt(c) \/ Step(c)
  PROVE  Promise!Next \/ UNCHANGED claims
<1> TypeOK /\ LockInv(c)
  BY DEF Inv
<1>1. \A d \in Clients \ {c} : Same(d)
  <2>1. CASE Dispatch(c) \/ DispatchExempt(c)
    <3>1. CASE Dispatch(c)
      BY <3>1, SMTT(30) DEF Dispatch, Same, TypeOK
    <3>2. CASE DispatchExempt(c)
      BY <3>2 DEF DispatchExempt, Same, TypeOK
    <3> QED
      BY <2>1, <3>1, <3>2
  <2>2. CASE LockShard(c) \/ Call(c) \/ Finish(c) \/ AggLock(c)
    <3>1. CASE LockShard(c)
      BY <3>1 DEF LockShard, Same, TypeOK
    <3>2. CASE Call(c)
      BY <3>2 DEF Call, Same, TypeOK
    <3>3. CASE Finish(c)
      BY <3>3 DEF Finish, Same, TypeOK
    <3>4. CASE AggLock(c)
      BY <3>4, SMTT(30) DEF AggLock, Same, TypeOK
    <3> QED
      BY <2>2, <3>1, <3>2, <3>3, <3>4
  <2>3. CASE ShardLocked(c) \/ AggLocked(c)
    <3>1. CASE ShardLocked(c)
      BY <3>1 DEF ShardLocked, Return, Same, TypeOK
    <3>2. CASE AggLocked(c)
      BY <3>2 DEF AggLocked, Return, Same, TypeOK
    <3> QED
      BY <2>3, <3>1, <3>2
  <2>4. CASE UnlockShard(c) \/ AggUnlock(c)
    <3>1. CASE UnlockShard(c)
      BY <3>1, SMTT(30) DEF UnlockShard, Release, Same, TypeOK
    <3>2. CASE AggUnlock(c)
      BY <3>2 DEF AggUnlock, Release, Same, TypeOK
    <3> QED
      BY <2>4, <3>1, <3>2
  <2> QED
    BY <2>1, <2>2, <2>3, <2>4 DEF Step
<1>2. claims' = [claims EXCEPT ![c] = ClaimOf(c)']
  BY <1>1, OthersClaims
<1>3. claims[c] = ClaimOf(c) /\ claims \in [Clients -> {ClaimOf(d) : d \in Clients}]
  BY DEF claims
<1>4. ASSUME ClaimOf(c)' = ClaimOf(c)
      PROVE  UNCHANGED claims
  BY <1>2, <1>4 DEF claims
<1>5. CASE Dispatch(c) \/ DispatchExempt(c)
  <2>1. pc[c] = "idle" /\ held[c] = {} /\ held'[c] = {}
    BY <1>5 DEF Dispatch, DispatchExempt, LockInv
  <2>2. ClaimOf(c)' = ClaimOf(c)
    BY <2>1 DEF ClaimOf, Body
  <2> QED
    BY <1>4, <2>2
<1>6. CASE LockShard(c) \/ UnlockShard(c)
  <2>1. pc[c] \notin Body /\ pc'[c] \notin Body
    BY <1>6 DEF LockShard, UnlockShard, TypeOK, Body
  <2>2. ClaimOf(c)' = ClaimOf(c)
    BY <2>1 DEF ClaimOf
  <2> QED
    BY <1>4, <2>2
<1>7. CASE Call(c) \/ AggLock(c)
  <2>1. (pc[c] \in Body <=> pc'[c] \in Body) /\ UNCHANGED <<held, keys, write>>
    BY <1>7 DEF Call, AggLock, TypeOK, Body
  <2>2. ClaimOf(c)' = ClaimOf(c)
    BY <2>1 DEF ClaimOf
  <2> QED
    BY <1>4, <2>2
<1>8. CASE AggLocked(c) \/ AggUnlock(c)
  <2>1. pc[c] \in Body /\ pc'[c] \in Body /\ UNCHANGED <<keys, write>>
    BY <1>8 DEF AggLocked, AggUnlock, TypeOK, Body
  <2>2. \A i \in Shards : <<"key", i>> \in held'[c] <=> <<"key", i>> \in held[c]
    <3>1. CASE AggLocked(c)
      <4>1. want[c][1] = "agg"
        BY <3>1 DEF AggLocked, LockInv
      <4>2. held'[c] = held[c] \cup {want[c]}
        BY <3>1 DEF AggLocked, Return, TypeOK
      <4> QED
        BY <4>1, <4>2, SMTT(30)
    <3>2. CASE AggUnlock(c)
      <4>1. held \in [Clients -> SUBSET Mutexes]
        BY DEF TypeOK
      <4>2. PICK m \in held[c] : m[1] = "agg" /\ held' = [held EXCEPT ![c] = @ \ {m}]
        BY <3>2 DEF AggUnlock, Release, aggTable
      <4>3. held'[c] = held[c] \ {m}
        BY <4>1, <4>2
      <4>4. \A i \in Shards : <<"key", i>> # m
        BY <4>2, SMTT(30)
      <4> QED
        BY <4>3, <4>4
    <3> QED
      BY <1>8, <3>1, <3>2
  <2>3. ClaimOf(c)' = ClaimOf(c)
    BY <2>1, <2>2 DEF ClaimOf
  <2> QED
    BY <1>4, <2>3
<1>9. CASE ShardLocked(c)
  <2>1. pc[c] = "wait" /\ pc'[c] \in {"run", "lock"} /\ UNCHANGED <<keys, write>>
    BY <1>9 DEF ShardLocked, TypeOK
  <2>2. claims[c] = Promise!NoClaim
    BY <1>3, <2>1 DEF ClaimOf, Body, Promise!NoClaim
  <2>3. CASE ClaimOf(c)' = Promise!NoClaim
    BY <1>3, <1>4, <2>2, <2>3
  <2>4. CASE ClaimOf(c)' # Promise!NoClaim
    <3> DEFINE q == ClaimOf(c)'
    <3>1. q \in Promise!Claims \ {Promise!NoClaim}
      BY <2>4 DEF ClaimOf, Inv, TypeOK, Promise!Claims, Promise!NoClaim
    <3>2. \A d \in Clients \ {c} : Promise!Compatible(q, claims[d])
      <4>1. \A d \in Clients \ {c} : claims[d] = ClaimOf(d)'
        BY <1>1 DEF claims, Same, ClaimOf
      <4>2. MutualExclusion'
        BY InvExcludes, PTL
      <4> QED
        BY <4>1, <4>2 DEF MutualExclusion, Promise!Compatible
    <3>3. Promise!Enter(c, q)
      BY <1>2, <2>2, <3>2 DEF Promise!Enter, Promise!MayEnter
    <3> QED
      BY <3>1, <3>3 DEF Promise!Next
  <2> QED
    BY <2>3, <2>4
<1>10. CASE Finish(c)
  <2>1. pc'[c] \notin Body /\ pc[c] = "run"
    BY <1>10 DEF Finish, Body, TypeOK
  <2>2. ClaimOf(c)' = Promise!NoClaim
    BY <2>1 DEF ClaimOf, Promise!NoClaim
  <2>3. CASE ClaimOf(c) = Promise!NoClaim
    BY <1>4, <2>2, <2>3
  <2>4. CASE ClaimOf(c) # Promise!NoClaim
    <3>1. Promise!Leave(c)
      BY <1>2, <1>3, <2>2, <2>4 DEF Promise!Leave
    <3> QED
      BY <3>1 DEF Promise!Next
  <2> QED
    BY <2>3, <2>4
<1> QED
  BY <1>5, <1>6, <1>7, <1>8, <1>9, <1>10 DEF Step

\* keyLockTable keeps KeyLockSpec's promise: seen from the command bodies, the
\* shards, their RWMutexes and the order of acquisition are one atomic claim per
\* command, granted only when compatible with every claim outstanding.
THEOREM KeepsPromise == Spec => ImplementsPromise
<1>1. Init => Promise!Init
  BY DEF Init, Promise!Init, claims, ClaimOf, Body, Promise!NoClaim
<1>2. Inv /\ Inv' /\ [Next]_vars => [Promise!Next]_claims
  <2> SUFFICES ASSUME Inv, Inv', [Next]_vars
               PROVE  [Promise!Next]_claims
    OBVIOUS
  <2>1. CASE Next
    BY <2>1, StepRefines DEF Next
  <2>2. CASE UNCHANGED vars
    BY <2>2 DEF vars, claims, ClaimOf
  <2> QED
    BY <2>1, <2>2
<1> QED
  BY <1>1, <1>2, InvHolds, PTL DEF Spec, ImplementsPromise, Promise!Spec

=============================================================================
