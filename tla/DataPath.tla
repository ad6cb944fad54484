------------------------------ MODULE DataPath ------------------------------
(***************************************************************************)
(* The string data path of data.go: a Pebble record per key, the expiry    *)
(* index kept beside it, the in-memory dict that caches both, and the      *)
(* actors that touch all three: commands, the expirer, the evictor, a      *)
(* crash.  Every Pebble call and every dict call is one step; between two  *)
(* steps of one actor any other actor may run, except where the key locks  *)
(* of dispatch (KeyLockSpec) forbid it.                                    *)
(*                                                                         *)
(* A payload is the set of fragments written into it: SET replaces it,     *)
(* APPEND adds to it, {} is the empty string.  Time is the coarse clock of *)
(* memory/clock.go, counted in ticks; deadline 0 means no TTL.             *)
(***************************************************************************)
EXTENDS Integers, FiniteSets

CONSTANTS Clients,        \* connections
          Unlocked,       \* the clients whose commands run without key locks:
                          \* inside EXEC, or through the embedded API
          Keys,
          Frags,          \* fragments payloads are made of
          InlineVals,     \* payloads the dict keeps inline (InlineValueMaxSize)
          InitRecords,    \* the records an opened store may hold
          Commands,       \* the commands clients may send
          Absent,
          MaxTime,        \* bound on the clock
          ActiveExpire,   \* Expirer.enabled
          ExpireBatch,    \* config.ExpireBatch
          EvictionMode,   \* "persist" or "cache"
          EvictTarget,    \* entries the dict may hold before eviction starts
          LoadMode,       \* "load-all" or "lazy"
          MaxCrashes      \* bound on crashes

Values == SUBSET Frags

\* SET, GET, DEL, EXPIRE, PERSIST, APPEND, RENAME (with NX: RENAMENX), and SCAN
\* for one key of KEYS/SCAN.  at is the absolute deadline of SET and EXPIRE, opts their flags.
Command == [op : {"SET", "GET", "DEL", "EXPIRE", "PERSIST", "APPEND", "RENAME", "SCAN"},
            key : Keys, dst : Keys, val : Values, at : Nat,
            opts : SUBSET {"NX", "XX", "KEEPTTL", "GT", "LT"}]

ASSUME CommandsAssumption == Commands \subseteq Command
ASSUME RecordsAssumption == InitRecords \subseteq [val : Values, exp : Nat]
ASSUME InlineAssumption == InlineVals \subseteq Values \ {{}}

Record == [val : Values, exp : Nat]
Entry == [inline : Values \cup {Absent}, exp : Nat]

ASSUME AbsentAssumption == /\ \A x \in Values \cup Keys : x # Absent
                           /\ Absent \notin Command /\ Absent \notin Record /\ Absent \notin Entry

VARIABLES disk,       \* disk[k]: the record under EncodeDataKey(db, k)
          index,      \* the expiry segment: pairs <<deadline, key>>
          dict,       \* dict[k]: the entry of memory.Dict
          now,        \* clock.NowMilli
          th,         \* th[c]: the goroutine of client c
          cycle,      \* the expirer's Cycle
          evict,      \* evict[k]: how far evictOne has come with victim k
          crashes

store == <<disk, index, dict>>
vars == <<disk, index, dict, now, th, cycle, evict, crashes>>

\* Entry.Expired, and the same test on a decoded record.
Expired(e, t) == e # Absent /\ e.exp # 0 /\ e.exp <= t

Live(r, t) == r # Absent /\ ~Expired(r, t)

expOf(r) == IF r = Absent THEN 0 ELSE r.exp

inlineOf(e) == IF e = Absent THEN Absent ELSE e.inline

valOf(r) == IF r = Absent THEN {} ELSE r.val

\* newEntry: small, non-empty payloads are kept inline.
newEntry(r) == [inline |-> IF r.val \in InlineVals THEN r.val ELSE Absent, exp |-> r.exp]

NoResult == [hit |-> FALSE, val |-> {}]

\* part says which getTyped call a client is in: the handler's own ("main"), the
\* one of deleteKey ("type"), or RENAMENX's two of the destination, cmdRenameNX's
\* before ("dst") and rename's after it ("nx").  t0 is getTyped's clock reading, rec what
\* getTyped found, new and prev the arguments of putValue or deleteKey.  since is
\* the time of the call, for the properties only.
IdleThread == [pc |-> "idle", cmd |-> Absent, part |-> "main", key |-> Absent,
               since |-> 0, t0 |-> 0, rec |-> Absent, new |-> Absent, prev |-> 0, res |-> NoResult]

NoCycle == [pc |-> "idle", due |-> {}, batch |-> {}]

\* An opened store: every record with a deadline is in the expiry index, and
\* nothing else is.  Lazy loading starts from an empty dict.
Init == /\ disk \in [Keys -> InitRecords \cup {Absent}]
        /\ index = {<<disk[k].exp, k>> : k \in {k \in Keys : expOf(disk[k]) # 0}}
        /\ dict = [k \in Keys |-> Absent]
        /\ now = 1
        /\ th = [c \in Clients |-> IdleThread]
        /\ cycle = NoCycle
        /\ evict = [k \in Keys |-> "none"]
        /\ crashes = 0

-----------------------------------------------------------------------------
(* Dispatch: Server.handle, with the key locks of KeyLockSpec. *)

Lock == INSTANCE KeyLockSpec WITH claim <- [c \in Clients |-> Absent]

keysOf(q) == IF q.op = "RENAME" THEN {q.key, q.dst} ELSE {q.key}

\* commandKeys returns nothing for KEYS and SCAN; dispatch.go marks GET a read.
claimOf(c, q) == IF c \in Unlocked \/ q.op = "SCAN"
                 THEN Lock!NoClaim
                 ELSE [keys |-> keysOf(q), write |-> q.op # "GET"]

Held == [c \in Clients |-> IF th[c].pc = "idle" THEN Lock!NoClaim ELSE claimOf(c, th[c].cmd)]

isRenameNX(q) == q.op = "RENAME" /\ "NX" \in q.opts

Invoke(c, q) ==
  /\ th[c].pc = "idle"
  /\ Lock!MayEnter(c, claimOf(c, q), Held)
  /\ th' = [th EXCEPT ![c] = [IdleThread EXCEPT !.pc = IF q.op = "SCAN" THEN "alive" ELSE "look",
                                               !.cmd = q, !.since = now, !.t0 = now,
                                               !.part = IF isRenameNX(q) THEN "dst" ELSE "main",
                                               !.key = IF isRenameNX(q) THEN q.dst ELSE q.key]]
  /\ UNCHANGED <<store, now, cycle, evict, crashes>>

\* The reply, and the deferred unlock.
Reply(c) ==
  /\ th[c].pc = "reply"
  /\ th' = [th EXCEPT ![c] = IdleThread]
  /\ UNCHANGED <<store, now, cycle, evict, crashes>>

\* A step of c that changes nothing but c's own program counter and locals.
Goto(c, l) == th' = [th EXCEPT ![c].pc = l]

Local == UNCHANGED <<store, now, cycle, evict, crashes>>

-----------------------------------------------------------------------------
(* getTyped *)

\* Dict.Lookup reads the entry under the shard lock and tests it afterwards.
Lookup(c) ==
  LET e == dict[th[c].key] IN
  /\ th[c].pc = "look"
  /\ \/ /\ Expired(e, now)
        /\ Goto(c, "drop")
     \/ /\ Live(e, now)
        /\ inlineOf(e) # Absent
        /\ th' = [th EXCEPT ![c].pc = "got", ![c].rec = [val |-> e.inline, exp |-> e.exp]]
     \/ /\ ~Expired(e, now)
        /\ inlineOf(e) = Absent
        /\ Goto(c, "read")
  /\ Local

\* Lookup's d.Delete, in a second critical section: whatever entry is there goes.
DropEntry(c) ==
  /\ th[c].pc \in {"drop", "olddrop", "alivedrop"}
  /\ dict' = [dict EXCEPT ![th[c].key] = Absent]
  /\ Goto(c, CASE th[c].pc = "drop" -> "read"
             [] th[c].pc = "olddrop" -> "oldread"
             [] OTHER -> "look")
  /\ UNCHANGED <<disk, index, now, cycle, evict, crashes>>

\* Slip: no expiry test.
ReadDiskUnchecked(c) ==
  /\ th[c].pc = "read"
  /\ th' = [th EXCEPT ![c].rec = disk[th[c].key],
                      ![c].pc = IF disk[th[c].key] = Absent THEN "got" ELSE "admit"]
  /\ Local

\* eng.Get and DecodeValue; the deadline is compared with the earlier t0.
ReadDisk(c) ==
  LET r == disk[th[c].key] IN
  /\ th[c].pc = "read"
  /\ th' = [th EXCEPT ![c].rec = r,
                      ![c].pc = IF r = Absent THEN "got"
                                ELSE IF Expired(r, th[c].t0) THEN "reap" ELSE "admit"]
  /\ Local

\* Re-admission: dict.Set of the record read before.
Admit(c) ==
  /\ th[c].pc = "admit"
  /\ dict' = [dict EXCEPT ![th[c].key] = newEntry(th[c].rec)]
  /\ Goto(c, "got")
  /\ UNCHANGED <<disk, index, now, cycle, evict, crashes>>

\* deleteExpired: the dict entry first, then record and index entry in a batch.
ReapEntry(c) ==
  /\ th[c].pc = "reap"
  /\ dict' = [dict EXCEPT ![th[c].key] = Absent]
  /\ Goto(c, "reapdisk")
  /\ UNCHANGED <<disk, index, now, cycle, evict, crashes>>

ReapDisk(c) ==
  /\ th[c].pc = "reapdisk"
  /\ disk' = [disk EXCEPT ![th[c].key] = Absent]
  /\ index' = index \ {<<th[c].rec.exp, th[c].key>>}
  /\ th' = [th EXCEPT ![c].pc = "got", ![c].rec = Absent]
  /\ UNCHANGED <<dict, now, cycle, evict, crashes>>

\* keyAlive, the filter of KEYS and SCAN: a dict hit answers, a miss goes to
\* getTyped.
KeyAlive(c) ==
  LET e == dict[th[c].key] IN
  /\ th[c].pc = "alive"
  /\ IF e = Absent THEN th' = [th EXCEPT ![c].pc = "look", ![c].t0 = now]
     ELSE IF Expired(e, now) THEN Goto(c, "alivedrop")
     ELSE th' = [th EXCEPT ![c].pc = "reply", ![c].res.hit = TRUE]
  /\ Local

-----------------------------------------------------------------------------
(* oldExpiry *)

OldLookup(c) ==
  LET e == dict[th[c].key] IN
  /\ th[c].pc = "old"
  /\ \/ /\ e = Absent
        /\ Goto(c, "oldread")
     \/ /\ Expired(e, now)
        /\ Goto(c, "olddrop")
     \/ /\ Live(e, now)
        /\ th' = [th EXCEPT ![c].prev = e.exp,
                            ![c].pc = IF th[c].part = "type" THEN "del" ELSE "apply"]
  /\ Local

OldRead(c) ==
  /\ th[c].pc = "oldread"
  /\ th' = [th EXCEPT ![c].prev = expOf(disk[th[c].key]),
                      ![c].pc = IF th[c].part = "type" THEN "del" ELSE "apply"]
  /\ Local

-----------------------------------------------------------------------------
(* putValue *)

\* Slip: the old index entry is dropped even when the deadline stays.
PutDiskDropsKept(c) ==
  LET t == th[c] IN
  /\ t.pc = "apply"
  /\ disk' = [disk EXCEPT ![t.key] = t.new]
  /\ index' = (index \ {<<t.prev, t.key>>}) \cup {<<e, t.key>> : e \in {t.new.exp} \ {0, t.prev}}
  /\ Goto(c, "cache")
  /\ UNCHANGED <<dict, now, cycle, evict, crashes>>

\* The batch: record, old index entry out, new index entry in.
PutDisk(c) ==
  LET t == th[c] IN
  /\ t.pc = "apply"
  /\ disk' = [disk EXCEPT ![t.key] = t.new]
  /\ index' = (index \ {<<e, t.key>> : e \in {t.prev} \ {0, t.new.exp}})
                \cup {<<e, t.key>> : e \in {t.new.exp} \ {0, t.prev}}
  /\ Goto(c, "cache")
  /\ UNCHANGED <<dict, now, cycle, evict, crashes>>

\* deleteKey starts with typeOf, a getTyped of its own.
BeginDelete(c, k, r) ==
  th' = [th EXCEPT ![c].pc = "look", ![c].part = "type", ![c].key = k, ![c].t0 = now,
                   ![c].rec = Absent, ![c].res = r]

\* dict.Set after the batch is durable.  RENAME goes on to delete the source.
PutDict(c) ==
  LET t == th[c] IN
  /\ t.pc = "cache"
  /\ dict' = [dict EXCEPT ![t.key] = newEntry(t.new)]
  /\ IF t.cmd.op = "RENAME" THEN BeginDelete(c, t.cmd.key, t.res) ELSE Goto(c, "reply")
  /\ UNCHANGED <<disk, index, now, cycle, evict, crashes>>

-----------------------------------------------------------------------------
(* deleteKeyLocked *)

TypeOf(c) ==
  /\ th[c].pc = "got"
  /\ th[c].part = "type"
  /\ Goto(c, IF th[c].rec = Absent THEN "reply" ELSE "old")
  /\ Local

\* Slip: the dict entry is left behind.
DeleteEntryKept(c) ==
  /\ th[c].pc = "del"
  /\ Goto(c, "deldisk")
  /\ Local

DeleteEntry(c) ==
  /\ th[c].pc = "del"
  /\ dict' = [dict EXCEPT ![th[c].key] = Absent]
  /\ Goto(c, "deldisk")
  /\ UNCHANGED <<disk, index, now, cycle, evict, crashes>>

\* Slip: the expiry index is forgotten.
DeletePersistedOnly(c) ==
  /\ th[c].pc = "deldisk"
  /\ disk' = [disk EXCEPT ![th[c].key] = Absent]
  /\ Goto(c, "reply")
  /\ UNCHANGED <<index, dict, now, cycle, evict, crashes>>

DeletePersisted(c) ==
  /\ th[c].pc = "deldisk"
  /\ disk' = [disk EXCEPT ![th[c].key] = Absent]
  /\ Goto(c, IF th[c].prev # 0 THEN "delindex" ELSE "reply")
  /\ UNCHANGED <<index, dict, now, cycle, evict, crashes>>

DeleteIndex(c) ==
  /\ th[c].pc = "delindex"
  /\ index' = index \ {<<th[c].prev, th[c].key>>}
  /\ Goto(c, "reply")
  /\ UNCHANGED <<disk, dict, now, cycle, evict, crashes>>

-----------------------------------------------------------------------------
(* The handlers, each from the return of its first getTyped on. *)

Decide(c, op) == th[c].pc = "got" /\ th[c].part = "main" /\ th[c].cmd.op = op

Done(c, hit) == /\ th' = [th EXCEPT ![c].pc = "reply", ![c].res.hit = hit]
                /\ Local

\* putValue of r under k, whose old deadline is either known or to be looked up.
BeginPut(c, k, r) == th' = [th EXCEPT ![c].pc = "old", ![c].key = k, ![c].new = r, ![c].res.hit = TRUE]

BeginPutOver(c, r, p) == th' = [th EXCEPT ![c].pc = "apply", ![c].new = r, ![c].prev = p,
                                          ![c].res.hit = TRUE]

cmdGet(c) == /\ Decide(c, "GET") \/ Decide(c, "SCAN")
             /\ th' = [th EXCEPT ![c].pc = "reply",
                                 ![c].res = [hit |-> th[c].rec # Absent, val |-> valOf(th[c].rec)]]
             /\ Local

\* setString.  s is the clock reading it takes just before getTyped's.
setString(c) ==
  LET t == th[c]
      q == t.cmd
      deadline == IF "KEEPTTL" \in q.opts THEN expOf(t.rec) ELSE q.at IN
  /\ Decide(c, "SET")
  /\ \/ /\ \/ "NX" \in q.opts /\ t.rec # Absent
           \/ "XX" \in q.opts /\ t.rec = Absent
        /\ Done(c, FALSE)
     \/ /\ ~("NX" \in q.opts /\ t.rec # Absent)
        /\ ~("XX" \in q.opts /\ t.rec = Absent)
        /\ \E s \in {t.t0 - 1, t.t0} :
             IF deadline # 0 /\ deadline <= s
             THEN BeginDelete(c, q.key, [NoResult EXCEPT !.hit = TRUE])
             ELSE BeginPutOver(c, [val |-> q.val, exp |-> deadline], expOf(t.rec))
        /\ Local

cmdDel(c) ==
  /\ Decide(c, "DEL")
  /\ IF th[c].rec = Absent
     THEN Goto(c, "reply")
     ELSE BeginDelete(c, th[c].key, [NoResult EXCEPT !.hit = TRUE])
  /\ Local

\* setExpiry: a key without TTL counts as one that never expires.
setExpiry(c) ==
  LET t == th[c]
      q == t.cmd
      cur == expOf(t.rec)
      refused == \/ t.rec = Absent
                 \/ "NX" \in q.opts /\ cur # 0
                 \/ "XX" \in q.opts /\ cur = 0
                 \/ "GT" \in q.opts /\ (cur = 0 \/ q.at <= cur)
                 \/ "LT" \in q.opts /\ cur # 0 /\ q.at >= cur IN
  /\ Decide(c, "EXPIRE")
  /\ \/ /\ refused
        /\ Done(c, FALSE)
     \/ /\ ~refused
        /\ IF q.at <= now
           THEN BeginDelete(c, q.key, [NoResult EXCEPT !.hit = TRUE])
           ELSE BeginPutOver(c, [t.rec EXCEPT !.exp = q.at], cur)
        /\ Local

persist(c) ==
  LET t == th[c] IN
  /\ Decide(c, "PERSIST")
  /\ IF expOf(t.rec) = 0 THEN Goto(c, "reply")
     ELSE BeginPutOver(c, [t.rec EXCEPT !.exp = 0], t.rec.exp)
  /\ Local

\* APPEND keeps the TTL it saw and lets setStringSimple look the old one up.
cmdAppend(c) ==
  LET t == th[c] IN
  /\ Decide(c, "APPEND")
  /\ BeginPut(c, t.key, [val |-> valOf(t.rec) \cup t.cmd.val, exp |-> expOf(t.rec)])
  /\ Local

\* Slips: no test for source = destination, and a destination taken to have no
\* TTL of its own.
RenameOntoItself(c) ==
  LET t == th[c] IN
  /\ Decide(c, "RENAME")
  /\ \/ t.rec = Absent /\ Done(c, FALSE)
     \/ t.rec # Absent /\ BeginPut(c, t.cmd.dst, t.rec) /\ Local

RenameForgetsOld(c) ==
  LET t == th[c] IN
  /\ Decide(c, "RENAME")
  /\ \/ t.rec = Absent /\ Done(c, FALSE)
     \/ t.rec # Absent /\ t.cmd.key = t.cmd.dst /\ Done(c, TRUE)
     \/ /\ t.rec # Absent
        /\ t.cmd.key # t.cmd.dst
        /\ th' = [th EXCEPT ![c].pc = "apply", ![c].key = t.cmd.dst, ![c].new = t.rec, ![c].res.hit = TRUE]
        /\ Local

rename(c) ==
  LET t == th[c] IN
  /\ Decide(c, "RENAME")
  /\ \/ /\ t.rec = Absent
        /\ Done(c, FALSE)
     \/ /\ t.rec # Absent
        /\ isRenameNX(t.cmd)
        /\ th' = [th EXCEPT ![c].pc = "look", ![c].part = "nx", ![c].key = t.cmd.dst,
                            ![c].t0 = now, ![c].new = t.rec]
        /\ Local
     \/ /\ t.rec # Absent
        /\ ~isRenameNX(t.cmd)
        /\ t.cmd.key = t.cmd.dst
        /\ Done(c, TRUE)
     \/ /\ t.rec # Absent
        /\ ~isRenameNX(t.cmd)
        /\ t.cmd.key # t.cmd.dst
        /\ BeginPut(c, t.cmd.dst, t.rec)
        /\ Local

\* RENAMENX looks at the destination before rename does.
cmdRenameNX(c) ==
  LET t == th[c] IN
  /\ t.pc = "got"
  /\ t.part = "dst"
  /\ IF t.rec # Absent THEN Goto(c, "reply")
     ELSE th' = [th EXCEPT ![c].pc = "look", ![c].part = "main", ![c].key = t.cmd.key, ![c].t0 = now]
  /\ Local

\* rename's own test of nx and the rest of it; a destination that turned up in
\* between is reported as success.
renameNX(c) ==
  LET t == th[c] IN
  /\ t.pc = "got"
  /\ t.part = "nx"
  /\ IF t.rec # Absent \/ t.cmd.key = t.cmd.dst
     THEN th' = [th EXCEPT ![c].pc = "reply", ![c].res.hit = TRUE]
     ELSE BeginPut(c, t.cmd.dst, t.new)
  /\ Local

-----------------------------------------------------------------------------
(* The clock and the background goroutines. *)

Tick == /\ now < MaxTime
        /\ now' = now + 1
        /\ UNCHANGED <<store, th, cycle, evict, crashes>>

\* Slip: the scan has no upper bound.
CycleStartUnbounded ==
  /\ ActiveExpire
  /\ cycle.pc = "idle"
  /\ index # {}
  /\ cycle' = [NoCycle EXCEPT !.pc = "scan", !.due = index]
  /\ UNCHANGED <<store, now, th, evict, crashes>>

\* Cycle opens an iterator, which sees the expiry segment as of now, and takes
\* the due entries in deadline order.
CycleStart ==
  /\ ActiveExpire
  /\ cycle.pc = "idle"
  /\ \E p \in index : p[1] <= now
  /\ cycle' = [NoCycle EXCEPT !.pc = "scan", !.due = {p \in index : p[1] <= now}]
  /\ UNCHANGED <<store, now, th, evict, crashes>>

\* One entry: its two deletes go to the batch, the dict entry goes at once.
CycleCollect ==
  /\ cycle.pc = "scan"
  /\ \E p \in cycle.due :
       /\ \A o \in cycle.due : p[1] <= o[1]
       /\ dict' = [dict EXCEPT ![p[2]] = Absent]
       /\ cycle' = [cycle EXCEPT !.due = @ \ {p}, !.batch = @ \cup {p}]
  /\ Cardinality(cycle.batch) < ExpireBatch
  /\ UNCHANGED <<disk, index, now, th, evict, crashes>>

\* Slips: one of the two deletes is missing from the batch.
CycleApplyIndexOnly ==
  /\ cycle.pc = "scan"
  /\ cycle.batch # {}
  /\ index' = index \ cycle.batch
  /\ cycle' = NoCycle
  /\ UNCHANGED <<disk, dict, now, th, evict, crashes>>

CycleApplyDataOnly ==
  /\ cycle.pc = "scan"
  /\ cycle.batch # {}
  /\ disk' = [k \in Keys |-> IF \E p \in cycle.batch : p[2] = k THEN Absent ELSE disk[k]]
  /\ cycle' = NoCycle
  /\ UNCHANGED <<index, dict, now, th, evict, crashes>>

\* The scan ends, exhausted, at ExpireBatch entries, or out of budget after at
\* least one, and the batch is applied.
CycleApply ==
  /\ cycle.pc = "scan"
  /\ cycle.batch # {}
  /\ disk' = [k \in Keys |-> IF \E p \in cycle.batch : p[2] = k THEN Absent ELSE disk[k]]
  /\ index' = index \ cycle.batch
  /\ cycle' = NoCycle
  /\ UNCHANGED <<dict, now, th, evict, crashes>>

Cycle == CycleStart \/ CycleCollect \/ CycleApply

\* evictOne, from the background goroutine or from MaybeEvict after a write: it
\* picks a key of the dict, in cache mode deletes its record, drops its entry.
EvictPick(k) ==
  /\ evict[k] = "none"
  /\ dict[k] # Absent
  /\ Cardinality({l \in Keys : dict[l] # Absent}) > EvictTarget
  /\ evict' = [evict EXCEPT ![k] = IF EvictionMode = "cache" THEN "picked" ELSE "deleted"]
  /\ UNCHANGED <<store, now, th, cycle, crashes>>

EvictDisk(k) ==
  /\ evict[k] = "picked"
  /\ disk' = [disk EXCEPT ![k] = Absent]
  /\ evict' = [evict EXCEPT ![k] = "deleted"]
  /\ UNCHANGED <<index, dict, now, th, cycle, crashes>>

EvictDict(k) ==
  /\ evict[k] = "deleted"
  /\ dict' = [dict EXCEPT ![k] = Absent]
  /\ evict' = [evict EXCEPT ![k] = "none"]
  /\ UNCHANGED <<disk, index, now, th, cycle, crashes>>

\* loadAll's sweep takes what is past its deadline.  Slip: no test for "no TTL".
SweptIgnoringZero(r) == r # Absent /\ r.exp <= now

Swept(r) == Expired(r, now)

\* The index entries loadAll deletes.  Slip: a sweep that deletes all of them.
UnindexedAll == index

Unindexed == {<<disk[k].exp, k>> : k \in {k \in Keys : Swept(disk[k])}}

\* A crash and the next Open.  Pebble keeps every applied batch (SyncAlways, or a
\* crash of the process only).
Crash ==
  /\ crashes < MaxCrashes
  /\ crashes' = crashes + 1
  /\ IF LoadMode = "load-all"
     THEN /\ disk' = [k \in Keys |-> IF Swept(disk[k]) THEN Absent ELSE disk[k]]
          /\ index' = index \ Unindexed
          /\ dict' = [k \in Keys |-> IF Live(disk[k], now) THEN newEntry(disk[k]) ELSE Absent]
     ELSE /\ dict' = [k \in Keys |-> Absent]
          /\ UNCHANGED <<disk, index>>
  /\ th' = [c \in Clients |-> IdleThread]
  /\ cycle' = NoCycle
  /\ evict' = [k \in Keys |-> "none"]
  /\ UNCHANGED now

getTyped(c) == Lookup(c) \/ DropEntry(c) \/ ReadDisk(c) \/ Admit(c) \/ ReapEntry(c) \/ ReapDisk(c)

putValue(c) == PutDisk(c) \/ PutDict(c)

oldExpiry(c) == OldLookup(c) \/ OldRead(c)

deleteKey(c) == TypeOf(c) \/ DeleteEntry(c) \/ DeletePersisted(c) \/ DeleteIndex(c)

Handler(c) == cmdGet(c) \/ setString(c) \/ cmdDel(c) \/ setExpiry(c) \/ persist(c)
              \/ cmdAppend(c) \/ rename(c) \/ cmdRenameNX(c) \/ renameNX(c) \/ KeyAlive(c)

Run(c) == getTyped(c) \/ putValue(c) \/ oldExpiry(c) \/ deleteKey(c) \/ Handler(c) \/ Reply(c)

Evict(k) == EvictPick(k) \/ EvictDisk(k) \/ EvictDict(k)

Next == \/ \E c \in Clients : Run(c) \/ \E q \in Commands : Invoke(c, q)
        \/ Cycle
        \/ \E k \in Keys : Evict(k)
        \/ Tick
        \/ Crash

Spec == Init /\ [][Next]_vars

\* A command, once dispatched, runs on; so does the expirer's ticker.
Fairness == /\ \A c \in Clients : WF_vars(Run(c))
            /\ WF_vars(Cycle)
            /\ WF_vars(Tick)

FairSpec == Spec /\ Fairness

-----------------------------------------------------------------------------
(* Properties *)

\* The index entries the records call for.
IndexOf == {<<disk[k].exp, k>> : k \in {k \in Keys : expOf(disk[k]) # 0}}

\* A live dict entry is what newEntry makes of the record in Pebble: outside the
\* gap of putValue between its batch and its dict.Set, no reader can be served
\* a value, or a TTL, that Pebble does not hold (getTyped, putValue,
\* deleteKeyLocked).
CacheCoherent ==
  \A k \in Keys :
    Live(dict[k], now) /\ ~(\E c \in Clients : th[c].pc = "cache" /\ th[c].key = k)
      => disk[k] # Absent /\ dict[k] = newEntry(disk[k])

\* Every record with a TTL can be found by the expirer: its index entry is there
\* at every instant, crashes included (putValue's one batch, deleteKeyLocked's
\* order of deletes).
Reapable == IndexOf \subseteq index

\* The expiry segment holds nothing else: no entry outlives the record it was
\* made for, or the expirer would take the key's next record at the old
\* deadline.  The one exception is the last step of deleteKeyLocked.
NoStaleIndex ==
  index \subseteq IndexOf \cup {<<th[c].prev, th[c].key>> : c \in {c \in Clients : th[c].pc = "delindex"}}

\* A record leaves Pebble only through a command's delete, as the victim of
\* cache-mode eviction, or once its own deadline has passed: neither the expirer,
\* nor lazy expiry, nor the sweep of Open takes a record that is still live.
NoEarlyRemoval ==
  [][\A k \in Keys : disk[k] # Absent /\ disk'[k] = Absent
       => \/ Expired(disk[k], now)
          \/ \E c \in Clients : th[c].pc = "deldisk" /\ th[c].key = k /\ th'[c] # th[c]
          \/ evict[k] = "picked" /\ evict'[k] # "picked"]_vars

\* The refinement: a call has taken effect once its batch is applied or its
\* record read, and RENAME's source is gone once its destination is written.
Moves(t, k) == /\ t.pc # "idle"
               /\ t.cmd.op = "RENAME"
               /\ t.cmd.key = k
               /\ t.pc = "cache" \/ t.part = "type"

Moved(k) == \E c \in Clients : Moves(th[c], k)

Effective(t) ==
  /\ t.pc # "idle"
  /\ \/ t.pc \in {"cache", "delindex", "reply"}
     \/ t.part = "type" /\ (t.cmd.op = "RENAME" \/ (t.pc = "got" /\ t.rec = Absent))
     \/ t.cmd.op = "GET" /\ t.pc \in {"got", "admit", "reap", "reapdisk"}

AnswerOf(t) ==
  IF ~Effective(t) THEN NoResult
  ELSE IF t.cmd.op # "GET" \/ t.pc = "reply" THEN t.res
  ELSE IF t.rec = Absent \/ t.pc \in {"reap", "reapdisk"} THEN NoResult
  ELSE [hit |-> TRUE, val |-> t.rec.val]

CallOf(t) == [cmd |-> t.cmd, since |-> t.since, done |-> Effective(t), res |-> AnswerOf(t)]

AbstractStore == [k \in Keys |-> IF Moved(k) THEN Absent ELSE disk[k]]

AbstractCalls == [c \in Clients |-> CallOf(th[c])]

Abstract == INSTANCE AtomicStore WITH kv <- AbstractStore, req <- AbstractCalls

\* Commands that go through dispatch are linearizable: getTyped, putValue and
\* deleteKey, over a cache that evicts and re-admits underneath them, behave as
\* one atomic step of AtomicStore.
Linearizable == Abstract!Spec

\* With the expirer running, a record whose deadline has passed is eventually
\* gone from Pebble.
ExpiredAreReaped ==
  \A k \in Keys : Expired(disk[k], now) ~> (disk[k] = Absent)

=============================================================================
