--------------------------- MODULE DataPathProofs ---------------------------
(***************************************************************************)
(* Theorems about DataPath, for any keys, values, clients and commands:    *)
(* the expiry index covers the records, the dict agrees with them, no      *)
(* index entry is left over, and nothing is removed before its deadline.   *)
(* First the inductive invariant, then what a step leaves of it alone, the *)
(* steps that only move a goroutine on, the steps that write.              *)
(***************************************************************************)
EXTENDS DataPath, TLAPS

\* Most leaves are first-order: Zenon proves them. The others name SMT.
USE ZenonT(30)

\* Commands come through dispatch, with the locks of their keys, and the expirer is off.
Dispatched == Unlocked = {} /\ ~ActiveExpire /\ \A q \in Commands : q.op # "SCAN"

Fields == {"pc", "cmd", "part", "key", "since", "t0", "rec", "new", "prev", "res"}

getTypedPCs == {"look", "drop", "read", "admit", "reap", "reapdisk", "got"}

putPCs == {"old", "olddrop", "oldread", "apply", "cache"}

deletePCs == {"old", "olddrop", "oldread", "del", "deldisk", "delindex"}

\* The key a command is at.
Target(x) == IF \/ x.part \in {"dst", "nx"}
                \/ x.part = "main" /\ x.pc \in putPCs /\ x.cmd.op = "RENAME"
             THEN x.cmd.dst ELSE x.cmd.key

ThreadOK(x) ==
  /\ DOMAIN x = Fields
  /\ x.pc \in {"idle", "reply"} \cup getTypedPCs \cup putPCs \cup deletePCs
  /\ x.part \in {"main", "type", "dst", "nx"}
  /\ x.rec \in Record \cup {Absent} /\ x.new \in Record \cup {Absent} /\ x.prev \in Nat /\ x.t0 \in Nat
  /\ x.pc # "idle" => x.cmd \in Commands /\ x.key \in keysOf(x.cmd) /\ x.t0 <= now
  /\ x.pc # "idle" => x.since \in Nat /\ x.since <= x.t0
  /\ x.pc # "idle" /\ x.cmd.op = "GET" => x.pc \in getTypedPCs \cup {"reply"} /\ x.part = "main" /\ x.t0 = x.since
  /\ x.pc # "idle" /\ x.part \in {"dst", "nx"} => isRenameNX(x.cmd)
  /\ x.pc \notin {"idle", "reply"} => x.key = Target(x)
  /\ x.pc \in {"admit", "reap", "reapdisk"} => x.rec # Absent
  /\ x.pc \in {"reap", "reapdisk"} => Expired(x.rec, x.t0)
  /\ x.pc \in {"apply", "cache"} => x.part # "type"
  /\ x.pc \in putPCs /\ x.part # "type" => x.new # Absent
  /\ x.part = "nx" => x.new # Absent
  /\ x.pc \in {"del", "deldisk", "delindex"} => x.part = "type"

TypeOK == /\ disk \in [Keys -> Record \cup {Absent}]
          /\ index \subseteq (Nat \ {0}) \X Keys
          /\ dict \in [Keys -> Entry \cup {Absent}]
          /\ now \in Nat
          /\ DOMAIN th = Clients /\ \A c \in Clients : ThreadOK(th[c])
          /\ cycle = NoCycle
          /\ evict \in [Keys -> {"none", "picked", "deleted"}]

Running(c) == th[c].pc # "idle"

\* What KeyLockSpec gives: commands that run at the same time share no key, or only read.
Apart ==
  \A c, d \in Clients : c # d /\ Running(c) /\ Running(d) =>
    \/ keysOf(th[c].cmd) \cap keysOf(th[d].cmd) = {}
    \/ th[c].cmd.op = "GET" /\ th[d].cmd.op = "GET"

\* putValue has applied its batch for k and not yet set the dict.
Caching(k) == \E c \in Clients : th[c].pc = "cache" /\ th[c].key = k

\* A deadline in Pebble, in the dict or about to be replaced is in the index.
KeyIndexed(k) ==
  /\ expOf(disk[k]) # 0 => <<disk[k].exp, k>> \in index
  /\ Live(dict[k], now) /\ dict[k].exp # 0 => <<dict[k].exp, k>> \in index \/ Caching(k)

ThreadIndexed(c) ==
  /\ /\ th[c].pc \in {"admit", "got"} /\ expOf(th[c].rec) # 0
     /\ th[c].cmd.op # "GET" \/ th[c].rec.exp > now
     => <<th[c].rec.exp, th[c].key>> \in index
  /\ th[c].pc = "apply" /\ th[c].prev # 0 => <<th[c].prev, th[c].key>> \in index
  /\ th[c].pc = "cache" /\ th[c].new.exp # 0 => <<th[c].new.exp, th[c].key>> \in index
  /\ th[c].pc \in {"deldisk", "delindex"} => dict[th[c].key] = Absent
  /\ th[c].pc = "delindex" => disk[th[c].key] = Absent
  /\ th[c].pc \in {"reap", "reapdisk"} => disk[th[c].key] \in {th[c].rec, Absent}

\* The dict agrees with Pebble, and so does what a command read, as long as eviction leaves records.
KeyCoherent(k) ==
  Live(dict[k], now) => Caching(k) \/ (disk[k] # Absent /\ dict[k] = newEntry(disk[k]))

ThreadCoherent(c) ==
  /\ th[c].pc = "admit" => \/ th[c].rec = disk[th[c].key]
                           \/ th[c].cmd.op = "GET" /\ Expired(th[c].rec, now)
  /\ th[c].pc = "got" /\ th[c].cmd.op # "GET" => th[c].rec = disk[th[c].key]
  /\ th[c].pc \in {"apply", "del", "deldisk"} => th[c].prev = expOf(disk[th[c].key])
  /\ th[c].pc = "cache" => disk[th[c].key] = th[c].new

\* Nothing else is in the index, as long as no crash interrupts a delete.
KeyTight(k) ==
  \A e \in Nat : <<e, k>> \in index =>
    e = expOf(disk[k]) \/ \E c \in Clients : th[c].pc = "delindex" /\ th[c].key = k /\ th[c].prev = e

Persist == EvictionMode = "persist"

Whole == Persist /\ MaxCrashes = 0

KeyInv(k) == KeyIndexed(k) /\ (Persist => KeyCoherent(k)) /\ (Whole => KeyTight(k))

ThreadInv(c) == ThreadIndexed(c) /\ (Persist => ThreadCoherent(c))

EvictInv == \A k \in Keys : Persist => evict[k] # "picked"

Inv == TypeOK /\ Apart /\ EvictInv /\ crashes \in Nat /\ (\A k \in Keys : KeyInv(k)) /\ (\A c \in Clients : ThreadInv(c))

-----------------------------------------------------------------------------
(* Records, entries, commands.                                             *)

LEMMA RecordIs ==
  ASSUME NEW r \in Record
  PROVE  r # Absent /\ r.val \in Values /\ r.exp \in Nat /\ r = [val |-> r.val, exp |-> r.exp]
  BY AbsentAssumption DEF Record

LEMMA EntryIs ==
  ASSUME NEW e \in Entry
  PROVE  e # Absent /\ e.inline \in Values \cup {Absent} /\ e.exp \in Nat /\ e = [inline |-> e.inline, exp |-> e.exp]
  BY AbsentAssumption DEF Entry

LEMMA NewEntry ==
  ASSUME NEW r \in Record
  PROVE  /\ newEntry(r) \in Entry /\ newEntry(r) # Absent /\ newEntry(r).exp = r.exp
         /\ newEntry(r).inline = IF r.val \in InlineVals THEN r.val ELSE Absent
<1>1. newEntry(r) \in Entry
  BY RecordIs, InlineAssumption DEF newEntry, Entry
<1> QED
  BY <1>1, EntryIs DEF newEntry

LEMMA CommandIs ==
  ASSUME NEW q \in Commands
  PROVE  q \in Command /\ q.key \in Keys /\ q.dst \in Keys /\ q.val \in Values /\ q.at \in Nat /\ q # Absent
         /\ keysOf(q) \subseteq Keys
  BY CommandsAssumption, AbsentAssumption DEF Command, keysOf

LEMMA IdleOK == ThreadOK(IdleThread) /\ IdleThread.pc = "idle"
  BY DEF ThreadOK, IdleThread, Fields, Record, NoResult, getTypedPCs, putPCs, deletePCs

\* The key a running command works on is one of the keys it holds.
LEMMA ThreadIs ==
  ASSUME TypeOK, NEW c \in Clients, Running(c)
  PROVE  /\ ThreadOK(th[c]) /\ th[c].cmd \in Commands /\ th[c].key \in keysOf(th[c].cmd) /\ th[c].key \in Keys
         /\ th[c].t0 \in Nat /\ th[c].t0 <= now /\ now \in Nat /\ th[c].since \in Nat /\ th[c].since <= th[c].t0
  BY CommandIs DEF TypeOK, ThreadOK, Running

\* Two commands at the same key are both GETs.
LEMMA Shared ==
  ASSUME TypeOK, Apart, NEW c \in Clients, NEW d \in Clients, c # d, Running(c), Running(d), th[c].key = th[d].key
  PROVE  th[c].cmd.op = "GET" /\ th[d].cmd.op = "GET"
<1>1. th[c].key \in keysOf(th[c].cmd) /\ th[c].key \in keysOf(th[d].cmd)
  BY ThreadIs
<1> QED
  BY <1>1 DEF Apart

\* What getTyped does for a GET.
LEMMA GetIs ==
  ASSUME TypeOK, NEW c \in Clients, Running(c), th[c].cmd.op = "GET"
  PROVE  th[c].pc \in getTypedPCs \cup {"reply"} /\ th[c].part = "main"
  BY ThreadIs DEF ThreadOK, Running

\* No command starts or ends, and none changes.
LEMMA ApartKept ==
  ASSUME Apart, NEW c \in Clients, \A d \in Clients \ {c} : th'[d] = th[d],
         th'[c].pc = "idle" \/ (Running(c) /\ th'[c].cmd = th[c].cmd)
  PROVE  Apart'
  BY SMTT(30) DEF Apart, Running

LEMMA InvokeApart ==
  ASSUME Dispatched, TypeOK, Apart, NEW c \in Clients, NEW q \in Commands, Invoke(c, q)
  PROVE  Apart'
<1>1. /\ th'[c].cmd = q /\ \A d \in Clients \ {c} : th'[d] = th[d]
  BY DEF Invoke, IdleThread, TypeOK
<1>2. ASSUME NEW d \in Clients \ {c}, Running(d)
      PROVE  \/ keysOf(q) \cap keysOf(th[d].cmd) = {}
             \/ q.op = "GET" /\ th[d].cmd.op = "GET"
  <2>1. Lock!Compatible(claimOf(c, q), Held[d])
    BY DEF Invoke, Lock!MayEnter
  <2>2. th[d].cmd \in Commands
    BY <1>2, ThreadIs
  <2>3. /\ Held[d] = claimOf(d, th[d].cmd)
        /\ claimOf(c, q).keys = keysOf(q)
        /\ claimOf(d, th[d].cmd).keys = keysOf(th[d].cmd)
    BY <1>2, <2>2 DEF claimOf, Dispatched, Held, Running
  <2>4. claimOf(c, q).write = FALSE => q.op = "GET"
    BY DEF claimOf, Dispatched
  <2>5. claimOf(d, th[d].cmd).write = FALSE => th[d].cmd.op = "GET"
    BY <2>2 DEF claimOf, Dispatched
  <2> QED
    BY <2>1, <2>3, <2>4, <2>5, SMTT(30) DEF Lock!Compatible
<1> QED
  BY <1>1, <1>2, SMTT(30) DEF Apart, Running

-----------------------------------------------------------------------------
(* What a step leaves alone.                                               *)

\* The pairs of k in the index stay.
SamePairs(k) == \A e \in Nat : <<e, k>> \in index' <=> <<e, k>> \in index

\* A key that nothing happens to.
LEMMA OtherKey ==
  ASSUME TypeOK, NEW k \in Keys, KeyInv(k), NEW c \in Clients,
         now' = now, disk'[k] = disk[k], dict'[k] = dict[k], SamePairs(k),
         \A d \in Clients \ {c} : th'[d] = th[d],
         \/ th[c].pc \notin {"cache", "delindex"}
         \/ th[c].key # k
  PROVE  KeyInv(k)'
<1>1. Caching(k) => Caching(k)'
  BY DEF Caching
<1>2. /\ disk[k] # Absent => disk[k].exp \in Nat
      /\ dict[k] # Absent => dict[k].exp \in Nat
  BY RecordIs, EntryIs, SMTT(30) DEF TypeOK
<1>3. KeyIndexed(k)'
  BY <1>1, <1>2 DEF KeyInv, KeyIndexed, SamePairs, expOf, Live
<1>4. Persist => KeyCoherent(k)'
  BY <1>1 DEF KeyInv, KeyCoherent, Live, Expired, newEntry
<1>5. Whole => KeyTight(k)'
  <2> SUFFICES ASSUME Whole, NEW e \in Nat, <<e, k>> \in index'
               PROVE  e = expOf(disk[k]) \/ \E d \in Clients : th'[d].pc = "delindex" /\ th'[d].key = k /\ th'[d].prev = e
    BY DEF KeyTight, expOf
  <2>1. e = expOf(disk[k]) \/ \E d \in Clients : th[d].pc = "delindex" /\ th[d].key = k /\ th[d].prev = e
    BY DEF SamePairs, KeyInv, KeyTight
  <2> QED
    BY <2>1
<1>6. Persist' = Persist /\ Whole' = Whole
  BY DEF Persist, Whole
<1> QED
  BY <1>3, <1>4, <1>5, <1>6 DEF KeyInv

\* A command that nothing happens to.
LEMMA OtherThread ==
  ASSUME TypeOK, NEW d \in Clients, ThreadInv(d), th'[d] = th[d], now' = now,
         Running(d) => /\ disk'[th[d].key] = disk[th[d].key]
                       /\ SamePairs(th[d].key)
                       /\ dict'[th[d].key] = dict[th[d].key] \/ th[d].pc \notin {"deldisk", "delindex"}
  PROVE  ThreadInv(d)'
<1>1. ThreadOK(th[d])
  BY DEF TypeOK
<1>2. /\ th[d].prev \in Nat /\ (th[d].rec # Absent => th[d].rec.exp \in Nat)
      /\ (th[d].pc = "cache" => th[d].new.exp \in Nat)
  BY <1>1, RecordIs DEF ThreadOK, putPCs
<1>3. ThreadIndexed(d)'
  BY <1>2 DEF ThreadInv, ThreadIndexed, SamePairs, Running, expOf
<1>4. Persist => ThreadCoherent(d)'
  BY DEF ThreadInv, ThreadCoherent, Running, Expired, expOf
<1> QED
  BY <1>3, <1>4 DEF ThreadInv, Persist

\* A step of c that changes nothing but its own goroutine.
LEMMA LocalStep ==
  ASSUME Inv, NEW c \in Clients, th[c].pc \notin {"cache", "delindex"},
         disk' = disk, index' = index, dict' = dict, now' = now, cycle' = cycle, evict' = evict, crashes' = crashes,
         DOMAIN th' = Clients, \A d \in Clients \ {c} : th'[d] = th[d],
         ThreadOK(th[c])', ThreadInv(c)', Apart'
  PROVE  Inv'
<1>1. TypeOK /\ (\A k \in Keys : KeyInv(k)) /\ (\A d \in Clients : ThreadInv(d)) /\ EvictInv /\ crashes \in Nat
  BY DEF Inv
<1>2. \A k : SamePairs(k)
  BY DEF SamePairs
<1>3. \A k \in Keys : KeyInv(k)'
  BY <1>1, <1>2, OtherKey
<1>4. \A d \in Clients : ThreadInv(d)'
  BY <1>1, <1>2, OtherThread
<1>5. \A d \in Clients \ {c} : ThreadOK(th[d])'
  BY <1>1, SMTT(30) DEF TypeOK, ThreadOK
<1>6. TypeOK'
  BY <1>1, <1>5 DEF TypeOK
<1>7. EvictInv'
  BY <1>1 DEF EvictInv, Persist
<1> QED
  BY <1>1, <1>3, <1>4, <1>6, <1>7 DEF Inv

LEMMA InitInv == ASSUME Init PROVE Inv
<1>1. \A c \in Clients : th[c] = IdleThread
  BY DEF Init
<1>2. now = 1 /\ now \in Nat /\ \A k \in Keys : dict[k] = Absent /\ disk[k] \in Record \cup {Absent}
  BY RecordsAssumption DEF Init, Record
<1>3. \A p \in index : \E k \in Keys : expOf(disk[k]) # 0 /\ p = <<disk[k].exp, k>>
  BY DEF Init
<1>4. index \subseteq (Nat \ {0}) \X Keys
  BY <1>2, <1>3, RecordIs, SMTT(30) DEF expOf
<1>5. TypeOK
  BY <1>1, <1>2, <1>4, IdleOK, RecordsAssumption DEF Init, TypeOK, Record
<1>6. Apart
  BY <1>1, IdleOK DEF Apart, Running
<1>7. \A k \in Keys : KeyInv(k)
  <2> SUFFICES ASSUME NEW k \in Keys PROVE KeyInv(k)
    OBVIOUS
  <2>1. expOf(disk[k]) # 0 => <<disk[k].exp, k>> \in index
    BY DEF Init
  <2>2. KeyTight(k)
    BY <1>3, <1>2 DEF KeyTight, expOf
  <2> QED
    BY <1>2, <2>1, <2>2 DEF KeyInv, KeyIndexed, KeyCoherent, Live
<1>8. \A c \in Clients : ThreadInv(c)
  BY <1>1, IdleOK DEF ThreadInv, ThreadIndexed, ThreadCoherent
<1> QED
  BY <1>5, <1>6, <1>7, <1>8 DEF Inv, EvictInv, Init

-----------------------------------------------------------------------------
(* Steps that only move a goroutine on.                                    *)

\* Whoever else is at the key of c is reading it, and so is c.
LEMMA Alone ==
  ASSUME TypeOK, Apart, NEW c \in Clients, Running(c), NEW d \in Clients \ {c}, Running(d), th[d].key = th[c].key
  PROVE  th[c].cmd.op = "GET" /\ th[d].cmd.op = "GET" /\ th[d].pc \in getTypedPCs \cup {"reply"}
  BY Shared, GetIs

\* Only a GET shares its key with another command.
LEMMA NotCaching ==
  ASSUME TypeOK, Apart, NEW c \in Clients, Running(c), th[c].pc # "cache"
  PROVE  ~Caching(th[c].key)
<1> SUFFICES ASSUME NEW d \in Clients, th[d].pc = "cache", th[d].key = th[c].key PROVE FALSE
  BY DEF Caching
<1> QED
  BY Alone DEF Running, getTypedPCs

LEMMA RunningStep ==
  ASSUME Inv, NEW c \in Clients, Running(c), th[c].pc \notin {"cache", "delindex"},
         disk' = disk, index' = index, dict' = dict, now' = now, cycle' = cycle, evict' = evict, crashes' = crashes,
         DOMAIN th' = Clients, \A d \in Clients \ {c} : th'[d] = th[d], th'[c].cmd = th[c].cmd,
         ThreadOK(th[c])', ThreadInv(c)'
  PROVE  Inv'
<1>1. Apart'
  BY ApartKept DEF Inv
<1> QED
  BY <1>1, LocalStep

\* Where nothing is known yet of what the store holds.
LEMMA Uncommitted ==
  ASSUME NEW c \in Clients, th'[c].pc \in {"idle", "look", "drop", "read", "old", "olddrop", "oldread", "reply"}
  PROVE  ThreadInv(c)'
  BY DEF ThreadInv, ThreadIndexed, ThreadCoherent

LEMMA SameTime ==
  ASSUME NEW c \in Clients, ThreadOK(th'[c]), now' = now
  PROVE  ThreadOK(th[c])'
  BY DEF ThreadOK

\* A goroutine x that goes on within getTyped, as y.
LEMMA WithinGetTyped ==
  ASSUME NEW x, ThreadOK(x), x.pc \in getTypedPCs,
         NEW y, DOMAIN y = Fields, y.cmd = x.cmd, y.key = x.key, y.part = x.part, y.t0 = x.t0, y.new = x.new,
         y.since = x.since, y.prev = x.prev, y.pc \in getTypedPCs, y.rec \in Record \cup {Absent},
         y.pc \in {"admit", "reap", "reapdisk"} => y.rec # Absent,
         y.pc \in {"reap", "reapdisk"} => Expired(y.rec, y.t0)
  PROVE  ThreadOK(y)
  BY SMTT(30) DEF ThreadOK, getTypedPCs, putPCs, Target

LEMMA InvokeInv ==
  ASSUME Dispatched, Inv, NEW c \in Clients, NEW q \in Commands, Invoke(c, q)
  PROVE  Inv'
<1>1. TypeOK /\ Apart /\ th[c].pc = "idle" /\ now \in Nat
  BY DEF Inv, Invoke, TypeOK
<1>2. /\ DOMAIN th' = Clients /\ \A d \in Clients \ {c} : th'[d] = th[d]
      /\ DOMAIN th'[c] = Fields /\ th'[c].pc = "look" /\ th'[c].cmd = q /\ th'[c].t0 = now /\ th'[c].since = now
      /\ th'[c].part = (IF isRenameNX(q) THEN "dst" ELSE "main")
      /\ th'[c].key = (IF isRenameNX(q) THEN q.dst ELSE q.key)
      /\ th'[c].rec = Absent /\ th'[c].new = Absent /\ th'[c].prev = 0
  BY <1>1 DEF Invoke, IdleThread, TypeOK, Fields, Dispatched
<1>3. th'[c].key \in keysOf(q)
  BY <1>2 DEF keysOf, isRenameNX
<1>4. ThreadOK(th[c])'
  BY <1>1, <1>2, <1>3, SMTT(30) DEF ThreadOK, Invoke, getTypedPCs, putPCs, deletePCs, isRenameNX, Target
<1> QED
  BY <1>1, <1>2, <1>4, InvokeApart, Uncommitted, LocalStep DEF Invoke, store

LEMMA ReplyInv ==
  ASSUME Inv, NEW c \in Clients, Reply(c)
  PROVE  Inv'
<1>1. TypeOK /\ Apart /\ th[c].pc = "reply"
  BY DEF Inv, Reply
<1>2. DOMAIN th' = Clients /\ (\A d \in Clients \ {c} : th'[d] = th[d]) /\ th'[c] = IdleThread
  BY <1>1 DEF Reply, TypeOK
<1>3. ThreadOK(th[c])' /\ th'[c].pc = "idle"
  BY <1>1, <1>2, IdleOK, SameTime DEF Reply
<1>4. Apart'
  BY <1>1, <1>2, <1>3, ApartKept
<1> QED
  BY <1>1, <1>2, <1>3, <1>4, Uncommitted, LocalStep DEF Reply, store

\* A dict hit returns the record that Pebble holds.
LEMMA LookupInv ==
  ASSUME Inv, NEW c \in Clients, Lookup(c)
  PROVE  Inv'
<1> DEFINE e == dict[th[c].key]
<1>1. TypeOK /\ Apart /\ th[c].pc = "look" /\ Running(c)
  BY DEF Inv, Lookup, Running
<1>2. ThreadOK(th[c]) /\ th[c].key \in Keys /\ KeyInv(th[c].key) /\ ~Caching(th[c].key)
  BY <1>1, ThreadIs, NotCaching DEF Inv
<1>3. e \in Entry \cup {Absent} /\ disk[th[c].key] \in Record \cup {Absent}
  BY <1>1, <1>2 DEF TypeOK
<1>4. /\ DOMAIN th' = Clients /\ \A d \in Clients \ {c} : th'[d] = th[d]
      /\ DOMAIN th'[c] = Fields /\ th'[c].cmd = th[c].cmd /\ th'[c].key = th[c].key /\ th'[c].part = th[c].part
      /\ th'[c].t0 = th[c].t0 /\ th'[c].since = th[c].since /\ th'[c].new = th[c].new /\ th'[c].prev = th[c].prev
      /\ \/ th'[c].pc \in {"drop", "read"} /\ th'[c].rec = th[c].rec
         \/ /\ th'[c].pc = "got" /\ Live(e, now) /\ e.inline # Absent
            /\ th'[c].rec = [val |-> e.inline, exp |-> e.exp]
  <2> DEFINE r == [val |-> e.inline, exp |-> e.exp]
  <2>1. DOMAIN th = Clients /\ DOMAIN th[c] = Fields
    BY <1>1, <1>2 DEF TypeOK, ThreadOK
  <2>2. \/ Goto(c, "drop") \/ Goto(c, "read")
        \/ Live(e, now) /\ e.inline # Absent /\ th' = [th EXCEPT ![c].pc = "got", ![c].rec = r]
    BY DEF Lookup, inlineOf, Live
  <2> HIDE DEF r, e
  <2>3. CASE Goto(c, "drop")
    BY <2>1, <2>3 DEF Goto, Fields
  <2>4. CASE Goto(c, "read")
    BY <2>1, <2>4 DEF Goto, Fields
  <2>5. CASE Live(e, now) /\ e.inline # Absent /\ th' = [th EXCEPT ![c].pc = "got", ![c].rec = r]
    <3>1. /\ DOMAIN th' = Clients /\ \A d \in Clients \ {c} : th'[d] = th[d]
          /\ DOMAIN th'[c] = Fields /\ th'[c].cmd = th[c].cmd /\ th'[c].key = th[c].key /\ th'[c].part = th[c].part
          /\ th'[c].t0 = th[c].t0 /\ th'[c].since = th[c].since /\ th'[c].new = th[c].new
          /\ th'[c].prev = th[c].prev /\ th'[c].pc = "got" /\ th'[c].rec = r
      BY <2>1, <2>5 DEF Fields
    <3> QED
      BY <2>5, <3>1 DEF r
  <2> QED
    BY <2>2, <2>3, <2>4, <2>5
<1>5. disk' = disk /\ index' = index /\ dict' = dict /\ now' = now /\ cycle' = cycle /\ evict' = evict /\ crashes' = crashes
  BY DEF Lookup, Local, store
<1>6. CASE th'[c].pc \in {"drop", "read"}
  <2>1. ThreadOK(th[c])'
    <3>1. th[c].rec \in Record \cup {Absent} /\ th[c].pc \in getTypedPCs /\ th'[c].pc \in getTypedPCs
      BY <1>1, <1>2, <1>6 DEF ThreadOK, getTypedPCs
    <3>2. ThreadOK(th'[c])
      BY <1>2, <1>4, <1>6, <3>1, WithinGetTyped
    <3> QED
      BY <1>5, <3>2, SameTime
  <2> QED
    BY <1>1, <1>4, <1>5, <1>6, <2>1, Uncommitted, RunningStep
<1>7. CASE th'[c].pc = "got"
  <2>1. Live(e, now) /\ e.inline # Absent /\ th'[c].rec = [val |-> e.inline, exp |-> e.exp] /\ e \in Entry
    BY <1>3, <1>4, <1>7 DEF Live
  <2>2. th'[c].rec \in Record /\ th'[c].rec # Absent /\ th'[c].rec.exp = e.exp /\ e.exp \in Nat
    BY <2>1, EntryIs, RecordIs DEF Record
  <2>3. ThreadOK(th[c])'
    <3>1. th[c].pc \in getTypedPCs /\ th'[c].pc \in getTypedPCs
      BY <1>1, <1>7 DEF getTypedPCs
    <3>2. ThreadOK(th'[c])
      BY <1>2, <1>4, <1>7, <2>2, <3>1, WithinGetTyped
    <3> QED
      BY <1>5, <3>2, SameTime
  <2>4. ThreadIndexed(c)'
    BY <1>2, <1>4, <1>5, <1>7, <2>1, <2>2 DEF ThreadIndexed, KeyInv, KeyIndexed, expOf
  <2>5. Persist => th'[c].rec = disk[th[c].key]
    <3> SUFFICES ASSUME Persist PROVE th'[c].rec = disk[th[c].key]
      OBVIOUS
    <3>1. disk[th[c].key] \in Record /\ e = newEntry(disk[th[c].key])
      BY <1>2, <1>3, <2>1 DEF KeyInv, KeyCoherent
    <3> QED
      BY <2>1, <3>1, NewEntry, RecordIs
  <2>6. Persist => ThreadCoherent(c)'
    BY <1>4, <1>5, <1>7, <2>5 DEF ThreadCoherent
  <2> QED
    BY <1>1, <1>4, <1>5, <2>3, <2>4, <2>6, RunningStep DEF ThreadInv, Persist
<1> QED
  BY <1>4, <1>6, <1>7

\* Pebble's record is the one getTyped goes on with.
LEMMA ReadDiskInv ==
  ASSUME Inv, NEW c \in Clients, ReadDisk(c)
  PROVE  Inv'
<1> DEFINE r == disk[th[c].key]
<1>1. TypeOK /\ Apart /\ th[c].pc = "read" /\ Running(c)
  BY DEF Inv, ReadDisk, Running
<1>2. ThreadOK(th[c]) /\ th[c].key \in Keys /\ KeyInv(th[c].key)
  BY <1>1, ThreadIs DEF Inv
<1>3. r \in Record \cup {Absent}
  BY <1>1, <1>2 DEF TypeOK
<1>4. /\ DOMAIN th' = Clients /\ \A d \in Clients \ {c} : th'[d] = th[d]
      /\ DOMAIN th'[c] = Fields /\ th'[c].cmd = th[c].cmd /\ th'[c].key = th[c].key /\ th'[c].part = th[c].part
      /\ th'[c].t0 = th[c].t0 /\ th'[c].since = th[c].since /\ th'[c].new = th[c].new /\ th'[c].prev = th[c].prev /\ th'[c].rec = r
      /\ th'[c].pc = (IF r = Absent THEN "got" ELSE IF Expired(r, th[c].t0) THEN "reap" ELSE "admit")
  BY <1>1, <1>2 DEF ReadDisk, TypeOK, Fields, ThreadOK
<1>5. disk' = disk /\ index' = index /\ dict' = dict /\ now' = now /\ cycle' = cycle /\ evict' = evict /\ crashes' = crashes
  BY DEF ReadDisk, Local, store
<1>6. ThreadOK(th[c])'
  <2>1. th[c].pc \in getTypedPCs /\ th'[c].pc \in getTypedPCs
    BY <1>1, <1>4 DEF getTypedPCs
  <2>2. ThreadOK(th'[c])
    BY <1>2, <1>3, <1>4, <2>1, WithinGetTyped
  <2> QED
    BY <1>5, <2>2, SameTime
<1>7. ThreadIndexed(c)'
  BY <1>2, <1>4, <1>5 DEF ThreadIndexed, KeyInv, KeyIndexed
<1>8. ThreadCoherent(c)'
  BY <1>4, <1>5 DEF ThreadCoherent
<1> QED
  BY <1>1, <1>4, <1>5, <1>6, <1>7, <1>8, RunningStep DEF ThreadInv

\* A goroutine x of a writing command that goes on as y.
LEMMA WithinCommand ==
  ASSUME NEW x, ThreadOK(x), x.pc # "idle", x.cmd.op # "GET",
         NEW y, DOMAIN y = Fields, y.cmd = x.cmd, y.key \in keysOf(x.cmd), y.part \in {"main", "type", "dst", "nx"},
         y.part \in {"dst", "nx"} => isRenameNX(x.cmd), y.pc = "reply" \/ y.key = Target(y),
         y.since = x.since, y.since <= y.t0, y.t0 \in Nat, y.t0 <= now, y.rec \in Record \cup {Absent}, y.new \in Record \cup {Absent}, y.prev \in Nat,
         y.pc \in {"look", "got", "reply"} \cup putPCs \cup deletePCs,
         y.pc \in {"apply", "cache"} => y.part # "type",
         y.pc \in putPCs /\ y.part # "type" => y.new # Absent,
         y.part = "nx" => y.new # Absent,
         y.pc \in {"del", "deldisk", "delindex"} => y.part = "type"
  PROVE  ThreadOK(y)
  BY DEF ThreadOK, getTypedPCs, putPCs, deletePCs

LEMMA OldLookupInv ==
  ASSUME Inv, NEW c \in Clients, OldLookup(c)
  PROVE  Inv'
<1> DEFINE e == dict[th[c].key]
<1>1. TypeOK /\ Apart /\ th[c].pc = "old" /\ Running(c)
  BY DEF Inv, OldLookup, Running
<1>2. ThreadOK(th[c]) /\ th[c].key \in Keys /\ KeyInv(th[c].key) /\ ~Caching(th[c].key) /\ th[c].t0 <= now
  BY <1>1, ThreadIs, NotCaching DEF Inv
<1>3. e \in Entry \cup {Absent} /\ disk[th[c].key] \in Record \cup {Absent}
  BY <1>1, <1>2 DEF TypeOK
<1>4. /\ DOMAIN th' = Clients /\ \A d \in Clients \ {c} : th'[d] = th[d]
      /\ DOMAIN th'[c] = Fields /\ th'[c].cmd = th[c].cmd /\ th'[c].key = th[c].key /\ th'[c].part = th[c].part
      /\ th'[c].t0 = th[c].t0 /\ th'[c].since = th[c].since /\ th'[c].new = th[c].new /\ th'[c].rec = th[c].rec
      /\ \/ th'[c].pc \in {"oldread", "olddrop"} /\ th'[c].prev = th[c].prev
         \/ /\ th'[c].pc = (IF th[c].part = "type" THEN "del" ELSE "apply") /\ Live(e, now)
            /\ th'[c].prev = e.exp
  BY <1>1, <1>2, <1>3, SMTT(30) DEF OldLookup, TypeOK, Fields, Goto, ThreadOK
<1>5. disk' = disk /\ index' = index /\ dict' = dict /\ now' = now /\ cycle' = cycle /\ evict' = evict /\ crashes' = crashes
  BY DEF OldLookup, Local, store
<1>6. th[c].cmd.op # "GET" /\ th[c].key \in keysOf(th[c].cmd) /\ (th[c].part # "type" => th[c].new # Absent)
  BY <1>1, <1>2 DEF ThreadOK, getTypedPCs, putPCs
<1>7. e # Absent => e.exp \in Nat
  BY <1>3, EntryIs
<1>8. ThreadOK(th[c])'
  <2>1. th'[c].prev \in Nat
    BY <1>2, <1>4, <1>7 DEF ThreadOK, Live
  <2>2. th'[c].pc \in {"look", "got", "reply"} \cup putPCs \cup deletePCs
    BY <1>4 DEF putPCs, deletePCs
  <2>3. ThreadOK(th'[c])
    <3>1. th'[c].key = Target(th'[c])
      BY <1>1, <1>2, <1>4 DEF ThreadOK, Target, putPCs
    <3>2. /\ th'[c].part \in {"main", "type", "dst", "nx"} /\ th[c].rec \in Record \cup {Absent} /\ th[c].new \in Record \cup {Absent}
          /\ th[c].t0 \in Nat /\ th[c].since <= th[c].t0 /\ (th[c].part \in {"dst", "nx"} => isRenameNX(th[c].cmd))
          /\ (th[c].part = "nx" => th[c].new # Absent)
      BY <1>1, <1>2, <1>4 DEF ThreadOK
    <3> QED
      BY <1>1, <1>2, <1>4, <1>6, <2>1, <2>2, <3>1, <3>2, WithinCommand, SMTT(30)
  <2> QED
    BY <1>5, <2>3, SameTime
<1>9. CASE th'[c].pc \in {"oldread", "olddrop"}
  BY <1>1, <1>4, <1>5, <1>8, <1>9, Uncommitted, RunningStep
<1>10. CASE th'[c].pc \in {"del", "apply"} /\ Live(e, now) /\ th'[c].prev = e.exp
  <2>1. ThreadIndexed(c)'
    BY <1>2, <1>4, <1>5, <1>10 DEF ThreadIndexed, KeyInv, KeyIndexed
  <2>2. Persist => e.exp = expOf(disk[th[c].key])
    BY <1>2, <1>3, <1>10, NewEntry DEF KeyInv, KeyCoherent, expOf
  <2>3. Persist => ThreadCoherent(c)'
    BY <1>4, <1>5, <1>10, <2>2 DEF ThreadCoherent, expOf
  <2> QED
    BY <1>1, <1>4, <1>5, <1>8, <1>10, <2>1, <2>3, RunningStep DEF ThreadInv, Persist
<1> QED
  BY <1>4, <1>9, <1>10

LEMMA OldReadInv ==
  ASSUME Inv, NEW c \in Clients, OldRead(c)
  PROVE  Inv'
<1>1. TypeOK /\ Apart /\ th[c].pc = "oldread" /\ Running(c)
  BY DEF Inv, OldRead, Running
<1>2. ThreadOK(th[c]) /\ th[c].key \in Keys /\ KeyInv(th[c].key) /\ th[c].t0 <= now
  BY <1>1, ThreadIs DEF Inv
<1>3. disk[th[c].key] \in Record \cup {Absent}
  BY <1>1, <1>2 DEF TypeOK
<1>4. /\ DOMAIN th' = Clients /\ \A d \in Clients \ {c} : th'[d] = th[d]
      /\ DOMAIN th'[c] = Fields /\ th'[c].cmd = th[c].cmd /\ th'[c].key = th[c].key /\ th'[c].part = th[c].part
      /\ th'[c].t0 = th[c].t0 /\ th'[c].since = th[c].since /\ th'[c].new = th[c].new /\ th'[c].rec = th[c].rec
      /\ th'[c].pc = (IF th[c].part = "type" THEN "del" ELSE "apply")
      /\ th'[c].prev = expOf(disk[th[c].key])
  BY <1>1, <1>2 DEF OldRead, TypeOK, Fields, ThreadOK
<1>5. disk' = disk /\ index' = index /\ dict' = dict /\ now' = now /\ cycle' = cycle /\ evict' = evict /\ crashes' = crashes
  BY DEF OldRead, Local, store
<1>6. th[c].cmd.op # "GET" /\ th[c].key \in keysOf(th[c].cmd) /\ (th[c].part # "type" => th[c].new # Absent)
  BY <1>1, <1>2 DEF ThreadOK, getTypedPCs, putPCs
<1>7. expOf(disk[th[c].key]) \in Nat
  BY <1>3, RecordIs DEF expOf
<1>8. ThreadOK(th[c])'
  <2>1. th'[c].pc \in {"look", "got", "reply"} \cup putPCs \cup deletePCs
    BY <1>4 DEF putPCs, deletePCs
  <2>2. ThreadOK(th'[c])
    <3>1. th'[c].key = Target(th'[c])
      BY <1>1, <1>2, <1>4 DEF ThreadOK, Target, putPCs
    <3>2. /\ th'[c].part \in {"main", "type", "dst", "nx"} /\ th[c].rec \in Record \cup {Absent} /\ th[c].new \in Record \cup {Absent}
          /\ th[c].t0 \in Nat /\ th[c].since <= th[c].t0 /\ (th[c].part \in {"dst", "nx"} => isRenameNX(th[c].cmd))
          /\ (th[c].part = "nx" => th[c].new # Absent)
      BY <1>1, <1>2, <1>4 DEF ThreadOK
    <3> QED
      BY <1>1, <1>2, <1>4, <1>6, <1>7, <2>1, <3>1, <3>2, WithinCommand
  <2> QED
    BY <1>5, <2>2, SameTime
<1>9. ThreadIndexed(c)'
  BY <1>2, <1>4, <1>5 DEF ThreadIndexed, KeyInv, KeyIndexed, expOf
<1>10. ThreadCoherent(c)'
  BY <1>4, <1>5 DEF ThreadCoherent, expOf
<1> QED
  BY <1>1, <1>4, <1>5, <1>8, <1>9, <1>10, RunningStep DEF ThreadInv

\* What a handler of a writing command may do with the record getTyped found: answer, look another key
\* up, have the old deadline looked up, or overwrite the record knowing its deadline.
LEMMA HandlerStep ==
  ASSUME Inv, NEW c \in Clients, th[c].pc = "got", th[c].cmd.op # "GET", Local,
         DOMAIN th' = Clients, \A d \in Clients \ {c} : th'[d] = th[d],
         DOMAIN th'[c] = Fields, th'[c].cmd = th[c].cmd, th'[c].key \in keysOf(th[c].cmd),
         th'[c].part \in {"main", "type", "dst", "nx"}, th'[c].part \in {"dst", "nx"} => isRenameNX(th[c].cmd),
         th'[c].pc = "reply" \/ th'[c].key = Target(th'[c]), th'[c].since = th[c].since, th'[c].rec \in {th[c].rec, Absent},
         th'[c].t0 \in {th[c].t0, now}, th'[c].new \in Record \cup {Absent}, th'[c].part = "nx" => th'[c].new # Absent,
         \/ th'[c].pc \in {"reply", "look"} /\ th'[c].prev = th[c].prev
         \/ th'[c].pc = "old" /\ th'[c].prev = th[c].prev /\ (th'[c].part = "type" \/ th'[c].new # Absent)
         \/ /\ th'[c].pc = "apply" /\ th'[c].prev = expOf(th[c].rec) /\ th'[c].part # "type" /\ th'[c].new # Absent
            /\ th'[c].key = th[c].key
  PROVE  Inv'
<1>1. TypeOK /\ Running(c) /\ ThreadInv(c)
  BY DEF Inv, Running
<1>2. ThreadOK(th[c]) /\ th[c].t0 \in Nat /\ th[c].t0 <= now /\ now \in Nat
  BY <1>1, ThreadIs
<1>3. th[c].rec \in Record \cup {Absent} /\ th[c].prev \in Nat
  BY <1>2 DEF ThreadOK
<1>4. expOf(th[c].rec) \in Nat
  BY <1>3, RecordIs DEF expOf
<1>5. disk' = disk /\ index' = index /\ dict' = dict /\ now' = now /\ cycle' = cycle /\ evict' = evict /\ crashes' = crashes
  BY DEF Local, store
<1>6. ThreadOK(th[c])'
  <2>1. th'[c].pc \in {"look", "got", "reply"} \cup putPCs \cup deletePCs
    BY DEF putPCs, deletePCs
  <2>2. th'[c].t0 \in Nat /\ th'[c].t0 <= now /\ th'[c].prev \in Nat /\ th'[c].rec \in Record \cup {Absent} /\ th'[c].since <= th'[c].t0
    BY <1>2, <1>3, <1>4, SMTT(30) DEF ThreadOK
  <2>3. th'[c].pc \in putPCs /\ th'[c].part # "type" => th'[c].new # Absent
    BY DEF putPCs
  <2>4. ThreadOK(th'[c])
    BY <1>2, <2>1, <2>2, <2>3, WithinCommand
  <2> QED
    BY <1>5, <2>4, SameTime
<1>7. CASE th'[c].pc \in {"reply", "look", "old"}
  BY <1>1, <1>5, <1>6, <1>7, Uncommitted, RunningStep
<1>8. CASE th'[c].pc = "apply" /\ th'[c].prev = expOf(th[c].rec) /\ th'[c].key = th[c].key
  <2>1. ThreadIndexed(c)'
    BY <1>1, <1>5, <1>8 DEF ThreadInv, ThreadIndexed, expOf
  <2>2. Persist => ThreadCoherent(c)'
    BY <1>1, <1>5, <1>8, SMTT(30) DEF ThreadInv, ThreadCoherent, expOf
  <2> QED
    BY <1>1, <1>5, <1>6, <2>1, <2>2, RunningStep DEF ThreadInv, Persist
<1> QED
  BY <1>7, <1>8

LEMMA cmdGetInv ==
  ASSUME Dispatched, Inv, NEW c \in Clients, cmdGet(c)
  PROVE  Inv'
<1>1. TypeOK /\ th[c].pc = "got" /\ Running(c)
  BY DEF Inv, cmdGet, Decide, Running
<1>2. ThreadOK(th[c]) /\ th[c].cmd \in Commands
  BY <1>1, ThreadIs
<1>3. /\ DOMAIN th' = Clients /\ \A d \in Clients \ {c} : th'[d] = th[d]
      /\ DOMAIN th'[c] = Fields /\ th'[c].cmd = th[c].cmd /\ th'[c].key = th[c].key /\ th'[c].part = th[c].part
      /\ th'[c].t0 = th[c].t0 /\ th'[c].since = th[c].since /\ th'[c].new = th[c].new /\ th'[c].rec = th[c].rec /\ th'[c].prev = th[c].prev
      /\ th'[c].pc = "reply"
  BY <1>1, <1>2 DEF cmdGet, TypeOK, ThreadOK, Fields
<1>4. ThreadOK(th'[c])
  BY <1>1, <1>2, <1>3 DEF ThreadOK, getTypedPCs, putPCs
<1> QED
  BY <1>1, <1>3, <1>4, SameTime, Uncommitted, RunningStep DEF cmdGet, Local, store

\* What is known of a command that has its record.
LEMMA GotIs ==
  ASSUME Inv, NEW c \in Clients, th[c].pc = "got"
  PROVE  /\ DOMAIN th = Clients /\ DOMAIN th[c] = Fields /\ th[c].cmd \in Commands /\ th[c].key \in keysOf(th[c].cmd)
         /\ th[c].part \in {"main", "type", "dst", "nx"} /\ th[c].rec \in Record \cup {Absent}
         /\ th[c].new \in Record \cup {Absent} /\ (th[c].part = "nx" => th[c].new # Absent)
         /\ th[c].key = Target(th[c]) /\ (th[c].part \in {"dst", "nx"} => isRenameNX(th[c].cmd))
         /\ (th[c].part # "main" => th[c].cmd.op # "GET")
  BY DEF Inv, TypeOK, ThreadOK

LEMMA TypeOfInv ==
  ASSUME Inv, NEW c \in Clients, TypeOf(c)
  PROVE  Inv'
<1>1. th[c].pc = "got" /\ th[c].part = "type" /\ Local /\ th[c].cmd.op # "GET"
  BY GotIs DEF TypeOf
<1>2. /\ DOMAIN th' = Clients /\ \A d \in Clients \ {c} : th'[d] = th[d]
      /\ DOMAIN th'[c] = Fields /\ th'[c].cmd = th[c].cmd /\ th'[c].key = th[c].key /\ th'[c].part = th[c].part
      /\ th'[c].t0 = th[c].t0 /\ th'[c].since = th[c].since /\ th'[c].new = th[c].new /\ th'[c].rec = th[c].rec /\ th'[c].prev = th[c].prev
      /\ th'[c].pc \in {"reply", "old"}
  BY <1>1, GotIs DEF TypeOf, Goto, Fields
<1>3. th'[c].key = Target(th'[c])
  BY <1>1, <1>2, GotIs DEF Target
<1> QED
  BY <1>1, <1>2, <1>3, GotIs, HandlerStep

LEMMA cmdRenameNXInv ==
  ASSUME Inv, NEW c \in Clients, cmdRenameNX(c)
  PROVE  Inv'
<1>1. th[c].pc = "got" /\ th[c].part = "dst" /\ Local /\ th[c].cmd.op # "GET"
  BY GotIs DEF cmdRenameNX
<1>2. /\ DOMAIN th' = Clients /\ \A d \in Clients \ {c} : th'[d] = th[d]
      /\ DOMAIN th'[c] = Fields /\ th'[c].cmd = th[c].cmd /\ th'[c].key \in {th[c].key, th[c].cmd.key}
      /\ th'[c].part \in {"dst", "main"} /\ th'[c].t0 \in {th[c].t0, now} /\ th'[c].since = th[c].since /\ th'[c].new = th[c].new
      /\ th'[c].rec = th[c].rec /\ th'[c].prev = th[c].prev /\ th'[c].pc \in {"reply", "look"}
  BY <1>1, GotIs, SMTT(30) DEF cmdRenameNX, Goto, Fields
<1>3. th'[c].key \in keysOf(th[c].cmd)
  BY <1>1, <1>2, GotIs DEF keysOf
<1>4. th'[c].pc = "reply" \/ th'[c].key = Target(th'[c])
  BY <1>1, <1>2, GotIs, SMTT(30) DEF Target, putPCs, cmdRenameNX, Goto, Fields
<1> QED
  BY <1>1, <1>2, <1>3, <1>4, GotIs, HandlerStep

\* The parts of a handler: what each does to the goroutine that takes it, and that it keeps Inv.
Others(c) == DOMAIN th' = Clients /\ \A d \in Clients \ {c} : th'[d] = th[d]

LEMMA DoneDoes ==
  ASSUME Inv, NEW c \in Clients, th[c].pc = "got", NEW b, Done(c, b) \/ Goto(c, "reply")
  PROVE  /\ Others(c) /\ DOMAIN th'[c] = Fields /\ th'[c].cmd = th[c].cmd /\ th'[c].since = th[c].since
         /\ th'[c].pc = "reply" /\ th'[c].key = th[c].key /\ th'[c].part = th[c].part /\ th'[c].t0 = th[c].t0
         /\ th'[c].rec = th[c].rec /\ th'[c].new = th[c].new /\ th'[c].prev = th[c].prev
  BY GotIs, SMTT(30) DEF Done, Goto, Fields, Others

LEMMA BeginDeleteDoes ==
  ASSUME Inv, NEW c \in Clients, th[c].pc = "got", NEW k, NEW r, BeginDelete(c, k, r)
  PROVE  /\ Others(c) /\ DOMAIN th'[c] = Fields /\ th'[c].cmd = th[c].cmd /\ th'[c].since = th[c].since
         /\ th'[c].pc = "look" /\ th'[c].key = k /\ th'[c].part = "type" /\ th'[c].t0 = now
         /\ th'[c].rec = Absent /\ th'[c].new = th[c].new /\ th'[c].prev = th[c].prev /\ th'[c].res = r
  BY GotIs, SMTT(30) DEF BeginDelete, Fields, Others

LEMMA BeginPutDoes ==
  ASSUME Inv, NEW c \in Clients, th[c].pc = "got", NEW k, NEW r, BeginPut(c, k, r)
  PROVE  /\ Others(c) /\ DOMAIN th'[c] = Fields /\ th'[c].cmd = th[c].cmd /\ th'[c].since = th[c].since
         /\ th'[c].pc = "old" /\ th'[c].key = k /\ th'[c].part = th[c].part /\ th'[c].t0 = th[c].t0
         /\ th'[c].rec = th[c].rec /\ th'[c].new = r /\ th'[c].prev = th[c].prev
  BY GotIs, SMTT(30) DEF BeginPut, Fields, Others

LEMMA BeginPutOverDoes ==
  ASSUME Inv, NEW c \in Clients, th[c].pc = "got", NEW r, NEW p, BeginPutOver(c, r, p)
  PROVE  /\ Others(c) /\ DOMAIN th'[c] = Fields /\ th'[c].cmd = th[c].cmd /\ th'[c].since = th[c].since
         /\ th'[c].pc = "apply" /\ th'[c].key = th[c].key /\ th'[c].part = th[c].part /\ th'[c].t0 = th[c].t0
         /\ th'[c].rec = th[c].rec /\ th'[c].new = r /\ th'[c].prev = p
  BY GotIs, SMTT(30) DEF BeginPutOver, Fields, Others

LEMMA DoneInv ==
  ASSUME Inv, NEW c \in Clients, th[c].pc = "got", th[c].cmd.op # "GET", Local, NEW b, Done(c, b) \/ Goto(c, "reply")
  PROVE  Inv'
<1>1. /\ DOMAIN th' = Clients /\ (\A d \in Clients \ {c} : th'[d] = th[d]) /\ DOMAIN th'[c] = Fields
      /\ th'[c].cmd = th[c].cmd /\ th'[c].since = th[c].since
      /\ th'[c].pc = "reply" /\ th'[c].key = th[c].key /\ th'[c].part = th[c].part /\ th'[c].t0 = th[c].t0
      /\ th'[c].rec = th[c].rec /\ th'[c].new = th[c].new /\ th'[c].prev = th[c].prev
  BY DoneDoes DEF Others
<1> QED
  BY <1>1, GotIs, HandlerStep

LEMMA BeginDeleteInv ==
  ASSUME Inv, NEW c \in Clients, th[c].pc = "got", th[c].cmd.op # "GET", Local, NEW r, BeginDelete(c, th[c].cmd.key, r)
  PROVE  Inv'
<1>1. /\ DOMAIN th' = Clients /\ (\A d \in Clients \ {c} : th'[d] = th[d]) /\ DOMAIN th'[c] = Fields
      /\ th'[c].cmd = th[c].cmd /\ th'[c].since = th[c].since
      /\ th'[c].pc = "look" /\ th'[c].key = th[c].cmd.key /\ th'[c].part = "type" /\ th'[c].t0 = now
      /\ th'[c].rec = Absent /\ th'[c].new = th[c].new /\ th'[c].prev = th[c].prev
  BY BeginDeleteDoes, SMTT(30) DEF Others
<1>2. th'[c].key = Target(th'[c]) /\ th'[c].key \in keysOf(th[c].cmd)
  BY <1>1 DEF Target, keysOf
<1> QED
  BY <1>1, <1>2, GotIs, HandlerStep

LEMMA BeginPutInv ==
  ASSUME Inv, NEW c \in Clients, th[c].pc = "got", th[c].cmd.op # "GET", Local, th[c].part # "type",
         NEW r \in Record,
         BeginPut(c, IF th[c].cmd.op = "RENAME" THEN th[c].cmd.dst ELSE th[c].cmd.key, r)
  PROVE  Inv'
<1>1. /\ DOMAIN th' = Clients /\ (\A d \in Clients \ {c} : th'[d] = th[d]) /\ DOMAIN th'[c] = Fields
      /\ th'[c].cmd = th[c].cmd /\ th'[c].since = th[c].since
      /\ th'[c].pc = "old" /\ th'[c].part = th[c].part /\ th'[c].t0 = th[c].t0
      /\ th'[c].key = IF th[c].cmd.op = "RENAME" THEN th[c].cmd.dst ELSE th[c].cmd.key
      /\ th'[c].rec = th[c].rec /\ th'[c].new = r /\ th'[c].prev = th[c].prev
  BY BeginPutDoes, SMTT(30) DEF Others
<1>2. th'[c].key = Target(th'[c]) /\ th'[c].key \in keysOf(th[c].cmd)
  BY <1>1, GotIs, SMTT(30) DEF Target, keysOf, putPCs, isRenameNX
<1>3. r # Absent
  BY RecordIs
<1> QED
  BY <1>1, <1>2, <1>3, GotIs, HandlerStep

LEMMA BeginPutOverInv ==
  ASSUME Inv, NEW c \in Clients, th[c].pc = "got", th[c].cmd.op \notin {"GET", "RENAME"}, Local, th[c].part # "type",
         NEW r \in Record, BeginPutOver(c, r, expOf(th[c].rec))
  PROVE  Inv'
<1>1. /\ DOMAIN th' = Clients /\ (\A d \in Clients \ {c} : th'[d] = th[d]) /\ DOMAIN th'[c] = Fields
      /\ th'[c].cmd = th[c].cmd /\ th'[c].since = th[c].since
      /\ th'[c].pc = "apply" /\ th'[c].part = th[c].part /\ th'[c].t0 = th[c].t0
      /\ th'[c].key = th[c].key
      /\ th'[c].rec = th[c].rec /\ th'[c].new = r /\ th'[c].prev = expOf(th[c].rec)
  BY BeginPutOverDoes DEF Others
<1>2. th'[c].key = Target(th'[c])
  BY <1>1, GotIs DEF Target
<1>3. r # Absent
  BY RecordIs
<1> QED
  BY <1>1, <1>2, <1>3, GotIs, HandlerStep

LEMMA ExpIs ==
  ASSUME NEW r \in Record \cup {Absent}
  PROVE  expOf(r) \in Nat /\ valOf(r) \in Values
  BY RecordIs DEF expOf, valOf, Values

LEMMA setStringInv ==
  ASSUME Inv, NEW c \in Clients, setString(c)
  PROVE  Inv'
<1> DEFINE q == th[c].cmd
           deadline == IF "KEEPTTL" \in q.opts THEN expOf(th[c].rec) ELSE q.at
<1>1. th[c].pc = "got" /\ th[c].part = "main" /\ q.op = "SET" /\ Local
  BY DEF setString, Decide, Done
<1>2. \/ Done(c, FALSE) \/ BeginDelete(c, q.key, [NoResult EXCEPT !.hit = TRUE])
      \/ BeginPutOver(c, [val |-> q.val, exp |-> deadline], expOf(th[c].rec))
  BY DEF setString
<1>3. [val |-> q.val, exp |-> deadline] \in Record
  BY <1>1, GotIs, CommandIs, ExpIs DEF Record
<1> QED
  BY <1>1, <1>2, <1>3, DoneInv, BeginDeleteInv, BeginPutOverInv

LEMMA cmdDelInv ==
  ASSUME Inv, NEW c \in Clients, cmdDel(c)
  PROVE  Inv'
<1>1. th[c].pc = "got" /\ th[c].part = "main" /\ th[c].cmd.op = "DEL" /\ Local
  BY DEF cmdDel, Decide
<1>2. Goto(c, "reply") \/ BeginDelete(c, th[c].cmd.key, [NoResult EXCEPT !.hit = TRUE])
  BY <1>1, GotIs DEF cmdDel, Target
<1> QED
  BY <1>1, <1>2, DoneInv, BeginDeleteInv

LEMMA setExpiryInv ==
  ASSUME Inv, NEW c \in Clients, setExpiry(c)
  PROVE  Inv'
<1> DEFINE q == th[c].cmd
           r == [th[c].rec EXCEPT !.exp = q.at]
<1>1. th[c].pc = "got" /\ th[c].part = "main" /\ q.op = "EXPIRE" /\ Local
  BY DEF setExpiry, Decide, Done
<1>2. \/ Done(c, FALSE) \/ BeginDelete(c, q.key, [NoResult EXCEPT !.hit = TRUE])
      \/ th[c].rec # Absent /\ BeginPutOver(c, r, expOf(th[c].rec))
  BY DEF setExpiry
<1>3. th[c].rec # Absent => r \in Record
  BY <1>1, GotIs, CommandIs DEF Record
<1> HIDE DEF r
<1> QED
  BY <1>1, <1>2, <1>3, DoneInv, BeginDeleteInv, BeginPutOverInv

LEMMA persistInv ==
  ASSUME Inv, NEW c \in Clients, persist(c)
  PROVE  Inv'
<1> DEFINE r == [th[c].rec EXCEPT !.exp = 0]
<1>1. th[c].pc = "got" /\ th[c].part = "main" /\ th[c].cmd.op = "PERSIST" /\ Local
  BY DEF persist, Decide
<1>2. Goto(c, "reply") \/ (th[c].rec # Absent /\ BeginPutOver(c, r, expOf(th[c].rec)))
  BY DEF persist, expOf
<1>3. th[c].rec # Absent => r \in Record
  BY <1>1, GotIs DEF Record
<1> HIDE DEF r
<1> QED
  BY <1>1, <1>2, <1>3, DoneInv, BeginPutOverInv

LEMMA cmdAppendInv ==
  ASSUME Inv, NEW c \in Clients, cmdAppend(c)
  PROVE  Inv'
<1> DEFINE r == [val |-> valOf(th[c].rec) \cup th[c].cmd.val, exp |-> expOf(th[c].rec)]
<1>1. th[c].pc = "got" /\ th[c].part = "main" /\ th[c].cmd.op = "APPEND" /\ Local
  BY DEF cmdAppend, Decide
<1>2. BeginPut(c, IF th[c].cmd.op = "RENAME" THEN th[c].cmd.dst ELSE th[c].cmd.key, r)
  BY <1>1, GotIs DEF cmdAppend, Target
<1>3. valOf(th[c].rec) \cup th[c].cmd.val \in Values
  BY <1>1, GotIs, CommandIs, ExpIs DEF Values
<1>4. r \in Record
  BY <1>1, <1>3, GotIs, ExpIs DEF Record
<1> HIDE DEF r
<1> QED
  BY <1>1, <1>2, <1>4, BeginPutInv

LEMMA renameInv ==
  ASSUME Inv, NEW c \in Clients, rename(c)
  PROVE  Inv'
<1>1. th[c].pc = "got" /\ th[c].part = "main" /\ th[c].cmd.op = "RENAME" /\ Local
  BY DEF rename, Decide, Done
<1>2. CASE th[c].rec # Absent /\ isRenameNX(th[c].cmd)
  <2>1. /\ DOMAIN th' = Clients /\ (\A d \in Clients \ {c} : th'[d] = th[d])
        /\ DOMAIN th'[c] = Fields /\ th'[c].cmd = th[c].cmd /\ th'[c].since = th[c].since
        /\ th'[c].pc = "look" /\ th'[c].key = th[c].cmd.dst /\ th'[c].part = "nx" /\ th'[c].t0 = now
        /\ th'[c].rec = th[c].rec /\ th'[c].new = th[c].rec /\ th'[c].prev = th[c].prev
    BY <1>1, <1>2, GotIs, SMTT(30) DEF rename, Fields, Done
  <2>2. th'[c].key = Target(th'[c]) /\ th'[c].key \in keysOf(th[c].cmd)
    BY <1>1, <2>1 DEF Target, keysOf
  <2> QED
    BY <1>1, <1>2, <2>1, <2>2, GotIs, HandlerStep
<1>3. CASE ~(th[c].rec # Absent /\ isRenameNX(th[c].cmd))
  <2>1. Done(c, FALSE) \/ Done(c, TRUE) \/ (th[c].rec # Absent /\ BeginPut(c, th[c].cmd.dst, th[c].rec))
    BY <1>3 DEF rename
  <2> QED
    BY <1>1, <2>1, GotIs, DoneInv, BeginPutInv
<1> QED
  BY <1>2, <1>3

LEMMA renameNXInv ==
  ASSUME Inv, NEW c \in Clients, renameNX(c)
  PROVE  Inv'
<1>1. th[c].pc = "got" /\ th[c].part = "nx" /\ th[c].cmd.op = "RENAME" /\ th[c].new \in Record /\ Local
  BY GotIs DEF renameNX, isRenameNX
<1>2. Done(c, TRUE) \/ BeginPut(c, th[c].cmd.dst, th[c].new)
  BY <1>1 DEF renameNX, Done
<1> QED
  BY <1>1, <1>2, DoneInv, BeginPutInv

LEMMA HandlerInv ==
  ASSUME Dispatched, Inv, NEW c \in Clients, Handler(c)
  PROVE  Inv'
<1>1. th[c].pc # "alive"
  BY DEF Inv, TypeOK, ThreadOK, getTypedPCs, putPCs, deletePCs
<1>2. ~KeyAlive(c)
  BY <1>1 DEF KeyAlive
<1> QED
  BY <1>2, cmdGetInv, setStringInv, cmdDelInv, setExpiryInv, persistInv, cmdAppendInv, renameInv,
     cmdRenameNXInv, renameNXInv DEF Handler

-----------------------------------------------------------------------------
(* Steps that change the key a command is at.                              *)

LEMMA StoreStep ==
  ASSUME Inv, NEW c \in Clients, Running(c), NEW k \in Keys, th[c].key = k,
         now' = now, cycle' = cycle, evict' = evict, crashes' = crashes,
         disk' \in [Keys -> Record \cup {Absent}], dict' \in [Keys -> Entry \cup {Absent}],
         index' \subseteq (Nat \ {0}) \X Keys,
         \A l \in Keys \ {k} : disk'[l] = disk[l] /\ dict'[l] = dict[l] /\ SamePairs(l),
         DOMAIN th' = Clients, \A d \in Clients \ {c} : th'[d] = th[d], th'[c].pc # "idle" => th'[c].cmd = th[c].cmd,
         ThreadOK(th[c])', ThreadInv(c)', KeyInv(k)',
         \A d \in Clients \ {c} : Running(d) /\ th[d].key = k => ThreadInv(d)'
  PROVE  Inv'
<1>1. TypeOK /\ Apart /\ (\A l \in Keys : KeyInv(l)) /\ (\A d \in Clients : ThreadInv(d)) /\ EvictInv /\ crashes \in Nat
  BY DEF Inv
<1>2. ASSUME NEW l \in Keys \ {k} PROVE KeyInv(l)'
  BY <1>1, <1>2, OtherKey
<1>3. ASSUME NEW d \in Clients \ {c} PROVE ThreadInv(d)'
  <2>1. CASE Running(d) /\ th[d].key # k
    BY <1>1, <2>1, ThreadIs, OtherThread
  <2>2. CASE ~Running(d)
    BY <1>1, <2>2, OtherThread
  <2> QED
    BY <2>1, <2>2
<1>4. \A d \in Clients \ {c} : ThreadOK(th[d])'
  BY <1>1, SMTT(30) DEF TypeOK, ThreadOK
<1>5. TypeOK'
  BY <1>1, <1>4 DEF TypeOK
<1>6. EvictInv'
  BY <1>1 DEF EvictInv, Persist
<1>7. Apart'
  BY <1>1, ApartKept
<1> QED
  BY <1>1, <1>2, <1>3, <1>5, <1>6, <1>7 DEF Inv

\* A step that changes the dict only.
LEMMA DictStep ==
  ASSUME Inv, NEW c \in Clients, Running(c), NEW k \in Keys, th[c].key = k, NEW e \in Entry \cup {Absent},
         dict' = [dict EXCEPT ![k] = e], UNCHANGED <<disk, index, now, cycle, evict, crashes>>,
         DOMAIN th' = Clients, \A d \in Clients \ {c} : th'[d] = th[d], th'[c].pc # "idle" => th'[c].cmd = th[c].cmd,
         ThreadOK(th[c])', ThreadInv(c)', KeyInv(k)'
  PROVE  Inv'
<1>1. TypeOK /\ Apart /\ \A d \in Clients : ThreadInv(d)
  BY DEF Inv
<1>2. dict' \in [Keys -> Entry \cup {Absent}] /\ \A l \in Keys \ {k} : dict'[l] = dict[l]
  BY <1>1 DEF TypeOK
<1>3. \A l : SamePairs(l)
  BY DEF SamePairs
<1>4. ASSUME NEW d \in Clients \ {c}, Running(d), th[d].key = k PROVE ThreadInv(d)'
  <2>1. th[d].pc \notin {"deldisk", "delindex"}
    BY <1>1, <1>4, Alone DEF getTypedPCs
  <2> QED
    BY <1>1, <1>3, <2>1, OtherThread
<1> QED
  <2>1. disk' \in [Keys -> Record \cup {Absent}] /\ index' \subseteq (Nat \ {0}) \X Keys
    BY <1>1 DEF TypeOK
  <2>2. \A l \in Keys \ {k} : disk'[l] = disk[l] /\ dict'[l] = dict[l] /\ SamePairs(l)
    BY <1>2, <1>3
  <2> QED
    BY <1>2, <1>4, <2>1, <2>2, StoreStep

\* The dict entry of k goes.
LEMMA EntryGone ==
  ASSUME TypeOK, NEW k \in Keys, KeyInv(k), NEW c \in Clients, th[c].pc \notin {"cache", "delindex"},
         now' = now, disk' = disk, index' = index, dict'[k] = Absent,
         \A d \in Clients \ {c} : th'[d] = th[d]
  PROVE  KeyInv(k)'
<1>1. KeyIndexed(k)'
  BY DEF KeyInv, KeyIndexed, Live, expOf
<1>2. KeyCoherent(k)'
  BY DEF KeyCoherent, Live
<1>3. Whole => KeyTight(k)'
  <2> SUFFICES ASSUME Whole, NEW e \in Nat, <<e, k>> \in index'
               PROVE  e = expOf(disk[k]) \/ \E d \in Clients : th'[d].pc = "delindex" /\ th'[d].key = k /\ th'[d].prev = e
    BY DEF KeyTight, expOf
  <2>1. e = expOf(disk[k]) \/ \E d \in Clients : th[d].pc = "delindex" /\ th[d].key = k /\ th[d].prev = e
    BY DEF KeyInv, KeyTight
  <2> QED
    BY <2>1
<1> QED
  BY <1>1, <1>2, <1>3 DEF KeyInv, Persist, Whole

LEMMA DropEntryInv ==
  ASSUME Inv, NEW c \in Clients, DropEntry(c)
  PROVE  Inv'
<1>1. TypeOK /\ Running(c) /\ ThreadOK(th[c]) /\ th[c].pc \in {"drop", "olddrop"}
  BY DEF Inv, DropEntry, Running, TypeOK, ThreadOK, getTypedPCs, putPCs, deletePCs
<1>2. th[c].key \in Keys /\ KeyInv(th[c].key) /\ (th[c].pc = "olddrop" => th[c].cmd.op # "GET")
  BY <1>1, ThreadIs DEF Inv, ThreadOK, getTypedPCs
<1>3. /\ DOMAIN th' = Clients /\ (\A d \in Clients \ {c} : th'[d] = th[d])
      /\ DOMAIN th'[c] = Fields /\ th'[c].cmd = th[c].cmd /\ th'[c].key = th[c].key /\ th'[c].part = th[c].part
      /\ th'[c].t0 = th[c].t0 /\ th'[c].since = th[c].since /\ th'[c].new = th[c].new /\ th'[c].rec = th[c].rec /\ th'[c].prev = th[c].prev
      /\ th'[c].pc = IF th[c].pc = "drop" THEN "read" ELSE "oldread"
  BY <1>1 DEF DropEntry, TypeOK, Fields, Goto, ThreadOK
<1>4. PICK k \in Keys : th[c].key = k /\ KeyInv(k) /\ dict' = [dict EXCEPT ![k] = Absent] /\ dict'[k] = Absent
  BY <1>1, <1>2 DEF DropEntry, TypeOK
<1>5. ThreadOK(th'[c])
  BY <1>1, <1>2, <1>3, SMTT(30) DEF ThreadOK, getTypedPCs, putPCs, deletePCs, Target
<1>6. ThreadOK(th[c])' /\ ThreadInv(c)'
  BY <1>3, <1>5, SameTime, Uncommitted DEF DropEntry
<1>7. KeyInv(k)'
  BY <1>1, <1>3, <1>4, EntryGone DEF DropEntry
<1> QED
  BY <1>1, <1>3, <1>4, <1>6, <1>7, DictStep DEF DropEntry

LEMMA GotoDoes ==
  ASSUME TypeOK, NEW c \in Clients, Running(c), NEW l, Goto(c, l)
  PROVE  /\ DOMAIN th' = Clients /\ (\A d \in Clients \ {c} : th'[d] = th[d])
         /\ DOMAIN th'[c] = Fields /\ th'[c].cmd = th[c].cmd /\ th'[c].key = th[c].key /\ th'[c].part = th[c].part
         /\ th'[c].t0 = th[c].t0 /\ th'[c].since = th[c].since /\ th'[c].new = th[c].new /\ th'[c].rec = th[c].rec
         /\ th'[c].prev = th[c].prev /\ th'[c].res = th[c].res /\ th'[c].pc = l
  BY SMTT(30) DEF TypeOK, ThreadOK, Fields, Goto

LEMMA AdmitInv ==
  ASSUME Inv, NEW c \in Clients, Admit(c)
  PROVE  Inv'
<1>1. TypeOK /\ Apart /\ Running(c) /\ ThreadOK(th[c]) /\ th[c].pc = "admit" /\ ThreadInv(c) /\ Goto(c, "got")
  BY DEF Inv, Admit, Running, TypeOK
<1>2. th[c].key \in Keys /\ KeyInv(th[c].key) /\ th[c].rec \in Record
  BY <1>1, ThreadIs DEF Inv, ThreadOK
<1>3. /\ DOMAIN th' = Clients /\ (\A d \in Clients \ {c} : th'[d] = th[d])
      /\ DOMAIN th'[c] = Fields /\ th'[c].cmd = th[c].cmd /\ th'[c].key = th[c].key /\ th'[c].part = th[c].part
      /\ th'[c].t0 = th[c].t0 /\ th'[c].since = th[c].since /\ th'[c].new = th[c].new /\ th'[c].rec = th[c].rec
      /\ th'[c].prev = th[c].prev /\ th'[c].pc = "got"
  BY <1>1, GotoDoes
<1>4. PICK k \in Keys : th[c].key = k /\ KeyInv(k) /\ dict' = [dict EXCEPT ![k] = newEntry(th[c].rec)] /\ dict'[k] = newEntry(th[c].rec)
  BY <1>1, <1>2 DEF Admit, TypeOK
<1>5. ThreadOK(th'[c])
  BY <1>1, <1>3 DEF ThreadOK, getTypedPCs, putPCs, deletePCs, Target
<1>6. UNCHANGED <<disk, index, now, cycle, evict, crashes>>
  BY DEF Admit
<1>7. ThreadOK(th[c])' /\ ThreadInv(c)'
  BY <1>1, <1>3, <1>5, <1>6, SameTime DEF ThreadInv, ThreadIndexed, ThreadCoherent, Persist
<1>8. KeyInv(k)'
  <2>1. newEntry(th[c].rec).exp = th[c].rec.exp /\ th[c].rec # Absent /\ newEntry(th[c].rec) # Absent /\ th[c].rec.exp \in Nat /\ now \in Nat
    BY <1>1, <1>2, NewEntry, RecordIs DEF TypeOK
  <2>2. KeyIndexed(k)'
    BY <1>1, <1>4, <1>6, <2>1, SMTT(30) DEF KeyInv, KeyIndexed, Live, Expired, expOf, ThreadInv, ThreadIndexed
  <2>3. Persist => KeyCoherent(k)'
    BY <1>1, <1>4, <1>6, <2>1 DEF KeyCoherent, Live, Expired, ThreadInv, ThreadCoherent
  <2>4. Whole => KeyTight(k)'
    <3> SUFFICES ASSUME Whole, NEW e \in Nat, <<e, k>> \in index'
                 PROVE  e = expOf(disk[k]) \/ \E d \in Clients : th'[d].pc = "delindex" /\ th'[d].key = k /\ th'[d].prev = e
      BY <1>6 DEF KeyTight, expOf
    <3>1. e = expOf(disk[k]) \/ \E d \in Clients : th[d].pc = "delindex" /\ th[d].key = k /\ th[d].prev = e
      BY <1>4, <1>6 DEF KeyInv, KeyTight
    <3> QED
      BY <1>1, <1>3, <3>1
  <2> QED
    BY <2>2, <2>3, <2>4 DEF KeyInv, Persist, Whole
<1>9. newEntry(th[c].rec) \in Entry \cup {Absent}
  BY <1>2, NewEntry
<1> QED
  BY <1>1, <1>3, <1>4, <1>6, <1>7, <1>8, <1>9, DictStep

LEMMA ReapEntryInv ==
  ASSUME Inv, NEW c \in Clients, ReapEntry(c)
  PROVE  Inv'
<1>1. TypeOK /\ Running(c) /\ ThreadOK(th[c]) /\ th[c].pc = "reap" /\ ThreadInv(c) /\ Goto(c, "reapdisk")
  BY DEF Inv, ReapEntry, Running, TypeOK
<1>2. th[c].key \in Keys /\ KeyInv(th[c].key)
  BY <1>1, ThreadIs DEF Inv
<1>3. /\ DOMAIN th' = Clients /\ (\A d \in Clients \ {c} : th'[d] = th[d])
      /\ DOMAIN th'[c] = Fields /\ th'[c].cmd = th[c].cmd /\ th'[c].key = th[c].key /\ th'[c].part = th[c].part
      /\ th'[c].t0 = th[c].t0 /\ th'[c].since = th[c].since /\ th'[c].new = th[c].new /\ th'[c].rec = th[c].rec
      /\ th'[c].prev = th[c].prev /\ th'[c].pc = "reapdisk"
  BY <1>1, GotoDoes
<1>4. PICK k \in Keys : th[c].key = k /\ KeyInv(k) /\ dict' = [dict EXCEPT ![k] = Absent] /\ dict'[k] = Absent
  BY <1>1, <1>2 DEF ReapEntry, TypeOK
<1>5. ThreadOK(th'[c])
  BY <1>1, <1>3 DEF ThreadOK, getTypedPCs, putPCs, deletePCs, Target
<1>6. UNCHANGED <<disk, index, now, cycle, evict, crashes>>
  BY DEF ReapEntry
<1>7. ThreadOK(th[c])' /\ ThreadInv(c)'
  BY <1>1, <1>3, <1>5, <1>6, SameTime DEF ThreadInv, ThreadIndexed, ThreadCoherent, Persist
<1>8. KeyInv(k)'
  BY <1>1, <1>3, <1>4, <1>6, EntryGone
<1> QED
  BY <1>1, <1>3, <1>4, <1>6, <1>7, <1>8, DictStep

LEMMA DeleteEntryInv ==
  ASSUME Inv, NEW c \in Clients, DeleteEntry(c)
  PROVE  Inv'
<1>1. TypeOK /\ Running(c) /\ ThreadOK(th[c]) /\ th[c].pc = "del" /\ ThreadInv(c) /\ Goto(c, "deldisk")
  BY DEF Inv, DeleteEntry, Running, TypeOK
<1>2. th[c].key \in Keys /\ KeyInv(th[c].key)
  BY <1>1, ThreadIs DEF Inv
<1>3. /\ DOMAIN th' = Clients /\ (\A d \in Clients \ {c} : th'[d] = th[d])
      /\ DOMAIN th'[c] = Fields /\ th'[c].cmd = th[c].cmd /\ th'[c].key = th[c].key /\ th'[c].part = th[c].part
      /\ th'[c].t0 = th[c].t0 /\ th'[c].since = th[c].since /\ th'[c].new = th[c].new /\ th'[c].rec = th[c].rec
      /\ th'[c].prev = th[c].prev /\ th'[c].pc = "deldisk"
  BY <1>1, GotoDoes
<1>4. PICK k \in Keys : th[c].key = k /\ KeyInv(k) /\ dict' = [dict EXCEPT ![k] = Absent] /\ dict'[k] = Absent
  BY <1>1, <1>2 DEF DeleteEntry, TypeOK
<1>5. ThreadOK(th'[c])
  BY <1>1, <1>3 DEF ThreadOK, getTypedPCs, putPCs, deletePCs, Target
<1>6. UNCHANGED <<disk, index, now, cycle, evict, crashes>>
  BY DEF DeleteEntry
<1>7. ThreadOK(th[c])' /\ ThreadInv(c)'
  BY <1>1, <1>3, <1>4, <1>5, <1>6, SameTime DEF ThreadInv, ThreadIndexed, ThreadCoherent, Persist, expOf
<1>8. KeyInv(k)'
  BY <1>1, <1>3, <1>4, <1>6, EntryGone
<1> QED
  BY <1>1, <1>3, <1>4, <1>6, <1>7, <1>8, DictStep

\* Only c deletes at its key, and the pairs of the index that some delete still has to take are kept.
LEMMA TightKept ==
  ASSUME NEW k \in Keys, KeyInv(k), NEW c \in Clients, th[c].pc # "delindex", UNCHANGED <<disk, index>>,
         \A d \in Clients \ {c} : th'[d] = th[d]
  PROVE  Whole => KeyTight(k)'
<1> SUFFICES ASSUME Whole, NEW e \in Nat, <<e, k>> \in index'
             PROVE  e = expOf(disk[k]) \/ \E d \in Clients : th'[d].pc = "delindex" /\ th'[d].key = k /\ th'[d].prev = e
  BY DEF KeyTight, expOf
<1>1. e = expOf(disk[k]) \/ \E d \in Clients : th[d].pc = "delindex" /\ th[d].key = k /\ th[d].prev = e
  BY DEF KeyInv, KeyTight
<1> QED
  BY <1>1

LEMMA PutDictInv ==
  ASSUME Inv, NEW c \in Clients, PutDict(c)
  PROVE  Inv'
<1>1. TypeOK /\ Apart /\ Running(c) /\ ThreadOK(th[c]) /\ th[c].pc = "cache" /\ ThreadInv(c)
  BY DEF Inv, PutDict, Running, TypeOK
<1>2. /\ th[c].key \in Keys /\ KeyInv(th[c].key) /\ th[c].new \in Record /\ th[c].cmd.op # "GET" /\ th[c].cmd.key \in keysOf(th[c].cmd)
      /\ now \in Nat
  BY <1>1, ThreadIs DEF Inv, ThreadOK, getTypedPCs, putPCs, keysOf, TypeOK
<1>3. /\ DOMAIN th' = Clients /\ (\A d \in Clients \ {c} : th'[d] = th[d])
      /\ DOMAIN th'[c] = Fields /\ th'[c].cmd = th[c].cmd /\ th'[c].since = th[c].since
      /\ th'[c].new = th[c].new /\ th'[c].prev = th[c].prev
      /\ \/ th'[c].pc = "reply" /\ th'[c].key = th[c].key /\ th'[c].part = th[c].part /\ th'[c].t0 = th[c].t0 /\ th'[c].rec = th[c].rec
         \/ th'[c].pc = "look" /\ th'[c].key = th[c].cmd.key /\ th'[c].part = "type" /\ th'[c].t0 = now /\ th'[c].rec = Absent
  BY <1>1, SMTT(30) DEF PutDict, BeginDelete, Goto, TypeOK, ThreadOK, Fields
<1>4. PICK k \in Keys : th[c].key = k /\ KeyInv(k) /\ dict' = [dict EXCEPT ![k] = newEntry(th[c].new)] /\ dict'[k] = newEntry(th[c].new)
  BY <1>1, <1>2 DEF PutDict, TypeOK
<1>5. ThreadOK(th'[c])
  BY <1>1, <1>2, <1>3, SMTT(30) DEF ThreadOK, getTypedPCs, putPCs, deletePCs, Target
<1>6. UNCHANGED <<disk, index, now, cycle, evict, crashes>>
  BY DEF PutDict
<1>7. ThreadOK(th[c])' /\ ThreadInv(c)'
  BY <1>3, <1>5, <1>6, SameTime, Uncommitted
<1>8. KeyInv(k)'
  <2>1. newEntry(th[c].new).exp = th[c].new.exp /\ th[c].new # Absent
    BY <1>2, NewEntry, RecordIs
  <2>2. KeyIndexed(k)'
    BY <1>1, <1>4, <1>6, <2>1, SMTT(30) DEF KeyInv, KeyIndexed, expOf, ThreadInv, ThreadIndexed
  <2>3. Persist => KeyCoherent(k)'
    BY <1>1, <1>4, <1>6, <2>1 DEF KeyCoherent, ThreadInv, ThreadCoherent
  <2> QED
    BY <1>1, <1>3, <1>4, <1>6, <2>2, <2>3, TightKept DEF KeyInv, Persist, Whole
<1>9. newEntry(th[c].new) \in Entry \cup {Absent}
  BY <1>2, NewEntry
<1> QED
  BY <1>1, <1>3, <1>4, <1>6, <1>7, <1>8, <1>9, DictStep

LEMMA PutDiskInv ==
  ASSUME Inv, NEW c \in Clients, PutDisk(c)
  PROVE  Inv'
<1>1. TypeOK /\ Apart /\ Running(c) /\ ThreadOK(th[c]) /\ th[c].pc = "apply" /\ ThreadInv(c) /\ Goto(c, "cache")
  BY DEF Inv, PutDisk, Running, TypeOK
<1>2. /\ th[c].key \in Keys /\ KeyInv(th[c].key) /\ th[c].new \in Record /\ th[c].cmd.op # "GET" /\ th[c].prev \in Nat
      /\ index \subseteq (Nat \ {0}) \X Keys
  BY <1>1, ThreadIs DEF Inv, ThreadOK, getTypedPCs, putPCs, TypeOK
<1>3. /\ DOMAIN th' = Clients /\ (\A d \in Clients \ {c} : th'[d] = th[d])
      /\ DOMAIN th'[c] = Fields /\ th'[c].cmd = th[c].cmd /\ th'[c].key = th[c].key /\ th'[c].part = th[c].part
      /\ th'[c].t0 = th[c].t0 /\ th'[c].since = th[c].since /\ th'[c].new = th[c].new /\ th'[c].rec = th[c].rec
      /\ th'[c].prev = th[c].prev /\ th'[c].pc = "cache"
  BY <1>1, GotoDoes
<1>4. PICK k \in Keys : th[c].key = k /\ KeyInv(k) /\ disk' = [disk EXCEPT ![k] = th[c].new] /\ disk'[k] = th[c].new
  BY <1>1, <1>2 DEF PutDisk, TypeOK
<1>5. ThreadOK(th'[c])
  BY <1>1, <1>3 DEF ThreadOK, getTypedPCs, putPCs, deletePCs, Target
<1>6. UNCHANGED <<dict, now, cycle, evict, crashes>>
  BY DEF PutDisk
<1> DEFINE new == th[c].new.exp
           prev == th[c].prev
<1>7. new \in Nat /\ th[c].new # Absent
  BY <1>2, RecordIs
<1>8. /\ \A p \in index' : p \in index \/ (p = <<new, k>> /\ new # 0)
      /\ \A e, l : l # k => (<<e, l>> \in index' <=> <<e, l>> \in index)
      /\ \A e : <<e, k>> \in index' => e = new \/ (<<e, k>> \in index /\ e # prev)
      /\ new # 0 => <<new, k>> \in index'
  <2>1. index' = (index \ {<<e, k>> : e \in {prev} \ {0, new}}) \cup {<<e, k>> : e \in {new} \ {0, prev}}
    BY <1>4, SMTT(30) DEF PutDisk
  <2>2. prev # 0 => <<prev, k>> \in index
    BY <1>1, <1>4 DEF ThreadInv, ThreadIndexed
  <2>3. <<0, k>> \notin index
    BY <1>2
  <2> HIDE DEF new, prev
  <2> QED
    BY <2>1, <2>2, <2>3
<1>9. index' \subseteq (Nat \ {0}) \X Keys
  BY <1>2, <1>7, <1>8, SMTT(30)
<1>10. \A d \in Clients \ {c} : Running(d) => th[d].key # k
  BY <1>1, <1>2, <1>4, Alone
<1>11. ThreadOK(th[c])' /\ ThreadInv(c)'
  BY <1>3, <1>4, <1>5, <1>6, <1>8, SameTime DEF ThreadInv, ThreadIndexed, ThreadCoherent
<1>12. KeyInv(k)'
  <2>1. Caching(k)'
    BY <1>3, <1>4 DEF Caching
  <2>2. KeyIndexed(k)' /\ KeyCoherent(k)'
    BY <1>4, <1>7, <1>8, <2>1 DEF KeyIndexed, KeyCoherent, expOf
  <2>3. Whole => KeyTight(k)'
    <3> SUFFICES ASSUME Whole, NEW e \in Nat, <<e, k>> \in index', e # new
                 PROVE  FALSE
      BY <1>4, <1>7 DEF KeyTight, expOf
    <3>1. <<e, k>> \in index /\ e # prev
      BY <1>8
    <3>2. e = expOf(disk[k]) \/ \E d \in Clients : th[d].pc = "delindex" /\ th[d].key = k /\ th[d].prev = e
      BY <1>4, <3>1 DEF KeyInv, KeyTight
    <3>3. prev = expOf(disk[k])
      BY <1>1, <1>4 DEF Whole, ThreadInv, ThreadCoherent
    <3> QED
      BY <1>1, <1>10, <3>1, <3>2, <3>3 DEF Running
  <2> QED
    BY <2>2, <2>3 DEF KeyInv, Whole
<1>13. \A l \in Keys \ {k} : disk'[l] = disk[l] /\ dict'[l] = dict[l] /\ SamePairs(l)
  BY <1>1, <1>4, <1>6, <1>8 DEF TypeOK, SamePairs
<1>14. disk' \in [Keys -> Record \cup {Absent}] /\ dict' \in [Keys -> Entry \cup {Absent}]
  BY <1>1, <1>2, <1>4, <1>6 DEF TypeOK
<1> QED
  BY <1>1, <1>3, <1>4, <1>6, <1>9, <1>10, <1>11, <1>12, <1>13, <1>14, StoreStep

LEMMA ReapDiskInv ==
  ASSUME Inv, NEW c \in Clients, ReapDisk(c)
  PROVE  Inv'
<1>1. TypeOK /\ Apart /\ Running(c) /\ ThreadOK(th[c]) /\ th[c].pc = "reapdisk" /\ ThreadInv(c)
  BY DEF Inv, ReapDisk, Running, TypeOK
<1>2. /\ th[c].key \in Keys /\ KeyInv(th[c].key) /\ th[c].rec \in Record /\ Expired(th[c].rec, th[c].t0)
      /\ th[c].t0 \in Nat /\ th[c].t0 <= now /\ now \in Nat /\ ~Caching(th[c].key)
      /\ index \subseteq (Nat \ {0}) \X Keys
  BY <1>1, ThreadIs, NotCaching DEF Inv, ThreadOK, TypeOK
<1>3. /\ DOMAIN th' = Clients /\ (\A d \in Clients \ {c} : th'[d] = th[d])
      /\ DOMAIN th'[c] = Fields /\ th'[c].cmd = th[c].cmd /\ th'[c].key = th[c].key /\ th'[c].part = th[c].part
      /\ th'[c].t0 = th[c].t0 /\ th'[c].since = th[c].since /\ th'[c].new = th[c].new /\ th'[c].rec = Absent
      /\ th'[c].prev = th[c].prev /\ th'[c].pc = "got"
  BY <1>1 DEF ReapDisk, TypeOK, ThreadOK, Fields
<1>4. PICK k \in Keys : th[c].key = k /\ KeyInv(k) /\ disk' = [disk EXCEPT ![k] = Absent] /\ disk'[k] = Absent
  BY <1>1, <1>2 DEF ReapDisk, TypeOK
<1>5. ThreadOK(th'[c])
  BY <1>1, <1>3 DEF ThreadOK, getTypedPCs, putPCs, deletePCs, Target
<1>6. UNCHANGED <<dict, now, cycle, evict, crashes>> /\ index' = index \ {<<th[c].rec.exp, k>>}
  BY <1>4 DEF ReapDisk
<1>7. th[c].rec.exp \in Nat /\ th[c].rec.exp <= now /\ th[c].rec.exp # 0
  BY <1>2, RecordIs, SMTT(30) DEF Expired
<1>8. /\ disk[k] \in {th[c].rec, Absent}
      /\ \A e : dict[k] # Absent /\ e = dict[k].exp => e \in Nat
  BY <1>1, <1>4, EntryIs, SMTT(30) DEF ThreadInv, ThreadIndexed, TypeOK
<1>9. ThreadOK(th[c])' /\ ThreadInv(c)'
  BY <1>3, <1>4, <1>5, <1>6, SameTime DEF ThreadInv, ThreadIndexed, ThreadCoherent, expOf
<1>10. KeyInv(k)'
  <2>1. KeyIndexed(k)'
    <3>1. expOf(disk'[k]) = 0
      BY <1>4 DEF expOf
    <3>2. ASSUME Live(dict[k], now), dict[k].exp # 0 PROVE <<dict[k].exp, k>> \in index'
      <4>1. <<dict[k].exp, k>> \in index
        BY <1>2, <1>4, <3>2 DEF KeyInv, KeyIndexed
      <4>2. dict[k].exp > now
        BY <1>2, <1>8, <3>2, SMTT(30) DEF Live, Expired
      <4> QED
        BY <1>2, <1>6, <1>7, <1>8, <4>1, <4>2, SMTT(30)
    <3> QED
      BY <1>6, <3>1, <3>2 DEF KeyIndexed
  <2>2. Persist => ~Live(dict[k], now)
    BY <1>2, <1>4, <1>7, <1>8, NewEntry DEF KeyInv, KeyCoherent, Live, Expired
  <2>3. Persist => KeyCoherent(k)'
    BY <1>6, <2>2 DEF KeyCoherent
  <2>4. Whole => KeyTight(k)'
    <3> SUFFICES ASSUME Whole, NEW e \in Nat, <<e, k>> \in index'
                 PROVE  FALSE
      BY DEF KeyTight
    <3>1. <<e, k>> \in index /\ e # th[c].rec.exp /\ e # 0
      BY <1>2, <1>6
    <3>2. e = expOf(disk[k]) \/ \E d \in Clients : th[d].pc = "delindex" /\ th[d].key = k /\ th[d].prev = e
      BY <1>4, <3>1 DEF KeyInv, KeyTight
    <3>3. \A d \in Clients : ~(th[d].pc = "delindex" /\ th[d].key = k)
      BY <1>1, <1>4, Alone DEF Running, getTypedPCs
    <3> QED
      BY <1>8, <3>1, <3>2, <3>3 DEF expOf
  <2> QED
    BY <2>1, <2>3, <2>4 DEF KeyInv, Persist, Whole
<1>11. ASSUME NEW d \in Clients \ {c}, Running(d), th[d].key = k PROVE ThreadInv(d)'
  <2>1. th[d].cmd.op = "GET" /\ th[d].pc \in getTypedPCs \cup {"reply"} /\ ThreadInv(d) /\ ThreadOK(th[d]) /\ th'[d] = th[d]
    BY <1>1, <1>3, <1>4, <1>11, Alone, SMTT(30) DEF Inv, TypeOK
  <2>2. th[d].rec # Absent => th[d].rec.exp \in Nat
    BY <2>1, RecordIs DEF ThreadOK
  <2>3. ThreadIndexed(d)'
    <3>1. ASSUME th[d].pc \in {"admit", "got"}, expOf(th[d].rec) # 0, th[d].rec.exp > now
          PROVE  <<th[d].rec.exp, k>> \in index'
      <4>1. <<th[d].rec.exp, k>> \in index
        BY <1>11, <2>1, <3>1 DEF ThreadInv, ThreadIndexed
      <4>2. th[d].rec.exp # th[c].rec.exp
        BY <1>2, <1>7, <2>2, <3>1, SMTT(30) DEF expOf
      <4> QED
        BY <1>6, <4>1, <4>2
    <3> QED
      BY <1>4, <1>6, <1>11, <2>1, <3>1 DEF ThreadIndexed, getTypedPCs, expOf
  <2>4. Persist => ThreadCoherent(d)'
    <3>1. ASSUME Persist, th[d].pc = "admit" PROVE Expired(th[d].rec, now)
      <4>1. th[d].rec = disk[k] \/ Expired(th[d].rec, now)
        BY <1>11, <2>1, <3>1 DEF ThreadInv, ThreadCoherent
      <4>2. th[d].rec # Absent
        BY <2>1, <3>1 DEF ThreadOK
      <4> QED
        BY <1>7, <1>8, <4>1, <4>2 DEF Expired
    <3> QED
      BY <1>6, <2>1, <3>1 DEF ThreadCoherent, getTypedPCs
  <2> QED
    BY <2>3, <2>4 DEF ThreadInv, Persist
<1>12. \A l \in Keys \ {k} : disk'[l] = disk[l] /\ dict'[l] = dict[l] /\ SamePairs(l)
  BY <1>1, <1>4, <1>6 DEF TypeOK, SamePairs
<1>13. disk' \in [Keys -> Record \cup {Absent}] /\ dict' \in [Keys -> Entry \cup {Absent}] /\ index' \subseteq (Nat \ {0}) \X Keys
  BY <1>1, <1>2, <1>4, <1>6 DEF TypeOK
<1> QED
  BY <1>1, <1>3, <1>4, <1>6, <1>9, <1>10, <1>11, <1>12, <1>13, StoreStep

LEMMA DeletePersistedInv ==
  ASSUME Inv, NEW c \in Clients, DeletePersisted(c)
  PROVE  Inv'
<1>1. TypeOK /\ Apart /\ Running(c) /\ ThreadOK(th[c]) /\ th[c].pc = "deldisk" /\ ThreadInv(c)
  BY DEF Inv, DeletePersisted, Running, TypeOK
<1>2. /\ th[c].key \in Keys /\ KeyInv(th[c].key) /\ th[c].cmd.op # "GET" /\ th[c].prev \in Nat
      /\ index \subseteq (Nat \ {0}) \X Keys
  BY <1>1, ThreadIs DEF Inv, ThreadOK, getTypedPCs, TypeOK
<1>3. /\ DOMAIN th' = Clients /\ (\A d \in Clients \ {c} : th'[d] = th[d])
      /\ DOMAIN th'[c] = Fields /\ th'[c].cmd = th[c].cmd /\ th'[c].key = th[c].key /\ th'[c].part = th[c].part
      /\ th'[c].t0 = th[c].t0 /\ th'[c].since = th[c].since /\ th'[c].new = th[c].new /\ th'[c].rec = th[c].rec
      /\ th'[c].prev = th[c].prev /\ th'[c].pc = (IF th[c].prev # 0 THEN "delindex" ELSE "reply")
  BY <1>1, GotoDoes DEF DeletePersisted
<1>4. PICK k \in Keys : th[c].key = k /\ KeyInv(k) /\ disk' = [disk EXCEPT ![k] = Absent] /\ disk'[k] = Absent
  BY <1>1, <1>2 DEF DeletePersisted, TypeOK
<1>5. ThreadOK(th'[c])
  BY <1>1, <1>3 DEF ThreadOK, getTypedPCs, putPCs, deletePCs, Target
<1>6. UNCHANGED <<index, dict, now, cycle, evict, crashes>>
  BY DEF DeletePersisted
<1>7. \A d \in Clients \ {c} : Running(d) => th[d].key # k
  BY <1>1, <1>2, <1>4, Alone
<1>8. dict[k] = Absent
  BY <1>1, <1>4 DEF ThreadInv, ThreadIndexed
<1>9. ThreadOK(th[c])' /\ ThreadInv(c)'
  BY <1>3, <1>4, <1>5, <1>6, <1>8, SameTime DEF ThreadInv, ThreadIndexed, ThreadCoherent
<1>10. KeyInv(k)'
  <2>1. KeyIndexed(k)' /\ KeyCoherent(k)'
    BY <1>4, <1>6, <1>8 DEF KeyIndexed, KeyCoherent, Live, expOf
  <2>2. Whole => KeyTight(k)'
    <3> SUFFICES ASSUME Whole, NEW e \in Nat, <<e, k>> \in index'
                 PROVE  th'[c].pc = "delindex" /\ th'[c].key = k /\ th'[c].prev = e
      BY DEF KeyTight
    <3>1. <<e, k>> \in index /\ e # 0
      BY <1>2, <1>6
    <3>2. e = expOf(disk[k]) \/ \E d \in Clients : th[d].pc = "delindex" /\ th[d].key = k /\ th[d].prev = e
      BY <1>4, <3>1 DEF KeyInv, KeyTight
    <3>3. th[c].prev = expOf(disk[k])
      BY <1>1, <1>4 DEF Whole, ThreadInv, ThreadCoherent
    <3> QED
      BY <1>1, <1>3, <1>4, <1>7, <3>1, <3>2, <3>3 DEF Running
  <2> QED
    BY <2>1, <2>2 DEF KeyInv, Whole
<1>11. \A l \in Keys \ {k} : disk'[l] = disk[l] /\ dict'[l] = dict[l] /\ SamePairs(l)
  BY <1>1, <1>4, <1>6 DEF TypeOK, SamePairs
<1>12. disk' \in [Keys -> Record \cup {Absent}] /\ dict' \in [Keys -> Entry \cup {Absent}] /\ index' \subseteq (Nat \ {0}) \X Keys
  BY <1>1, <1>2, <1>4, <1>6 DEF TypeOK
<1> QED
  BY <1>1, <1>3, <1>4, <1>6, <1>7, <1>9, <1>10, <1>11, <1>12, StoreStep

LEMMA DeleteIndexInv ==
  ASSUME Inv, NEW c \in Clients, DeleteIndex(c)
  PROVE  Inv'
<1>1. TypeOK /\ Apart /\ Running(c) /\ ThreadOK(th[c]) /\ th[c].pc = "delindex" /\ ThreadInv(c) /\ Goto(c, "reply")
  BY DEF Inv, DeleteIndex, Running, TypeOK
<1>2. /\ th[c].key \in Keys /\ KeyInv(th[c].key) /\ th[c].cmd.op # "GET" /\ th[c].prev \in Nat
      /\ index \subseteq (Nat \ {0}) \X Keys
  BY <1>1, ThreadIs DEF Inv, ThreadOK, getTypedPCs, TypeOK
<1>3. /\ DOMAIN th' = Clients /\ (\A d \in Clients \ {c} : th'[d] = th[d])
      /\ DOMAIN th'[c] = Fields /\ th'[c].cmd = th[c].cmd /\ th'[c].key = th[c].key /\ th'[c].part = th[c].part
      /\ th'[c].t0 = th[c].t0 /\ th'[c].since = th[c].since /\ th'[c].new = th[c].new /\ th'[c].rec = th[c].rec
      /\ th'[c].prev = th[c].prev /\ th'[c].pc = "reply"
  BY <1>1, GotoDoes
<1>4. PICK k \in Keys : th[c].key = k /\ KeyInv(k) /\ index' = index \ {<<th[c].prev, k>>}
  BY <1>2 DEF DeleteIndex
<1>5. ThreadOK(th'[c])
  BY <1>1, <1>3 DEF ThreadOK, getTypedPCs, putPCs, deletePCs, Target
<1>6. UNCHANGED <<disk, dict, now, cycle, evict, crashes>>
  BY DEF DeleteIndex
<1>7. \A d \in Clients \ {c} : Running(d) => th[d].key # k
  BY <1>1, <1>2, <1>4, Alone
<1>8. disk[k] = Absent /\ dict[k] = Absent
  BY <1>1, <1>4 DEF ThreadInv, ThreadIndexed
<1>9. ThreadOK(th[c])' /\ ThreadInv(c)'
  BY <1>3, <1>5, <1>6, SameTime, Uncommitted
<1>10. KeyInv(k)'
  <2>1. KeyIndexed(k)' /\ KeyCoherent(k)'
    BY <1>6, <1>8 DEF KeyIndexed, KeyCoherent, Live, expOf
  <2>2. Whole => KeyTight(k)'
    <3> SUFFICES ASSUME Whole, NEW e \in Nat, <<e, k>> \in index'
                 PROVE  FALSE
      BY DEF KeyTight
    <3>1. <<e, k>> \in index /\ e # 0 /\ e # th[c].prev
      BY <1>2, <1>4
    <3>2. e = expOf(disk[k]) \/ \E d \in Clients : th[d].pc = "delindex" /\ th[d].key = k /\ th[d].prev = e
      BY <1>4, <3>1 DEF KeyInv, KeyTight
    <3> QED
      BY <1>7, <1>8, <3>1, <3>2 DEF Running, expOf
  <2> QED
    BY <2>1, <2>2 DEF KeyInv, Whole
<1>11. \A l \in Keys \ {k} : disk'[l] = disk[l] /\ dict'[l] = dict[l] /\ SamePairs(l)
  BY <1>4, <1>6 DEF SamePairs
<1>12. disk' \in [Keys -> Record \cup {Absent}] /\ dict' \in [Keys -> Entry \cup {Absent}] /\ index' \subseteq (Nat \ {0}) \X Keys
  BY <1>1, <1>2, <1>4, <1>6 DEF TypeOK
<1> QED
  BY <1>1, <1>3, <1>4, <1>6, <1>7, <1>9, <1>10, <1>11, <1>12, StoreStep

-----------------------------------------------------------------------------
(* The evictor, the clock and restarts.                                    *)

LEMMA EvictInvKept ==
  ASSUME Inv, NEW k \in Keys, Evict(k)
  PROVE  Inv'
<1>1. TypeOK /\ Apart /\ (\A l \in Keys : KeyInv(l)) /\ (\A d \in Clients : ThreadInv(d)) /\ EvictInv /\ crashes \in Nat
  BY DEF Inv
<1>2. th' = th /\ now' = now /\ cycle' = cycle /\ crashes' = crashes /\ index' = index
  BY DEF Evict, EvictPick, EvictDisk, EvictDict, store
<1>3. Apart' /\ Persist' = Persist /\ Whole' = Whole
  BY <1>1, <1>2 DEF Apart, Running, Persist, Whole
<1>4. EvictInv'
  <2> SUFFICES ASSUME Persist, NEW l \in Keys, evict'[l] = "picked" PROVE FALSE
    BY <1>3 DEF EvictInv
  <2>1. evict[l] # "picked"
    BY <1>1 DEF EvictInv
  <2>2. evict' = evict \/ \E x \in {"none", "deleted"} : evict' = [evict EXCEPT ![k] = x]
    BY DEF Evict, EvictPick, EvictDisk, EvictDict, Persist
  <2> QED
    BY <1>1, <2>1, <2>2 DEF TypeOK
<1>5. /\ \A l \in Keys : dict'[l] \in {dict[l], Absent} /\ disk'[l] \in {disk[l], Absent} /\ (Persist => disk' = disk)
      /\ disk' \in [Keys -> Record \cup {Absent}] /\ dict' \in [Keys -> Entry \cup {Absent}]
  BY <1>1 DEF Evict, EvictPick, EvictDisk, EvictDict, store, EvictInv, TypeOK
<1>6. TypeOK'
  <2>1. evict' \in [Keys -> {"none", "picked", "deleted"}]
    BY <1>1 DEF Evict, EvictPick, EvictDisk, EvictDict, TypeOK
  <2> QED
    BY <1>1, <1>2, <1>5, <2>1, SMTT(30) DEF TypeOK, ThreadOK
<1>7. ASSUME NEW l \in Keys PROVE KeyInv(l)'
  <2>1. Caching(l)' = Caching(l)
    BY <1>2 DEF Caching
  <2>2. KeyIndexed(l)'
    BY <1>1, <1>2, <1>5, <2>1 DEF KeyInv, KeyIndexed, Live, expOf
  <2>3. Persist => KeyCoherent(l)'
    BY <1>1, <1>2, <1>5, <2>1 DEF KeyInv, KeyCoherent, Live, newEntry
  <2>4. Whole => KeyTight(l)'
    BY <1>1, <1>2, <1>5, SMTT(30) DEF KeyInv, KeyTight, Whole, expOf
  <2> QED
    BY <1>3, <2>2, <2>3, <2>4 DEF KeyInv
<1>8. ASSUME NEW d \in Clients PROVE ThreadInv(d)'
  <2>0. CASE ~Running(d)
    BY <1>2, <2>0, Uncommitted DEF Running
  <2>1. CASE Running(d)
    <3>1. th[d].key \in Keys
      BY <1>1, <2>1, ThreadIs
    <3>2. ThreadIndexed(d)'
      BY <1>1, <1>2, <1>5, <3>1 DEF ThreadInv, ThreadIndexed, expOf
    <3>3. Persist => ThreadCoherent(d)'
      BY <1>1, <1>2, <1>5, <3>1 DEF ThreadInv, ThreadCoherent, expOf, Expired
    <3> QED
      BY <1>3, <3>2, <3>3 DEF ThreadInv
  <2> QED
    BY <2>0, <2>1
<1> QED
  BY <1>1, <1>2, <1>3, <1>4, <1>6, <1>7, <1>8 DEF Inv

LEMMA TickInv ==
  ASSUME Inv, Tick
  PROVE  Inv'
<1>1. TypeOK /\ Apart /\ (\A l \in Keys : KeyInv(l)) /\ (\A d \in Clients : ThreadInv(d)) /\ EvictInv /\ crashes \in Nat
  BY DEF Inv
<1>2. th' = th /\ now' = now + 1 /\ disk' = disk /\ index' = index /\ dict' = dict /\ cycle' = cycle /\ evict' = evict
      /\ crashes' = crashes /\ now \in Nat
  BY <1>1 DEF Tick, store, TypeOK
<1>3. Apart' /\ EvictInv' /\ Persist' = Persist /\ Whole' = Whole
  BY <1>1, <1>2 DEF Apart, Running, EvictInv, Persist, Whole
<1>4. TypeOK'
  BY <1>1, <1>2, SMTT(30) DEF TypeOK, ThreadOK, Expired
<1>5. ASSUME NEW l \in Keys PROVE KeyInv(l)'
  <2>1. dict[l] # Absent => dict[l].exp \in Nat
    BY <1>1, EntryIs DEF TypeOK
  <2>2. Live(dict[l], now + 1) => Live(dict[l], now)
    BY <1>2, <2>1, SMTT(30) DEF Live, Expired
  <2>3. KeyIndexed(l)'
    BY <1>1, <1>2, <2>2 DEF KeyInv, KeyIndexed, Caching, expOf
  <2>4. Persist => KeyCoherent(l)'
    BY <1>1, <1>2, <2>2 DEF KeyInv, KeyCoherent, Caching, newEntry
  <2>5. Whole => KeyTight(l)'
    BY <1>1, <1>2, SMTT(30) DEF KeyInv, KeyTight, expOf
  <2> QED
    BY <1>3, <2>3, <2>4, <2>5 DEF KeyInv
<1>6. ASSUME NEW d \in Clients PROVE ThreadInv(d)'
  <2>1. th[d].rec # Absent => th[d].rec.exp \in Nat
    BY <1>1, RecordIs DEF TypeOK, ThreadOK
  <2>2. /\ Expired(th[d].rec, now) => Expired(th[d].rec, now + 1)
        /\ th[d].rec # Absent /\ th[d].rec.exp > now + 1 => th[d].rec.exp > now
    BY <1>2, <2>1, SMTT(30) DEF Expired
  <2>3. ThreadIndexed(d)'
    BY <1>1, <1>2, <2>2 DEF ThreadInv, ThreadIndexed, expOf
  <2>4. Persist => ThreadCoherent(d)'
    BY <1>1, <1>2, <2>2 DEF ThreadInv, ThreadCoherent, expOf
  <2> QED
    BY <1>3, <2>3, <2>4 DEF ThreadInv
<1> QED
  BY <1>1, <1>2, <1>3, <1>4, <1>5, <1>6 DEF Inv

LEMMA CrashInv ==
  ASSUME Inv, Crash
  PROVE  Inv'
<1>1. TypeOK /\ (\A l \in Keys : KeyInv(l)) /\ crashes \in Nat
  BY DEF Inv
<1>2. th' = [c \in Clients |-> IdleThread] /\ now' = now /\ cycle' = NoCycle /\ evict' = [k \in Keys |-> "none"] /\ crashes' = crashes + 1
      /\ crashes < MaxCrashes
  BY DEF Crash
<1>3. \A k \in Keys : disk[k] \in Record \cup {Absent}
  BY <1>1 DEF TypeOK
<1>4. /\ disk' \in [Keys -> Record \cup {Absent}] /\ dict' \in [Keys -> Entry \cup {Absent}]
      /\ index' \subseteq index
      /\ \A k \in Keys : disk'[k] = disk[k] \/ disk'[k] = Absent
      /\ \A k \in Keys : dict'[k] = Absent \/ (Live(disk[k], now) /\ dict'[k] = newEntry(disk[k]) /\ disk'[k] = disk[k])
      /\ \A k \in Keys, e \in Nat : <<e, k>> \in index /\ disk'[k] # Absent => <<e, k>> \in index'
  <2>1. CASE LoadMode = "load-all"
    <3>1. /\ disk' = [k \in Keys |-> IF Swept(disk[k]) THEN Absent ELSE disk[k]]
          /\ index' = index \ Unindexed
          /\ dict' = [k \in Keys |-> IF Live(disk[k], now) THEN newEntry(disk[k]) ELSE Absent]
      BY <2>1 DEF Crash
    <3>2. \A k \in Keys : Live(disk[k], now) => newEntry(disk[k]) \in Entry
      BY <1>3, NewEntry DEF Live
    <3>3. \A k \in Keys, e \in Nat : <<e, k>> \in Unindexed => Swept(disk[k])
      BY DEF Unindexed
    <3> QED
      BY <1>3, <3>1, <3>2, <3>3 DEF Live, Swept
  <2>2. CASE LoadMode # "load-all"
    BY <1>1, <2>2 DEF Crash, TypeOK
  <2> QED
    BY <2>1, <2>2
<1>5. \A c \in Clients : th'[c] = IdleThread /\ th'[c].pc = "idle" /\ ThreadOK(th'[c])
  BY <1>2, IdleOK
<1>6. Apart' /\ EvictInv'
  BY <1>2, <1>5 DEF Apart, Running, EvictInv
<1>7. TypeOK'
  <2>1. \A c \in Clients : ThreadOK(th[c])'
    BY <1>2, <1>5, SameTime
  <2> QED
    BY <1>1, <1>2, <1>4, <2>1 DEF TypeOK
<1>8. \A c \in Clients : ThreadInv(c)'
  BY <1>5, Uncommitted
<1>9. ASSUME NEW k \in Keys PROVE KeyInv(k)'
  <2>1. disk[k] # Absent => disk[k].exp \in Nat /\ newEntry(disk[k]).exp = disk[k].exp
    BY <1>3, RecordIs, NewEntry
  <2>2. KeyIndexed(k)'
    <3>1. expOf(disk[k]) # 0 => <<disk[k].exp, k>> \in index
      BY <1>1 DEF KeyInv, KeyIndexed
    <3>2. expOf(disk'[k]) # 0 => <<disk'[k].exp, k>> \in index'
      BY <1>4, <2>1, <3>1 DEF expOf
    <3>3. dict'[k] # Absent /\ dict'[k].exp # 0 => <<dict'[k].exp, k>> \in index'
      BY <1>4, <2>1, <3>1 DEF expOf, Live
    <3> QED
      BY <3>2, <3>3 DEF KeyIndexed, Live
  <2>3. KeyCoherent(k)'
    BY <1>4 DEF KeyCoherent, Live
  <2>4. ~Whole
    BY <1>1, <1>2, SMTT(30) DEF Whole
  <2> QED
    BY <2>2, <2>3, <2>4 DEF KeyInv, Whole
<1> QED
  BY <1>1, <1>2, <1>6, <1>7, <1>8, <1>9, SMTT(30) DEF Inv

-----------------------------------------------------------------------------
(* The theorems.                                                           *)

LEMMA RunInv ==
  ASSUME Dispatched, Inv, NEW c \in Clients, Run(c)
  PROVE  Inv'
  BY LookupInv, DropEntryInv, ReadDiskInv, AdmitInv, ReapEntryInv, ReapDiskInv, PutDiskInv, PutDictInv, OldLookupInv,
     OldReadInv, TypeOfInv, DeleteEntryInv, DeletePersistedInv, DeleteIndexInv, HandlerInv, ReplyInv
  DEF Run, getTyped, putValue, oldExpiry, deleteKey

LEMMA NextInv ==
  ASSUME Dispatched, Inv, [Next]_vars
  PROVE  Inv'
<1>1. CASE \E c \in Clients : Run(c)
  BY <1>1, RunInv
<1>2. CASE \E c \in Clients, q \in Commands : Invoke(c, q)
  BY <1>2, InvokeInv
<1>3. ~Cycle
  BY DEF Inv, TypeOK, NoCycle, Cycle, CycleStart, CycleCollect, CycleApply, Dispatched
<1>4. CASE \E k \in Keys : Evict(k)
  BY <1>4, EvictInvKept
<1>5. CASE UNCHANGED vars
  <2>1. UNCHANGED <<disk, index, dict, now, th, cycle, evict, crashes>>
    BY <1>5 DEF vars
  <2>2. TypeOK' = TypeOK
    BY <2>1, SMTT(30) DEF TypeOK, ThreadOK
  <2>3. Apart' = Apart /\ EvictInv' = EvictInv
    BY <2>1 DEF Apart, Running, EvictInv, Persist
  <2>4. \A k \in Keys : KeyInv(k) => KeyInv(k)'
    BY <2>1, SMTT(30) DEF KeyInv, KeyIndexed, KeyCoherent, KeyTight, Caching, Persist, Whole
  <2>5. \A c \in Clients : ThreadInv(c) => ThreadInv(c)'
    BY <2>1, SMTT(30) DEF ThreadInv, ThreadIndexed, ThreadCoherent, Persist
  <2> QED
    BY <2>1, <2>2, <2>3, <2>4, <2>5 DEF Inv
<1> QED
  BY <1>1, <1>2, <1>3, <1>4, <1>5, TickInv, CrashInv DEF Next

\* Commands that go through dispatch, with SCAN and the expirer left out, keep
\* Inv, whatever the eviction mode, the load mode and the number of crashes.
THEOREM InvHolds == ASSUME Dispatched PROVE Spec => []Inv
<1>1. Init => Inv
  BY InitInv
<1>2. Inv /\ [Next]_vars => Inv'
  BY NextInv
<1> QED
  BY <1>1, <1>2, PTL DEF Spec

\* Every record with a deadline is in the expiry index at every instant, also
\* after a crash in the middle of putValue or deleteKeyLocked, in both eviction
\* modes: no record with a TTL is ever out of the expirer's sight.
THEOREM ReapableHolds == ASSUME Dispatched PROVE Spec => []Reapable
<1>1. Inv => Reapable
  BY DEF Inv, KeyInv, KeyIndexed, Reapable, IndexOf
<1> QED
  BY <1>1, InvHolds, PTL

\* As long as eviction leaves the records in Pebble, a live dict entry is what
\* newEntry makes of the record: getTyped never serves a value or a TTL that
\* Pebble does not hold, outside putValue's own gap.
THEOREM CacheStaysCoherent == ASSUME Dispatched, Persist PROVE Spec => []CacheCoherent
<1>1. Inv => CacheCoherent
  BY DEF Inv, KeyInv, KeyCoherent, CacheCoherent, Caching
<1> QED
  BY <1>1, InvHolds, PTL

\* Without a crash between the two deletes of deleteKeyLocked, the expiry index
\* holds nothing but the deadlines of records, and the one pair a delete is about
\* to take.
THEOREM IndexStaysTight == ASSUME Dispatched, Whole PROVE Spec => []NoStaleIndex
<1>1. ASSUME Inv PROVE NoStaleIndex
  <2> SUFFICES ASSUME NEW p \in index, p \notin IndexOf
               PROVE  p \in {<<th[c].prev, th[c].key>> : c \in {c \in Clients : th[c].pc = "delindex"}}
    BY DEF NoStaleIndex
  <2>1. p \in (Nat \ {0}) \X Keys
    BY <1>1 DEF Inv, TypeOK
  <2>2. PICK e \in Nat \ {0}, k \in Keys : p = <<e, k>>
    BY <2>1, SMTT(30)
  <2>3. e # expOf(disk[k])
    BY <2>2 DEF IndexOf, expOf
  <2> QED
    BY <1>1, <2>2, <2>3, SMTT(30) DEF Inv, KeyInv, KeyTight
<1> QED
  BY <1>1, InvHolds, PTL

\* No record is taken away before its deadline except by a command's delete or
\* as the victim of eviction: getTyped's lazy expiry and the sweep of Open only
\* take what has expired.
THEOREM NothingRemovedEarly == ASSUME Dispatched PROVE Spec => NoEarlyRemoval
<1> DEFINE A == \A k \in Keys : disk[k] # Absent /\ disk'[k] = Absent
                  => \/ Expired(disk[k], now)
                     \/ \E c \in Clients : th[c].pc = "deldisk" /\ th[c].key = k /\ th'[c] # th[c]
                     \/ evict[k] = "picked" /\ evict'[k] # "picked"
<1>1. ASSUME Dispatched, Inv, [Next]_vars, disk' # disk PROVE A
  <2>1. TypeOK /\ \A c \in Clients : ThreadInv(c)
    BY <1>1 DEF Inv
  <2>2. ASSUME NEW c \in Clients, ReapDisk(c) PROVE A
    <3>1. th[c].pc = "reapdisk" /\ Running(c) /\ ThreadOK(th[c]) /\ th[c].key \in Keys /\ now \in Nat
      BY <2>1, <2>2, ThreadIs DEF ReapDisk, Running
    <3>2. Expired(th[c].rec, th[c].t0) /\ th[c].t0 <= now /\ th[c].t0 \in Nat /\ th[c].rec \in Record
      BY <3>1 DEF ThreadOK
    <3>3. Expired(th[c].rec, now)
      BY <3>1, <3>2, RecordIs, SMTT(30) DEF Expired
    <3>4. disk[th[c].key] \in {th[c].rec, Absent}
      BY <2>1, <3>1 DEF ThreadInv, ThreadIndexed
    <3> QED
      BY <2>1, <2>2, <3>1, <3>3, <3>4 DEF ReapDisk, TypeOK
  <2>3. ASSUME NEW c \in Clients, PutDisk(c) PROVE A
    <3>1. th[c].new # Absent
      BY <2>1, <2>3 DEF PutDisk, TypeOK, ThreadOK, putPCs
    <3> QED
      BY <2>1, <2>3, <3>1 DEF PutDisk, TypeOK
  <2>4. ASSUME NEW c \in Clients, DeletePersisted(c) PROVE A
    <3>1. th[c].pc = "deldisk" /\ th'[c].pc # "deldisk"
      BY <2>1, <2>4, GotoDoes, SMTT(30) DEF DeletePersisted, Running
    <3> QED
      BY <2>1, <2>4, <3>1 DEF DeletePersisted, TypeOK
  <2>5. ASSUME NEW k \in Keys, EvictDisk(k) PROVE A
    BY <2>1, <2>5 DEF EvictDisk, TypeOK
  <2>6. ASSUME Crash PROVE A
    BY <2>1, <2>6 DEF Crash, Swept, TypeOK
  <2>7. ~Cycle
    BY <1>1, <2>1 DEF TypeOK, NoCycle, Cycle, CycleStart, CycleCollect, CycleApply, Dispatched
  <2>8. ASSUME NEW c \in Clients, Run(c) PROVE ReapDisk(c) \/ PutDisk(c) \/ DeletePersisted(c)
    BY <1>1, <2>8 DEF Run, getTyped, putValue, oldExpiry, deleteKey, Handler, Reply, Lookup, DropEntry, ReadDisk, Admit,
       ReapEntry, PutDict, OldLookup, OldRead, TypeOf, DeleteEntry, DeleteIndex, cmdGet, setString, cmdDel, setExpiry,
       persist, cmdAppend, rename, cmdRenameNX, renameNX, KeyAlive, Done, Local, store
  <2>9. ASSUME NEW k \in Keys, Evict(k) PROVE EvictDisk(k)
    BY <1>1, <2>9 DEF Evict, EvictPick, EvictDict, store
  <2>10. ~Tick /\ \A c \in Clients, q \in Commands : ~Invoke(c, q)
    BY <1>1 DEF Tick, Invoke, store
  <2>11. ~UNCHANGED vars
    BY <1>1 DEF vars
  <2> QED
    BY <1>1, <2>2, <2>3, <2>4, <2>5, <2>6, <2>7, <2>8, <2>9, <2>10, <2>11 DEF Next
<1>2. Inv /\ [Next]_vars => [A]_vars
  BY <1>1 DEF vars
<1>3. Spec => [][A]_vars
  BY <1>2, InvHolds, PTL DEF Spec
<1> QED
  BY <1>3 DEF NoEarlyRemoval

=============================================================================
