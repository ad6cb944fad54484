------------------------ MODULE DataPathLinearizable ------------------------
(***************************************************************************)
(* DataPath implements AtomicStore: whatever the dict caches, loses and    *)
(* re-admits, each command takes effect at one instant.                    *)
(***************************************************************************)
EXTENDS DataPathProofs

USE ZenonT(30)

\* What a handler may decide on a key that holds seen: to refuse, to write r, or to delete.
SetRefused(q, seen) == ("NX" \in q.opts /\ seen # Absent) \/ ("XX" \in q.opts /\ seen = Absent)

SetExp(q, seen) == IF "KEEPTTL" \in q.opts THEN expOf(seen) ELSE q.at

ExpireRefused(q, seen) ==
  \/ seen = Absent
  \/ "NX" \in q.opts /\ seen.exp # 0
  \/ "XX" \in q.opts /\ seen.exp = 0
  \/ "GT" \in q.opts /\ (seen.exp = 0 \/ q.at <= seen.exp)
  \/ "LT" \in q.opts /\ seen.exp # 0 /\ q.at >= seen.exp

Refuses(q, seen) ==
  \/ q.op = "SET" /\ SetRefused(q, seen)
  \/ q.op = "EXPIRE" /\ ExpireRefused(q, seen)
  \/ q.op = "DEL" /\ seen = Absent
  \/ q.op = "PERSIST" /\ expOf(seen) = 0
  \/ q.op = "RENAME" /\ seen = Absent

Puts(q, seen, r) ==
  \/ q.op = "SET" /\ ~SetRefused(q, seen) /\ r = [val |-> q.val, exp |-> SetExp(q, seen)]
  \/ q.op = "EXPIRE" /\ ~ExpireRefused(q, seen) /\ q.at # 0 /\ r = [seen EXCEPT !.exp = q.at]
  \/ q.op = "PERSIST" /\ expOf(seen) # 0 /\ r = [seen EXCEPT !.exp = 0]
  \/ q.op = "APPEND" /\ r = [val |-> valOf(seen) \cup q.val, exp |-> expOf(seen)]
  \/ q.op = "RENAME" /\ seen # Absent /\ r = seen

Deletes(q, seen, t) ==
  \/ q.op = "SET" /\ ~SetRefused(q, seen) /\ SetExp(q, seen) # 0 /\ SetExp(q, seen) <= t
  \/ q.op = "EXPIRE" /\ ~ExpireRefused(q, seen) /\ q.at <= t
  \/ q.op = "DEL" /\ seen # Absent

\* Where a goroutine is: in the handler's own reads, before the batch of putValue, before that of deleteKey.
Reading(x) == x.part # "type" /\ x.pc \in getTypedPCs

Putting(x) == x.part # "type" /\ x.pc \in {"old", "olddrop", "oldread", "apply"}

Deleting(x) == x.pc # "idle" /\ x.part = "type" /\ ~Effective(x)

Yes == [NoResult EXCEPT !.hit = TRUE]

\* What the handler found and decided still fits a store D.
LinOK(x, D, t) ==
  /\ x.pc = "idle" => x.cmd = Absent
  /\ x.pc \in {"admit", "got"} => ~Expired(x.rec, x.since)
  /\ Reading(x) => x.res = NoResult
  /\ x.pc # "idle" /\ (x.part = "type" \/ x.pc \in putPCs) => x.res = Yes
  /\ Putting(x) \/ (Reading(x) /\ x.part = "nx")
       => Puts(x.cmd, D[x.cmd.key], x.new) /\ ~Expired(D[x.cmd.key], x.since)
  /\ Putting(x) /\ x.cmd.op = "RENAME" => x.cmd.key # x.cmd.dst
  /\ (Putting(x) \/ (Reading(x) /\ x.part # "dst")) /\ isRenameNX(x.cmd) => D[x.cmd.dst] = Absent
  /\ Deleting(x) => Deletes(x.cmd, D[x.cmd.key], t) /\ ~Expired(D[x.cmd.key], x.since)
  /\ x.pc = "reply" /\ x.part = "type" /\ x.cmd.op = "RENAME" => D[x.cmd.key] = Absent

Lin == \A c \in Clients : LinOK(th[c], disk, now)

-----------------------------------------------------------------------------
(* What a step leaves of the abstract store and the calls.                 *)

LEMMA CallsKept ==
  ASSUME NEW c \in Clients, Others(c), CallOf(th'[c]) = CallOf(th[c])
  PROVE  AbstractCalls' = AbstractCalls
<1>1. \A d \in Clients : CallOf(th'[d]) = CallOf(th[d])
  BY DEF Others
<1>2. AbstractCalls' = [d \in Clients |-> CallOf(th'[d])]
  BY DEF AbstractCalls, CallOf
<1> QED
  BY <1>1, <1>2 DEF AbstractCalls

LEMMA MovedKept ==
  ASSUME NEW c \in Clients, Others(c), NEW k, Moves(th'[c], k) <=> Moves(th[c], k)
  PROVE  Moved(k)' <=> Moved(k)
<1>1. \A d \in Clients : Moves(th'[d], k) <=> Moves(th[d], k)
  BY DEF Others
<1>2. Moved(k)' <=> \E d \in Clients : Moves(th'[d], k)
  BY DEF Moved, Moves
<1> QED
  BY <1>1, <1>2 DEF Moved

\* A key of a running command is moved by that command or not at all.
LEMMA MovedIs ==
  ASSUME TypeOK, Apart, NEW c \in Clients, Running(c), NEW k \in keysOf(th[c].cmd), Moved(k)
  PROVE  Moves(th[c], k)
<1>1. PICK d \in Clients : Moves(th[d], k)
  BY DEF Moved
<1>2. k \in keysOf(th[d].cmd) /\ Running(d) /\ th[d].cmd.op = "RENAME"
  BY <1>1 DEF Moves, keysOf, Running
<1> QED
  BY <1>1, <1>2 DEF Apart

LEMMA StoreKept ==
  ASSUME NEW c \in Clients, Others(c), disk' = disk, \A k : Moves(th'[c], k) <=> Moves(th[c], k)
  PROVE  AbstractStore' = AbstractStore
<1>1. \A k \in Keys : Moved(k)' <=> Moved(k)
  BY MovedKept
<1> QED
  BY <1>1 DEF AbstractStore

\* The decisions of the other commands stand: whoever shares a key with c only reads it.
LEMMA LinOther ==
  ASSUME NEW x, NEW D, NEW E, NEW t, ThreadOK(x), LinOK(x, D, t),
         x.pc = "idle" \/ x.cmd.op = "GET" \/ \A k \in keysOf(x.cmd) : E[k] = D[k]
  PROVE  LinOK(x, E, t)
<1>1. CASE x.pc = "idle" \/ x.cmd.op = "GET"
  <2>1. ~Putting(x) /\ ~(Reading(x) /\ x.part = "nx") /\ ~Deleting(x) /\ ~(x.cmd.op = "RENAME" /\ x.pc # "idle")
    BY <1>1 DEF ThreadOK, Putting, Reading, Deleting, getTypedPCs
  <2> QED
    BY <2>1 DEF LinOK, isRenameNX, Reading, Putting, getTypedPCs
<1>2. CASE \A k \in keysOf(x.cmd) : E[k] = D[k]
  <2>1. E[x.cmd.key] = D[x.cmd.key] /\ (x.cmd.op = "RENAME" => E[x.cmd.dst] = D[x.cmd.dst])
    BY <1>2 DEF keysOf
  <2> QED
    BY <2>1 DEF LinOK, isRenameNX
<1> QED
  BY <1>1, <1>2

LEMMA LinStep ==
  ASSUME Inv, Lin, NEW c \in Clients, Others(c), now' = now, LinOK(th'[c], disk', now),
         \/ disk' = disk
         \/ Running(c) /\ \A l \in Keys \ {th[c].key} : disk'[l] = disk[l]
  PROVE  Lin'
<1>1. TypeOK /\ Apart
  BY DEF Inv
<1>2. ASSUME NEW d \in Clients \ {c} PROVE LinOK(th'[d], disk', now)
  <2>1. th'[d] = th[d] /\ ThreadOK(th[d]) /\ LinOK(th[d], disk, now)
    BY <1>1 DEF Others, TypeOK, Lin
  <2>2. CASE disk' = disk
    BY <2>1, <2>2
  <2>3. CASE Running(c) /\ (\A l \in Keys \ {th[c].key} : disk'[l] = disk[l]) /\ Running(d) /\ th[d].cmd.op # "GET"
    <3>1. \A k \in keysOf(th[d].cmd) : k \in Keys /\ k # th[c].key
      BY <1>1, <2>3, ThreadIs, CommandIs DEF Apart
    <3> QED
      BY <2>1, <2>3, <3>1, LinOther
  <2> QED
    BY <2>1, <2>2, <2>3, LinOther DEF Running
<1>3. \A d \in Clients : LinOK(th'[d], disk', now)
  BY <1>2
<1> QED
  BY <1>3 DEF Lin

\* Nothing the client could tell.
LEMMA Quiet ==
  ASSUME Inv, Lin, NEW c \in Clients, Others(c), now' = now, disk' = disk, LinOK(th'[c], disk, now),
         CallOf(th'[c]) = CallOf(th[c]), \A k : Moves(th'[c], k) <=> Moves(th[c], k)
  PROVE  Lin' /\ UNCHANGED Abstract!vars
  BY LinStep, CallsKept, StoreKept DEF Abstract!vars

-----------------------------------------------------------------------------
(* The abstract steps.                                                     *)

\* The call of c takes effect with answer r.
LEMMA Answers ==
  ASSUME NEW c \in Clients, Others(c), th[c].pc # "idle", th'[c].pc # "idle",
         th'[c].cmd = th[c].cmd, th'[c].since = th[c].since, Effective(th'[c]),
         NEW h \in BOOLEAN, NEW v, AnswerOf(th'[c]) = [hit |-> h, val |-> v]
  PROVE  Abstract!Answer(c, h, v)
<1>1. AbstractCalls' = [d \in Clients |-> CallOf(th'[d])]
  BY DEF AbstractCalls, CallOf
<1>2. CallOf(th'[c]) = [cmd |-> th[c].cmd, since |-> th[c].since, done |-> TRUE, res |-> [hit |-> h, val |-> v]]
  BY DEF CallOf
<1>3. \A d \in Clients \ {c} : CallOf(th'[d]) = CallOf(th[d])
  BY DEF Others
<1>4. AbstractCalls[c] = [cmd |-> th[c].cmd, since |-> th[c].since, done |-> Effective(th[c]), res |-> AnswerOf(th[c])]
  BY DEF AbstractCalls, CallOf
<1>5. DOMAIN AbstractCalls = Clients /\ (\A d \in Clients : AbstractCalls[d] = CallOf(th[d]))
  BY DEF AbstractCalls
<1>6. AbstractCalls[c].cmd = th[c].cmd /\ AbstractCalls[c].since = th[c].since
  BY <1>4, SMTT(30)
<1>7. AbstractCalls' = [AbstractCalls EXCEPT ![c] = CallOf(th'[c])]
  BY <1>1, <1>3, <1>5
<1>8. AbstractCalls' = [AbstractCalls EXCEPT ![c] = [cmd |-> AbstractCalls[c].cmd, since |-> AbstractCalls[c].since, done |-> TRUE,
                                                   res |-> [hit |-> h, val |-> v]]]
  BY <1>2, <1>6, <1>7
<1> QED
  BY <1>8 DEF Abstract!Answer

LEMMA CallIs ==
  ASSUME TypeOK, NEW c \in Clients, Running(c)
  PROVE  /\ AbstractCalls[c].cmd = th[c].cmd /\ AbstractCalls[c].cmd # Absent
         /\ AbstractCalls[c].since = th[c].since /\ (AbstractCalls[c].done <=> Effective(th[c]))
<1>1. th[c].cmd # Absent
  BY ThreadIs, CommandIs
<1> QED
  BY <1>1 DEF AbstractCalls, CallOf

LEMMA Performs ==
  ASSUME TypeOK, NEW c \in Clients, Running(c), ~Effective(th[c]), now' = now, NEW q, th[c].cmd = q,
         NEW seen \in Abstract!Sees(q.key, th[c].since),
         \/ q.op = "GET" /\ Abstract!Get(c, seen)
         \/ q.op = "SET" /\ Abstract!Set(c, q, seen)
         \/ q.op = "DEL" /\ Abstract!Del(c, q, seen)
         \/ q.op = "EXPIRE" /\ Abstract!Expire(c, q, seen)
         \/ q.op = "PERSIST" /\ Abstract!Persist(c, q, seen)
         \/ q.op = "APPEND" /\ Abstract!Append(c, q, seen)
         \/ q.op = "RENAME" /\ \E there \in Abstract!Sees(q.dst, th[c].since) : Abstract!Rename(c, q, seen, there)
  PROVE  Abstract!Next
<1>1. AbstractCalls[c].cmd = q /\ AbstractCalls[c].cmd # Absent /\ AbstractCalls[c].since = th[c].since /\ ~AbstractCalls[c].done
  BY CallIs
<1>2. Abstract!Perform(c)
  BY <1>1 DEF Abstract!Perform
<1> QED
  BY <1>2 DEF Abstract!Next

\* What a call may find under a key that no RENAME has moved away.
LEMMA SeesRecord ==
  ASSUME NEW k \in Keys, ~Moved(k), NEW t, ~Expired(disk[k], t)
  PROVE  disk[k] \in Abstract!Sees(k, t)
  BY DEF Abstract!Sees, Abstract!MayBe, Abstract!Expired, AbstractStore, Expired

LEMMA SeesNothing ==
  ASSUME NEW k \in Keys, ~Moved(k), NEW t, disk[k] = Absent \/ Expired(disk[k], now)
  PROVE  Absent \in Abstract!Sees(k, t)
<1>1. AbstractStore[k] = disk[k]
  BY DEF AbstractStore
<1> QED
  BY <1>1 DEF Abstract!Sees, Abstract!MayBe, Abstract!Expired, Expired

LEMMA SeesSome ==
  ASSUME TypeOK, NEW k \in Keys, NEW t \in Nat, t <= now
  PROVE  \E s : s \in Abstract!Sees(k, t)
<1>1. CASE AbstractStore[k] = Absent
  BY <1>1 DEF Abstract!Sees
<1>2. CASE AbstractStore[k] # Absent
  <2>1. AbstractStore[k] = disk[k] /\ disk[k] \in Record /\ ~Moved(k) /\ now \in Nat
    BY <1>2 DEF AbstractStore, TypeOK
  <2>2. CASE Expired(disk[k], t)
    <3>1. Expired(disk[k], now)
      BY <2>1, <2>2, RecordIs, SMTT(30) DEF Expired
    <3> QED
      BY <2>1, <3>1, SeesNothing
  <2>3. CASE ~Expired(disk[k], t)
    BY <2>1, <2>3, SeesRecord
  <2> QED
    BY <2>2, <2>3
<1> QED
  BY <1>1, <1>2

\* The handler refuses.
LEMMA RefusalPerforms ==
  ASSUME TypeOK, NEW c \in Clients, Running(c), ~Effective(th[c]), now' = now, NEW q, th[c].cmd = q,
         NEW seen \in Abstract!Sees(q.key, th[c].since), seen \in Record \cup {Absent}, Refuses(q, seen),
         Abstract!Refuse(c)
  PROVE  Abstract!Next
<1>1. CASE q.op # "RENAME"
  <2>1. \/ q.op = "SET" /\ Abstract!Set(c, q, seen)
        \/ q.op = "DEL" /\ Abstract!Del(c, q, seen)
        \/ q.op = "EXPIRE" /\ Abstract!Expire(c, q, seen)
        \/ q.op = "PERSIST" /\ Abstract!Persist(c, q, seen)
    BY <1>1 DEF Refuses, SetRefused, ExpireRefused, expOf, Abstract!Set, Abstract!Del, Abstract!Expire, Abstract!Persist
  <2> QED
    BY <2>1, Performs
<1>2. CASE q.op = "RENAME"
  <2>1. PICK there : there \in Abstract!Sees(q.dst, th[c].since)
    <3>1. q.dst \in Keys /\ th[c].since \in Nat /\ th[c].since <= th[c].t0 /\ th[c].t0 \in Nat /\ th[c].t0 <= now /\ now \in Nat
      BY ThreadIs, CommandIs
    <3>2. th[c].since <= now
      BY <3>1, SMTT(30)
    <3> QED
      BY <3>1, <3>2, SeesSome
  <2>2. Abstract!Rename(c, q, seen, there)
    BY <1>2 DEF Refuses, Abstract!Rename
  <2> QED
    BY <1>2, <2>1, <2>2, Performs
<1> QED
  BY <1>1, <1>2

\* RENAMENX refuses because of its destination.
LEMMA DestinationRefuses ==
  ASSUME TypeOK, NEW c \in Clients, Running(c), ~Effective(th[c]), now' = now, NEW q, th[c].cmd = q, isRenameNX(q),
         NEW there \in Abstract!Sees(q.dst, th[c].since), there # Absent, Abstract!Refuse(c)
  PROVE  Abstract!Next
<1>1. PICK seen : seen \in Abstract!Sees(q.key, th[c].since)
  <2>1. q.key \in Keys /\ th[c].since \in Nat /\ th[c].since <= th[c].t0 /\ th[c].t0 \in Nat /\ th[c].t0 <= now /\ now \in Nat
    BY ThreadIs, CommandIs
  <2>2. th[c].since <= now
    BY <2>1, SMTT(30)
  <2> QED
    BY <2>1, <2>2, SeesSome
<1>2. q.op = "RENAME" /\ Abstract!Rename(c, q, seen, there)
  BY DEF Abstract!Rename, isRenameNX
<1> QED
  BY <1>1, <1>2, Performs

\* The batch of putValue.
LEMMA PutPerforms ==
  ASSUME TypeOK, NEW c \in Clients, Running(c), ~Effective(th[c]), now' = now, NEW q, th[c].cmd = q, q.op # "RENAME",
         NEW seen \in Abstract!Sees(q.key, th[c].since), seen \in Record \cup {Absent}, NEW r, Puts(q, seen, r),
         AbstractStore' = [AbstractStore EXCEPT ![q.key] = r], Abstract!Answer(c, TRUE, {})
  PROVE  Abstract!Next
<1>1. Abstract!Put(c, q.key, r)
  BY DEF Abstract!Put, Abstract!MayBe
<1>2. CASE q.op = "SET"
  <2>1. Abstract!Set(c, q, seen)
    BY <1>1, <1>2 DEF Abstract!Set, Puts, SetRefused, SetExp, expOf
  <2> QED
    BY <1>2, <2>1, Performs
<1>3. CASE q.op = "EXPIRE"
  <2>1. Abstract!Expire(c, q, seen)
    BY <1>1, <1>3 DEF Abstract!Expire, Puts, ExpireRefused
  <2> QED
    BY <1>3, <2>1, Performs
<1>4. CASE q.op = "PERSIST"
  <2>1. Abstract!Persist(c, q, seen)
    BY <1>1, <1>4 DEF Abstract!Persist, Puts, expOf
  <2> QED
    BY <1>4, <2>1, Performs
<1>5. CASE q.op = "APPEND"
  <2>1. r = IF seen = Absent THEN [val |-> q.val, exp |-> 0] ELSE [seen EXCEPT !.val = @ \cup q.val]
    <3>1. r = [val |-> valOf(seen) \cup q.val, exp |-> expOf(seen)]
      BY <1>5 DEF Puts
    <3>2. CASE seen = Absent
      <4>1. valOf(seen) \cup q.val = q.val /\ expOf(seen) = 0
        BY <3>2 DEF valOf, expOf
      <4> QED
        BY <3>1, <3>2, <4>1
    <3>3. CASE seen # Absent
      BY <3>1, <3>3, SMTT(30) DEF valOf, expOf, Record
    <3> QED
      BY <3>2, <3>3
  <2>2. Abstract!Append(c, q, seen)
    BY <1>1, <2>1 DEF Abstract!Append
  <2> QED
    BY <1>5, <2>2, Performs
<1> QED
  BY <1>2, <1>3, <1>4, <1>5 DEF Puts

\* The delete of a DEL, or of a SET or EXPIRE with a deadline in the past.
LEMMA DeletePerforms ==
  ASSUME TypeOK, NEW c \in Clients, Running(c), ~Effective(th[c]), now' = now, NEW q, th[c].cmd = q,
         NEW seen \in Abstract!Sees(q.key, th[c].since), seen \in Record \cup {Absent}, Deletes(q, seen, now),
         AbstractStore' = [AbstractStore EXCEPT ![q.key] = Absent], Abstract!Answer(c, TRUE, {})
  PROVE  Abstract!Next
<1>1. Abstract!Remove(c, q.key)
  BY DEF Abstract!Remove
<1>2. ASSUME NEW r, r.exp # 0, r.exp <= now PROVE Abstract!Put(c, q.key, r)
  BY <1>2 DEF Abstract!Put, Abstract!MayBe, Abstract!Expired
<1>3. CASE q.op = "SET"
  <2>1. Abstract!Put(c, q.key, [val |-> q.val, exp |-> SetExp(q, seen)])
    BY <1>2, <1>3 DEF Deletes
  <2>2. Abstract!Set(c, q, seen)
    BY <1>3, <2>1 DEF Abstract!Set, Deletes, SetRefused, SetExp, expOf
  <2> QED
    BY <1>3, <2>2, Performs
<1>4. CASE q.op = "EXPIRE"
  <2>1. seen \in Record /\ ~ExpireRefused(q, seen) /\ q.at <= now
    BY <1>4 DEF Deletes, ExpireRefused
  <2>2. [seen EXCEPT !.exp = q.at].exp = q.at
    BY <2>1, SMTT(30) DEF Record
  <2>3. q.at # 0 => Abstract!Put(c, q.key, [seen EXCEPT !.exp = q.at])
    BY <1>2, <2>1, <2>2
  <2>4. Abstract!Expire(c, q, seen)
    BY <1>1, <2>1, <2>3 DEF Abstract!Expire, ExpireRefused
  <2> QED
    BY <1>4, <2>4, Performs
<1>5. CASE q.op = "DEL"
  <2>1. Abstract!Del(c, q, seen)
    BY <1>1, <1>5 DEF Abstract!Del, Deletes
  <2> QED
    BY <1>5, <2>1, Performs
<1> QED
  BY <1>3, <1>4, <1>5 DEF Deletes

\* The batch that writes the destination of a RENAME.
LEMMA RenamePerforms ==
  ASSUME TypeOK, NEW c \in Clients, Running(c), ~Effective(th[c]), now' = now, NEW q, th[c].cmd = q, q.op = "RENAME",
         NEW seen \in Abstract!Sees(q.key, th[c].since), seen # Absent,
         NEW there \in Abstract!Sees(q.dst, th[c].since), "NX" \in q.opts => there = Absent,
         Abstract!Answer(c, TRUE, {}),
         \/ q.key = q.dst /\ AbstractStore' = AbstractStore
         \/ q.key # q.dst /\ AbstractStore' = [AbstractStore EXCEPT ![q.key] = Absent, ![q.dst] = seen]
  PROVE  Abstract!Next
<1>1. seen \in Abstract!MayBe(seen)
  BY DEF Abstract!MayBe
<1>2. Abstract!Rename(c, q, seen, there)
  BY <1>1 DEF Abstract!Rename
<1> QED
  BY <1>2, Performs

-----------------------------------------------------------------------------
(* The steps of a goroutine that its client cannot tell.                   *)

Step == Abstract!Next \/ UNCHANGED Abstract!vars

Keeps(x, y) == y.cmd = x.cmd /\ y.since = x.since /\ y.part = x.part /\ y.new = x.new /\ y.res = x.res

LEMMA MovesOn ==
  ASSUME NEW x, NEW y, NEW D, NEW t, LinOK(x, D, t), x.pc # "idle", y.pc # "idle", Keeps(x, y),
         y.pc \in {"admit", "got"} => ~Expired(y.rec, y.since),
         Reading(y) => Reading(x), Putting(y) => Putting(x), y.pc \in putPCs => x.pc \in putPCs \/ y.part = "type",
         Effective(y) <=> Effective(x), AnswerOf(y) = AnswerOf(x),
         y.cmd.op = "RENAME" => (y.pc = "cache" <=> x.pc = "cache"),
         y.pc = "reply" /\ y.part = "type" /\ y.cmd.op = "RENAME" => D[y.cmd.key] = Absent
  PROVE  LinOK(y, D, t) /\ CallOf(y) = CallOf(x) /\ \A k : Moves(y, k) <=> Moves(x, k)
<1>1. LinOK(y, D, t)
  BY DEF LinOK, Keeps, Deleting
<1>2. CallOf(y) = CallOf(x)
  <2>1. Effective(x) \in BOOLEAN /\ Effective(y) \in BOOLEAN
    BY DEF Effective
  <2>2. Effective(y) = Effective(x)
    BY <2>1, SMTT(30)
  <2> QED
    BY <2>2 DEF CallOf, Keeps
<1>3. \A k : Moves(y, k) <=> Moves(x, k)
  BY DEF Moves, Keeps
<1> QED
  BY <1>1, <1>2, <1>3

\* The answer of a command other than GET is its result, once there is one.
LEMMA SameAnswer ==
  ASSUME NEW x, NEW y, Keeps(x, y), Effective(y) <=> Effective(x), x.cmd.op # "GET" \/ ~Effective(x)
  PROVE  AnswerOf(y) = AnswerOf(x)
  BY DEF AnswerOf, Keeps

LEMMA LookupDoes ==
  ASSUME Inv, NEW c \in Clients, Lookup(c)
  PROVE  /\ Others(c) /\ Keeps(th[c], th'[c]) /\ th[c].pc = "look" /\ Running(c)
         /\ \/ th'[c].pc \in {"drop", "read"}
            \/ /\ th'[c].pc = "got" /\ Live(dict[th[c].key], now) /\ dict[th[c].key].inline # Absent
               /\ th'[c].rec = [val |-> dict[th[c].key].inline, exp |-> dict[th[c].key].exp]
<1>1. TypeOK /\ th[c].pc = "look" /\ Running(c)
  BY DEF Inv, Lookup, Running
<1>2. DOMAIN th = Clients /\ DOMAIN th[c] = Fields
  BY <1>1 DEF TypeOK, ThreadOK
<1>3. \/ \E l \in {"drop", "read"} : Goto(c, l)
      \/ /\ Live(dict[th[c].key], now) /\ inlineOf(dict[th[c].key]) # Absent
         /\ th' = [th EXCEPT ![c].pc = "got", ![c].rec = [val |-> dict[th[c].key].inline, exp |-> dict[th[c].key].exp]]
  BY DEF Lookup
<1>4. CASE \E l \in {"drop", "read"} : Goto(c, l)
  BY <1>1, <1>4, GotoDoes DEF Others, Keeps
<1>5. CASE ~ \E l \in {"drop", "read"} : Goto(c, l)
  <2> DEFINE r == [val |-> dict[th[c].key].inline, exp |-> dict[th[c].key].exp]
  <2>1. Live(dict[th[c].key], now) /\ dict[th[c].key].inline # Absent /\ th' = [th EXCEPT ![c].pc = "got", ![c].rec = r]
    BY <1>3, <1>5 DEF inlineOf, Live
  <2> HIDE DEF r
  <2>2. Others(c) /\ Keeps(th[c], th'[c]) /\ th'[c].pc = "got" /\ th'[c].rec = r
    BY <1>2, <2>1, SMTT(30) DEF Others, Keeps, Fields
  <2> QED
    BY <1>1, <2>1, <2>2 DEF r
<1> QED
  BY <1>4, <1>5

\* A dict hit is the record that Pebble holds, and it had not expired when the command was called.
LEMMA HitIs ==
  ASSUME Persist, Inv, NEW c \in Clients, Lookup(c), th'[c].pc = "got"
  PROVE  th'[c].rec = disk[th[c].key] /\ disk[th[c].key] \in Record /\ ~Expired(disk[th[c].key], th[c].since)
<1> DEFINE e == dict[th[c].key]
<1>1. TypeOK /\ Apart /\ Running(c) /\ th[c].pc = "look" /\ Live(e, now) /\ e.inline # Absent /\ th'[c].rec = [val |-> e.inline, exp |-> e.exp]
  BY LookupDoes DEF Inv
<1>2. th[c].key \in Keys /\ KeyInv(th[c].key) /\ ~Caching(th[c].key)
  BY <1>1, ThreadIs, NotCaching DEF Inv
<1>3. disk[th[c].key] \in Record /\ e = newEntry(disk[th[c].key])
  BY <1>1, <1>2 DEF KeyInv, KeyCoherent, TypeOK
<1>4. PICK r \in Record : r = disk[th[c].key]
  BY <1>3
<1>5. r.val = e.inline /\ r.exp = e.exp /\ r.exp \in Nat /\ r = [val |-> r.val, exp |-> r.exp] /\ e # Absent
  BY <1>1, <1>3, <1>4, NewEntry, RecordIs
<1>6. ~(r.exp # 0 /\ r.exp <= now)
  BY <1>1, <1>5 DEF Live, Expired
<1>7. th[c].since \in Nat /\ th[c].since <= th[c].t0 /\ th[c].t0 \in Nat /\ th[c].t0 <= now /\ now \in Nat
  BY <1>1, ThreadIs
<1>8. ~(r.exp # 0 /\ r.exp <= th[c].since)
  BY <1>5, <1>6, <1>7, SMTT(30)
<1> QED
  BY <1>1, <1>4, <1>5, <1>8 DEF Expired

LEMMA QuietStep ==
  ASSUME Inv, Lin, NEW c \in Clients, Running(c), Others(c), now' = now, disk' = disk, th'[c].pc # "idle", Keeps(th[c], th'[c]),
         th'[c].pc \in {"admit", "got"} => ~Expired(th'[c].rec, th'[c].since),
         Reading(th'[c]) => Reading(th[c]), Putting(th'[c]) => Putting(th[c]),
         th'[c].pc \in putPCs => th[c].pc \in putPCs \/ th'[c].part = "type",
         Effective(th'[c]) <=> Effective(th[c]), AnswerOf(th'[c]) = AnswerOf(th[c]),
         th'[c].cmd.op = "RENAME" => (th'[c].pc = "cache" <=> th[c].pc = "cache"),
         th'[c].pc = "reply" /\ th'[c].part = "type" /\ th'[c].cmd.op = "RENAME" => disk[th'[c].cmd.key] = Absent
  PROVE  Lin' /\ Step
<1>1. LinOK(th[c], disk, now) /\ th[c].pc # "idle"
  BY DEF Lin, Running
<1>2. LinOK(th'[c], disk, now) /\ CallOf(th'[c]) = CallOf(th[c]) /\ \A k : Moves(th'[c], k) <=> Moves(th[c], k)
  BY <1>1, MovesOn
<1> QED
  BY <1>2, Quiet DEF Step

\* What a step to another place does.
LEMMA GotoKeeps ==
  ASSUME TypeOK, NEW c \in Clients, Running(c), NEW l, Goto(c, l)
  PROVE  /\ Others(c) /\ Keeps(th[c], th'[c]) /\ th'[c].pc = l
         /\ th'[c].rec = th[c].rec /\ th'[c].key = th[c].key /\ th'[c].prev = th[c].prev
  BY GotoDoes DEF Others, Keeps

LEMMA DropEntryLin ==
  ASSUME Inv, Lin, NEW c \in Clients, DropEntry(c)
  PROVE  Lin' /\ Step
<1>1. TypeOK /\ Running(c) /\ ThreadOK(th[c]) /\ th[c].pc \in {"drop", "olddrop"} /\ now' = now /\ disk' = disk
  BY DEF Inv, DropEntry, Running, TypeOK, ThreadOK, getTypedPCs, putPCs, deletePCs
<1>2. Goto(c, IF th[c].pc = "drop" THEN "read" ELSE "oldread")
  BY <1>1 DEF DropEntry
<1>3. Others(c) /\ Keeps(th[c], th'[c]) /\ th'[c].pc = IF th[c].pc = "drop" THEN "read" ELSE "oldread"
  BY <1>1, <1>2, GotoKeeps
<1>4. Effective(th'[c]) <=> Effective(th[c])
  BY <1>1, <1>3 DEF Effective, Keeps
<1>5. th[c].cmd.op # "GET" \/ ~Effective(th[c])
  BY <1>1 DEF Effective, ThreadOK
<1> QED
  BY <1>1, <1>3, <1>4, <1>5, SameAnswer, QuietStep DEF Reading, Putting, Keeps, getTypedPCs, putPCs

LEMMA AdmitLin ==
  ASSUME Inv, Lin, NEW c \in Clients, Admit(c)
  PROVE  Lin' /\ Step
<1>1. TypeOK /\ Running(c) /\ th[c].pc = "admit" /\ now' = now /\ disk' = disk /\ Goto(c, "got") /\ th[c].rec # Absent
  BY DEF Inv, Admit, Running, TypeOK, ThreadOK
<1>2. Others(c) /\ Keeps(th[c], th'[c]) /\ th'[c].pc = "got" /\ th'[c].rec = th[c].rec
  BY <1>1, GotoKeeps
<1>3. Effective(th'[c]) <=> Effective(th[c])
  BY <1>1, <1>2 DEF Effective, Keeps
<1>4. AnswerOf(th'[c]) = AnswerOf(th[c])
  BY <1>1, <1>2, <1>3 DEF AnswerOf, Keeps
<1>5. ~Expired(th'[c].rec, th'[c].since)
  BY <1>1, <1>2 DEF Lin, LinOK, Keeps
<1> QED
  BY <1>1, <1>2, <1>3, <1>4, <1>5, QuietStep DEF Reading, Putting, Keeps, getTypedPCs, putPCs

LEMMA ReapEntryLin ==
  ASSUME Inv, Lin, NEW c \in Clients, ReapEntry(c)
  PROVE  Lin' /\ Step
<1>1. TypeOK /\ Running(c) /\ th[c].pc = "reap" /\ now' = now /\ disk' = disk /\ Goto(c, "reapdisk")
  BY DEF Inv, ReapEntry, Running
<1>2. Others(c) /\ Keeps(th[c], th'[c]) /\ th'[c].pc = "reapdisk" /\ th'[c].rec = th[c].rec
  BY <1>1, GotoKeeps
<1>3. Effective(th'[c]) <=> Effective(th[c])
  BY <1>1, <1>2 DEF Effective, Keeps
<1>4. AnswerOf(th'[c]) = AnswerOf(th[c])
  BY <1>1, <1>2, <1>3 DEF AnswerOf, Keeps
<1> QED
  BY <1>1, <1>2, <1>3, <1>4, QuietStep DEF Reading, Putting, Keeps, getTypedPCs, putPCs

LEMMA OldExpiryDoes ==
  ASSUME Inv, NEW c \in Clients, oldExpiry(c)
  PROVE  /\ Running(c) /\ th[c].pc \in {"old", "oldread"} /\ now' = now /\ disk' = disk /\ Others(c) /\ Keeps(th[c], th'[c])
         /\ th'[c].pc \in {"oldread", "olddrop", IF th[c].part = "type" THEN "del" ELSE "apply"}
         /\ th[c].cmd.op # "GET"
<1>1. TypeOK /\ Running(c) /\ ThreadOK(th[c]) /\ th[c].pc \in {"old", "oldread"} /\ now' = now /\ disk' = disk
  BY DEF Inv, oldExpiry, OldLookup, OldRead, Running, TypeOK, Local, store
<1>2. DOMAIN th = Clients /\ DOMAIN th[c] = Fields /\ th[c].cmd.op # "GET"
  BY <1>1 DEF TypeOK, ThreadOK, getTypedPCs
<1>3. \/ \E l \in {"oldread", "olddrop"} : Goto(c, l)
      \/ \E p : th' = [th EXCEPT ![c].prev = p, ![c].pc = IF th[c].part = "type" THEN "del" ELSE "apply"]
  BY DEF oldExpiry, OldLookup, OldRead
<1>4. CASE \E l \in {"oldread", "olddrop"} : Goto(c, l)
  BY <1>1, <1>2, <1>4, GotoKeeps
<1>5. ASSUME NEW p, th' = [th EXCEPT ![c].prev = p, ![c].pc = IF th[c].part = "type" THEN "del" ELSE "apply"]
      PROVE  Others(c) /\ Keeps(th[c], th'[c]) /\ th'[c].pc = IF th[c].part = "type" THEN "del" ELSE "apply"
  BY <1>2, <1>5, SMTT(30) DEF Others, Keeps, Fields
<1> QED
  BY <1>1, <1>2, <1>3, <1>4, <1>5

LEMMA OldExpiryLin ==
  ASSUME Inv, Lin, NEW c \in Clients, oldExpiry(c)
  PROVE  Lin' /\ Step
<1>1. /\ Running(c) /\ th[c].pc \in {"old", "oldread"} /\ now' = now /\ disk' = disk /\ Others(c) /\ Keeps(th[c], th'[c])
      /\ th'[c].pc \in {"oldread", "olddrop", IF th[c].part = "type" THEN "del" ELSE "apply"}
      /\ th[c].cmd.op # "GET"
  BY OldExpiryDoes
<1>2. Effective(th'[c]) <=> Effective(th[c])
  BY <1>1 DEF Effective, Keeps
<1>3. AnswerOf(th'[c]) = AnswerOf(th[c])
  BY <1>1, <1>2, SameAnswer
<1> QED
  BY <1>1, <1>2, <1>3, QuietStep DEF Reading, Putting, Keeps, getTypedPCs, putPCs

LEMMA TypeOfLin ==
  ASSUME Persist, Inv, Lin, NEW c \in Clients, TypeOf(c)
  PROVE  Lin' /\ Step
<1>1. /\ TypeOK /\ Running(c) /\ th[c].pc = "got" /\ th[c].part = "type" /\ now' = now /\ disk' = disk
      /\ Goto(c, IF th[c].rec = Absent THEN "reply" ELSE "old") /\ ThreadCoherent(c)
  BY DEF Inv, TypeOf, Running, Local, store, ThreadInv
<1>2. Others(c) /\ Keeps(th[c], th'[c]) /\ th'[c].pc = (IF th[c].rec = Absent THEN "reply" ELSE "old") /\ th'[c].rec = th[c].rec
  BY <1>1, GotoKeeps
<1>3. th[c].cmd.op # "GET" /\ th[c].key = th[c].cmd.key
  BY <1>1, GotIs DEF Target
<1>4. Effective(th'[c]) <=> Effective(th[c])
  BY <1>1, <1>2, <1>3 DEF Effective, Keeps
<1>5. AnswerOf(th'[c]) = AnswerOf(th[c])
  BY <1>2, <1>3, <1>4, SameAnswer
<1>6. th'[c].pc = "reply" => disk[th'[c].cmd.key] = Absent
  BY <1>1, <1>2, <1>3 DEF ThreadCoherent, Keeps
<1> QED
  BY <1>1, <1>2, <1>4, <1>5, <1>6, QuietStep DEF Reading, Putting, Keeps, getTypedPCs, putPCs

LEMMA DeleteEntryLin ==
  ASSUME Inv, Lin, NEW c \in Clients, DeleteEntry(c)
  PROVE  Lin' /\ Step
<1>1. TypeOK /\ Running(c) /\ th[c].pc = "del" /\ now' = now /\ disk' = disk /\ Goto(c, "deldisk") /\ th[c].cmd.op # "GET"
  BY DEF Inv, DeleteEntry, Running, TypeOK, ThreadOK, getTypedPCs
<1>2. Others(c) /\ Keeps(th[c], th'[c]) /\ th'[c].pc = "deldisk"
  BY <1>1, GotoKeeps
<1>3. Effective(th'[c]) <=> Effective(th[c])
  BY <1>1, <1>2 DEF Effective, Keeps
<1>4. AnswerOf(th'[c]) = AnswerOf(th[c])
  BY <1>1, <1>2, <1>3, SameAnswer
<1> QED
  BY <1>1, <1>2, <1>3, <1>4, QuietStep DEF Reading, Putting, Keeps, getTypedPCs, putPCs

LEMMA DeleteIndexLin ==
  ASSUME Inv, Lin, NEW c \in Clients, DeleteIndex(c)
  PROVE  Lin' /\ Step
<1>1. /\ TypeOK /\ Running(c) /\ th[c].pc = "delindex" /\ now' = now /\ disk' = disk /\ Goto(c, "reply") /\ th[c].cmd.op # "GET"
      /\ th[c].part = "type" /\ th[c].key = Target(th[c]) /\ ThreadIndexed(c)
  BY DEF Inv, DeleteIndex, Running, TypeOK, ThreadOK, getTypedPCs, ThreadInv
<1>2. Others(c) /\ Keeps(th[c], th'[c]) /\ th'[c].pc = "reply"
  BY <1>1, GotoKeeps
<1>3. Effective(th'[c]) <=> Effective(th[c])
  BY <1>1, <1>2 DEF Effective, Keeps
<1>4. AnswerOf(th'[c]) = AnswerOf(th[c])
  BY <1>1, <1>2, <1>3, SameAnswer
<1>5. disk[th'[c].cmd.key] = Absent
  BY <1>1, <1>2 DEF ThreadIndexed, Target, Keeps
<1> QED
  BY <1>1, <1>2, <1>3, <1>4, <1>5, QuietStep DEF Reading, Putting, Keeps, getTypedPCs, putPCs

LEMMA PutDictLin ==
  ASSUME Inv, Lin, NEW c \in Clients, PutDict(c)
  PROVE  Lin' /\ Step
<1>1. TypeOK /\ Running(c) /\ th[c].pc = "cache" /\ now' = now /\ disk' = disk /\ th[c].cmd.op # "GET" /\ th[c].part # "type"
  BY DEF Inv, PutDict, Running, TypeOK, ThreadOK, getTypedPCs
<1>2. CASE th[c].cmd.op # "RENAME"
  <2>1. Others(c) /\ Keeps(th[c], th'[c]) /\ th'[c].pc = "reply"
    BY <1>1, <1>2, GotoKeeps DEF PutDict
  <2>2. Effective(th'[c]) <=> Effective(th[c])
    BY <1>1, <2>1 DEF Effective, Keeps
  <2>3. AnswerOf(th'[c]) = AnswerOf(th[c])
    BY <1>1, <2>1, <2>2, SameAnswer
  <2> QED
    BY <1>1, <1>2, <2>1, <2>2, <2>3, QuietStep DEF Reading, Putting, Keeps, getTypedPCs, putPCs
<1>3. CASE th[c].cmd.op = "RENAME"
  <2>1. BeginDelete(c, th[c].cmd.key, th[c].res) /\ DOMAIN th = Clients /\ DOMAIN th[c] = Fields
    BY <1>1, <1>3 DEF PutDict, TypeOK, ThreadOK
  <2>2. /\ Others(c) /\ th'[c].pc = "look" /\ th'[c].part = "type" /\ th'[c].cmd = th[c].cmd /\ th'[c].since = th[c].since
        /\ th'[c].res = th[c].res
    BY <2>1, SMTT(30) DEF BeginDelete, Fields, Others
  <2>3. th[c].res = Yes
    BY <1>1 DEF Lin, LinOK, putPCs
  <2>4. Effective(th[c]) /\ Effective(th'[c])
    BY <1>1, <1>3, <2>2 DEF Effective
  <2>5. LinOK(th'[c], disk, now)
    BY <2>2, <2>3, <2>4 DEF LinOK, Reading, Putting, Deleting
  <2>6. CallOf(th'[c]) = CallOf(th[c])
    BY <1>1, <2>2, <2>4 DEF CallOf, AnswerOf
  <2>7. \A k : Moves(th'[c], k) <=> Moves(th[c], k)
    BY <1>1, <2>2 DEF Moves
  <2> QED
    BY <1>1, <2>2, <2>5, <2>6, <2>7, Quiet DEF Step
<1> QED
  BY <1>2, <1>3

-----------------------------------------------------------------------------
(* getTyped's reads, where GET takes effect.                               *)

\* No RENAME has moved the key away that another command is at.
LEMMA Unmoved ==
  ASSUME Inv, NEW c \in Clients, Running(c), NEW k \in keysOf(th[c].cmd), ~Moves(th[c], k)
  PROVE  ~Moved(k)
  BY MovedIs DEF Inv

LEMMA GetPerforms ==
  ASSUME Inv, Lin, NEW c \in Clients, Running(c), th[c].cmd.op = "GET", ~Effective(th[c]), Effective(th'[c]), th'[c].pc # "idle",
         Others(c), Keeps(th[c], th'[c]), now' = now, disk' = disk, LinOK(th'[c], disk, now),
         NEW seen \in Abstract!Sees(th[c].cmd.key, th[c].since), NEW h \in BOOLEAN, h <=> seen # Absent,
         AnswerOf(th'[c]) = [hit |-> h, val |-> IF seen = Absent THEN {} ELSE seen.val]
  PROVE  Lin' /\ Step
<1>1. TypeOK /\ th[c].pc # "idle" /\ th'[c].cmd = th[c].cmd /\ th'[c].since = th[c].since
  BY DEF Inv, Running, Keeps
<1>2. Abstract!Answer(c, h, IF seen = Absent THEN {} ELSE seen.val)
  BY <1>1, Answers
<1>3. AbstractStore' = AbstractStore
  BY <1>1, StoreKept DEF Moves
<1>4. h = (seen # Absent)
  BY SMTT(30)
<1>5. Abstract!Get(c, seen)
  BY <1>2, <1>3, <1>4 DEF Abstract!Get
<1>6. Abstract!Next
  BY <1>1, <1>5, Performs
<1> QED
  BY <1>6, LinStep DEF Step

LEMMA LookupLin ==
  ASSUME Persist, Inv, Lin, NEW c \in Clients, Lookup(c)
  PROVE  Lin' /\ Step
<1>1. /\ TypeOK /\ Others(c) /\ Keeps(th[c], th'[c]) /\ th[c].pc = "look" /\ Running(c) /\ now' = now /\ disk' = disk
      /\ th'[c].pc \in {"drop", "read", "got"}
  BY LookupDoes DEF Inv, Lookup, Local, store
<1>2. ThreadOK(th[c]) /\ LinOK(th[c], disk, now)
  BY <1>1, ThreadIs DEF Lin
<1>3. th[c].cmd.op = "GET" => ~Effective(th[c])
  BY <1>1, <1>2 DEF Effective, ThreadOK
<1>4. CASE th'[c].pc \in {"drop", "read"}
  <2>1. Effective(th'[c]) <=> Effective(th[c])
    BY <1>1, <1>4 DEF Effective, Keeps
  <2>2. AnswerOf(th'[c]) = AnswerOf(th[c])
    BY <1>1, <1>3, <2>1, SameAnswer
  <2> QED
    BY <1>1, <1>4, <2>1, <2>2, QuietStep DEF Reading, Putting, Keeps, getTypedPCs, putPCs
<1>5. CASE th'[c].pc = "got"
  <2>1. th'[c].rec = disk[th[c].key] /\ disk[th[c].key] \in Record /\ ~Expired(disk[th[c].key], th[c].since)
    BY <1>5, HitIs
  <2>2. ~Expired(th'[c].rec, th'[c].since) /\ th'[c].rec # Absent
    BY <1>1, <2>1, RecordIs DEF Keeps
  <2>3. CASE th[c].cmd.op # "GET"
    <3>1. Effective(th'[c]) <=> Effective(th[c])
      BY <1>1, <1>5, <2>2, <2>3 DEF Effective, Keeps
    <3>2. AnswerOf(th'[c]) = AnswerOf(th[c])
      BY <1>1, <2>3, <3>1, SameAnswer
    <3> QED
      BY <1>1, <1>5, <2>2, <3>1, <3>2, QuietStep DEF Reading, Putting, Keeps, getTypedPCs, putPCs
  <2>4. CASE th[c].cmd.op = "GET"
    <3>1. th[c].part = "main" /\ th[c].key = th[c].cmd.key /\ th[c].key \in Keys /\ th[c].key \in keysOf(th[c].cmd)
      BY <1>1, <1>2, <2>4, ThreadIs DEF ThreadOK, Target
    <3>2. disk[th[c].key] \in Abstract!Sees(th[c].cmd.key, th[c].since)
      BY <1>1, <2>1, <2>4, <3>1, Unmoved, SeesRecord DEF Moves
    <3>3. Effective(th'[c])
      BY <1>1, <1>5, <2>4 DEF Effective, Keeps
    <3>4. AnswerOf(th'[c]) = [hit |-> TRUE, val |-> disk[th[c].key].val]
      BY <1>1, <1>5, <2>1, <2>2, <2>4, <3>3 DEF AnswerOf, Keeps
    <3>5. LinOK(th'[c], disk, now)
      BY <1>1, <1>2, <1>5, <2>2, <2>4, <3>1 DEF LinOK, Keeps, Reading, Putting, Deleting, isRenameNX, getTypedPCs, putPCs
    <3>6. disk[th[c].key] # Absent
      BY <2>1, RecordIs
    <3> QED
      BY <1>1, <1>3, <1>5, <2>4, <3>2, <3>3, <3>4, <3>5, <3>6, GetPerforms
  <2> QED
    BY <2>3, <2>4
<1> QED
  BY <1>1, <1>4, <1>5

LEMMA YesIs == Yes = [hit |-> TRUE, val |-> {}]
<1> DEFINE a == [NoResult EXCEPT !.hit = TRUE]
           b == [hit |-> TRUE, val |-> {}]
<1>1. DOMAIN NoResult = {"hit", "val"} /\ DOMAIN b = {"hit", "val"} /\ NoResult.val = {} /\ b.hit = TRUE /\ b.val = {}
  BY DEF NoResult
<1>2. a = [x \in {"hit", "val"} |-> IF x = "hit" THEN TRUE ELSE NoResult[x]]
  BY <1>1
<1>3. b = [x \in {"hit", "val"} |-> b[x]]
  BY <1>1
<1>4. \A x \in {"hit", "val"} : (IF x = "hit" THEN TRUE ELSE NoResult[x]) = b[x]
  BY <1>1
<1> QED
  BY <1>2, <1>3, <1>4 DEF Yes

\* The record of a DEL, SET or EXPIRE that deletes is found missing, or goes.
LEMMA DeleteTakesEffect ==
  ASSUME Inv, Lin, NEW c \in Clients, Running(c), Deleting(th[c]), Others(c), now' = now, Keeps(th[c], th'[c]), th'[c].pc # "idle",
         Effective(th'[c]), disk' = [disk EXCEPT ![th[c].key] = Absent], LinOK(th'[c], disk', now)
  PROVE  Lin' /\ Step
<1>1. /\ TypeOK /\ ThreadOK(th[c]) /\ LinOK(th[c], disk, now) /\ th[c].pc # "idle" /\ th[c].part = "type" /\ ~Effective(th[c])
      /\ th'[c].cmd = th[c].cmd /\ th'[c].since = th[c].since /\ th'[c].res = th[c].res
  BY ThreadIs DEF Inv, Lin, Deleting, Keeps
<1>2. th[c].cmd.op # "RENAME" /\ th[c].cmd.op # "GET" /\ th[c].pc # "reply"
  BY <1>1 DEF Effective, ThreadOK
<1>3. th[c].key = th[c].cmd.key /\ th[c].key \in Keys /\ th[c].key \in keysOf(th[c].cmd)
  BY <1>1, <1>2, ThreadIs DEF ThreadOK, Target
<1>4. Deletes(th[c].cmd, disk[th[c].cmd.key], now) /\ ~Expired(disk[th[c].cmd.key], th[c].since) /\ th[c].res = Yes
  BY <1>1 DEF LinOK, Deleting
<1>5. disk[th[c].cmd.key] \in Abstract!Sees(th[c].cmd.key, th[c].since)
  BY <1>2, <1>3, <1>4, Unmoved, SeesRecord DEF Moves
<1>6. disk[th[c].cmd.key] \in Record \cup {Absent} /\ DOMAIN disk = Keys
  BY <1>1, <1>3 DEF TypeOK
<1>7. Yes = [hit |-> TRUE, val |-> {}]
  BY YesIs
<1>8. AnswerOf(th'[c]) = [hit |-> TRUE, val |-> {}]
  BY <1>1, <1>2, <1>4, <1>7 DEF AnswerOf
<1>9. Abstract!Answer(c, TRUE, {})
  BY <1>1, <1>8, Answers
<1>10. AbstractStore' = [AbstractStore EXCEPT ![th[c].cmd.key] = Absent]
  <2>1. \A k : Moves(th'[c], k) <=> Moves(th[c], k)
    BY <1>1, <1>2 DEF Moves
  <2>2. \A k \in Keys : Moved(k)' <=> Moved(k)
    BY <2>1, MovedKept
  <2>3. AbstractStore' = [k \in Keys |-> IF k = th[c].cmd.key THEN Absent ELSE AbstractStore[k]]
    BY <1>3, <1>6, <2>2 DEF AbstractStore
  <2>4. DOMAIN AbstractStore = Keys
    BY DEF AbstractStore
  <2> QED
    BY <2>3, <2>4
<1>11. Abstract!Next
  BY <1>1, <1>4, <1>5, <1>6, <1>9, <1>10, DeletePerforms
<1>12. \A l \in Keys \ {th[c].key} : disk'[l] = disk[l]
  BY <1>6
<1> QED
  BY <1>11, <1>12, LinStep DEF Step

LEMMA ReadDiskDoes ==
  ASSUME Inv, NEW c \in Clients, ReadDisk(c)
  PROVE  /\ TypeOK /\ th[c].pc = "read" /\ Running(c) /\ now' = now /\ disk' = disk /\ Others(c) /\ Keeps(th[c], th'[c])
         /\ th'[c].rec = disk[th[c].key]
         /\ th'[c].pc = IF disk[th[c].key] = Absent THEN "got" ELSE IF Expired(disk[th[c].key], th[c].t0) THEN "reap" ELSE "admit"
<1>1. TypeOK /\ th[c].pc = "read" /\ Running(c) /\ now' = now /\ disk' = disk
  BY DEF Inv, ReadDisk, Running, Local, store
<1>2. DOMAIN th = Clients /\ DOMAIN th[c] = Fields
  BY <1>1 DEF TypeOK, ThreadOK
<1> DEFINE r == disk[th[c].key]
           l == IF r = Absent THEN "got" ELSE IF Expired(r, th[c].t0) THEN "reap" ELSE "admit"
<1>3. th' = [th EXCEPT ![c].rec = r, ![c].pc = l]
  BY DEF ReadDisk
<1> HIDE DEF r, l
<1>4. Others(c) /\ Keeps(th[c], th'[c]) /\ th'[c].rec = r /\ th'[c].pc = l
  BY <1>2, <1>3, SMTT(30) DEF Others, Keeps, Fields
<1> QED
  BY <1>1, <1>4 DEF r, l

LEMMA ReadDiskLin ==
  ASSUME Inv, Lin, NEW c \in Clients, ReadDisk(c)
  PROVE  Lin' /\ Step
<1> DEFINE r == disk[th[c].key]
<1>1. /\ TypeOK /\ th[c].pc = "read" /\ Running(c) /\ now' = now /\ disk' = disk /\ Others(c) /\ Keeps(th[c], th'[c])
      /\ th'[c].rec = r /\ th'[c].pc = IF r = Absent THEN "got" ELSE IF Expired(r, th[c].t0) THEN "reap" ELSE "admit"
  BY ReadDiskDoes
<1>2. /\ ThreadOK(th[c]) /\ LinOK(th[c], disk, now) /\ th[c].key \in Keys /\ th[c].key \in keysOf(th[c].cmd)
      /\ th[c].since \in Nat /\ th[c].since <= th[c].t0 /\ th[c].t0 \in Nat /\ th[c].t0 <= now /\ now \in Nat
      /\ r \in Record \cup {Absent}
  BY <1>1, ThreadIs DEF Lin, TypeOK
<1>3. /\ ~Expired(r, th[c].t0) => ~Expired(r, th[c].since)
      /\ Expired(r, th[c].t0) => Expired(r, now)
  <2>1. CASE r = Absent
    BY <2>1 DEF Expired
  <2>2. CASE r \in Record
    <3>1. r.exp \in Nat
      BY <2>2, RecordIs
    <3>2. (r.exp <= th[c].since => r.exp <= th[c].t0) /\ (r.exp <= th[c].t0 => r.exp <= now)
      BY <1>2, <3>1, SMTT(30)
    <3> QED
      BY <3>2 DEF Expired
  <2> QED
    BY <1>2, <2>1, <2>2
<1>4. th'[c].pc \in {"admit", "got"} => ~Expired(th'[c].rec, th'[c].since)
  BY <1>1, <1>3 DEF Keeps, Expired
<1>5. CASE th[c].cmd.op = "GET"
  <2>1. th[c].part = "main" /\ th[c].key = th[c].cmd.key /\ ~Effective(th[c])
    BY <1>1, <1>2, <1>5 DEF ThreadOK, Target, Effective
  <2>2. ~Moved(th[c].key)
    BY <1>1, <1>2, <1>5, Unmoved DEF Moves
  <2>3. Effective(th'[c])
    BY <1>1, <1>5 DEF Effective, Keeps
  <2>4. LinOK(th'[c], disk, now)
    BY <1>1, <1>2, <1>4, <1>5, <2>1 DEF LinOK, Keeps, Reading, Putting, Deleting, isRenameNX, getTypedPCs, putPCs
  <2>5. CASE th'[c].pc = "admit"
    <3>1. r # Absent /\ ~Expired(r, th[c].since)
      BY <1>1, <1>3, <2>5
    <3>2. r \in Abstract!Sees(th[c].cmd.key, th[c].since)
      BY <1>2, <2>1, <2>2, <3>1, SeesRecord
    <3>3. AnswerOf(th'[c]) = [hit |-> TRUE, val |-> r.val]
      BY <1>1, <1>5, <2>3, <2>5, <3>1 DEF AnswerOf, Keeps
    <3> QED
      BY <1>1, <1>5, <2>1, <2>3, <2>4, <2>5, <3>1, <3>2, <3>3, GetPerforms
  <2>6. CASE th'[c].pc \in {"got", "reap"}
    <3>1. r = Absent \/ Expired(r, now)
      BY <1>1, <1>3, <2>6
    <3>2. Absent \in Abstract!Sees(th[c].cmd.key, th[c].since)
      BY <1>2, <2>1, <2>2, <3>1, SeesNothing
    <3>3. AnswerOf(th'[c]) = [hit |-> FALSE, val |-> {}]
      BY <1>1, <1>5, <2>3, <2>6 DEF AnswerOf, Keeps, NoResult
    <3> QED
      BY <1>1, <1>5, <2>1, <2>3, <2>4, <2>6, <3>2, <3>3, GetPerforms
  <2> QED
    BY <1>1, <2>5, <2>6
<1>6. CASE th[c].cmd.op # "GET" /\ (th[c].part # "type" \/ th[c].cmd.op = "RENAME" \/ r # Absent)
  <2>1. Effective(th'[c]) <=> Effective(th[c])
    BY <1>1, <1>6 DEF Effective, Keeps
  <2>2. AnswerOf(th'[c]) = AnswerOf(th[c])
    BY <1>1, <1>6, <2>1, SameAnswer
  <2> QED
    BY <1>1, <1>4, <2>1, <2>2, QuietStep DEF Reading, Putting, Keeps, getTypedPCs, putPCs
<1>7. CASE th[c].part = "type" /\ th[c].cmd.op # "RENAME" /\ th[c].cmd.op # "GET" /\ r = Absent
  <2>1. Deleting(th[c]) /\ Effective(th'[c])
    BY <1>1, <1>7 DEF Deleting, Effective, Keeps
  <2>2. LinOK(th'[c], disk, now)
    BY <1>1, <1>2, <1>4, <1>7, <2>1 DEF LinOK, Keeps, Reading, Putting, Deleting, isRenameNX, getTypedPCs, putPCs
  <2>3. disk' = [disk EXCEPT ![th[c].key] = Absent]
    BY <1>1, <1>2, <1>7, SMTT(30) DEF TypeOK
  <2> QED
    BY <1>1, <1>7, <2>1, <2>2, <2>3, DeleteTakesEffect
<1> QED
  BY <1>5, <1>6, <1>7

\* A record past its deadline goes.
LEMMA ReapPerforms ==
  ASSUME TypeOK, NEW c \in Clients, Others(c), now' = now, NEW k \in Keys, disk' = [disk EXCEPT ![k] = Absent],
         disk[k] = Absent \/ Expired(disk[k], now), CallOf(th'[c]) = CallOf(th[c]), \A l : Moves(th'[c], l) <=> Moves(th[c], l)
  PROVE  Step
<1>1. AbstractCalls' = AbstractCalls
  BY CallsKept
<1>2. \A l \in Keys : Moved(l)' <=> Moved(l)
  BY MovedKept
<1> DEFINE D == {l \in {k} : AbstractStore[l] # Absent}
<1>3. DOMAIN disk = Keys
  BY DEF TypeOK
<1>4. AbstractStore' = [l \in Keys |-> IF l \in D THEN Absent ELSE AbstractStore[l]]
  BY <1>2, <1>3 DEF AbstractStore
<1>5. D \in SUBSET {l \in Keys : AbstractStore[l] # Absent /\ Abstract!Expired(AbstractStore[l], now)}
  BY DEF AbstractStore, Abstract!Expired, Expired
<1>6. Abstract!Reap
  BY <1>1, <1>4, <1>5 DEF Abstract!Reap
<1> QED
  BY <1>6 DEF Step, Abstract!Next

\* The source of a RENAME goes: for the clients it was gone since the destination was written.
LEMMA SourceGoes ==
  ASSUME TypeOK, NEW c \in Clients, Others(c), now' = now, NEW k \in Keys, disk' = [disk EXCEPT ![k] = Absent],
         Moves(th[c], k), CallOf(th'[c]) = CallOf(th[c]), \A l : Moves(th'[c], l) <=> Moves(th[c], l)
  PROVE  Step
<1>1. AbstractCalls' = AbstractCalls
  BY CallsKept
<1>2. \A l \in Keys : Moved(l)' <=> Moved(l)
  BY MovedKept
<1>3. DOMAIN disk = Keys /\ Moved(k)
  BY DEF TypeOK, Moved
<1>4. AbstractStore' = AbstractStore
  BY <1>2, <1>3 DEF AbstractStore
<1> QED
  BY <1>1, <1>4 DEF Step, Abstract!vars

LEMMA ReapDiskDoes ==
  ASSUME Inv, NEW c \in Clients, ReapDisk(c)
  PROVE  /\ TypeOK /\ th[c].pc = "reapdisk" /\ Running(c) /\ now' = now /\ Others(c) /\ Keeps(th[c], th'[c])
         /\ disk' = [disk EXCEPT ![th[c].key] = Absent] /\ th'[c].rec = Absent /\ th'[c].pc = "got"
<1>1. TypeOK /\ th[c].pc = "reapdisk" /\ Running(c) /\ now' = now
  BY DEF Inv, ReapDisk, Running
<1>2. DOMAIN th = Clients /\ DOMAIN th[c] = Fields
  BY <1>1 DEF TypeOK, ThreadOK
<1>3. Others(c) /\ Keeps(th[c], th'[c]) /\ th'[c].rec = Absent /\ th'[c].pc = "got"
  BY <1>2, SMTT(30) DEF ReapDisk, Others, Keeps, Fields
<1> QED
  BY <1>1, <1>3 DEF ReapDisk

LEMMA ReapDiskLin ==
  ASSUME Inv, Lin, NEW c \in Clients, ReapDisk(c)
  PROVE  Lin' /\ Step
<1>1. /\ TypeOK /\ th[c].pc = "reapdisk" /\ Running(c) /\ now' = now /\ Others(c) /\ Keeps(th[c], th'[c])
      /\ disk' = [disk EXCEPT ![th[c].key] = Absent] /\ th'[c].rec = Absent /\ th'[c].pc = "got"
  BY ReapDiskDoes
<1>2. /\ ThreadOK(th[c]) /\ LinOK(th[c], disk, now) /\ th[c].key \in Keys /\ th[c].key \in keysOf(th[c].cmd) /\ th[c].key = Target(th[c])
      /\ th[c].t0 \in Nat /\ th[c].t0 <= now /\ now \in Nat
      /\ Expired(th[c].rec, th[c].t0) /\ th[c].rec \in Record /\ disk[th[c].key] \in {th[c].rec, Absent}
  BY <1>1, ThreadIs DEF Inv, Lin, ThreadOK, ThreadInv, ThreadIndexed
<1>3. Expired(th[c].rec, now)
  BY <1>2, RecordIs, SMTT(30) DEF Expired
<1>4. DOMAIN disk = Keys /\ disk'[th[c].key] = Absent /\ \A l \in Keys \ {th[c].key} : disk'[l] = disk[l]
  BY <1>1, <1>2 DEF TypeOK
<1>5. \A l : Moves(th'[c], l) <=> Moves(th[c], l)
  BY <1>1 DEF Moves, Keeps, Running
<1>6. LinOK(th'[c], disk', now)
  <2>1. th'[c].pc = "got" /\ ~Expired(th'[c].rec, th'[c].since) /\ ~Putting(th'[c]) /\ (Reading(th'[c]) <=> Reading(th[c]))
    BY <1>1 DEF Expired, Putting, Reading, getTypedPCs, Keeps
  <2>2. ~Deleting(th'[c])
    BY <1>1 DEF Deleting, Effective
  <2>3. Reading(th[c]) /\ isRenameNX(th[c].cmd) /\ th[c].part # "dst"
          => disk'[th[c].cmd.dst] = Absent /\ (th[c].part = "nx" => disk' = disk)
    <3> SUFFICES ASSUME Reading(th[c]), isRenameNX(th[c].cmd), th[c].part # "dst"
                 PROVE  disk'[th[c].cmd.dst] = Absent /\ (th[c].part = "nx" => disk' = disk)
      OBVIOUS
    <3>1. disk[th[c].cmd.dst] = Absent /\ th[c].cmd.dst \in Keys
      BY <1>1, <1>2, ThreadIs, CommandIs DEF LinOK
    <3>2. th[c].part = "nx" => disk[th[c].key] = Absent
      BY <1>2, <3>1 DEF Target
    <3>3. th[c].part = "nx" => disk' = disk
      BY <1>1, <1>2, <3>2, SMTT(30) DEF TypeOK
    <3> QED
      BY <1>4, <3>1, <3>3
  <2>4. th[c].part = "nx" => isRenameNX(th[c].cmd)
    BY <1>1, <1>2 DEF ThreadOK
  <2> QED
    BY <1>1, <1>2, <2>1, <2>2, <2>3, <2>4 DEF LinOK, Keeps, putPCs
<1>7. Lin'
  BY <1>1, <1>4, <1>6, LinStep
<1>8. CASE th[c].part = "type" /\ th[c].cmd.op # "RENAME"
  <2>1. th[c].cmd.op # "GET"
    BY <1>1, <1>2, <1>8 DEF ThreadOK
  <2>2. Deleting(th[c]) /\ Effective(th'[c])
    BY <1>1, <1>8, <2>1 DEF Deleting, Effective, Keeps
  <2> QED
    BY <1>1, <1>6, <2>2, DeleteTakesEffect
<1>9. CASE ~(th[c].part = "type" /\ th[c].cmd.op # "RENAME")
  <2>1. Effective(th'[c]) <=> Effective(th[c])
    BY <1>1, <1>9 DEF Effective, Keeps
  <2>2. AnswerOf(th'[c]) = AnswerOf(th[c])
    BY <1>1, <2>1 DEF AnswerOf, Keeps
  <2>3. CallOf(th'[c]) = CallOf(th[c])
    <3>1. Effective(th[c]) \in BOOLEAN /\ Effective(th'[c]) \in BOOLEAN
      BY DEF Effective
    <3>2. Effective(th'[c]) = Effective(th[c])
      BY <2>1, <3>1, SMTT(30)
    <3> QED
      BY <1>1, <2>2, <3>2 DEF CallOf, Keeps
  <2>4. Step
    BY <1>1, <1>2, <1>3, <1>5, <2>3, ReapPerforms
  <2> QED
    BY <1>7, <2>4
<1> QED
  BY <1>8, <1>9

LEMMA DeletePersistedLin ==
  ASSUME Inv, Lin, NEW c \in Clients, DeletePersisted(c)
  PROVE  Lin' /\ Step
<1>1. /\ TypeOK /\ th[c].pc = "deldisk" /\ Running(c) /\ now' = now /\ disk' = [disk EXCEPT ![th[c].key] = Absent]
      /\ Goto(c, IF th[c].prev # 0 THEN "delindex" ELSE "reply")
  BY DEF Inv, DeletePersisted, Running
<1>2. Others(c) /\ Keeps(th[c], th'[c]) /\ th'[c].pc \in {"delindex", "reply"}
  BY <1>1, GotoKeeps
<1>3. /\ ThreadOK(th[c]) /\ LinOK(th[c], disk, now) /\ th[c].key \in Keys /\ th[c].part = "type" /\ th[c].cmd.op # "GET"
      /\ th[c].key = th[c].cmd.key
  BY <1>1, ThreadIs DEF Lin, ThreadOK, Target, getTypedPCs
<1>4. DOMAIN disk = Keys /\ disk'[th[c].key] = Absent /\ \A l \in Keys \ {th[c].key} : disk'[l] = disk[l]
  BY <1>1, <1>3 DEF TypeOK
<1>5. Effective(th'[c])
  BY <1>2 DEF Effective
<1>6. LinOK(th'[c], disk', now)
  BY <1>1, <1>2, <1>3, <1>4, <1>5 DEF LinOK, Keeps, Reading, Putting, Deleting
<1>7. CASE th[c].cmd.op # "RENAME"
  <2>1. Deleting(th[c])
    BY <1>1, <1>3, <1>7 DEF Deleting, Effective
  <2> QED
    BY <1>1, <1>2, <1>5, <1>6, <2>1, DeleteTakesEffect
<1>8. CASE th[c].cmd.op = "RENAME"
  <2>1. Effective(th[c])
    BY <1>1, <1>3, <1>8 DEF Effective
  <2>2. CallOf(th'[c]) = CallOf(th[c])
    BY <1>2, <1>3, <1>5, <2>1 DEF CallOf, AnswerOf, Keeps
  <2>3. (\A l : Moves(th'[c], l) <=> Moves(th[c], l)) /\ Moves(th[c], th[c].key)
    BY <1>1, <1>2, <1>3, <1>8 DEF Moves, Keeps
  <2>4. Step
    BY <1>1, <1>2, <1>3, <2>2, <2>3, SourceGoes
  <2> QED
    BY <1>1, <1>2, <1>4, <1>6, <2>4, LinStep
<1> QED
  BY <1>7, <1>8

-----------------------------------------------------------------------------
(* The batch of putValue.                                                  *)

LEMMA PutDiskLin ==
  ASSUME Inv, Lin, NEW c \in Clients, PutDisk(c)
  PROVE  Lin' /\ Step
<1> DEFINE q == th[c].cmd
           new == th[c].new
<1>1. TypeOK /\ th[c].pc = "apply" /\ Running(c) /\ now' = now /\ disk' = [disk EXCEPT ![th[c].key] = new] /\ Goto(c, "cache")
  BY DEF Inv, PutDisk, Running
<1>2. Others(c) /\ Keeps(th[c], th'[c]) /\ th'[c].pc = "cache"
  BY <1>1, GotoKeeps
<1>3. /\ ThreadOK(th[c]) /\ LinOK(th[c], disk, now) /\ th[c].key \in Keys /\ th[c].part # "type" /\ q.op # "GET"
      /\ th[c].key = Target(th[c]) /\ q \in Commands /\ q.key \in Keys /\ q.dst \in Keys /\ q.key \in keysOf(q)
  BY <1>1, ThreadIs, CommandIs DEF Lin, ThreadOK, getTypedPCs, keysOf
<1>4. /\ Putting(th[c]) /\ Puts(q, disk[q.key], new) /\ ~Expired(disk[q.key], th[c].since) /\ th[c].res = Yes
      /\ (q.op = "RENAME" => q.key # q.dst) /\ (isRenameNX(q) => disk[q.dst] = Absent)
  BY <1>1, <1>3 DEF LinOK, Putting, putPCs
<1>5. DOMAIN disk = Keys /\ disk'[th[c].key] = new /\ (\A l \in Keys \ {th[c].key} : disk'[l] = disk[l])
      /\ disk[q.key] \in Record \cup {Absent}
  BY <1>1, <1>3 DEF TypeOK
<1>6. Effective(th'[c]) /\ ~Effective(th[c])
  BY <1>1, <1>2, <1>3 DEF Effective
<1>7. LinOK(th'[c], disk', now)
  BY <1>2, <1>3, <1>4, <1>6 DEF LinOK, Keeps, Reading, Putting, Deleting, getTypedPCs
<1>8. Lin'
  BY <1>1, <1>2, <1>5, <1>7, LinStep
<1>9. Abstract!Answer(c, TRUE, {})
  <2>1. AnswerOf(th'[c]) = [hit |-> TRUE, val |-> {}]
    BY <1>2, <1>3, <1>4, <1>6, YesIs DEF AnswerOf, Keeps
  <2> QED
    BY <1>1, <1>2, <1>6, <2>1, Answers DEF Keeps
<1>10. \A k : ~Moves(th[c], k)
  BY <1>1, <1>3 DEF Moves
<1>11. disk[q.key] \in Abstract!Sees(q.key, th[c].since)
  BY <1>1, <1>3, <1>4, <1>10, Unmoved, SeesRecord
<1>12. DOMAIN AbstractStore = Keys
  BY DEF AbstractStore
<1>13. CASE q.op # "RENAME"
  <2>1. th[c].key = q.key
    BY <1>1, <1>3, <1>13 DEF ThreadOK, Target, isRenameNX
  <2>2. \A k \in Keys : Moved(k)' <=> Moved(k)
    BY <1>2, <1>10, <1>13, MovedKept DEF Moves, Keeps
  <2>3. ~Moved(q.key)
    BY <1>1, <1>3, <1>10, Unmoved
  <2>4. AbstractStore' = [k \in Keys |-> IF k = q.key THEN new ELSE AbstractStore[k]]
    BY <1>5, <2>1, <2>2, <2>3 DEF AbstractStore
  <2>5. AbstractStore' = [AbstractStore EXCEPT ![q.key] = new]
    BY <1>12, <2>4
  <2>6. Abstract!Next
    BY <1>1, <1>4, <1>5, <1>6, <1>9, <1>11, <1>13, <2>5, PutPerforms
  <2> QED
    BY <1>8, <2>6 DEF Step
<1>14. CASE q.op = "RENAME"
  <2>1. th[c].key = q.dst /\ q.dst \in keysOf(q) /\ new = disk[q.key] /\ disk[q.key] # Absent
    BY <1>1, <1>3, <1>4, <1>14 DEF ThreadOK, Target, keysOf, Puts, putPCs
  <2>2. Moves(th'[c], q.key) /\ \A k : k # q.key => ~Moves(th'[c], k)
    BY <1>2, <1>14 DEF Moves, Keeps
  <2>3. \A k \in Keys : k = q.key => Moved(k)'
    BY <2>2 DEF Moved, Moves
  <2>4. \A k \in Keys : k # q.key => (Moved(k)' <=> Moved(k))
    BY <1>2, <1>10, <2>2, MovedKept
  <2>5. ~Moved(q.dst)
    BY <1>1, <1>10, <2>1, Unmoved
  <2>6. AbstractStore' = [k \in Keys |-> IF k = q.dst THEN new ELSE IF k = q.key THEN Absent ELSE AbstractStore[k]]
    <3>1. ASSUME NEW k \in Keys
          PROVE  (IF Moved(k)' THEN Absent ELSE disk'[k]) = IF k = q.dst THEN new ELSE IF k = q.key THEN Absent ELSE AbstractStore[k]
      <4>1. CASE k = q.dst
        BY <1>4, <1>5, <1>14, <2>1, <2>4, <2>5, <4>1
      <4>2. CASE k = q.key
        BY <1>4, <1>14, <2>3, <4>2
      <4>3. CASE k # q.dst /\ k # q.key
        BY <1>5, <2>1, <2>4, <4>3 DEF AbstractStore
      <4> QED
        BY <4>1, <4>2, <4>3
    <3> QED
      BY <3>1 DEF AbstractStore
  <2>7. AbstractStore' = [AbstractStore EXCEPT ![q.key] = Absent, ![q.dst] = disk[q.key]]
    BY <1>3, <1>4, <1>12, <1>14, <2>1, <2>6
  <2>8. PICK there \in Abstract!Sees(q.dst, th[c].since) : "NX" \in q.opts => there = Absent
    <3>1. CASE "NX" \in q.opts
      <4>1. disk[q.dst] = Absent
        BY <1>4, <1>14, <3>1 DEF isRenameNX
      <4> QED
        BY <1>3, <2>5, <4>1, SeesNothing
    <3>2. CASE "NX" \notin q.opts
      <4>1. th[c].since \in Nat /\ th[c].since <= th[c].t0 /\ th[c].t0 \in Nat /\ th[c].t0 <= now /\ now \in Nat
        BY <1>1, ThreadIs
      <4>2. th[c].since <= now
        BY <4>1, SMTT(30)
      <4> QED
        BY <1>1, <1>3, <3>2, <4>1, <4>2, SeesSome
    <3> QED
      BY <3>1, <3>2
  <2>9. Abstract!Next
    BY <1>1, <1>4, <1>6, <1>9, <1>11, <1>14, <2>1, <2>7, <2>8, RenamePerforms
  <2> QED
    BY <1>8, <2>9 DEF Step
<1> QED
  BY <1>13, <1>14

-----------------------------------------------------------------------------
(* The handlers.                                                           *)

\* What a handler other than GET's starts from.
LEMMA HandlerAt ==
  ASSUME Persist, Inv, Lin, NEW c \in Clients, th[c].pc = "got", th[c].part # "type", th[c].cmd.op # "GET"
  PROVE  /\ TypeOK /\ Running(c) /\ th[c].rec = disk[th[c].key] /\ ~Expired(th[c].rec, th[c].since) /\ th[c].res = NoResult
         /\ ~Effective(th[c]) /\ (\A k : ~Moves(th[c], k)) /\ LinOK(th[c], disk, now) /\ Reading(th[c])
         /\ th[c].key = (IF th[c].part = "main" THEN th[c].cmd.key ELSE th[c].cmd.dst)
         /\ th[c].key \in Keys /\ th[c].key \in keysOf(th[c].cmd) /\ th[c].rec \in Record \cup {Absent}
<1>1. TypeOK /\ Running(c) /\ ThreadCoherent(c) /\ LinOK(th[c], disk, now)
  BY DEF Inv, Running, ThreadInv, Lin
<1>2. Reading(th[c]) /\ ~Effective(th[c]) /\ \A k : ~Moves(th[c], k)
  BY DEF Reading, Effective, Moves, getTypedPCs
<1>3. th[c].key = IF th[c].part = "main" THEN th[c].cmd.key ELSE th[c].cmd.dst
  BY GotIs DEF Target, putPCs
<1> QED
  BY <1>1, <1>2, <1>3, ThreadIs, GotIs DEF ThreadCoherent, LinOK

LEMMA HitChanges ==
  ASSUME NEW h \in BOOLEAN
  PROVE  [NoResult EXCEPT !.hit = h] = [hit |-> h, val |-> {}]
<1> DEFINE b == [hit |-> h, val |-> {}]
<1>1. DOMAIN NoResult = {"hit", "val"} /\ DOMAIN b = {"hit", "val"} /\ NoResult.val = {} /\ b.hit = h /\ b.val = {}
  BY DEF NoResult
<1>2. [NoResult EXCEPT !.hit = h] = [x \in {"hit", "val"} |-> IF x = "hit" THEN h ELSE NoResult[x]]
  BY <1>1
<1>3. b = [x \in {"hit", "val"} |-> b[x]]
  BY <1>1
<1>4. \A x \in {"hit", "val"} : (IF x = "hit" THEN h ELSE NoResult[x]) = b[x]
  BY <1>1
<1> QED
  BY <1>2, <1>3, <1>4

LEMMA DoneAnswers ==
  ASSUME Inv, NEW c \in Clients, th[c].pc = "got", th[c].res = NoResult, NEW h \in BOOLEAN, Done(c, h) \/ (h = FALSE /\ Goto(c, "reply"))
  PROVE  /\ Others(c) /\ th'[c].cmd = th[c].cmd /\ th'[c].since = th[c].since /\ th'[c].part = th[c].part
         /\ th'[c].pc = "reply" /\ th'[c].res = [hit |-> h, val |-> {}]
<1>1. DOMAIN th = Clients /\ DOMAIN th[c] = Fields
  BY GotIs
<1>2. /\ Others(c) /\ th'[c].cmd = th[c].cmd /\ th'[c].since = th[c].since /\ th'[c].part = th[c].part /\ th'[c].pc = "reply"
  BY DoneDoes
<1>3. CASE Done(c, h)
  <2>1. th'[c].res = [th[c].res EXCEPT !.hit = h]
    BY <1>1, <1>3, SMTT(30) DEF Done, Fields
  <2> QED
    BY <1>2, <2>1, HitChanges
<1>4. CASE h = FALSE /\ Goto(c, "reply")
  <2>1. th'[c].res = th[c].res
    BY <1>1, <1>4, SMTT(30) DEF Goto, Fields
  <2> QED
    BY <1>2, <1>4, <2>1 DEF NoResult
<1> QED
  BY <1>3, <1>4

LEMMA PutBegins ==
  ASSUME Inv, NEW c \in Clients, th[c].pc = "got", th[c].res = NoResult, NEW r,
         (\E k : BeginPut(c, k, r)) \/ \E p : BeginPutOver(c, r, p)
  PROVE  /\ Others(c) /\ th'[c].cmd = th[c].cmd /\ th'[c].since = th[c].since /\ th'[c].part = th[c].part
         /\ th'[c].pc \in {"old", "apply"} /\ th'[c].new = r /\ th'[c].res = Yes
<1>1. DOMAIN th = Clients /\ DOMAIN th[c] = Fields
  BY GotIs
<1>2. ASSUME NEW k, BeginPut(c, k, r)
      PROVE  /\ Others(c) /\ th'[c].cmd = th[c].cmd /\ th'[c].since = th[c].since /\ th'[c].part = th[c].part
             /\ th'[c].pc = "old" /\ th'[c].new = r /\ th'[c].res = [th[c].res EXCEPT !.hit = TRUE]
  <2>1. ASSUME NEW h \in BOOLEAN, th' = [th EXCEPT ![c].pc = "old", ![c].key = k, ![c].new = r, ![c].res.hit = h]
        PROVE  th'[c].res = [th[c].res EXCEPT !.hit = h]
    BY <1>1, <2>1, SMTT(30) DEF Fields
  <2>2. th'[c].res = [th[c].res EXCEPT !.hit = TRUE]
    BY <1>2, <2>1 DEF BeginPut
  <2> QED
    BY <1>2, <2>2, BeginPutDoes, SMTT(30)
<1>3. ASSUME NEW p, BeginPutOver(c, r, p)
      PROVE  /\ Others(c) /\ th'[c].cmd = th[c].cmd /\ th'[c].since = th[c].since /\ th'[c].part = th[c].part
             /\ th'[c].pc = "apply" /\ th'[c].new = r /\ th'[c].res = [th[c].res EXCEPT !.hit = TRUE]
  <2>1. ASSUME NEW h \in BOOLEAN, th' = [th EXCEPT ![c].pc = "apply", ![c].new = r, ![c].prev = p, ![c].res.hit = h]
        PROVE  th'[c].res = [th[c].res EXCEPT !.hit = h]
    BY <1>1, <2>1, SMTT(30) DEF Fields
  <2>2. th'[c].res = [th[c].res EXCEPT !.hit = TRUE]
    BY <1>3, <2>1 DEF BeginPutOver
  <2> QED
    BY <1>3, <2>2, BeginPutOverDoes
<1> QED
  BY <1>2, <1>3 DEF Yes

\* A handler that goes on without having taken effect.
LEMMA Undecided ==
  ASSUME Persist, Inv, Lin, NEW c \in Clients, th[c].pc = "got", th[c].part # "type", th[c].cmd.op # "GET", Local,
         Others(c), th'[c].cmd = th[c].cmd, th'[c].since = th[c].since, ~Effective(th'[c]), \A k : ~Moves(th'[c], k),
         LinOK(th'[c], disk, now)
  PROVE  Lin' /\ Step
<1>1. ~Effective(th[c]) /\ \A k : ~Moves(th[c], k)
  BY HandlerAt
<1>2. CallOf(th'[c]) = CallOf(th[c])
  <2>1. Effective(th[c]) \in BOOLEAN /\ Effective(th'[c]) \in BOOLEAN
    BY DEF Effective
  <2>2. Effective(th'[c]) = Effective(th[c])
    BY <1>1, <2>1, SMTT(30)
  <2> QED
    BY <1>1, <2>2 DEF CallOf, AnswerOf
<1>3. now' = now /\ disk' = disk
  BY DEF Local, store
<1> QED
  BY <1>1, <1>2, <1>3, Quiet DEF Step

\* A handler that answers, having written nothing.
LEMMA Answered ==
  ASSUME Persist, Inv, Lin, NEW c \in Clients, th[c].pc = "got", th[c].part # "type", th[c].cmd.op # "GET", Local,
         NEW h \in BOOLEAN, Done(c, h) \/ (h = FALSE /\ Goto(c, "reply"))
  PROVE  Lin' /\ Abstract!Answer(c, h, {}) /\ AbstractStore' = AbstractStore
<1>1. /\ TypeOK /\ Running(c) /\ th[c].res = NoResult /\ (\A k : ~Moves(th[c], k)) /\ th[c].pc # "idle"
  BY HandlerAt
<1>2. /\ Others(c) /\ th'[c].cmd = th[c].cmd /\ th'[c].since = th[c].since /\ th'[c].part = th[c].part
      /\ th'[c].pc = "reply" /\ th'[c].res = [hit |-> h, val |-> {}]
  BY <1>1, DoneAnswers
<1>3. now' = now /\ disk' = disk
  BY DEF Local, store
<1>4. Effective(th'[c]) /\ \A k : ~Moves(th'[c], k)
  BY <1>2 DEF Effective, Moves
<1>5. LinOK(th'[c], disk, now)
  BY <1>2, <1>4 DEF LinOK, Reading, Putting, Deleting, getTypedPCs, putPCs
<1>6. AnswerOf(th'[c]) = [hit |-> h, val |-> {}]
  BY <1>2, <1>4 DEF AnswerOf
<1>7. th'[c].pc # "idle"
  BY <1>2
<1>8. Abstract!Answer(c, h, {})
  BY <1>1, <1>2, <1>4, <1>6, <1>7, Answers
<1> QED
  BY <1>1, <1>2, <1>3, <1>4, <1>5, <1>8, LinStep, StoreKept

\* The record the handler found is what its call may see.
LEMMA SeesFound ==
  ASSUME Persist, Inv, Lin, NEW c \in Clients, th[c].pc = "got", th[c].part # "type", th[c].cmd.op # "GET"
  PROVE  th[c].rec \in Abstract!Sees(th[c].key, th[c].since)
<1>1. /\ Running(c) /\ th[c].rec = disk[th[c].key] /\ ~Expired(th[c].rec, th[c].since) /\ (\A k : ~Moves(th[c], k))
      /\ th[c].key \in Keys /\ th[c].key \in keysOf(th[c].cmd)
  BY HandlerAt
<1> QED
  BY <1>1, Unmoved, SeesRecord

LEMMA RefuseLin ==
  ASSUME Persist, Inv, Lin, NEW c \in Clients, th[c].pc = "got", th[c].part = "main", th[c].cmd.op # "GET", Local,
         Done(c, FALSE) \/ Goto(c, "reply"), Refuses(th[c].cmd, th[c].rec)
  PROVE  Lin' /\ Step
<1>1. TypeOK /\ Running(c) /\ ~Effective(th[c]) /\ th[c].key = th[c].cmd.key /\ th[c].rec \in Record \cup {Absent} /\ now' = now
  BY HandlerAt DEF Local
<1>2. Lin' /\ Abstract!Answer(c, FALSE, {}) /\ AbstractStore' = AbstractStore
  BY Answered
<1>3. th[c].rec \in Abstract!Sees(th[c].cmd.key, th[c].since)
  BY <1>1, SeesFound
<1>4. Abstract!Refuse(c)
  BY <1>2 DEF Abstract!Refuse
<1> QED
  BY <1>1, <1>2, <1>3, <1>4, RefusalPerforms DEF Step

LEMMA cmdGetLin ==
  ASSUME Dispatched, Inv, Lin, NEW c \in Clients, cmdGet(c)
  PROVE  Lin' /\ Step
<1> DEFINE r == [hit |-> th[c].rec # Absent, val |-> valOf(th[c].rec)]
<1>1. /\ TypeOK /\ th[c].pc = "got" /\ th[c].part = "main" /\ Running(c) /\ disk' = disk /\ now' = now
      /\ th' = [th EXCEPT ![c].pc = "reply", ![c].res = r]
  BY DEF Inv, cmdGet, Decide, Running, Local, store
<1>2. DOMAIN th = Clients /\ DOMAIN th[c] = Fields /\ th[c].cmd \in Commands
  BY <1>1, GotIs
<1>3. th[c].cmd.op = "GET"
  BY <1>2 DEF cmdGet, Decide, Dispatched
<1> HIDE DEF r
<1>4. /\ Others(c) /\ th'[c].cmd = th[c].cmd /\ th'[c].since = th[c].since /\ th'[c].part = th[c].part
      /\ th'[c].pc = "reply" /\ th'[c].res = r
  BY <1>1, <1>2, SMTT(30) DEF Others, Fields
<1>5. Effective(th[c]) /\ Effective(th'[c]) /\ \A k : ~Moves(th[c], k) /\ ~Moves(th'[c], k)
  BY <1>1, <1>3, <1>4 DEF Effective, Moves
<1>6. AnswerOf(th'[c]) = r
  BY <1>4, <1>5 DEF AnswerOf
<1>7. AnswerOf(th[c]) = r
  <2>1. CASE th[c].rec = Absent
    BY <1>1, <1>3, <1>5, <2>1 DEF AnswerOf, NoResult, r, valOf
  <2>2. CASE th[c].rec # Absent
    BY <1>1, <1>3, <1>5, <2>2 DEF AnswerOf, r, valOf
  <2> QED
    BY <2>1, <2>2
<1>8. CallOf(th'[c]) = CallOf(th[c])
  <2>1. Effective(th[c]) \in BOOLEAN /\ Effective(th'[c]) \in BOOLEAN
    BY DEF Effective
  <2>2. Effective(th'[c]) = Effective(th[c])
    BY <1>5, <2>1, SMTT(30)
  <2> QED
    BY <1>4, <1>6, <1>7, <2>2 DEF CallOf
<1>9. LinOK(th'[c], disk, now)
  BY <1>1, <1>4, <1>5 DEF LinOK, Reading, Putting, Deleting, getTypedPCs, putPCs
<1> QED
  BY <1>1, <1>4, <1>5, <1>8, <1>9, Quiet DEF Step

\* A handler that goes on to putValue.
LEMMA PutLin ==
  ASSUME Persist, Inv, Lin, NEW c \in Clients, th[c].pc = "got", th[c].part \in {"main", "nx"}, th[c].cmd.op # "GET", Local, NEW r,
         (\E k : BeginPut(c, k, r)) \/ (\E p : BeginPutOver(c, r, p)),
         Puts(th[c].cmd, disk[th[c].cmd.key], r), ~Expired(disk[th[c].cmd.key], th[c].since),
         th[c].cmd.op = "RENAME" => th[c].cmd.key # th[c].cmd.dst, isRenameNX(th[c].cmd) => disk[th[c].cmd.dst] = Absent
  PROVE  Lin' /\ Step
<1>1. th[c].part # "type" /\ th[c].res = NoResult
  BY HandlerAt
<1>2. /\ Others(c) /\ th'[c].cmd = th[c].cmd /\ th'[c].since = th[c].since /\ th'[c].part = th[c].part
      /\ th'[c].pc \in {"old", "apply"} /\ th'[c].new = r /\ th'[c].res = Yes
  BY <1>1, PutBegins
<1>3. ~Effective(th'[c]) /\ \A k : ~Moves(th'[c], k)
  BY <1>1, <1>2 DEF Effective, Moves
<1>4. LinOK(th'[c], disk, now)
  BY <1>1, <1>2 DEF LinOK, Reading, Deleting, getTypedPCs
<1> QED
  BY <1>1, <1>2, <1>3, <1>4, Undecided

\* A handler that goes on to deleteKey.
LEMMA DeleteLin ==
  ASSUME Persist, Inv, Lin, NEW c \in Clients, th[c].pc = "got", th[c].part = "main", th[c].cmd.op # "GET", Local,
         BeginDelete(c, th[c].cmd.key, [NoResult EXCEPT !.hit = TRUE]), Deletes(th[c].cmd, th[c].rec, now)
  PROVE  Lin' /\ Step
<1>1. /\ th[c].rec = disk[th[c].cmd.key] /\ ~Expired(th[c].rec, th[c].since)
  BY HandlerAt
<1>2. /\ Others(c) /\ th'[c].cmd = th[c].cmd /\ th'[c].since = th[c].since /\ th'[c].part = "type"
      /\ th'[c].pc = "look" /\ th'[c].res = Yes
  BY BeginDeleteDoes, SMTT(30) DEF Yes
<1>3. th[c].cmd.op # "RENAME"
  BY DEF Deletes
<1>4. ~Effective(th'[c]) /\ \A k : ~Moves(th'[c], k)
  BY <1>2, <1>3 DEF Effective, Moves
<1>5. LinOK(th'[c], disk, now)
  BY <1>1, <1>2, <1>3 DEF LinOK, Reading, Putting, isRenameNX
<1> QED
  BY <1>2, <1>4, <1>5, Undecided

LEMMA setStringLin ==
  ASSUME Persist, Inv, Lin, NEW c \in Clients, setString(c)
  PROVE  Lin' /\ Step
<1> DEFINE q == th[c].cmd
           r == [val |-> q.val, exp |-> SetExp(q, th[c].rec)]
<1>1. th[c].pc = "got" /\ th[c].part = "main" /\ q.op = "SET" /\ Local
  BY DEF setString, Decide, Done
<1>2. \/ SetRefused(q, th[c].rec) /\ Done(c, FALSE)
      \/ /\ ~SetRefused(q, th[c].rec)
         /\ \E s \in {th[c].t0 - 1, th[c].t0} :
              \/ SetExp(q, th[c].rec) # 0 /\ SetExp(q, th[c].rec) <= s /\ BeginDelete(c, q.key, [NoResult EXCEPT !.hit = TRUE])
              \/ BeginPutOver(c, r, expOf(th[c].rec))
  BY DEF setString, SetRefused, SetExp
<1>3. CASE SetRefused(q, th[c].rec) /\ Done(c, FALSE)
  BY <1>1, <1>3, RefuseLin DEF Refuses
<1>4. CASE ~SetRefused(q, th[c].rec) /\ BeginPutOver(c, r, expOf(th[c].rec))
  <2>1. th[c].rec = disk[q.key] /\ ~Expired(th[c].rec, th[c].since)
    BY <1>1, HandlerAt
  <2>2. Puts(q, disk[q.key], r)
    BY <1>1, <1>4, <2>1 DEF Puts
  <2> HIDE DEF r
  <2> QED
    BY <1>1, <1>4, <2>1, <2>2, PutLin DEF isRenameNX
<1>5. ASSUME NEW s \in {th[c].t0 - 1, th[c].t0}, ~SetRefused(q, th[c].rec), SetExp(q, th[c].rec) # 0, SetExp(q, th[c].rec) <= s,
             BeginDelete(c, q.key, [NoResult EXCEPT !.hit = TRUE])
      PROVE  Lin' /\ Step
  <2>1. TypeOK /\ Running(c) /\ th[c].rec \in Record \cup {Absent} /\ q \in Commands
    BY <1>1, HandlerAt, GotIs
  <2>2. th[c].t0 \in Nat /\ th[c].t0 <= now /\ now \in Nat /\ SetExp(q, th[c].rec) \in Nat
    BY <2>1, ThreadIs, CommandIs, ExpIs DEF SetExp
  <2>3. SetExp(q, th[c].rec) <= now
    BY <1>5, <2>2, SMTT(30)
  <2>4. Deletes(q, th[c].rec, now)
    BY <1>1, <1>5, <2>3 DEF Deletes
  <2> QED
    BY <1>1, <1>5, <2>4, DeleteLin
<1> QED
  BY <1>2, <1>3, <1>4, <1>5

LEMMA cmdDelLin ==
  ASSUME Persist, Inv, Lin, NEW c \in Clients, cmdDel(c)
  PROVE  Lin' /\ Step
<1>1. th[c].pc = "got" /\ th[c].part = "main" /\ th[c].cmd.op = "DEL" /\ Local
  BY DEF cmdDel, Decide
<1>2. \/ th[c].rec = Absent /\ Goto(c, "reply")
      \/ th[c].rec # Absent /\ BeginDelete(c, th[c].cmd.key, [NoResult EXCEPT !.hit = TRUE])
  BY <1>1, GotIs DEF cmdDel, Target
<1> QED
  BY <1>1, <1>2, RefuseLin, DeleteLin DEF Refuses, Deletes

LEMMA setExpiryLin ==
  ASSUME Persist, Inv, Lin, NEW c \in Clients, setExpiry(c)
  PROVE  Lin' /\ Step
<1> DEFINE q == th[c].cmd
           r == [th[c].rec EXCEPT !.exp = q.at]
<1>1. th[c].pc = "got" /\ th[c].part = "main" /\ q.op = "EXPIRE" /\ Local
  BY DEF setExpiry, Decide, Done
<1>2. \/ ExpireRefused(q, th[c].rec) /\ Done(c, FALSE)
      \/ /\ ~ExpireRefused(q, th[c].rec)
         /\ IF q.at <= now THEN BeginDelete(c, q.key, [NoResult EXCEPT !.hit = TRUE]) ELSE BeginPutOver(c, r, expOf(th[c].rec))
  BY DEF setExpiry, ExpireRefused, expOf
<1>3. CASE ExpireRefused(q, th[c].rec) /\ Done(c, FALSE)
  BY <1>1, <1>3, RefuseLin DEF Refuses
<1>4. CASE ~ExpireRefused(q, th[c].rec) /\ q.at <= now /\ BeginDelete(c, q.key, [NoResult EXCEPT !.hit = TRUE])
  BY <1>1, <1>4, DeleteLin DEF Deletes
<1>5. CASE ~ExpireRefused(q, th[c].rec) /\ ~(q.at <= now) /\ BeginPutOver(c, r, expOf(th[c].rec))
  <2>1. th[c].rec = disk[q.key] /\ ~Expired(th[c].rec, th[c].since) /\ now \in Nat
    BY <1>1, HandlerAt DEF TypeOK
  <2>2. q.at # 0
    BY <1>5, <2>1, SMTT(30)
  <2>3. Puts(q, disk[q.key], r)
    BY <1>1, <1>5, <2>1, <2>2 DEF Puts
  <2> HIDE DEF r
  <2> QED
    BY <1>1, <1>5, <2>1, <2>3, PutLin DEF isRenameNX
<1> QED
  BY <1>2, <1>3, <1>4, <1>5

LEMMA persistLin ==
  ASSUME Persist, Inv, Lin, NEW c \in Clients, persist(c)
  PROVE  Lin' /\ Step
<1> DEFINE r == [th[c].rec EXCEPT !.exp = 0]
<1>1. th[c].pc = "got" /\ th[c].part = "main" /\ th[c].cmd.op = "PERSIST" /\ Local
  BY DEF persist, Decide
<1>2. CASE expOf(th[c].rec) = 0
  BY <1>1, <1>2, RefuseLin DEF persist, Refuses
<1>3. CASE expOf(th[c].rec) # 0
  <2>1. th[c].rec = disk[th[c].cmd.key] /\ ~Expired(th[c].rec, th[c].since)
    BY <1>1, HandlerAt
  <2>2. Puts(th[c].cmd, disk[th[c].cmd.key], r) /\ \E p : BeginPutOver(c, r, p)
    BY <1>1, <1>3, <2>1 DEF Puts, persist
  <2> HIDE DEF r
  <2> QED
    BY <1>1, <2>1, <2>2, PutLin DEF isRenameNX
<1> QED
  BY <1>2, <1>3

LEMMA cmdAppendLin ==
  ASSUME Persist, Inv, Lin, NEW c \in Clients, cmdAppend(c)
  PROVE  Lin' /\ Step
<1> DEFINE r == [val |-> valOf(th[c].rec) \cup th[c].cmd.val, exp |-> expOf(th[c].rec)]
<1>1. th[c].pc = "got" /\ th[c].part = "main" /\ th[c].cmd.op = "APPEND" /\ Local /\ \E k : BeginPut(c, k, r)
  BY DEF cmdAppend, Decide
<1>2. th[c].rec = disk[th[c].cmd.key] /\ ~Expired(th[c].rec, th[c].since)
  BY <1>1, HandlerAt
<1>3. Puts(th[c].cmd, disk[th[c].cmd.key], r)
  BY <1>1, <1>2 DEF Puts
<1> HIDE DEF r
<1> QED
  BY <1>1, <1>2, <1>3, PutLin DEF isRenameNX

\* RENAME onto itself changes nothing.
LEMMA SelfRenameLin ==
  ASSUME Persist, Inv, Lin, NEW c \in Clients, th[c].pc = "got", th[c].part = "main", th[c].cmd.op = "RENAME",
         th[c].cmd.key = th[c].cmd.dst, ~isRenameNX(th[c].cmd), th[c].rec # Absent, Local, Done(c, TRUE)
  PROVE  Lin' /\ Step
<1>1. TypeOK /\ Running(c) /\ ~Effective(th[c]) /\ th[c].key = th[c].cmd.key /\ now' = now
  BY HandlerAt DEF Local
<1>2. Lin' /\ Abstract!Answer(c, TRUE, {}) /\ AbstractStore' = AbstractStore
  BY Answered
<1>3. th[c].rec \in Abstract!Sees(th[c].cmd.key, th[c].since) /\ th[c].rec \in Abstract!Sees(th[c].cmd.dst, th[c].since)
  BY <1>1, SeesFound
<1>4. "NX" \notin th[c].cmd.opts
  BY DEF isRenameNX
<1> QED
  BY <1>1, <1>2, <1>3, <1>4, RenamePerforms DEF Step

LEMMA renameLin ==
  ASSUME Persist, Inv, Lin, NEW c \in Clients, rename(c)
  PROVE  Lin' /\ Step
<1> DEFINE q == th[c].cmd
<1>1. th[c].pc = "got" /\ th[c].part = "main" /\ q.op = "RENAME" /\ Local
  BY DEF rename, Decide, Done
<1>2. th[c].rec = disk[q.key] /\ ~Expired(th[c].rec, th[c].since) /\ th[c].res = NoResult /\ LinOK(th[c], disk, now) /\ Reading(th[c])
  BY <1>1, HandlerAt
<1>3. isRenameNX(q) => disk[q.dst] = Absent
  BY <1>1, <1>2 DEF LinOK
<1>4. CASE th[c].rec = Absent
  <2>1. Done(c, FALSE)
    BY <1>4 DEF rename
  <2> QED
    BY <1>1, <1>4, <2>1, RefuseLin DEF Refuses
<1>5. CASE th[c].rec # Absent /\ isRenameNX(q)
  <2>1. th' = [th EXCEPT ![c].pc = "look", ![c].part = "nx", ![c].key = q.dst, ![c].t0 = now, ![c].new = th[c].rec]
    BY <1>5 DEF rename
  <2>2. /\ Others(c) /\ th'[c].cmd = q /\ th'[c].since = th[c].since /\ th'[c].pc = "look" /\ th'[c].part = "nx"
        /\ th'[c].new = th[c].rec /\ th'[c].res = th[c].res
    BY <1>1, <2>1, GotIs, SMTT(30) DEF Others, Fields
  <2>3. ~Effective(th'[c]) /\ \A k : ~Moves(th'[c], k)
    BY <1>1, <2>2 DEF Effective, Moves
  <2>4. Puts(q, disk[q.key], th'[c].new)
    BY <1>1, <1>2, <1>5, <2>2 DEF Puts
  <2>5. LinOK(th'[c], disk, now)
    BY <1>2, <1>3, <2>2, <2>4 DEF LinOK, Putting, Deleting, putPCs
  <2> QED
    BY <1>1, <2>2, <2>3, <2>5, Undecided
<1>6. CASE th[c].rec # Absent /\ ~isRenameNX(q) /\ q.key = q.dst
  <2>1. Done(c, TRUE)
    BY <1>6 DEF rename
  <2> QED
    BY <1>1, <1>6, <2>1, SelfRenameLin
<1>7. CASE th[c].rec # Absent /\ ~isRenameNX(q) /\ q.key # q.dst
  <2>1. BeginPut(c, q.dst, th[c].rec)
    BY <1>7 DEF rename
  <2>2. Puts(q, disk[q.key], th[c].rec)
    BY <1>1, <1>2, <1>7 DEF Puts
  <2> QED
    BY <1>1, <1>2, <1>7, <2>1, <2>2, PutLin
<1> QED
  BY <1>4, <1>5, <1>6, <1>7

LEMMA cmdRenameNXLin ==
  ASSUME Persist, Inv, Lin, NEW c \in Clients, cmdRenameNX(c)
  PROVE  Lin' /\ Step
<1> DEFINE q == th[c].cmd
<1>1. th[c].pc = "got" /\ th[c].part = "dst" /\ Local /\ isRenameNX(q) /\ q.op # "GET"
  BY GotIs DEF cmdRenameNX
<1>2. /\ TypeOK /\ Running(c) /\ ~Effective(th[c]) /\ th[c].key = q.dst /\ th[c].rec = disk[q.dst] /\ th[c].res = NoResult /\ now' = now
  BY <1>1, HandlerAt DEF Local
<1>3. CASE th[c].rec # Absent
  <2>1. Goto(c, "reply")
    BY <1>3 DEF cmdRenameNX
  <2>2. Lin' /\ Abstract!Answer(c, FALSE, {}) /\ AbstractStore' = AbstractStore
    BY <1>1, <2>1, Answered
  <2>3. th[c].rec \in Abstract!Sees(q.dst, th[c].since)
    BY <1>1, <1>2, SeesFound
  <2>4. Abstract!Refuse(c)
    BY <2>2 DEF Abstract!Refuse
  <2> QED
    BY <1>1, <1>2, <1>3, <2>2, <2>3, <2>4, DestinationRefuses DEF Step
<1>4. CASE th[c].rec = Absent
  <2>1. th' = [th EXCEPT ![c].pc = "look", ![c].part = "main", ![c].key = q.key, ![c].t0 = now]
    BY <1>4 DEF cmdRenameNX
  <2>2. /\ Others(c) /\ th'[c].cmd = q /\ th'[c].since = th[c].since /\ th'[c].pc = "look" /\ th'[c].part = "main"
        /\ th'[c].res = th[c].res
    BY <1>1, <2>1, GotIs, SMTT(30) DEF Others, Fields
  <2>3. ~Effective(th'[c]) /\ \A k : ~Moves(th'[c], k)
    BY <1>1, <2>2 DEF Effective, Moves
  <2>4. LinOK(th'[c], disk, now)
    BY <1>2, <1>4, <2>2 DEF LinOK, Putting, Deleting, putPCs
  <2> QED
    BY <1>1, <2>2, <2>3, <2>4, Undecided
<1> QED
  BY <1>3, <1>4

\* The destination of a RENAMENX under its locks is as empty as cmdRenameNX found it.
LEMMA renameNXLin ==
  ASSUME Persist, Inv, Lin, NEW c \in Clients, renameNX(c)
  PROVE  Lin' /\ Step
<1> DEFINE q == th[c].cmd
<1>1. th[c].pc = "got" /\ th[c].part = "nx" /\ Local /\ isRenameNX(q) /\ q.op = "RENAME"
  BY GotIs DEF renameNX, isRenameNX
<1>2. th[c].key = q.dst /\ th[c].rec = disk[q.dst] /\ LinOK(th[c], disk, now) /\ Reading(th[c])
  BY <1>1, HandlerAt
<1>3. disk[q.dst] = Absent /\ Puts(q, disk[q.key], th[c].new) /\ ~Expired(disk[q.key], th[c].since)
  BY <1>1, <1>2 DEF LinOK
<1>4. q.key # q.dst
  BY <1>1, <1>3 DEF Puts
<1>5. BeginPut(c, q.dst, th[c].new)
  BY <1>2, <1>3, <1>4 DEF renameNX
<1> QED
  BY <1>1, <1>3, <1>4, <1>5, PutLin

LEMMA HandlerLin ==
  ASSUME Dispatched, Persist, Inv, Lin, NEW c \in Clients, Handler(c)
  PROVE  Lin' /\ Step
<1>1. th[c].pc # "alive"
  BY DEF Inv, TypeOK, ThreadOK, getTypedPCs, putPCs, deletePCs
<1>2. ~KeyAlive(c)
  BY <1>1 DEF KeyAlive
<1> QED
  BY <1>2, cmdGetLin, setStringLin, cmdDelLin, setExpiryLin, persistLin, cmdAppendLin, renameLin,
     cmdRenameNXLin, renameNXLin DEF Handler

-----------------------------------------------------------------------------
(* Calls, replies, the clock, eviction.                                    *)

LEMMA InvokeLin ==
  ASSUME Dispatched, Inv, Lin, NEW c \in Clients, NEW q \in Commands, Invoke(c, q)
  PROVE  Lin' /\ Step
<1>1. TypeOK /\ th[c].pc = "idle" /\ now' = now /\ disk' = disk /\ DOMAIN th = Clients
  BY DEF Inv, Invoke, TypeOK, store
<1>2. /\ Others(c) /\ th'[c].pc = "look" /\ th'[c].cmd = q /\ th'[c].since = now /\ th'[c].res = NoResult
      /\ th'[c].part = IF isRenameNX(q) THEN "dst" ELSE "main"
  BY <1>1 DEF Invoke, IdleThread, Dispatched, Others
<1>3. th[c].cmd = Absent
  BY <1>1 DEF Lin, LinOK
<1>4. ~Effective(th'[c]) /\ \A k : ~Moves(th'[c], k) /\ ~Moves(th[c], k)
  BY <1>1, <1>2 DEF Effective, Moves
<1>5. LinOK(th'[c], disk, now)
  BY <1>2 DEF LinOK, Reading, Putting, Deleting, putPCs
<1>6. Lin' /\ AbstractStore' = AbstractStore
  BY <1>1, <1>2, <1>4, <1>5, LinStep, StoreKept
<1>7. CallOf(th'[c]) = Abstract!CallOf(q, now)
  <2>1. Effective(th'[c]) \in BOOLEAN
    BY DEF Effective
  <2>2. Effective(th'[c]) = FALSE
    BY <1>4, <2>1, SMTT(30)
  <2> QED
    BY <1>2, <1>4, <2>2 DEF CallOf, AnswerOf, NoResult, Abstract!CallOf
<1>8. \A d \in Clients \ {c} : CallOf(th'[d]) = CallOf(th[d])
  BY <1>2 DEF Others
<1>9. AbstractCalls' = [d \in Clients |-> CallOf(th'[d])] /\ DOMAIN AbstractCalls = Clients /\ \A d \in Clients : AbstractCalls[d] = CallOf(th[d])
  BY DEF AbstractCalls, CallOf
<1>10. AbstractCalls' = [AbstractCalls EXCEPT ![c] = Abstract!CallOf(q, now)]
  BY <1>7, <1>8, <1>9
<1>11. AbstractCalls[c].cmd = Absent
  BY <1>3 DEF AbstractCalls, CallOf
<1>12. Abstract!Call(c, q)
  BY <1>1, <1>6, <1>10, <1>11 DEF Abstract!Call
<1> QED
  BY <1>6, <1>12 DEF Step, Abstract!Next

LEMMA ReplyLin ==
  ASSUME Inv, Lin, NEW c \in Clients, Reply(c)
  PROVE  Lin' /\ Step
<1>1. TypeOK /\ th[c].pc = "reply" /\ Running(c) /\ now' = now /\ disk' = disk /\ DOMAIN th = Clients /\ Apart
  BY DEF Inv, Reply, TypeOK, store, Running
<1>2. Others(c) /\ th'[c] = IdleThread
  BY <1>1 DEF Reply, Others
<1>3. th'[c].pc = "idle" /\ th'[c].cmd = Absent /\ th'[c].since = 0
  <2>1. IdleThread.pc = "idle" /\ IdleThread.cmd = Absent /\ IdleThread.since = 0
    BY DEF IdleThread
  <2> QED
    BY <1>2, <2>1
<1>4. ~Effective(th'[c]) /\ (\A k : ~Moves(th'[c], k)) /\ Effective(th[c])
  BY <1>1, <1>3 DEF Effective, Moves
<1>5. LinOK(th'[c], disk, now)
  BY <1>3 DEF LinOK, Reading, Putting, Deleting, getTypedPCs, putPCs
<1>6. Lin'
  BY <1>1, <1>2, <1>5, LinStep
<1>7. \A k \in Keys : Moves(th[c], k) => disk[k] = Absent
  BY <1>1 DEF Lin, LinOK, Moves
<1>8. ASSUME NEW k \in Keys PROVE (IF Moved(k)' THEN Absent ELSE disk[k]) = IF Moved(k) THEN Absent ELSE disk[k]
  <2>1. CASE Moves(th[c], k)
    BY <1>7, <2>1
  <2>2. CASE ~Moves(th[c], k)
    BY <1>2, <1>4, <2>2, MovedKept
  <2> QED
    BY <2>1, <2>2
<1>9. AbstractStore' = AbstractStore
  BY <1>1, <1>8 DEF AbstractStore
<1>10. CallOf(th'[c]) = Abstract!CallOf(Absent, 0)
  <2>1. Effective(th'[c]) \in BOOLEAN
    BY DEF Effective
  <2>2. Effective(th'[c]) = FALSE
    BY <1>4, <2>1, SMTT(30)
  <2> QED
    BY <1>3, <1>4, <2>2 DEF CallOf, AnswerOf, NoResult, Abstract!CallOf
<1>11. \A d \in Clients \ {c} : CallOf(th'[d]) = CallOf(th[d])
  BY <1>2 DEF Others
<1>12. AbstractCalls' = [d \in Clients |-> CallOf(th'[d])] /\ DOMAIN AbstractCalls = Clients /\ \A d \in Clients : AbstractCalls[d] = CallOf(th[d])
  BY DEF AbstractCalls, CallOf
<1>13. AbstractCalls' = [AbstractCalls EXCEPT ![c] = Abstract!CallOf(Absent, 0)]
  BY <1>10, <1>11, <1>12
<1>14. AbstractCalls[c].done
  BY <1>1, <1>4, CallIs
<1>15. Abstract!Return(c)
  BY <1>1, <1>9, <1>13, <1>14 DEF Abstract!Return
<1> QED
  BY <1>6, <1>15 DEF Step, Abstract!Next

\* Nothing of the store or the goroutines changes.
LEMMA Idle ==
  ASSUME disk' = disk, th' = th
  PROVE  AbstractStore' = AbstractStore /\ AbstractCalls' = AbstractCalls
<1>1. \A k : Moved(k)' <=> Moved(k)
  BY DEF Moved, Moves
<1>2. AbstractStore' = AbstractStore
  BY <1>1 DEF AbstractStore
<1>3. AbstractCalls' = [d \in Clients |-> CallOf(th'[d])]
  BY DEF AbstractCalls, CallOf
<1> QED
  BY <1>2, <1>3 DEF AbstractCalls

LEMMA TickLin ==
  ASSUME Inv, Lin, Tick
  PROVE  Lin' /\ Step
<1>1. TypeOK /\ now \in Nat /\ now' = now + 1 /\ disk' = disk /\ th' = th
  BY DEF Inv, Tick, TypeOK, store
<1>2. Abstract!Tick
  BY <1>1, Idle DEF Abstract!Tick
<1>3. ASSUME NEW c \in Clients PROVE LinOK(th'[c], disk', now')
  <2>1. LinOK(th[c], disk, now)
    BY DEF Lin
  <2>2. Deleting(th[c]) => Deletes(th[c].cmd, disk[th[c].cmd.key], now')
    <3> SUFFICES ASSUME Deleting(th[c]) PROVE Deletes(th[c].cmd, disk[th[c].cmd.key], now')
      OBVIOUS
    <3>1. Running(c)
      BY DEF Deleting, Running
    <3>2. th[c].cmd \in Commands /\ th[c].cmd.key \in Keys /\ th[c].cmd.at \in Nat
      BY <1>1, <3>1, ThreadIs, CommandIs
    <3>3. disk[th[c].cmd.key] \in Record \cup {Absent}
      BY <1>1, <3>2 DEF TypeOK
    <3>4. SetExp(th[c].cmd, disk[th[c].cmd.key]) \in Nat
      BY <3>2, <3>3, ExpIs DEF SetExp
    <3>5. \A e \in Nat : e <= now => e <= now'
      BY <1>1, SMTT(30)
    <3>6. Deletes(th[c].cmd, disk[th[c].cmd.key], now)
      BY <2>1 DEF LinOK
    <3> QED
      BY <3>2, <3>4, <3>5, <3>6 DEF Deletes
  <2> QED
    BY <1>1, <2>1, <2>2 DEF LinOK
<1>4. Lin'
  BY <1>3 DEF Lin
<1> QED
  BY <1>2, <1>4 DEF Step, Abstract!Next

\* As long as eviction leaves the records in Pebble, no client can tell.
LEMMA EvictLin ==
  ASSUME Persist, Inv, Lin, NEW k \in Keys, Evict(k)
  PROVE  Lin' /\ Step
<1>1. evict[k] # "picked"
  BY DEF Inv, EvictInv
<1>2. disk' = disk /\ th' = th /\ now' = now
  BY <1>1 DEF Evict, EvictPick, EvictDisk, EvictDict, store
<1>3. \A c \in Clients : LinOK(th'[c], disk', now')
  BY <1>2 DEF Lin
<1>4. Lin'
  BY <1>3 DEF Lin
<1> QED
  BY <1>2, <1>4, Idle DEF Step, Abstract!vars

LEMMA InitLin ==
  ASSUME Init
  PROVE  Lin /\ Abstract!Init
<1>1. now = 1 /\ \A c \in Clients : th[c] = IdleThread
  BY DEF Init
<1>2. IdleThread.pc = "idle" /\ IdleThread.cmd = Absent /\ IdleThread.since = 0
  BY DEF IdleThread
<1>3. Lin
  BY <1>1, <1>2 DEF Lin, LinOK, Reading, Putting, Deleting, getTypedPCs, putPCs
<1>4. ~Effective(IdleThread) /\ \A k : ~Moves(IdleThread, k)
  BY <1>2 DEF Effective, Moves
<1>5. AbstractStore = [k \in Keys |-> disk[k]]
  BY <1>1, <1>4 DEF AbstractStore, Moved
<1>6. \A k \in Keys : AbstractStore[k] \in Record \cup {Absent}
  BY <1>5, RecordsAssumption DEF Init, Record
<1>7. \A k \in Keys : AbstractStore[k] = Absent \/ AbstractStore[k].exp >= 0
  BY <1>6, RecordIs, SMTT(30)
<1>8. CallOf(IdleThread) = Abstract!CallOf(Absent, 0)
  <2>1. Effective(IdleThread) \in BOOLEAN
    BY DEF Effective
  <2>2. Effective(IdleThread) = FALSE
    BY <1>4, <2>1, SMTT(30)
  <2> QED
    BY <1>2, <1>4, <2>2 DEF CallOf, AnswerOf, NoResult, Abstract!CallOf
<1>9. AbstractCalls = [c \in Clients |-> Abstract!CallOf(Absent, 0)]
  BY <1>1, <1>8 DEF AbstractCalls
<1>10. now >= 0
  BY <1>1, SMTT(30)
<1> QED
  BY <1>3, <1>7, <1>9, <1>10 DEF Abstract!Init

LEMMA RunLin ==
  ASSUME Dispatched, Persist, Inv, Lin, NEW c \in Clients, Run(c)
  PROVE  Lin' /\ Step
  BY LookupLin, DropEntryLin, ReadDiskLin, AdmitLin, ReapEntryLin, ReapDiskLin, PutDiskLin, PutDictLin, OldExpiryLin,
     TypeOfLin, DeleteEntryLin, DeletePersistedLin, DeleteIndexLin, HandlerLin, ReplyLin
  DEF Run, getTyped, putValue, deleteKey

LEMMA NextLin ==
  ASSUME Dispatched, Whole, Inv, Lin, [Next]_vars
  PROVE  Lin' /\ Step
<1>1. Persist
  BY DEF Whole
<1>2. CASE \E c \in Clients : Run(c)
  BY <1>1, <1>2, RunLin
<1>3. CASE \E c \in Clients, q \in Commands : Invoke(c, q)
  BY <1>3, InvokeLin
<1>4. ~Cycle
  BY DEF Cycle, CycleStart, CycleCollect, CycleApply, Dispatched, Inv, TypeOK, NoCycle
<1>5. CASE \E k \in Keys : Evict(k)
  BY <1>1, <1>5, EvictLin
<1>6. CASE Tick
  BY <1>6, TickLin
<1>7. ~Crash
  <2>1. crashes \in Nat /\ MaxCrashes = 0
    BY DEF Inv, Whole
  <2>2. ~(crashes < MaxCrashes)
    BY <2>1, SMTT(30)
  <2> QED
    BY <2>2 DEF Crash
<1>8. CASE UNCHANGED vars
  <2>1. disk' = disk /\ th' = th /\ now' = now
    BY <1>8 DEF vars
  <2>2. \A c \in Clients : LinOK(th'[c], disk', now')
    BY <2>1 DEF Lin
  <2>3. Lin'
    BY <2>2 DEF Lin
  <2> QED
    BY <2>1, <2>3, Idle DEF Step, Abstract!vars
<1> QED
  BY <1>2, <1>3, <1>4, <1>5, <1>6, <1>7, <1>8 DEF Next

-----------------------------------------------------------------------------

\* Commands that come through dispatch are linearizable, for every set of
\* clients, keys, payloads and commands: getTyped, putValue and deleteKey, step
\* by step over a dict that evicts and re-admits underneath them, implement the
\* atomic map of AtomicStore.  The dict may lose any entry at any time, records
\* stay in Pebble (persist mode), and no crash cuts a call short.
THEOREM CommandsLinearizable == ASSUME Dispatched, Whole PROVE Spec => Linearizable
<1>1. Init => Inv /\ Lin /\ Abstract!Init
  BY InitInv, InitLin
<1>2. Inv /\ Lin /\ [Next]_vars => Inv' /\ Lin' /\ [Abstract!Next]_(Abstract!vars)
  BY NextInv, NextLin DEF Step
<1> QED
  BY <1>1, <1>2, PTL DEF Spec, Linearizable, Abstract!Spec

=============================================================================
