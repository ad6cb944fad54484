---------------------------- MODULE AtomicStore ----------------------------
(***************************************************************************)
(* What the string commands promise a client: each takes effect at one     *)
(* instant between its call and its reply, on a plain map from keys to     *)
(* records, whatever the dict holds, loses or re-admits.  A record past    *)
(* its deadline may vanish at any time; a command called at or after the   *)
(* deadline never sees it, one called before may or may not.               *)
(*                                                                         *)
(* DataPath is shown to implement this module.                             *)
(***************************************************************************)
EXTENDS Integers

CONSTANTS Clients, Keys, Commands, Absent

VARIABLES kv,     \* kv[k]: a record [val, exp], or Absent
          now,
          req     \* req[c]: c's call; its cmd is Absent between two calls

vars == <<kv, now, req>>

Expired(r, t) == r.exp # 0 /\ r.exp <= t

\* What may have become of record r by now.
MayBe(r) == {r} \cup (IF Expired(r, now) THEN {Absent} ELSE {})

\* What a call made at time t may find under k.
Sees(k, t) ==
  IF kv[k] = Absent THEN {Absent}
  ELSE MayBe(kv[k]) \ (IF Expired(kv[k], t) THEN {kv[k]} ELSE {})

CallOf(q, t) == [cmd |-> q, since |-> t, done |-> FALSE, res |-> [hit |-> FALSE, val |-> {}]]

Call(c, q) == /\ req[c].cmd = Absent
              /\ req' = [req EXCEPT ![c] = CallOf(q, now)]
              /\ UNCHANGED <<kv, now>>

Return(c) == /\ req[c].done
             /\ req' = [req EXCEPT ![c] = CallOf(Absent, 0)]
             /\ UNCHANGED <<kv, now>>

Answer(c, hit, val) ==
  req' = [req EXCEPT ![c] = [cmd |-> @.cmd, since |-> @.since, done |-> TRUE,
                             res |-> [hit |-> hit, val |-> val]]]

Refuse(c) == Answer(c, FALSE, {}) /\ kv' = kv

Put(c, k, r) == /\ \E x \in MayBe(r) : kv' = [kv EXCEPT ![k] = x]
                /\ Answer(c, TRUE, {})

Remove(c, k) == kv' = [kv EXCEPT ![k] = Absent] /\ Answer(c, TRUE, {})

Get(c, seen) == Answer(c, seen # Absent, IF seen = Absent THEN {} ELSE seen.val) /\ kv' = kv

Set(c, q, seen) ==
  LET exp == IF "KEEPTTL" \notin q.opts THEN q.at ELSE IF seen = Absent THEN 0 ELSE seen.exp IN
  IF ("NX" \in q.opts /\ seen # Absent) \/ ("XX" \in q.opts /\ seen = Absent)
  THEN Refuse(c)
  ELSE Put(c, q.key, [val |-> q.val, exp |-> exp])

Del(c, q, seen) ==
  IF seen = Absent THEN Refuse(c) ELSE Remove(c, q.key)

\* A deadline of 0, the epoch, is always in the past.
Expire(c, q, seen) ==
  IF \/ seen = Absent
     \/ "NX" \in q.opts /\ seen.exp # 0
     \/ "XX" \in q.opts /\ seen.exp = 0
     \/ "GT" \in q.opts /\ (seen.exp = 0 \/ q.at <= seen.exp)
     \/ "LT" \in q.opts /\ seen.exp # 0 /\ q.at >= seen.exp
  THEN Refuse(c)
  ELSE IF q.at = 0 THEN Remove(c, q.key)
  ELSE Put(c, q.key, [seen EXCEPT !.exp = q.at])

Persist(c, q, seen) ==
  IF seen = Absent THEN Refuse(c)
  ELSE IF seen.exp = 0 THEN Refuse(c)
  ELSE Put(c, q.key, [seen EXCEPT !.exp = 0])

Append(c, q, seen) ==
  Put(c, q.key, IF seen = Absent THEN [val |-> q.val, exp |-> 0]
                ELSE [seen EXCEPT !.val = @ \cup q.val])

Rename(c, q, seen, there) ==
  IF seen = Absent \/ ("NX" \in q.opts /\ there # Absent) THEN Refuse(c)
  ELSE IF q.key = q.dst THEN Answer(c, TRUE, {}) /\ kv' = kv
  ELSE /\ \E x \in MayBe(seen) : kv' = [kv EXCEPT ![q.key] = Absent, ![q.dst] = x]
       /\ Answer(c, TRUE, {})

Perform(c) ==
  /\ req[c].cmd # Absent
  /\ ~req[c].done
  /\ LET q == req[c].cmd IN
     \E seen \in Sees(q.key, req[c].since) :
       CASE q.op = "GET" -> Get(c, seen)
         [] q.op = "SET" -> Set(c, q, seen)
         [] q.op = "DEL" -> Del(c, q, seen)
         [] q.op = "EXPIRE" -> Expire(c, q, seen)
         [] q.op = "PERSIST" -> Persist(c, q, seen)
         [] q.op = "APPEND" -> Append(c, q, seen)
         [] q.op = "RENAME" -> \E there \in Sees(q.dst, req[c].since) : Rename(c, q, seen, there)
         [] OTHER -> FALSE
  /\ now' = now

\* Lazy expiry, active expiry, or the sweep of a restart.
Reap == /\ \E D \in SUBSET {k \in Keys : kv[k] # Absent /\ Expired(kv[k], now)} :
             kv' = [k \in Keys |-> IF k \in D THEN Absent ELSE kv[k]]
        /\ UNCHANGED <<now, req>>

Tick == now' = now + 1 /\ UNCHANGED <<kv, req>>

Init == /\ \A k \in Keys : kv[k] = Absent \/ kv[k].exp >= 0
        /\ now >= 0
        /\ req = [c \in Clients |-> CallOf(Absent, 0)]

Next == \/ \E c \in Clients : Perform(c) \/ Return(c) \/ \E q \in Commands : Call(c, q)
        \/ Reap
        \/ Tick

Spec == Init /\ [][Next]_vars

=============================================================================
