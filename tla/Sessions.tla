------------------------------ MODULE Sessions ------------------------------
(***************************************************************************)
(* Connections, transactions and counters: Server.handle, txn.go, and the  *)
(* commands GET, SET, DEL, EXPIRE and INCR as the steps between which      *)
(* other clients get a turn.  A command holds its key's lock from start to *)
(* reply, except INCR, which merges without one, and EXEC with all it      *)
(* replays, since commandKeys finds no key in it.  The dict keeps a        *)
(* version per entry for WATCH; the evictor takes entries away at any      *)
(* time.  DataPath models the same data path with its expiry index and     *)
(* the expirer; the index is left out here.                                *)
(***************************************************************************)
EXTENDS Counter, FiniteSets

CONSTANTS Clients, Keys,
          Commands,     \* [Clients -> set of commands a client may send]
          Budget,       \* [Clients -> bound on the commands a client sends]
          MaxQueue,     \* bound on a transaction's queue
          MaxEvictions,
          None

ASSUME SessionsAssumption == MaxQueue \in Nat /\ MaxEvictions \in Nat /\ None \notin Keys

VARIABLES eng,          \* Pebble: [Keys -> records, newest first]
          dict,         \* [Keys -> entry or None]
          now,          \* the clock: a deadline is 1, or already past
          conn,         \* connState: [Clients -> connection]
          cl,           \* what each client's goroutine is doing
          left,         \* commands each client may still send
          evictions,
          sum,          \* history: what puts, deletes and increments make of a key
          seen,         \* history: what happened to a key since the client watched it
          refused       \* history: a command of the client's open transaction was refused

store == <<eng, dict, now, evictions, sum>>

vars == <<store, conn, cl, left, seen, refused>>

Fresh == [inTxn |-> FALSE, queue |-> <<>>, dirty |-> FALSE, watched |-> <<>>]

\* op: the command that runs; todo: the rest of a transaction's queue; keys: watched keys left to check.
Idle == [pc |-> "idle", op |-> None, v |-> 0, exp |-> 0, todo |-> <<>>, keys |-> {}, exec |-> FALSE]

Writes == {"SET", "DEL", "EXPIRE", "INCR"}

-----------------------------------------------------------------------------
(* Dict and engine.                                                        *)

expired(exp) == exp # 0 /\ exp <= now

Entry(v, exp, ctr, ver) == [v |-> v, exp |-> exp, ctr |-> ctr, ver |-> ver]

nextVersion(k) == IF dict[k] = None THEN 1 ELSE dict[k].ver + 1

dictSet(k, v, exp) == dict' = [dict EXCEPT ![k] = Entry(v, exp, FALSE, nextVersion(k))]

\* Slip: a counter's entry keeps its version.
SetCounterQuiet(k, exp) ==
    dict' = [dict EXCEPT ![k] = IF @ = None THEN Entry(0, exp, TRUE, 1) ELSE [@ EXCEPT !.exp = exp, !.ctr = TRUE]]

SetCounter(k, exp) ==
    dict' = [dict EXCEPT ![k] = IF dict[k] = None THEN Entry(0, exp, TRUE, 1)
                                ELSE [dict[k] EXCEPT !.exp = exp, !.ctr = TRUE, !.ver = nextVersion(k)]]

\* Delete of the dict: what Lookup does to an expired entry, DEL, lazy expiry and the evictor.
dictDelete(k) == dict' = [dict EXCEPT ![k] = None]

\* Whether Lookup finds k.
found(k) == dict[k] # None /\ ~expired(dict[k].exp)

\* History: seen, once event e happened to k.
noted(k, e) == [c \in Clients |-> IF k \in DOMAIN seen[c] THEN [seen[c] EXCEPT ![k] = @ \cup {e}] ELSE seen[c]]

note(k, e) == seen' = noted(k, e)

\* Lookup drops an expired entry: the dict, and the history, after it.
lookedUp(k) == IF found(k) THEN dict ELSE [dict EXCEPT ![k] = None]

missed(k) == IF dict[k] = lookedUp(k)[k] THEN seen ELSE noted(k, "gone")

put(k, v, exp) == eng' = [eng EXCEPT ![k] = overwrite(v, exp)] /\ sum' = [sum EXCEPT ![k] = v]

delete(k) == eng' = [eng EXCEPT ![k] = <<>>] /\ sum' = [sum EXCEPT ![k] = None]

-----------------------------------------------------------------------------
(* Clients.                                                                *)

\* d holds the lock of m's key in a mode m cannot share: GET shares it, INCR and what EXEC runs take none.
Holds(d, m) ==
    /\ cl[d].op # None /\ ~cl[d].exec
    /\ cl[d].op.name # "INCR" /\ cl[d].op.key = m.key
    /\ ~(cl[d].op.name = "GET" /\ m.name = "GET")

LockFree(c, m) == m.name = "INCR" \/ {d \in Clients \ {c} : Holds(d, m)} = {}

Goto(c, pc) == cl' = [cl EXCEPT ![c].pc = pc]

\* The command of c is answered: on with EXEC's queue, or idle.
Answered(c) ==
    cl' = [cl EXCEPT ![c] =
              IF cl[c].exec /\ cl[c].todo # <<>> THEN [Idle EXCEPT !.pc = "replay", !.todo = cl[c].todo, !.exec = TRUE]
              ELSE Idle]

At(c, pc) == cl[c].pc = pc

keyOf(c) == cl[c].op.key

-----------------------------------------------------------------------------
(* getTyped, in one step: DataPath interleaves what happens inside it.     *)

\* The dict answers for an entry that is no counter; else Pebble does, an expired record goes, and a
\* live one is admitted again, which moves the version.
getTyped(c) ==
    LET k == keyOf(c)
        dropped == dict[k] # None /\ ~found(k)
    IN  IF found(k) /\ ~dict[k].ctr THEN UNCHANGED <<eng, dict, sum, seen>>
        ELSE IF eng[k] = <<>> THEN dict' = lookedUp(k) /\ seen' = missed(k) /\ UNCHANGED <<eng, sum>>
        ELSE LET r == resolve(eng[k]) IN
             IF expired(r.exp) THEN delete(k) /\ dictDelete(k) /\ note(k, "gone")
             ELSE /\ dict' = [dict EXCEPT ![k] = IF found(k) THEN [dict[k] EXCEPT !.exp = r.exp, !.ver = nextVersion(k)]
                                                 ELSE Entry(r.v, r.exp, FALSE, 1)]
                  /\ note(k, IF dropped THEN "gone" ELSE "read")
                  /\ UNCHANGED <<eng, sum>>

\* What it returns: the dict's value, Pebble's, or None.
typed(k) ==
    IF found(k) /\ ~dict[k].ctr THEN [v |-> dict[k].v, exp |-> dict[k].exp]
    ELSE IF eng[k] = <<>> \/ expired(resolve(eng[k]).exp) THEN None
    ELSE [v |-> resolve(eng[k]).v, exp |-> resolve(eng[k]).exp]

\* A command reads its key.  INCR wants a number with room for the increment; without a key GET, DEL and
\* EXPIRE are done.
read(c) ==
    LET o == cl[c].op
        t == typed(o.key)
        next == IF o.name \in {"SET", "EXPIRE"} THEN "put" ELSE IF o.name = "INCR" THEN "merge" ELSE "typeOf"
        bad == o.name = "INCR" /\ (t.v = Text \/ (t.v # Text /\ t.v > MaxInt - o.arg))
    IN  /\ At(c, "get")
        /\ getTyped(c)
        /\ IF o.name = "GET" THEN Answered(c)
           ELSE IF t = None THEN (IF o.name \in {"SET", "INCR"} THEN Goto(c, next) ELSE Answered(c))
           ELSE IF bad THEN Answered(c)
           ELSE cl' = [cl EXCEPT ![c].pc = next, ![c].v = t.v]
        /\ UNCHANGED <<now, evictions, conn, left, refused>>

-----------------------------------------------------------------------------
(* The writing commands, after getTyped.                                   *)

\* putValue of SET and of EXPIRE, which writes back the value it read; a deadline that is past deletes.
putValue(c) ==
    LET o == cl[c].op
    IN  /\ At(c, "put")
        /\ IF o.name = "EXPIRE" /\ o.arg <= now THEN Goto(c, "typeOf") /\ UNCHANGED <<eng, sum>>
           ELSE IF o.name = "EXPIRE" THEN put(o.key, cl[c].v, o.arg) /\ cl' = [cl EXCEPT ![c].pc = "index", ![c].exp = o.arg]
           ELSE put(o.key, o.arg, 0) /\ cl' = [cl EXCEPT ![c].pc = "index", ![c].v = o.arg, ![c].exp = 0]
        /\ UNCHANGED <<dict, now, evictions, conn, left, seen, refused>>

putValueIndex(c) ==
    /\ At(c, "index")
    /\ dictSet(keyOf(c), cl[c].v, cl[c].exp)
    /\ note(keyOf(c), "wrote")
    /\ Answered(c)
    /\ UNCHANGED <<eng, now, evictions, sum, conn, left, refused>>

\* deleteKey asks for the type first, which is another getTyped.
typeOf(c) ==
    /\ At(c, "typeOf")
    /\ getTyped(c)
    /\ IF typed(keyOf(c)) = None THEN Answered(c) ELSE Goto(c, "drop")
    /\ UNCHANGED <<now, evictions, conn, left, refused>>

deleteKey(c) ==
    /\ At(c, "drop")
    /\ dictDelete(keyOf(c)) /\ note(keyOf(c), "gone")
    /\ Goto(c, "delete")
    /\ UNCHANGED <<eng, now, evictions, sum, conn, left, refused>>

deletePersisted(c) ==
    /\ At(c, "delete")
    /\ delete(keyOf(c))
    /\ Answered(c)
    /\ UNCHANGED <<dict, now, evictions, conn, left, seen, refused>>

incrBy(c) ==
    LET o == cl[c].op
        s == sum[o.key]
    IN  /\ At(c, "merge")
        /\ eng' = [eng EXCEPT ![o.key] = <<EncodeIntDelta(o.arg)>> \o @]
        /\ sum' = [sum EXCEPT ![o.key] = IF s = None \/ s = Text THEN o.arg ELSE s + o.arg]
        /\ Goto(c, "readBack")
        /\ UNCHANGED <<dict, now, evictions, conn, left, seen, refused>>

\* Past int64 the answer is an error; the operand stays.  A deleted key reads as no number, too.
getCounterValue(c) ==
    LET k == keyOf(c)
    IN  /\ At(c, "readBack")
        /\ IF eng[k] = <<>> \/ ~isInt(resolve(eng[k]).v) \/ resolve(eng[k]).v > MaxInt THEN Answered(c)
           ELSE cl' = [cl EXCEPT ![c].pc = "setCounter", ![c].v = resolve(eng[k]).v, ![c].exp = resolve(eng[k]).exp]
        /\ UNCHANGED <<store, conn, left, seen, refused>>

incrReply(c) ==
    /\ At(c, "setCounter")
    /\ SetCounter(keyOf(c), cl[c].exp)
    /\ note(keyOf(c), "wrote")
    /\ Answered(c)
    /\ UNCHANGED <<eng, now, evictions, sum, conn, left, refused>>

-----------------------------------------------------------------------------
(* Connections: Server.handle and the commands of txn.go.                  *)

\* The bound: MULTI and data commands use up the client's budget, the others are free.
Sends(c, m) ==
    /\ At(c, "idle")
    /\ IF m.name \in Writes \cup {"GET", "MULTI"} THEN left[c] > 0 /\ left' = [left EXCEPT ![c] = @ - 1] ELSE UNCHANGED left

forget(c) == seen' = [seen EXCEPT ![c] = <<>>]

Control == {"MULTI", "EXEC", "DISCARD", "WATCH"}

\* Slip: an unknown command or a wrong arity inside MULTI is answered, and forgotten.
poisonNot(c) == UNCHANGED conn

poison(c) == conn' = [conn EXCEPT ![c].dirty = @ \/ conn[c].inTxn]

\* handle refuses m: an unknown name, or, when it would be queued, a wrong number of arguments.
handleRefuses(c, m) ==
    /\ Sends(c, m)
    /\ m.name = "UNKNOWN" \/ (m.name = "ARITY" /\ conn[c].inTxn)
    /\ poison(c)
    /\ refused' = [refused EXCEPT ![c] = @ \/ conn[c].inTxn]
    /\ UNCHANGED <<store, cl, seen>>

\* Inside MULTI everything but the transaction commands is queued.
handleQueues(c, m) ==
    /\ Sends(c, m)
    /\ conn[c].inTxn /\ m.name \notin Control \cup {"UNKNOWN", "ARITY"} /\ Len(conn[c].queue) < MaxQueue
    /\ conn' = [conn EXCEPT ![c].queue = Append(@, m)]
    /\ UNCHANGED <<store, cl, seen, refused>>

\* Outside, a data command takes its lock and runs, or is refused for want of memory.
handle(c, m) ==
    /\ Sends(c, m)
    /\ ~conn[c].inTxn /\ m.name \in Writes \cup {"GET"}
    /\ LockFree(c, m)
    /\ \/ cl' = [cl EXCEPT ![c] = [Idle EXCEPT !.pc = "get", !.op = m]]
       \/ m.name \in Writes /\ UNCHANGED cl
    /\ UNCHANGED <<store, conn, seen, refused>>

\* A nested MULTI is refused and changes nothing.
cmdMulti(c, m) ==
    /\ Sends(c, m) /\ m.name = "MULTI"
    /\ IF conn[c].inTxn THEN UNCHANGED <<conn, refused>>
       ELSE /\ conn' = [conn EXCEPT ![c].inTxn = TRUE, ![c].queue = <<>>, ![c].dirty = FALSE]
            /\ refused' = [refused EXCEPT ![c] = FALSE]
    /\ UNCHANGED <<store, cl, seen>>

abortTxn(c) == conn' = [conn EXCEPT ![c] = Fresh] /\ refused' = [refused EXCEPT ![c] = FALSE]

cmdDiscard(c, m) ==
    /\ Sends(c, m) /\ m.name = "DISCARD"
    /\ IF conn[c].inTxn THEN abortTxn(c) /\ forget(c) ELSE UNCHANGED <<conn, seen, refused>>
    /\ UNCHANGED <<store, cl>>

\* A key watched already keeps its first version.  Lookup drops an expired entry, so the flag for a key
\* that is stale when it is watched never comes true.
cmdWatch(c, m) ==
    /\ Sends(c, m) /\ m.name = "WATCH"
    /\ IF conn[c].inTxn \/ m.key \in DOMAIN conn[c].watched THEN UNCHANGED <<conn, dict, seen>>
       ELSE LET k == m.key
                w == IF found(k) THEN [ver |-> dict[k].ver, exp |-> dict[k].exp] ELSE [ver |-> 0, exp |-> -1]
                watching(f, x) == [j \in DOMAIN f \cup {k} |-> IF j = k THEN x ELSE f[j]]
            IN  /\ conn' = [conn EXCEPT ![c].watched = watching(@, w)]
                /\ dict' = lookedUp(k)
                /\ seen' = [missed(k) EXCEPT ![c] = watching(@, {})]
    /\ UNCHANGED <<eng, now, evictions, sum, cl, refused>>

cmdUnwatch(c, m) ==
    /\ Sends(c, m) /\ m.name = "UNWATCH" /\ ~conn[c].inTxn
    /\ conn' = [conn EXCEPT ![c].watched = <<>>] /\ forget(c)
    /\ UNCHANGED <<store, cl, refused>>

cmdExec(c, m) ==
    /\ Sends(c, m) /\ m.name = "EXEC"
    /\ cl' = IF conn[c].inTxn THEN [cl EXCEPT ![c] = [Idle EXCEPT !.pc = "check", !.keys = DOMAIN conn[c].watched]] ELSE cl
    /\ UNCHANGED <<store, conn, seen, refused>>

\* A watched key was created, written or removed since, as far as the dict can tell.
changed(c, k) ==
    LET w == conn[c].watched[k]
    IN  IF found(k) THEN w.exp < 0 \/ dict[k].ver # w.ver ELSE w.exp >= 0

execCheck(c, k) ==
    /\ At(c, "check") /\ k \in cl[c].keys
    /\ dict' = lookedUp(k)
    /\ seen' = IF changed(c, k) THEN [missed(k) EXCEPT ![c] = <<>>] ELSE missed(k)
    /\ IF changed(c, k) THEN abortTxn(c) /\ cl' = [cl EXCEPT ![c] = Idle]
       ELSE cl' = [cl EXCEPT ![c].keys = @ \ {k}] /\ UNCHANGED <<conn, refused>>
    /\ UNCHANGED <<eng, now, evictions, sum, left>>

\* Slip: a transaction that ran keeps its watches.
execRunKeepsWatch(c) ==
    /\ At(c, "check") /\ cl[c].keys = {}
    /\ conn' = [conn EXCEPT ![c] = [Fresh EXCEPT !.watched = conn[c].watched]] /\ forget(c)
    /\ refused' = [refused EXCEPT ![c] = FALSE]
    /\ cl' = [cl EXCEPT ![c] = IF conn[c].dirty \/ conn[c].queue = <<>> THEN Idle
                               ELSE [Idle EXCEPT !.pc = "replay", !.todo = conn[c].queue, !.exec = TRUE]]
    /\ UNCHANGED <<store, left>>

\* Every watched key is as it was: EXECABORT for a poisoned queue, or the replay.
execRun(c) ==
    /\ At(c, "check") /\ cl[c].keys = {}
    /\ abortTxn(c) /\ forget(c)
    /\ cl' = [cl EXCEPT ![c] = IF conn[c].dirty \/ conn[c].queue = <<>> THEN Idle
                               ELSE [Idle EXCEPT !.pc = "replay", !.todo = conn[c].queue, !.exec = TRUE]]
    /\ UNCHANGED <<store, left>>

\* The next command of the queue, without its lock; a write may be refused for want of memory.
execReplay(c) ==
    LET m == Head(cl[c].todo)
        rest == [cl EXCEPT ![c] = IF Len(cl[c].todo) = 1 THEN Idle ELSE [cl[c] EXCEPT !.todo = Tail(cl[c].todo)]]
    IN  /\ At(c, "replay")
        /\ IF m.name = "UNWATCH" THEN conn' = [conn EXCEPT ![c].watched = <<>>] /\ cl' = rest
           ELSE /\ UNCHANGED conn
                /\ \/ cl' = [cl EXCEPT ![c] = [Idle EXCEPT !.pc = "get", !.op = m, !.todo = Tail(cl[c].todo), !.exec = TRUE]]
                   \/ m.name \in Writes /\ cl' = rest
        /\ UNCHANGED <<store, left, seen, refused>>

-----------------------------------------------------------------------------
(* The surroundings.                                                       *)

\* The evictor drops an entry; a compaction folds two records; the clock reaches the deadline of a
\* record (a tick nothing can notice is left out).
evictOne(k) ==
    /\ dict[k] # None /\ evictions < MaxEvictions
    /\ dictDelete(k) /\ note(k, "gone")
    /\ evictions' = evictions + 1
    /\ UNCHANGED <<eng, now, sum, conn, cl, left, refused>>

Compact(k, i) ==
    /\ eng' = [eng EXCEPT ![k] = compacted(@, i)]
    /\ UNCHANGED <<dict, now, evictions, sum, conn, cl, left, seen, refused>>

Tick ==
    /\ now = 0
    /\ \E k \in Keys : eng[k] # <<>> /\ resolve(eng[k]).exp = 1
    /\ now' = 1
    /\ UNCHANGED <<eng, dict, evictions, sum, conn, cl, left, seen, refused>>

Init ==
    /\ eng = [k \in Keys |-> <<>>] /\ dict = [k \in Keys |-> None] /\ now = 0
    /\ conn = [c \in Clients |-> Fresh] /\ cl = [c \in Clients |-> Idle] /\ left = Budget
    /\ evictions = 0
    /\ sum = [k \in Keys |-> None] /\ seen = [c \in Clients |-> <<>>] /\ refused = [c \in Clients |-> FALSE]

Command(c, m) ==
    \/ handleRefuses(c, m) \/ handleQueues(c, m) \/ handle(c, m)
    \/ cmdMulti(c, m) \/ cmdDiscard(c, m) \/ cmdWatch(c, m) \/ cmdUnwatch(c, m) \/ cmdExec(c, m)

Step(c) ==
    \/ read(c) \/ typeOf(c) \/ putValue(c) \/ putValueIndex(c) \/ deleteKey(c) \/ deletePersisted(c)
    \/ incrBy(c) \/ getCounterValue(c) \/ incrReply(c)
    \/ execRun(c) \/ execReplay(c)

Next ==
    \/ \E c \in Clients : Step(c) \/ (\E m \in Commands[c] : Command(c, m)) \/ (\E k \in Keys : execCheck(c, k))
    \/ \E k \in Keys : evictOne(k) \/ \E i \in 1..Len(eng[k]) - 1 : Compact(k, i)
    \/ Tick

Spec == Init /\ [][Next]_vars

-----------------------------------------------------------------------------
(* Properties.                                                             *)

\* No increment is lost between incrBy's merge and a read, however Pebble stacks and folds the operands
\* (merge.go fold, Finish) and whatever base they meet: absent, a number, text, another client's put.
\* It holds up to Exact, past which formatCounterFloat rounds.
IncrementsKept ==
    \A k \in Keys : /\ (eng[k] = <<>>) = (sum[k] = None)
                    /\ sum[k] \notin {None, Text} /\ abs(sum[k]) <= Exact => resolve(eng[k]).v = sum[k]

\* An EXEC does not get past a watched key that was written, by a command that was answered, since
\* cmdWatch took its version, unless the dict entry went away in between: versions start again then.
WatchDetects ==
    [][\A c \in Clients, k \in Keys :
          At(c, "check") /\ k \in cl[c].keys /\ cl'[c].pc = "check" /\ k \notin cl'[c].keys
            => ("wrote" \in seen[c][k] => "gone" \in seen'[c][k])]_vars

\* cmdExec answers nil only when the dict entry of a key watched for this very transaction was written,
\* removed or admitted again since: nothing from an earlier transaction is left in watched.
WatchPrecise ==
    [][\A c \in Clients :
          At(c, "check") /\ cl'[c].pc = "idle" /\ cl[c].keys # {}
            => \E k \in DOMAIN seen[c] : seen[c][k] # {} \/ expired(dict[k].exp)]_vars

\* cmdExec runs nothing of a transaction in which handle refused a command (EXECABORT), whatever came
\* after the refusal, a second MULTI included.
PoisonedNeverRuns ==
    [][\A c \in Clients : At(c, "check") /\ cl'[c].pc = "replay" => ~refused[c]]_vars

=============================================================================
