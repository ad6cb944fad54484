------------------------------ MODULE Streams -------------------------------
(***************************************************************************)
(* One stream and one consumer group (stream.go, cmd_stream.go) under      *)
(* clients whose commands interleave at the engine's reads and writes.     *)
(* commandKeys gives XADD, XDEL, XTRIM, XACK and XCLAIM the stream's lock, *)
(* but XREADGROUP and XGROUP the lock of their first argument, which is    *)
(* the word GROUP or the subcommand: reading a group excludes reading it,  *)
(* and nothing else.  XREAD and XREADGROUP keep their lock while they are  *)
(* parked.  The process may crash between any two steps; entries, groups   *)
(* and pending lists are in Pebble, everything else is lost.               *)
(***************************************************************************)
EXTENDS StreamIds

CONSTANTS Clients,
          Commands,     \* [Clients -> set of commands]
          None,
          Quiet,        \* XGROUP runs only while no other command does
          MayTakeTop,   \* deletions may take the newest entry
          MaxAdds,      \* bound on the entries stored
          Times,        \* what the clock may show, in any order: a wall clock is set back, too
          MaxCrashes

\* What parsing lets through: whole IDs, a list of at least one ID, a count.
CommandOK(m) ==
    /\ m.id \in ID /\ m.n \in Int
    /\ m.op \in {"XACK", "XCLAIM"} => m.list \in Seq(ID) /\ m.list # <<>>

ASSUME StreamsAssumption ==
    /\ None \notin ID /\ Refused \notin ID
    /\ Quiet \in BOOLEAN /\ MayTakeTop \in BOOLEAN
    /\ Times \subseteq Word64 \ {0}
    /\ \A c \in Clients : \A m \in Commands[c] : CommandOK(m)

VARIABLES entries,      \* the IDs stored
          cursor,       \* the group's last-delivered ID, None without a group
          pel,          \* the pending list: [ID -> consumer], partial
          seq,          \* the blocker's version
          cl,           \* what each client is doing
          crashes,
          top,          \* history: the largest ID ever stored
          adds,         \* history: how many were stored
          base,         \* history: where the group was last told to start
          done,         \* history: IDs acknowledged or given up with their consumer
          given         \* history: IDs ">" has handed out since base was set

store == <<entries, cursor, pel>>

history == <<top, adds, base, done, given>>

vars == <<store, seq, cl, crashes, history>>

-----------------------------------------------------------------------------
(* Clients and locks.                                                      *)

Idle == [op |-> "idle", pc |-> "idle", cmd |-> None, id |-> ZeroID, todo |-> <<>>, read |-> <<>>, since |-> 0]

isAdmin(op) == op \in {"CREATE", "SETID", "DESTROY", "DELCONSUMER"}

\* The key commandKeys locks exclusively for op; XREAD takes a shared lock.
lockOf(op) == IF op \in {"XADD", "XDEL", "XTRIM", "XACK", "XCLAIM"} THEN "stream"
              ELSE IF op = "XREADGROUP" THEN "GROUP"
              ELSE IF isAdmin(op) THEN op
              ELSE "none"

Others(c) == {d \in Clients \ {c} : cl[d].op # "idle"}

\* c's command m may start.
Free(c, m) ==
    /\ cl[c] = Idle
    /\ lockOf(m.op) = "none" \/ \A d \in Others(c) : lockOf(cl[d].op) # lockOf(m.op)
    /\ Quiet => /\ isAdmin(m.op) => Others(c) = {}
                /\ \A d \in Others(c) : ~isAdmin(cl[d].op)

Begin(c, m, pc, id, todo) ==
    cl' = [cl EXCEPT ![c] = [Idle EXCEPT !.op = m.op, !.pc = pc, !.cmd = m, !.id = id, !.todo = todo]]

Goto(c, pc) == cl' = [cl EXCEPT ![c].pc = pc]

Reply(c) == cl' = [cl EXCEPT ![c] = Idle]

\* On to the next ID of the command, or the reply.
Advance(c) == IF Len(cl[c].todo) = 1 THEN Reply(c) ELSE cl' = [cl EXCEPT ![c].todo = Tail(cl[c].todo)]

Busy(c, op, pc) == cl[c].op = op /\ cl[c].pc = pc

lastStreamEntryID == IF entries = {} THEN None ELSE CHOOSE i \in entries : \A j \in entries : leq(j, i)

-----------------------------------------------------------------------------
(* Writing the stream.                                                     *)

\* Slip: an ID is not compared with the newest entry.
newIDUnchecked(m, last, t) ==
    CASE m.auto = "*" -> <<t, 0>>
      [] m.auto = "ms-*" -> <<m.id[1], 0>>
      [] m.auto = "no" -> m.id

\* The ID XADD stores, or Refused: "*" asks for a generated one, "ms-*" for a generated
\* sequence, anything else is explicit.
newID(m, last, t) ==
    LET ms == m.id[1]
        whole == IF last = None \/ t > last[1] THEN <<t, 0>> ELSE <<last[1], inc(last[2])>>
        half == IF last = None THEN (IF ms = 0 THEN <<0, 1>> ELSE <<ms, 0>>)
                ELSE IF ms < last[1] THEN Refused
                ELSE IF ms > last[1] THEN <<ms, 0>>
                ELSE IF last[2] = MaxWord THEN Refused ELSE <<ms, last[2] + 1>>
        explicit == IF m.id = ZeroID THEN Refused ELSE m.id
        id == IF m.auto = "*" THEN whole ELSE IF m.auto = "ms-*" THEN half ELSE explicit
    IN  IF id = Refused \/ (last # None /\ ~less(last, id)) THEN Refused ELSE id

\* The entries MAXLEN n or MINID id leaves.
kept(S, m) ==
    IF m.trim = "MAXLEN" THEN {i \in S : Cardinality({j \in S : less(i, j)}) < m.n}
    ELSE IF m.trim = "MINID" THEN {i \in S : ~less(i, m.minid)}
    ELSE S

KeepsTop(S, T) == MayTakeTop \/ S = {} \/ \E i \in T : \A j \in S : leq(j, i)

\* The put, then the notification, then the trimming: three steps.
cmdXAdd(c, m, t) ==
    LET id == newID(m, lastStreamEntryID, t)
        nothing == id = Refused \/ (m.nomkstream /\ entries = {})
    IN  /\ m.op = "XADD" /\ Free(c, m)
        /\ adds < MaxAdds
        /\ IF nothing THEN UNCHANGED <<entries, cl, top, adds>>
           ELSE /\ KeepsTop(entries \cup {id}, kept(entries \cup {id}, m))
                /\ entries' = entries \cup {id}
                /\ top' = IF less(top, id) THEN id ELSE top
                /\ adds' = adds + 1
                /\ Begin(c, m, "notify", id, <<>>)
        /\ UNCHANGED <<cursor, pel, seq, crashes, base, done, given>>

\* notify: the version moves and every parked client is woken.
wake(d) == IF cl[d].pc = "parked" THEN [cl[d] EXCEPT !.pc = IF cl[d].op = "XREAD" THEN "version" ELSE "retry"]
           ELSE cl[d]

XAddNotify(c) ==
    /\ Busy(c, "XADD", "notify")
    /\ seq' = seq + 1
    /\ cl' = [d \in Clients |-> IF d = c THEN [cl[c] EXCEPT !.pc = "trim"] ELSE wake(d)]
    /\ UNCHANGED <<store, crashes, history>>

XAddTrim(c) ==
    /\ Busy(c, "XADD", "trim")
    /\ entries' = kept(entries, cl[c].cmd)
    /\ Reply(c)
    /\ UNCHANGED <<cursor, pel, seq, crashes, history>>

\* XDEL is one batch, XTRIM one batch or one range deletion.
cmdXTrim(c, m) ==
    LET left == IF m.op = "XDEL" THEN entries \ m.ids ELSE kept(entries, m)
    IN  /\ m.op \in {"XDEL", "XTRIM"} /\ Free(c, m)
        /\ KeepsTop(entries, left)
        /\ entries' = left
        /\ UNCHANGED <<cursor, pel, seq, cl, crashes, history>>

-----------------------------------------------------------------------------
(* Reading the stream and parking.                                         *)

\* What comes after id.
fresh(id, count) == xRange(entries, nextID(id), MaxID, count, FALSE)

\* "$" is resolved once.
cmdXRead(c, m) ==
    /\ m.op = "XREAD" /\ Free(c, m)
    /\ Begin(c, m, "version", IF m.dollar THEN (IF entries = {} THEN ZeroID ELSE lastStreamEntryID) ELSE m.id, <<>>)
    /\ UNCHANGED <<store, seq, crashes, history>>

XReadVersion(c) ==
    /\ Busy(c, "XREAD", "version")
    /\ cl' = [cl EXCEPT ![c].pc = "read", ![c].since = seq]
    /\ UNCHANGED <<store, seq, crashes, history>>

XReadEntries(c) ==
    /\ Busy(c, "XREAD", "read")
    /\ IF fresh(cl[c].id, 0) # <<>> \/ cl[c].cmd.block = "no" THEN Reply(c) ELSE Goto(c, "sleep")
    /\ UNCHANGED <<store, seq, crashes, history>>

\* Slip: the version is read again before parking.
sleepSinceLate(c) ==
    /\ cl[c].pc = "sleep"
    /\ Goto(c, "parked")
    /\ UNCHANGED <<store, seq, crashes, history>>

\* sleepSince compares and registers under the blocker's lock.
sleepSince(c) ==
    /\ cl[c].pc = "sleep"
    /\ IF seq # cl[c].since THEN Goto(c, IF cl[c].op = "XREAD" THEN "version" ELSE "retry") ELSE Goto(c, "parked")
    /\ UNCHANGED <<store, seq, crashes, history>>

TimesOut(c) ==
    /\ cl[c].pc \in {"sleep", "parked"} /\ cl[c].cmd.block = "ms"
    /\ Reply(c)
    /\ UNCHANGED <<store, seq, crashes, history>>

-----------------------------------------------------------------------------
(* Reading the group.                                                      *)

\* Slip: the group moves on before the entries are pending.
XReadGroupFetchEarly(c, pc) ==
    LET todo == fresh(IF cursor = None THEN ZeroID ELSE cursor, cl[c].cmd.n)
    IN  /\ Busy(c, "XREADGROUP", pc)
        /\ IF todo # <<>>
           THEN /\ cl' = [cl EXCEPT ![c].pc = "pel", ![c].todo = todo, ![c].read = todo]
                /\ cursor' = Last(todo)
           ELSE Reply(c) /\ UNCHANGED cursor
        /\ UNCHANGED <<entries, pel, seq, crashes, history>>

\* ">": groupGet and the read, in the handler and again after each wake; a group that is
\* gone by then counts as one at 0-0.
XReadGroupFetch(c, pc) ==
    LET m == cl[c].cmd
        todo == fresh(IF cursor = None THEN ZeroID ELSE cursor, m.n)
    IN  /\ Busy(c, "XREADGROUP", pc)
        /\ IF cursor = None /\ pc = "fetch" THEN Reply(c)
           ELSE IF todo # <<>> THEN cl' = [cl EXCEPT ![c].pc = "pel", ![c].todo = todo, ![c].read = todo]
           ELSE IF m.block = "no" THEN Reply(c)
           ELSE Goto(c, "version")
        /\ UNCHANGED <<store, seq, crashes, history>>

\* With BLOCK the version is read after the entries.
XReadGroupVersion(c) ==
    /\ Busy(c, "XREADGROUP", "version")
    /\ cl' = [cl EXCEPT ![c].pc = "sleep", ![c].since = seq]
    /\ UNCHANGED <<store, seq, crashes, history>>

cmdXReadGroup(c, m) ==
    /\ m.op = "XREADGROUP" /\ Free(c, m)
    /\ IF m.history
       THEN Begin(c, m, "redeliver", ZeroID, pelList(pel, {m.consumer}, ZeroID, MaxID, m.n))
       ELSE Begin(c, m, "fetch", ZeroID, <<>>)
    /\ UNCHANGED <<store, seq, crashes, history>>

put(id, who) == [i \in DOMAIN pel \cup {id} |-> IF i = id THEN who ELSE pel[i]]

\* pelAdd, entry by entry.
pelAdd(c) ==
    /\ Busy(c, "XREADGROUP", "pel")
    /\ pel' = put(Head(cl[c].todo), cl[c].cmd.consumer)
    /\ cl' = [cl EXCEPT ![c].todo = Tail(cl[c].todo), ![c].pc = IF Len(cl[c].todo) = 1 THEN "cursor" ELSE "pel"]
    /\ UNCHANGED <<entries, cursor, seq, crashes, history>>

\* Slip: the group moves to the first entry of the read.
groupSetFirst(c) ==
    /\ Busy(c, "XREADGROUP", "cursor")
    /\ cursor' = Head(cl[c].read)
    /\ Goto(c, "reply")
    /\ UNCHANGED <<entries, pel, seq, crashes, history>>

\* groupSet, once the whole read is pending.
groupSet(c) ==
    /\ Busy(c, "XREADGROUP", "cursor")
    /\ cursor' = Last(cl[c].read)
    /\ Goto(c, "reply")
    /\ UNCHANGED <<entries, pel, seq, crashes, history>>

XReadGroupReply(c) ==
    /\ Busy(c, "XREADGROUP", "reply")
    /\ given' = given \cup Range(cl[c].read)
    /\ Reply(c)
    /\ UNCHANGED <<store, seq, crashes, top, adds, base, done>>

\* pelOwned: every pending entry on the list is written back with a higher count.
pelOwned(c) ==
    /\ Busy(c, "XREADGROUP", "redeliver")
    /\ IF cl[c].todo = <<>> THEN Reply(c) /\ UNCHANGED pel
       ELSE pel' = put(Head(cl[c].todo), cl[c].cmd.consumer) /\ cl' = [cl EXCEPT ![c].todo = Tail(cl[c].todo)]
    /\ UNCHANGED <<entries, cursor, seq, crashes, history>>

-----------------------------------------------------------------------------
(* The pending list.                                                       *)

cmdXAck(c, m) ==
    /\ m.op = "XACK" /\ Free(c, m) /\ cursor # None
    /\ Begin(c, m, "ack", ZeroID, m.list)
    /\ UNCHANGED <<store, seq, crashes, history>>

pelRemove(c) ==
    /\ Busy(c, "XACK", "ack")
    /\ pel' = [i \in DOMAIN pel \ {Head(cl[c].todo)} |-> pel[i]]
    /\ done' = done \cup {Head(cl[c].todo)}
    /\ Advance(c)
    /\ UNCHANGED <<entries, cursor, seq, crashes, top, adds, base, given>>

\* pelMoveTo for every ID given: no check that the entry, the group or a pending entry exists.
cmdXClaim(c, m) ==
    /\ m.op = "XCLAIM" /\ Free(c, m)
    /\ Begin(c, m, "claim", ZeroID, m.list)
    /\ UNCHANGED <<store, seq, crashes, history>>

pelMoveTo(c) ==
    /\ Busy(c, "XCLAIM", "claim")
    /\ pel' = put(Head(cl[c].todo), cl[c].cmd.consumer)
    /\ Advance(c)
    /\ UNCHANGED <<entries, cursor, seq, crashes, history>>

-----------------------------------------------------------------------------
(* XGROUP.                                                                 *)

Restart(id) == cursor' = id /\ base' = id /\ done' = {} /\ given' = {}

cmdXGroupCreate(c, m) ==
    /\ m.op = "CREATE" /\ Free(c, m)
    /\ cursor = None
    /\ m.mkstream \/ entries # {}
    /\ Restart(IF ~m.dollar THEN m.id ELSE IF entries = {} THEN ZeroID ELSE lastStreamEntryID)
    /\ UNCHANGED <<entries, pel, seq, cl, crashes, top, adds>>

cmdXGroupSetID(c, m) ==
    /\ m.op = "SETID" /\ Free(c, m)
    /\ cursor # None
    /\ Restart(m.id)
    /\ UNCHANGED <<entries, pel, seq, cl, crashes, top, adds>>

\* The group, then its pending list.
cmdXGroupDestroy(c, m) ==
    /\ m.op = "DESTROY" /\ Free(c, m)
    /\ cursor' = None
    /\ Begin(c, m, "drop", ZeroID, <<>>)
    /\ UNCHANGED <<entries, pel, seq, crashes, history>>

groupDestroy(c) ==
    /\ Busy(c, "DESTROY", "drop")
    /\ pel' = <<>>
    /\ Reply(c)
    /\ UNCHANGED <<entries, cursor, seq, crashes, history>>

\* Slip: the pending entries of every consumer are dropped.
cmdXGroupDelConsumerAll(c, m) ==
    /\ m.op = "DELCONSUMER" /\ Free(c, m)
    /\ Begin(c, m, "drop", ZeroID, inOrder(DOMAIN pel))
    /\ UNCHANGED <<store, seq, crashes, history>>

\* The consumer's list is read, then deleted in one batch.
cmdXGroupDelConsumer(c, m) ==
    /\ m.op = "DELCONSUMER" /\ Free(c, m)
    /\ Begin(c, m, "drop", ZeroID, pelList(pel, {m.consumer}, ZeroID, MaxID, 0))
    /\ UNCHANGED <<store, seq, crashes, history>>

dropConsumer(c) ==
    /\ Busy(c, "DELCONSUMER", "drop")
    /\ pel' = [i \in DOMAIN pel \ Range(cl[c].todo) |-> pel[i]]
    /\ done' = done \cup Range(cl[c].todo)
    /\ Reply(c)
    /\ UNCHANGED <<entries, cursor, seq, crashes, top, adds, base, given>>

-----------------------------------------------------------------------------

\* What is not in Pebble is lost.
Crash ==
    /\ crashes < MaxCrashes
    /\ crashes' = crashes + 1
    /\ cl' = [c \in Clients |-> Idle]
    /\ seq' = 0
    /\ UNCHANGED <<store, history>>

Init ==
    /\ entries = {} /\ cursor = None /\ pel = <<>>
    /\ seq = 0 /\ crashes = 0
    /\ cl = [c \in Clients |-> Idle]
    /\ top = ZeroID /\ adds = 0 /\ base = ZeroID /\ done = {} /\ given = {}

Start(c) == \E m \in Commands[c] :
    \/ (\E t \in Times : cmdXAdd(c, m, t)) \/ cmdXTrim(c, m) \/ cmdXRead(c, m) \/ cmdXReadGroup(c, m)
    \/ cmdXAck(c, m) \/ cmdXClaim(c, m)
    \/ cmdXGroupCreate(c, m) \/ cmdXGroupSetID(c, m) \/ cmdXGroupDestroy(c, m)
    \/ cmdXGroupDelConsumer(c, m)

\* The rest of the command c is running.
Continue(c) ==
    \/ XAddNotify(c) \/ XAddTrim(c)
    \/ XReadVersion(c) \/ XReadEntries(c) \/ sleepSince(c)
    \/ XReadGroupFetch(c, "fetch") \/ XReadGroupFetch(c, "retry") \/ XReadGroupVersion(c)
    \/ pelAdd(c) \/ groupSet(c) \/ XReadGroupReply(c) \/ pelOwned(c)
    \/ pelRemove(c) \/ pelMoveTo(c) \/ groupDestroy(c) \/ dropConsumer(c)

Next == Crash \/ \E c \in Clients : Start(c) \/ Continue(c) \/ TimesOut(c)

Spec == Init /\ [][Next]_vars

-----------------------------------------------------------------------------

\* stream.go:205-264, xAdd.  As long as deletions leave the newest entry, an entry never gets
\* an ID that is not above every ID the stream ever had, whatever mixture of generated,
\* half-generated and explicit IDs is asked for and whatever the clock shows.
IdsIncrease == [][\A i \in entries' \ entries : less(top, i)]_vars

\* stream.go:13-17, "a crashed consumer's work is neither lost nor silently redelivered".  An
\* entry the group has moved past is on the pending list until it is acknowledged or its
\* consumer is deleted, wherever a crash falls between the writes of XREADGROUP and whatever
\* is added, trimmed, claimed or acknowledged meanwhile.
NothingSkipped == cursor # None =>
    \A i \in entries : less(base, i) /\ leq(i, cursor) => i \in DOMAIN pel \cup done

\* cmd_stream.go:620-647.  ">" hands every entry to one consumer, once, and in ID order:
\* what a reply carries is newer than all that was handed out since the group was set.
HandedOutOnce == \A c \in Clients : Busy(c, "XREADGROUP", "reply") =>
    \A i \in Range(cl[c].read) : \A j \in given : less(j, i)

\* stream.go:483-507, cmd_stream.go:531-552.  An entry leaves the pending list only when it is
\* acknowledged, when the consumer that owns it is deleted, or with the group.
PendingLeaves == [][\A i \in DOMAIN pel \ DOMAIN pel' : \E c \in Clients :
    \/ Busy(c, "XACK", "ack") /\ i \in Range(cl[c].cmd.list)
    \/ Busy(c, "DELCONSUMER", "drop") /\ pel[i] = cl[c].cmd.consumer
    \/ Busy(c, "DESTROY", "drop")]_vars

\* cmd_stream.go:404-457 with blocking.go:50-78.  XREAD BLOCK does not sleep over an entry it
\* asked for: while one is there, the XADD that stored it has still to notify.
NoLostWakeUp == \A c \in Clients :
    Busy(c, "XREAD", "parked") /\ fresh(cl[c].id, 0) # <<>> => \E d \in Clients : Busy(d, "XADD", "notify")

=============================================================================
