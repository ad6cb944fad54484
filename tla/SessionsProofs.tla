--------------------------- MODULE SessionsProofs ---------------------------
(***************************************************************************)
(* Proofs about Sessions, for any clients, keys and commands: WATCH        *)
(* notices every write that is answered before EXEC looks, as long as the  *)
(* dict keeps the entry, and a transaction with a refused command never    *)
(* runs.                                                                   *)
(***************************************************************************)
EXTENDS Sessions, TLAPS

\* Most leaves are first-order: Zenon proves them.  The others name SMT.
USE ZenonT(30)

-----------------------------------------------------------------------------
(* The inductive invariant.                                                *)

EntryFields == {"v", "exp", "ctr", "ver"}

ConnFields == {"inTxn", "queue", "dirty", "watched"}

ThreadFields == {"pc", "op", "v", "exp", "todo", "keys", "exec"}

\* None stands for a key the dict does not hold, so it is no entry.
NoneIsNoEntry == DOMAIN None # EntryFields

EntryOK(e) == e = None \/ (DOMAIN e = EntryFields /\ e.ver \in Nat \ {0})

Shape ==
    /\ DOMAIN dict = Keys /\ \A k \in Keys : EntryOK(dict[k])
    /\ DOMAIN conn = Clients /\ DOMAIN cl = Clients /\ DOMAIN seen = Clients /\ DOMAIN refused = Clients
    /\ \A c \in Clients : /\ DOMAIN conn[c] = ConnFields /\ conn[c].inTxn \in BOOLEAN /\ conn[c].dirty \in BOOLEAN
                          /\ DOMAIN cl[c] = ThreadFields

\* w is what cmdWatch noted of a key, s what happened to the key since, e its entry.
WatchOK(w, s, e) ==
    /\ w.ver \in Nat
    /\ \/ "gone" \in s
       \/ w.ver = 0 /\ ("wrote" \in s => e # None)
       \/ w.ver # 0 /\ e # None /\ e.ver >= w.ver /\ ("wrote" \in s => e.ver > w.ver)
    /\ s = {} => (w.ver = 0 /\ e = None) \/ (w.ver # 0 /\ e # None /\ e.ver = w.ver)

Watches ==
    \A c \in Clients : \A k \in DOMAIN conn[c].watched \cap Keys :
        k \in DOMAIN seen[c] /\ WatchOK(conn[c].watched[k], seen[c][k], dict[k])

\* cmdExec checks watched keys, and knows of every refusal.
Checks ==
    \A c \in Clients : /\ cl[c].pc = "check" => cl[c].keys \subseteq DOMAIN conn[c].watched
                       /\ refused[c] => conn[c].dirty

Inv == Shape /\ Watches /\ Checks

-----------------------------------------------------------------------------
(* What a step may do to an entry, and what becomes of the watches on it.  *)

Adds(s, k, e) ==
    /\ DOMAIN s = Clients
    /\ \A c \in Clients : /\ DOMAIN s[c] = DOMAIN seen[c]
                          /\ \A j \in DOMAIN seen[c] : s[c][j] = IF j = k THEN seen[c][j] \cup {e} ELSE seen[c][j]

\* Event e happened to k: any entry at all after it is gone, else one of the next version.
Event(d, s, k, e) ==
    /\ Adds(s, k, e)
    /\ DOMAIN d = Keys /\ \A j \in Keys \ {k} : d[j] = dict[j]
    /\ k \in Keys => EntryOK(d[k]) /\ (e # "gone" => d[k] # None /\ d[k].ver = nextVersion(k))

Same(d, s) == DOMAIN d = Keys /\ (\A j \in Keys : d[j] = dict[j]) /\ s = seen

DictStep(d, s) == Same(d, s) \/ \E k : \E e \in {"gone", "wrote", "read"} : Event(d, s, k, e)

LEMMA NotedAdds ==
  ASSUME Shape, NEW s, NEW k, NEW e, s = noted(k, e)
  PROVE  Adds(s, k, e)
<1>1. DOMAIN seen = Clients
  BY DEF Shape
<1>2. ASSUME NEW c \in Clients
      PROVE  /\ DOMAIN s[c] = DOMAIN seen[c]
             /\ \A j \in DOMAIN seen[c] : s[c][j] = IF j = k THEN seen[c][j] \cup {e} ELSE seen[c][j]
  <2>1. s[c] = IF k \in DOMAIN seen[c] THEN [seen[c] EXCEPT ![k] = seen[c][k] \cup {e}] ELSE seen[c]
    BY DEF noted
  <2>2. CASE k \in DOMAIN seen[c]
    BY <2>1, <2>2
  <2>3. CASE k \notin DOMAIN seen[c]
    BY <2>1, <2>3
  <2> QED
    BY <2>2, <2>3
<1>3. DOMAIN s = Clients
  BY DEF noted
<1> QED
  BY <1>2, <1>3 DEF Adds

LEMMA VersionIs ==
  ASSUME Shape, NEW k \in Keys
  PROVE  nextVersion(k) \in Nat \ {0}
<1>1. \A n \in Nat \ {0} : n + 1 \in Nat \ {0}
  BY SMTT(30)
<1>2. 1 \in Nat \ {0}
  BY SMTT(30)
<1> QED
  BY <1>1, <1>2 DEF Shape, EntryOK, nextVersion

LEMMA PutEntry ==
  ASSUME Shape, NEW d, NEW k, NEW x, d = [dict EXCEPT ![k] = x]
  PROVE  DOMAIN d = Keys /\ \A j \in Keys : d[j] = IF j = k THEN x ELSE dict[j]
  BY DEF Shape

\* The entry goes away; another may take its place.
LEMMA GoneStep ==
  ASSUME Shape, NEW d, NEW s, NEW k, NEW x, EntryOK(x), d = [dict EXCEPT ![k] = x], s = noted(k, "gone")
  PROVE  DictStep(d, s)
<1>1. Adds(s, k, "gone")
  BY NotedAdds
<1>2. DOMAIN d = Keys /\ \A j \in Keys : d[j] = IF j = k THEN x ELSE dict[j]
  BY PutEntry
<1>3. Event(d, s, k, "gone")
  BY <1>1, <1>2 DEF Event
<1> QED
  BY <1>3 DEF DictStep

\* The entry is written, or read back, under the next version.
LEMMA NextStep ==
  ASSUME NoneIsNoEntry, Shape, NEW d, NEW s, NEW k, NEW x, NEW e \in {"wrote", "read"}, d = [dict EXCEPT ![k] = x], s = noted(k, e),
         k \in Keys => DOMAIN x = EntryFields /\ x.ver = nextVersion(k)
  PROVE  DictStep(d, s)
<1>1. Adds(s, k, e)
  BY NotedAdds
<1>2. DOMAIN d = Keys /\ \A j \in Keys : d[j] = IF j = k THEN x ELSE dict[j]
  BY PutEntry
<1>3. k \in Keys => EntryOK(x) /\ x # None
  BY VersionIs DEF EntryOK, NoneIsNoEntry
<1>4. Event(d, s, k, e)
  BY <1>1, <1>2, <1>3 DEF Event
<1> QED
  BY <1>4 DEF DictStep

LEMMA LookupStep ==
  ASSUME Shape, NEW d, NEW s, NEW k, d = lookedUp(k), s = missed(k)
  PROVE  DictStep(d, s)
<1>1. CASE found(k)
  BY <1>1 DEF lookedUp, missed, DictStep, Same, Shape
<1>2. CASE ~found(k) /\ dict[k] = lookedUp(k)[k]
  <2>1. DOMAIN dict = Keys
    BY DEF Shape
  <2>2. d = [dict EXCEPT ![k] = None] /\ s = seen
    BY <1>2 DEF lookedUp, missed
  <2>3. k \in Keys => dict[k] = None
    BY <1>2, <2>1 DEF lookedUp
  <2> QED
    BY <2>1, <2>2, <2>3 DEF DictStep, Same
<1>3. CASE ~found(k) /\ dict[k] # lookedUp(k)[k]
  <2>1. d = [dict EXCEPT ![k] = None] /\ s = noted(k, "gone")
    BY <1>3 DEF lookedUp, missed
  <2>2. EntryOK(None)
    BY DEF EntryOK
  <2> QED
    BY <2>1, <2>2, GoneStep
<1> QED
  BY <1>1, <1>2, <1>3

LEMMA getTypedStep ==
  ASSUME NoneIsNoEntry, Shape, NEW c \in Clients, getTyped(c)
  PROVE  DictStep(dict', seen')
<1> DEFINE k == keyOf(c)
           r == resolve(eng[k])
           x == IF found(k) THEN [dict[k] EXCEPT !.exp = r.exp, !.ver = nextVersion(k)] ELSE Entry(r.v, r.exp, FALSE, 1)
<1>1. \/ dict' = dict /\ seen' = seen
      \/ dict' = lookedUp(k) /\ seen' = missed(k)
      \/ dict' = [dict EXCEPT ![k] = None] /\ seen' = noted(k, "gone")
      \/ dict' = [dict EXCEPT ![k] = x] /\ seen' = noted(k, IF dict[k] # None /\ ~found(k) THEN "gone" ELSE "read")
  BY DEF getTyped, dictDelete, note
<1>2. found(k) => x = [dict[k] EXCEPT !.exp = r.exp, !.ver = nextVersion(k)]
  OBVIOUS
<1>3. ~found(k) => x = Entry(r.v, r.exp, FALSE, 1)
  OBVIOUS
<1> HIDE DEF x, r
<1>4. EntryOK(None)
  BY DEF EntryOK
<1>5. ~found(k) => DOMAIN x = EntryFields /\ x.ver = 1 /\ EntryOK(x)
  <2>1. 1 \in Nat \ {0}
    BY SMTT(30)
  <2>2. DOMAIN Entry(r.v, r.exp, FALSE, 1) = EntryFields /\ Entry(r.v, r.exp, FALSE, 1).ver = 1
    BY DEF Entry, EntryFields
  <2> QED
    BY <1>3, <2>1, <2>2 DEF EntryOK
<1>6. k \in Keys /\ found(k) => DOMAIN x = EntryFields /\ x.ver = nextVersion(k)
  <2>1. k \in Keys /\ found(k) => DOMAIN dict[k] = EntryFields
    BY DEF Shape, EntryOK, found
  <2> QED
    BY <1>2, <2>1 DEF EntryFields
<1>7. dict[k] = None => nextVersion(k) = 1
  BY DEF nextVersion
<1> HIDE DEF k
<1>8. CASE dict' = dict /\ seen' = seen
  BY <1>8 DEF DictStep, Same, Shape
<1>9. CASE dict' = [dict EXCEPT ![k] = x] /\ seen' = noted(k, "read") /\ ~(dict[k] # None /\ ~found(k))
  <2>1. k \in Keys => DOMAIN x = EntryFields /\ x.ver = nextVersion(k)
    BY <1>5, <1>6, <1>7, <1>9
  <2> QED
    BY <1>9, <2>1, NextStep
<1>10. CASE dict' = [dict EXCEPT ![k] = x] /\ seen' = noted(k, "gone") /\ ~found(k)
  BY <1>5, <1>10, GoneStep
<1> QED
  BY <1>1, <1>4, <1>8, <1>9, <1>10, LookupStep, GoneStep

\* A watch stays right through whatever happens to its key.
LEMMA EventKeeps ==
  ASSUME NEW w, NEW s, NEW d, NEW e, NEW ev \in {"gone", "wrote", "read"}, WatchOK(w, s, d), EntryOK(d), EntryOK(e),
         ev # "gone" => e # None /\ e.ver = IF d = None THEN 1 ELSE d.ver + 1
  PROVE  WatchOK(w, s \cup {ev}, e)
<1>1. s \cup {ev} # {} /\ w.ver \in Nat
  BY DEF WatchOK
<1>2. CASE ev = "gone"
  BY <1>1, <1>2 DEF WatchOK
<1>3. CASE ev # "gone" /\ "gone" \in s
  BY <1>1, <1>3 DEF WatchOK
<1>4. CASE ev # "gone" /\ "gone" \notin s /\ w.ver = 0
  BY <1>1, <1>4 DEF WatchOK
<1>5. CASE ev # "gone" /\ "gone" \notin s /\ w.ver # 0
  <2>1. d # None /\ d.ver \in Nat /\ d.ver >= w.ver
    BY <1>5 DEF WatchOK, EntryOK
  <2>2. e # None /\ e.ver = d.ver + 1
    BY <1>5, <2>1
  <2>3. e.ver >= w.ver /\ e.ver > w.ver
    BY <1>1, <2>1, <2>2, SMTT(30)
  <2> QED
    BY <1>1, <1>5, <2>2, <2>3 DEF WatchOK
<1> QED
  BY <1>2, <1>3, <1>4, <1>5

LEMMA DictKeeps ==
  ASSUME Shape, Watches, NEW d, NEW s, DictStep(d, s)
  PROVE  /\ DOMAIN d = Keys /\ (\A k \in Keys : EntryOK(d[k])) /\ DOMAIN s = Clients
         /\ \A c \in Clients : \A k \in DOMAIN conn[c].watched \cap Keys :
              k \in DOMAIN s[c] /\ WatchOK(conn[c].watched[k], s[c][k], d[k])
<1>1. CASE Same(d, s)
  BY <1>1 DEF Same, Shape, Watches
<1>2. ASSUME NEW k, NEW e \in {"gone", "wrote", "read"}, Event(d, s, k, e)
      PROVE  /\ DOMAIN d = Keys /\ (\A j \in Keys : EntryOK(d[j])) /\ DOMAIN s = Clients
             /\ \A c \in Clients : \A j \in DOMAIN conn[c].watched \cap Keys :
                  j \in DOMAIN s[c] /\ WatchOK(conn[c].watched[j], s[c][j], d[j])
  <2>1. DOMAIN d = Keys /\ DOMAIN s = Clients /\ \A j \in Keys \ {k} : d[j] = dict[j]
    BY <1>2 DEF Event, Adds
  <2>2. \A j \in Keys : EntryOK(d[j])
    BY <1>2, <2>1 DEF Event, Shape
  <2>3. ASSUME NEW c \in Clients, NEW j \in DOMAIN conn[c].watched \cap Keys
        PROVE  j \in DOMAIN s[c] /\ WatchOK(conn[c].watched[j], s[c][j], d[j])
    <3>1. j \in DOMAIN seen[c] /\ WatchOK(conn[c].watched[j], seen[c][j], dict[j]) /\ EntryOK(dict[j])
      BY DEF Watches, Shape
    <3>2. j \in DOMAIN s[c] /\ s[c][j] = IF j = k THEN seen[c][j] \cup {e} ELSE seen[c][j]
      BY <1>2, <3>1 DEF Event, Adds
    <3>3. CASE j = k
      <4>1. EntryOK(d[j]) /\ (e # "gone" => d[j] # None /\ d[j].ver = IF dict[j] = None THEN 1 ELSE dict[j].ver + 1)
        BY <1>2, <3>3 DEF Event, nextVersion
      <4>2. WatchOK(conn[c].watched[j], seen[c][j] \cup {e}, d[j])
        BY <3>1, <4>1, EventKeeps
      <4> QED
        BY <3>2, <3>3, <4>2
    <3>4. CASE j # k
      BY <2>1, <3>1, <3>2, <3>4
    <3> QED
      BY <3>3, <3>4
  <2> QED
    BY <2>1, <2>2, <2>3
<1> QED
  BY <1>1, <1>2 DEF DictStep

-----------------------------------------------------------------------------
(* The steps of a command that runs.                                       *)

\* Client c goes on with its command, to anything but EXEC's check.
Moves(c) ==
    /\ DOMAIN cl' = Clients /\ \A d \in Clients \ {c} : cl'[d] = cl[d]
    /\ DOMAIN cl'[c] = ThreadFields /\ cl'[c].pc # "check"

LEMMA GotoMoves ==
  ASSUME Shape, NEW c \in Clients, NEW pc, pc # "check", Goto(c, pc)
  PROVE  Moves(c)
<1>1. DOMAIN cl = Clients /\ DOMAIN cl[c] = ThreadFields
  BY DEF Shape
<1>2. cl' = [cl EXCEPT ![c] = [cl[c] EXCEPT !.pc = pc]]
  BY DEF Goto
<1> QED
  BY <1>1, <1>2 DEF Moves, ThreadFields

LEMMA AnsweredMoves ==
  ASSUME Shape, NEW c \in Clients, Answered(c)
  PROVE  Moves(c)
<1> DEFINE x == [Idle EXCEPT !.pc = "replay", !.todo = cl[c].todo, !.exec = TRUE]
<1>1. DOMAIN cl = Clients
  BY DEF Shape
<1>2. cl' = [cl EXCEPT ![c] = IF cl[c].exec /\ cl[c].todo # <<>> THEN x ELSE Idle]
  BY DEF Answered
<1>3. DOMAIN Idle = ThreadFields /\ Idle.pc = "idle"
  BY DEF Idle, ThreadFields
<1>4. DOMAIN x = ThreadFields /\ x.pc = "replay"
  BY <1>3 DEF ThreadFields
<1> HIDE DEF x
<1> QED
  BY <1>1, <1>2, <1>3, <1>4 DEF Moves

\* The command's goroutine moves; connections stay.
Runs(c) == cl[c].pc # "check" /\ Moves(c) /\ DictStep(dict', seen') /\ UNCHANGED <<conn, refused>>

LEMMA Untouched ==
  ASSUME Shape, dict' = dict, seen' = seen
  PROVE  DictStep(dict', seen')
  BY DEF Shape, DictStep, Same

LEMMA LoadMoves ==
  ASSUME Shape, NEW c \in Clients, NEW pc, pc # "check", NEW v, NEW exp,
         \/ cl' = [cl EXCEPT ![c].pc = pc, ![c].v = v]
         \/ cl' = [cl EXCEPT ![c].pc = pc, ![c].exp = exp]
         \/ cl' = [cl EXCEPT ![c].pc = pc, ![c].v = v, ![c].exp = exp]
  PROVE  Moves(c)
<1> DEFINE x == [cl[c] EXCEPT !.pc = pc, !.v = v]
           y == [cl[c] EXCEPT !.pc = pc, !.exp = exp]
           z == [cl[c] EXCEPT !.pc = pc, !.v = v, !.exp = exp]
<1>1. DOMAIN cl = Clients /\ DOMAIN cl[c] = ThreadFields
  BY DEF Shape
<1>2. /\ DOMAIN x = ThreadFields /\ x.pc = pc
      /\ DOMAIN y = ThreadFields /\ y.pc = pc
      /\ DOMAIN z = ThreadFields /\ z.pc = pc
  BY <1>1 DEF ThreadFields
<1>3. cl' = [cl EXCEPT ![c] = x] \/ cl' = [cl EXCEPT ![c] = y] \/ cl' = [cl EXCEPT ![c] = z]
  BY <1>1
<1> HIDE DEF x, y, z
<1> QED
  BY <1>1, <1>2, <1>3 DEF Moves

LEMMA readRuns ==
  ASSUME NoneIsNoEntry, Shape, NEW c \in Clients, read(c)
  PROVE  Runs(c)
<1> DEFINE o == cl[c].op
           t == typed(o.key)
           next == IF o.name \in {"SET", "EXPIRE"} THEN "put" ELSE IF o.name = "INCR" THEN "merge" ELSE "typeOf"
<1>1. cl[c].pc = "get" /\ getTyped(c) /\ UNCHANGED <<conn, refused>>
  BY DEF read, At
<1>2. Answered(c) \/ Goto(c, next) \/ cl' = [cl EXCEPT ![c].pc = next, ![c].v = t.v]
  BY DEF read
<1>3. next # "check"
  OBVIOUS
<1> HIDE DEF next, t
<1>4. Moves(c)
  BY <1>2, <1>3, AnsweredMoves, GotoMoves, LoadMoves
<1> QED
  BY <1>1, <1>4, getTypedStep DEF Runs

LEMMA typeOfRuns ==
  ASSUME NoneIsNoEntry, Shape, NEW c \in Clients, typeOf(c)
  PROVE  Runs(c)
<1>1. cl[c].pc = "typeOf" /\ getTyped(c) /\ UNCHANGED <<conn, refused>> /\ (Answered(c) \/ Goto(c, "drop"))
  BY DEF typeOf, At
<1> QED
  BY <1>1, AnsweredMoves, GotoMoves, getTypedStep DEF Runs

LEMMA putValueRuns ==
  ASSUME Shape, NEW c \in Clients, putValue(c)
  PROVE  Runs(c)
<1>1. cl[c].pc = "put" /\ UNCHANGED <<dict, seen, conn, refused>>
  BY DEF putValue, At
<1>2. \/ Goto(c, "typeOf")
      \/ cl' = [cl EXCEPT ![c].pc = "index", ![c].exp = cl[c].op.arg]
      \/ cl' = [cl EXCEPT ![c].pc = "index", ![c].v = cl[c].op.arg, ![c].exp = 0]
  BY DEF putValue
<1>3. CASE Goto(c, "typeOf")
  BY <1>1, <1>3, GotoMoves, Untouched DEF Runs
<1>4. CASE cl' = [cl EXCEPT ![c].pc = "index", ![c].exp = cl[c].op.arg]
  BY <1>1, <1>4, LoadMoves, Untouched DEF Runs
<1>5. CASE cl' = [cl EXCEPT ![c].pc = "index", ![c].v = cl[c].op.arg, ![c].exp = 0]
  BY <1>1, <1>5, LoadMoves, Untouched DEF Runs
<1> QED
  BY <1>2, <1>3, <1>4, <1>5

LEMMA putValueIndexRuns ==
  ASSUME NoneIsNoEntry, Shape, NEW c \in Clients, putValueIndex(c)
  PROVE  Runs(c)
<1> DEFINE k == keyOf(c)
           x == Entry(cl[c].v, cl[c].exp, FALSE, nextVersion(k))
<1>1. /\ cl[c].pc = "index" /\ Answered(c) /\ UNCHANGED <<conn, refused>>
      /\ dict' = [dict EXCEPT ![k] = x] /\ seen' = noted(k, "wrote")
  BY DEF putValueIndex, At, dictSet, note
<1>2. DOMAIN x = EntryFields /\ x.ver = nextVersion(k)
  BY DEF Entry, EntryFields
<1> HIDE DEF x
<1>3. DictStep(dict', seen')
  BY <1>1, <1>2, NextStep
<1> QED
  BY <1>1, <1>3, AnsweredMoves DEF Runs

LEMMA deleteKeyRuns ==
  ASSUME Shape, NEW c \in Clients, deleteKey(c)
  PROVE  Runs(c)
<1>1. /\ cl[c].pc = "drop" /\ Goto(c, "delete") /\ UNCHANGED <<conn, refused>>
      /\ dict' = [dict EXCEPT ![keyOf(c)] = None] /\ seen' = noted(keyOf(c), "gone")
  BY DEF deleteKey, At, dictDelete, note
<1>2. EntryOK(None)
  BY DEF EntryOK
<1>3. DictStep(dict', seen')
  BY <1>1, <1>2, GoneStep
<1> QED
  BY <1>1, <1>3, GotoMoves DEF Runs

LEMMA deletePersistedRuns ==
  ASSUME Shape, NEW c \in Clients, deletePersisted(c)
  PROVE  Runs(c)
<1>1. cl[c].pc = "delete" /\ Answered(c) /\ UNCHANGED <<dict, seen, conn, refused>>
  BY DEF deletePersisted, At
<1> QED
  BY <1>1, AnsweredMoves, Untouched DEF Runs

LEMMA incrByRuns ==
  ASSUME Shape, NEW c \in Clients, incrBy(c)
  PROVE  Runs(c)
<1>1. cl[c].pc = "merge" /\ Goto(c, "readBack") /\ UNCHANGED <<dict, seen, conn, refused>>
  BY DEF incrBy, At
<1> QED
  BY <1>1, GotoMoves, Untouched DEF Runs

LEMMA getCounterValueRuns ==
  ASSUME Shape, NEW c \in Clients, getCounterValue(c)
  PROVE  Runs(c)
<1> DEFINE r == resolve(eng[keyOf(c)])
<1>1. cl[c].pc = "readBack" /\ UNCHANGED <<dict, seen, conn, refused>>
  BY DEF getCounterValue, At, store
<1>2. Answered(c) \/ cl' = [cl EXCEPT ![c].pc = "setCounter", ![c].v = r.v, ![c].exp = r.exp]
  BY DEF getCounterValue
<1> HIDE DEF r
<1>3. Moves(c)
  BY <1>2, AnsweredMoves, LoadMoves
<1> QED
  BY <1>1, <1>3, Untouched DEF Runs

LEMMA incrReplyRuns ==
  ASSUME NoneIsNoEntry, Shape, NEW c \in Clients, incrReply(c)
  PROVE  Runs(c)
<1> DEFINE k == keyOf(c)
           x == Entry(0, cl[c].exp, TRUE, 1)
           y == [dict[k] EXCEPT !.exp = cl[c].exp, !.ctr = TRUE, !.ver = nextVersion(k)]
           z == IF dict[k] = None THEN x ELSE y
<1>1. /\ cl[c].pc = "setCounter" /\ Answered(c) /\ UNCHANGED <<conn, refused>>
      /\ dict' = [dict EXCEPT ![k] = z] /\ seen' = noted(k, "wrote")
  BY DEF incrReply, At, SetCounter, note
<1>2. DOMAIN x = EntryFields /\ x.ver = 1
  BY DEF Entry, EntryFields
<1>3. k \in Keys /\ dict[k] # None => DOMAIN y = EntryFields /\ y.ver = nextVersion(k)
  <2>1. k \in Keys /\ dict[k] # None => DOMAIN dict[k] = EntryFields
    BY DEF Shape, EntryOK
  <2> QED
    BY <2>1 DEF EntryFields
<1> HIDE DEF x, y
<1>4. k \in Keys => DOMAIN z = EntryFields /\ z.ver = nextVersion(k)
  BY <1>2, <1>3 DEF nextVersion
<1> HIDE DEF z
<1>5. DictStep(dict', seen')
  BY <1>1, <1>4, NextStep
<1> QED
  BY <1>1, <1>5, AnsweredMoves DEF Runs

LEMMA StepRuns ==
  ASSUME NoneIsNoEntry, Shape, NEW c \in Clients, Step(c), ~execRun(c), ~execReplay(c)
  PROVE  Runs(c)
  BY readRuns, typeOfRuns, putValueRuns, putValueIndexRuns, deleteKeyRuns, deletePersistedRuns, incrByRuns,
     getCounterValueRuns, incrReplyRuns
  DEF Step

-----------------------------------------------------------------------------
(* The invariant through every step.                                       *)

LEMMA EmptyIs == DOMAIN <<>> = {}
  BY SMTT(30)

LEMMA FreshIs ==
  /\ DOMAIN Fresh = ConnFields /\ Fresh.inTxn = FALSE /\ Fresh.dirty = FALSE
  /\ Fresh.watched = <<>> /\ Fresh.queue = <<>>
  BY DEF Fresh, ConnFields

LEMMA IdleIs == DOMAIN Idle = ThreadFields /\ Idle.pc = "idle"
  BY DEF Idle, ThreadFields

\* The goroutine of c is in order, and if it checks, it checks keys that are watched.
Threads(c) ==
    /\ DOMAIN cl' = Clients /\ \A d \in Clients \ {c} : cl'[d] = cl[d]
    /\ DOMAIN cl'[c] = ThreadFields
    /\ cl'[c].pc = "check" => cl'[c].keys \subseteq DOMAIN conn'[c].watched

\* Connections stay; the dict may change.
LEMMA RunInv ==
  ASSUME Inv, NEW c \in Clients, Threads(c), DictStep(dict', seen'), UNCHANGED <<conn, refused>>
  PROVE  Inv'
<1>1. Shape /\ Watches /\ Checks
  BY DEF Inv
<1>2. /\ DOMAIN dict' = Keys /\ (\A k \in Keys : EntryOK(dict'[k])) /\ DOMAIN seen' = Clients
      /\ \A d \in Clients : \A k \in DOMAIN conn[d].watched \cap Keys :
           k \in DOMAIN seen'[d] /\ WatchOK(conn[d].watched[k], seen'[d][k], dict'[k])
  BY <1>1, DictKeeps
<1>3. \A d \in Clients : DOMAIN cl'[d] = ThreadFields /\ (cl'[d].pc = "check" => cl'[d].keys \subseteq DOMAIN conn[d].watched)
  BY <1>1 DEF Threads, Shape, Checks
<1>4. Shape'
  BY <1>1, <1>2, <1>3 DEF Shape, Threads
<1>5. Watches' /\ Checks'
  BY <1>1, <1>2, <1>3 DEF Watches, Checks
<1> QED
  BY <1>4, <1>5 DEF Inv

\* The dict stays; c's connection becomes x, with the watches it had or none.
LEMMA ConnInv ==
  ASSUME Inv, NEW c \in Clients, NEW x, conn' = [conn EXCEPT ![c] = x], Threads(c), dict' = dict,
         DOMAIN x = ConnFields, x.inTxn \in BOOLEAN, x.dirty \in BOOLEAN,
         DOMAIN refused' = Clients, \A d \in Clients \ {c} : refused'[d] = refused[d], refused'[c] => x.dirty,
         DOMAIN seen' = Clients, \A d \in Clients \ {c} : seen'[d] = seen[d],
         (x.watched = conn[c].watched /\ seen'[c] = seen[c]) \/ x.watched = <<>>
  PROVE  Inv'
<1>1. Shape /\ Watches /\ Checks
  BY DEF Inv
<1>2. DOMAIN conn' = Clients /\ conn'[c] = x /\ \A d \in Clients \ {c} : conn'[d] = conn[d]
  BY <1>1 DEF Shape
<1>3. \A d \in Clients : DOMAIN cl'[d] = ThreadFields /\ (cl'[d].pc = "check" => cl'[d].keys \subseteq DOMAIN conn'[d].watched)
  BY <1>1, <1>2 DEF Threads, Shape, Checks
<1>4. Shape'
  BY <1>1, <1>2, <1>3 DEF Shape, Threads
<1>5. ASSUME NEW d \in Clients, NEW k \in DOMAIN conn'[d].watched \cap Keys
      PROVE  k \in DOMAIN seen'[d] /\ WatchOK(conn'[d].watched[k], seen'[d][k], dict[k])
  <2>1. CASE d = c /\ x.watched = <<>>
    BY <1>2, <1>5, <2>1, EmptyIs
  <2>2. CASE d # c \/ (x.watched = conn[c].watched /\ seen'[c] = seen[c])
    <3>1. conn'[d].watched = conn[d].watched /\ seen'[d] = seen[d]
      BY <1>2, <2>2
    <3> QED
      BY <1>1, <1>5, <3>1 DEF Watches
  <2> QED
    BY <2>1, <2>2
<1>6. Watches'
  BY <1>5 DEF Watches
<1>7. Checks'
  BY <1>1, <1>2, <1>3 DEF Checks
<1> QED
  BY <1>4, <1>6, <1>7 DEF Inv

\* A client between two commands.
LEMMA StillIdle ==
  ASSUME Shape, NEW c \in Clients, cl[c].pc = "idle", cl' = cl
  PROVE  Threads(c)
  BY DEF Shape, Threads

LEMMA handleRefusesInv ==
  ASSUME Inv, NEW c \in Clients, NEW m, handleRefuses(c, m)
  PROVE  Inv'
<1> DEFINE b == conn[c].dirty \/ conn[c].inTxn
           x == [conn[c] EXCEPT !.dirty = b]
<1>1. Shape /\ Checks /\ cl[c].pc = "idle" /\ cl' = cl /\ dict' = dict /\ seen' = seen
  BY DEF Inv, handleRefuses, Sends, At, store
<1>2. /\ DOMAIN conn = Clients /\ DOMAIN conn[c] = ConnFields /\ conn[c].inTxn \in BOOLEAN /\ DOMAIN seen = Clients
      /\ DOMAIN refused = Clients
  BY <1>1 DEF Shape
<1>3. conn' = [conn EXCEPT ![c] = x]
  BY <1>2 DEF handleRefuses, poison
<1>4. b \in BOOLEAN
  OBVIOUS
<1>5. /\ DOMAIN refused' = Clients /\ (\A d \in Clients \ {c} : refused'[d] = refused[d])
      /\ (refused'[c] <=> refused[c] \/ conn[c].inTxn)
  BY <1>2 DEF handleRefuses
<1>6. refused'[c] => b
  BY <1>1, <1>5 DEF Checks
<1> HIDE DEF b
<1>7. DOMAIN x = ConnFields /\ x.inTxn = conn[c].inTxn /\ x.dirty = b /\ x.watched = conn[c].watched
  BY <1>2 DEF ConnFields
<1> HIDE DEF x
<1>8. Threads(c)
  BY <1>1, StillIdle
<1> QED
  BY <1>1, <1>2, <1>3, <1>4, <1>5, <1>6, <1>7, <1>8, ConnInv

LEMMA handleQueuesInv ==
  ASSUME Inv, NEW c \in Clients, NEW m, handleQueues(c, m)
  PROVE  Inv'
<1> DEFINE q == Append(conn[c].queue, m)
           x == [conn[c] EXCEPT !.queue = q]
<1>1. Shape /\ Checks /\ cl[c].pc = "idle" /\ cl' = cl /\ dict' = dict /\ seen' = seen /\ refused' = refused
  BY DEF Inv, handleQueues, Sends, At, store
<1>2. /\ DOMAIN conn = Clients /\ DOMAIN conn[c] = ConnFields /\ conn[c].inTxn \in BOOLEAN /\ conn[c].dirty \in BOOLEAN
      /\ DOMAIN seen = Clients /\ DOMAIN refused = Clients /\ (refused[c] => conn[c].dirty)
  BY <1>1 DEF Shape, Checks
<1>3. conn' = [conn EXCEPT ![c] = x]
  BY <1>2 DEF handleQueues
<1> HIDE DEF q
<1>4. DOMAIN x = ConnFields /\ x.inTxn = conn[c].inTxn /\ x.dirty = conn[c].dirty /\ x.watched = conn[c].watched
  BY <1>2 DEF ConnFields
<1> HIDE DEF x
<1>5. Threads(c)
  BY <1>1, StillIdle
<1> QED
  BY <1>1, <1>2, <1>3, <1>4, <1>5, ConnInv

LEMMA handleInv ==
  ASSUME Inv, NEW c \in Clients, NEW m, handle(c, m)
  PROVE  Inv'
<1> DEFINE x == [Idle EXCEPT !.pc = "get", !.op = m]
<1>1. Shape /\ cl[c].pc = "idle" /\ UNCHANGED <<dict, seen, conn, refused>> /\ (cl' = cl \/ cl' = [cl EXCEPT ![c] = x])
  BY DEF Inv, handle, Sends, At, store
<1>2. DOMAIN x = ThreadFields /\ x.pc = "get"
  BY IdleIs DEF ThreadFields
<1> HIDE DEF x
<1>3. Threads(c)
  BY <1>1, <1>2 DEF Shape, Threads
<1> QED
  BY <1>1, <1>3, Untouched, RunInv

LEMMA cmdMultiInv ==
  ASSUME Inv, NEW c \in Clients, NEW m, cmdMulti(c, m)
  PROVE  Inv'
<1> DEFINE x == [conn[c] EXCEPT !.inTxn = TRUE, !.queue = <<>>, !.dirty = FALSE]
<1>1. Shape /\ Checks /\ cl[c].pc = "idle" /\ cl' = cl /\ dict' = dict /\ seen' = seen
  BY DEF Inv, cmdMulti, Sends, At, store
<1>2. DOMAIN conn = Clients /\ DOMAIN conn[c] = ConnFields /\ DOMAIN seen = Clients /\ DOMAIN refused = Clients
  BY <1>1 DEF Shape
<1>3. Threads(c)
  BY <1>1, StillIdle
<1>4. CASE conn[c].inTxn
  <2>1. UNCHANGED <<conn, refused>>
    BY <1>4 DEF cmdMulti
  <2> QED
    BY <1>1, <1>3, <2>1, Untouched, RunInv
<1>5. CASE ~conn[c].inTxn
  <2>1. conn' = [conn EXCEPT ![c] = x] /\ refused' = [refused EXCEPT ![c] = FALSE]
    BY <1>2, <1>5 DEF cmdMulti
  <2>2. DOMAIN x = ConnFields /\ x.inTxn = TRUE /\ x.dirty = FALSE /\ x.watched = conn[c].watched
    BY <1>2 DEF ConnFields
  <2> HIDE DEF x
  <2>3. DOMAIN refused' = Clients /\ (\A d \in Clients \ {c} : refused'[d] = refused[d]) /\ ~refused'[c]
    BY <1>2, <2>1
  <2> QED
    BY <1>1, <1>2, <1>3, <2>1, <2>2, <2>3, ConnInv
<1> QED
  BY <1>4, <1>5

\* abortTxn, with the history of the watches forgotten.
LEMMA AbortInv ==
  ASSUME Inv, NEW c \in Clients, abortTxn(c), forget(c), dict' = dict, Threads(c)
  PROVE  Inv'
<1>1. Shape /\ DOMAIN conn = Clients /\ DOMAIN seen = Clients /\ DOMAIN refused = Clients
  BY DEF Inv, Shape
<1>2. /\ conn' = [conn EXCEPT ![c] = Fresh]
      /\ DOMAIN refused' = Clients /\ (\A d \in Clients \ {c} : refused'[d] = refused[d]) /\ ~refused'[c]
      /\ DOMAIN seen' = Clients /\ (\A d \in Clients \ {c} : seen'[d] = seen[d])
  BY <1>1 DEF abortTxn, forget
<1>3. Fresh.inTxn \in BOOLEAN /\ Fresh.dirty \in BOOLEAN
  BY FreshIs
<1> QED
  BY <1>2, <1>3, FreshIs, ConnInv

LEMMA cmdDiscardInv ==
  ASSUME Inv, NEW c \in Clients, NEW m, cmdDiscard(c, m)
  PROVE  Inv'
<1>1. Shape /\ cl[c].pc = "idle" /\ cl' = cl /\ dict' = dict
  BY DEF Inv, cmdDiscard, Sends, At, store
<1>2. Threads(c)
  BY <1>1, StillIdle
<1>3. (abortTxn(c) /\ forget(c)) \/ UNCHANGED <<conn, seen, refused>>
  BY DEF cmdDiscard
<1> QED
  BY <1>1, <1>2, <1>3, AbortInv, RunInv, Untouched

LEMMA cmdUnwatchInv ==
  ASSUME Inv, NEW c \in Clients, NEW m, cmdUnwatch(c, m)
  PROVE  Inv'
<1> DEFINE x == [conn[c] EXCEPT !.watched = <<>>]
<1>1. Shape /\ Checks /\ cl[c].pc = "idle" /\ cl' = cl /\ dict' = dict /\ refused' = refused
  BY DEF Inv, cmdUnwatch, Sends, At, store
<1>2. /\ DOMAIN conn = Clients /\ DOMAIN conn[c] = ConnFields /\ conn[c].inTxn \in BOOLEAN /\ conn[c].dirty \in BOOLEAN
      /\ DOMAIN seen = Clients /\ DOMAIN refused = Clients /\ (refused[c] => conn[c].dirty)
  BY <1>1 DEF Shape, Checks
<1>3. /\ conn' = [conn EXCEPT ![c] = x]
      /\ DOMAIN seen' = Clients /\ (\A d \in Clients \ {c} : seen'[d] = seen[d])
  BY <1>2 DEF cmdUnwatch, forget
<1>4. DOMAIN x = ConnFields /\ x.inTxn = conn[c].inTxn /\ x.dirty = conn[c].dirty /\ x.watched = <<>>
  BY <1>2 DEF ConnFields
<1> HIDE DEF x
<1>5. Threads(c)
  BY <1>1, StillIdle
<1> QED
  BY <1>1, <1>2, <1>3, <1>4, <1>5, ConnInv

LEMMA cmdExecInv ==
  ASSUME Inv, NEW c \in Clients, NEW m, cmdExec(c, m)
  PROVE  Inv'
<1> DEFINE x == [Idle EXCEPT !.pc = "check", !.keys = DOMAIN conn[c].watched]
<1>1. Shape /\ cl[c].pc = "idle" /\ UNCHANGED <<dict, seen, conn, refused>> /\ (cl' = cl \/ cl' = [cl EXCEPT ![c] = x])
  BY DEF Inv, cmdExec, Sends, At, store
<1>2. DOMAIN x = ThreadFields /\ x.keys = DOMAIN conn[c].watched
  BY IdleIs DEF ThreadFields
<1> HIDE DEF x
<1>3. Threads(c)
  BY <1>1, <1>2 DEF Shape, Threads
<1> QED
  BY <1>1, <1>3, Untouched, RunInv

LEMMA cmdWatchInv ==
  ASSUME Inv, NEW c \in Clients, NEW m, cmdWatch(c, m)
  PROVE  Inv'
<1>1. Shape /\ Watches /\ Checks /\ cl[c].pc = "idle" /\ cl' = cl /\ refused' = refused
  BY DEF Inv, cmdWatch, Sends, At
<1>2. Threads(c)
  BY <1>1, StillIdle
<1>3. CASE UNCHANGED <<conn, dict, seen>>
  BY <1>1, <1>2, <1>3, Untouched, RunInv
<1>4. CASE ~UNCHANGED <<conn, dict, seen>>
  <2> DEFINE k == m.key
             w == IF found(k) THEN [ver |-> dict[k].ver, exp |-> dict[k].exp] ELSE [ver |-> 0, exp |-> -1]
             f == [j \in DOMAIN conn[c].watched \cup {k} |-> IF j = k THEN w ELSE conn[c].watched[j]]
             x == [conn[c] EXCEPT !.watched = f]
             s == missed(k)
             h == [j \in DOMAIN s[c] \cup {k} |-> IF j = k THEN {} ELSE s[c][j]]
  <2>1. conn' = [conn EXCEPT ![c] = x] /\ dict' = lookedUp(k) /\ seen' = [s EXCEPT ![c] = h]
    BY <1>4 DEF cmdWatch
  <2>2. (found(k) => w.ver = dict[k].ver) /\ (~found(k) => w.ver = 0)
    OBVIOUS
  <2> HIDE DEF w
  <2>3. /\ DOMAIN f = DOMAIN conn[c].watched \cup {k} /\ f[k] = w
        /\ \A j \in DOMAIN conn[c].watched : j # k => f[j] = conn[c].watched[j]
    OBVIOUS
  <2>4. DOMAIN h = DOMAIN s[c] \cup {k} /\ h[k] = {} /\ \A j \in DOMAIN s[c] : j # k => h[j] = s[c][j]
    OBVIOUS
  <2> HIDE DEF f, h
  <2>5. DOMAIN x = ConnFields /\ x.inTxn = conn[c].inTxn /\ x.dirty = conn[c].dirty /\ x.watched = f
    BY <1>1 DEF Shape, ConnFields
  <2> HIDE DEF x, k, s
  <2>6. DictStep(lookedUp(k), s)
    BY <1>1, LookupStep DEF s
  <2>7. /\ DOMAIN dict' = Keys /\ (\A j \in Keys : EntryOK(dict'[j])) /\ DOMAIN s = Clients
        /\ \A d \in Clients : \A j \in DOMAIN conn[d].watched \cap Keys :
             j \in DOMAIN s[d] /\ WatchOK(conn[d].watched[j], s[d][j], dict'[j])
    BY <1>1, <2>1, <2>6, DictKeeps
  <2>8. /\ DOMAIN conn' = Clients /\ conn'[c] = x /\ (\A d \in Clients \ {c} : conn'[d] = conn[d])
        /\ DOMAIN seen' = Clients /\ seen'[c] = h /\ (\A d \in Clients \ {c} : seen'[d] = s[d])
    BY <1>1, <2>1, <2>7 DEF Shape
  <2>9. Shape'
    BY <1>1, <2>5, <2>7, <2>8 DEF Shape
  <2>10. k \in Keys => WatchOK(w, {}, dict'[k])
    <3>1. ASSUME k \in Keys, found(k)
          PROVE  dict'[k] # None /\ dict'[k].ver = w.ver /\ w.ver \in Nat \ {0}
      BY <1>1, <2>1, <2>2, <3>1 DEF lookedUp, found, Shape, EntryOK
    <3>2. ASSUME k \in Keys, ~found(k)
          PROVE  dict'[k] = None /\ w.ver = 0
      BY <1>1, <2>1, <2>2, <3>2 DEF lookedUp, Shape
    <3>3. 0 \in Nat /\ \A n \in Nat : n >= n
      BY SMTT(30)
    <3> QED
      BY <3>1, <3>2, <3>3 DEF WatchOK
  <2>11. ASSUME NEW d \in Clients, NEW j \in DOMAIN conn'[d].watched \cap Keys
         PROVE  j \in DOMAIN seen'[d] /\ WatchOK(conn'[d].watched[j], seen'[d][j], dict'[j])
    <3>1. CASE d # c
      BY <2>7, <2>8, <2>11, <3>1
    <3>2. CASE d = c /\ j = k
      BY <2>3, <2>4, <2>5, <2>8, <2>10, <2>11, <3>2
    <3>3. CASE d = c /\ j # k
      BY <2>3, <2>4, <2>5, <2>7, <2>8, <2>11, <3>3
    <3> QED
      BY <3>1, <3>2, <3>3
  <2>12. Watches'
    BY <2>11 DEF Watches
  <2>13. Checks'
    BY <1>1, <2>5, <2>8 DEF Checks
  <2> QED
    BY <2>9, <2>12, <2>13 DEF Inv
<1> QED
  BY <1>3, <1>4

-----------------------------------------------------------------------------
(* EXEC.                                                                   *)

LEMMA execCheckInv ==
  ASSUME Inv, NEW c \in Clients, NEW k \in Keys, execCheck(c, k)
  PROVE  Inv'
<1> DEFINE s == missed(k)
<1>1. Shape /\ Watches /\ Checks /\ cl[c].pc = "check" /\ DOMAIN cl = Clients /\ DOMAIN conn = Clients /\ DOMAIN refused = Clients
  BY DEF Inv, Shape, execCheck, At
<1>2. dict' = lookedUp(k) /\ DictStep(dict', s)
  BY <1>1, LookupStep DEF execCheck
<1>3. CASE ~changed(c, k)
  <2> DEFINE x == [cl[c] EXCEPT !.keys = cl[c].keys \ {k}]
  <2>1. cl' = [cl EXCEPT ![c] = x] /\ seen' = s /\ UNCHANGED <<conn, refused>>
    BY <1>1, <1>3 DEF execCheck
  <2>2. DOMAIN x = ThreadFields /\ x.keys \subseteq cl[c].keys
    BY <1>1 DEF Shape, ThreadFields
  <2>3. cl[c].keys \subseteq DOMAIN conn[c].watched
    BY <1>1 DEF Checks
  <2> HIDE DEF x
  <2>4. Threads(c)
    BY <1>1, <2>1, <2>2, <2>3 DEF Threads
  <2> QED
    BY <1>2, <2>1, <2>4, RunInv
<1>4. CASE changed(c, k)
  <2>1. /\ cl' = [cl EXCEPT ![c] = Idle] /\ conn' = [conn EXCEPT ![c] = Fresh] /\ refused' = [refused EXCEPT ![c] = FALSE]
        /\ seen' = [s EXCEPT ![c] = <<>>]
    BY <1>4 DEF execCheck, abortTxn
  <2> HIDE DEF s
  <2>2. /\ DOMAIN dict' = Keys /\ (\A j \in Keys : EntryOK(dict'[j])) /\ DOMAIN s = Clients
        /\ \A d \in Clients : \A j \in DOMAIN conn[d].watched \cap Keys :
             j \in DOMAIN s[d] /\ WatchOK(conn[d].watched[j], s[d][j], dict'[j])
    BY <1>1, <1>2, DictKeeps
  <2>3. /\ DOMAIN conn' = Clients /\ conn'[c] = Fresh /\ (\A d \in Clients \ {c} : conn'[d] = conn[d])
        /\ DOMAIN cl' = Clients /\ cl'[c] = Idle /\ (\A d \in Clients \ {c} : cl'[d] = cl[d])
        /\ DOMAIN refused' = Clients /\ refused'[c] = FALSE /\ (\A d \in Clients \ {c} : refused'[d] = refused[d])
        /\ DOMAIN seen' = Clients /\ (\A d \in Clients \ {c} : seen'[d] = s[d])
    BY <1>1, <2>1, <2>2
  <2>4. ASSUME NEW d \in Clients
        PROVE  /\ DOMAIN conn'[d] = ConnFields /\ conn'[d].inTxn \in BOOLEAN /\ conn'[d].dirty \in BOOLEAN
               /\ DOMAIN cl'[d] = ThreadFields
    BY <1>1, <2>3, FreshIs, IdleIs DEF Shape
  <2>5. Shape'
    BY <2>2, <2>3, <2>4 DEF Shape
  <2>6. Watches'
    BY <2>2, <2>3, FreshIs, EmptyIs DEF Watches
  <2>7. ASSUME NEW d \in Clients
        PROVE  /\ cl'[d].pc = "check" => cl'[d].keys \subseteq DOMAIN conn'[d].watched
               /\ refused'[d] => conn'[d].dirty
    BY <1>1, <2>3, IdleIs DEF Checks
  <2>8. Checks'
    BY <2>7 DEF Checks
  <2> QED
    BY <2>5, <2>6, <2>8 DEF Inv
<1> QED
  BY <1>3, <1>4

LEMMA execRunInv ==
  ASSUME Inv, NEW c \in Clients, execRun(c)
  PROVE  Inv'
<1> DEFINE x == [Idle EXCEPT !.pc = "replay", !.todo = conn[c].queue, !.exec = TRUE]
<1>1. Shape /\ abortTxn(c) /\ forget(c) /\ dict' = dict
  BY DEF Inv, execRun, store
<1>2. cl' = [cl EXCEPT ![c] = IF conn[c].dirty \/ conn[c].queue = <<>> THEN Idle ELSE x]
  BY DEF execRun
<1>3. DOMAIN x = ThreadFields /\ x.pc = "replay"
  BY IdleIs DEF ThreadFields
<1> HIDE DEF x
<1>4. Threads(c)
  BY <1>1, <1>2, <1>3, IdleIs DEF Threads, Shape
<1> QED
  BY <1>1, <1>4, AbortInv

LEMMA execReplayInv ==
  ASSUME Inv, NEW c \in Clients, execReplay(c)
  PROVE  Inv'
<1> DEFINE m == Head(cl[c].todo)
           t == Tail(cl[c].todo)
           x == [conn[c] EXCEPT !.watched = <<>>]
           y == [cl[c] EXCEPT !.todo = t]
           z == [Idle EXCEPT !.pc = "get", !.op = m, !.todo = t, !.exec = TRUE]
<1>1. /\ Shape /\ Checks /\ cl[c].pc = "replay" /\ dict' = dict /\ seen' = seen /\ refused' = refused
  BY DEF Inv, execReplay, At, store
<1>2. /\ conn' = conn \/ conn' = [conn EXCEPT ![c] = x]
      /\ cl' = [cl EXCEPT ![c] = Idle] \/ cl' = [cl EXCEPT ![c] = y] \/ cl' = [cl EXCEPT ![c] = z]
  BY <1>1 DEF execReplay, Shape
<1> HIDE DEF m, t
<1>3. /\ DOMAIN conn = Clients /\ DOMAIN conn[c] = ConnFields /\ conn[c].inTxn \in BOOLEAN /\ conn[c].dirty \in BOOLEAN
      /\ DOMAIN cl = Clients /\ DOMAIN cl[c] = ThreadFields
      /\ DOMAIN seen = Clients /\ DOMAIN refused = Clients /\ (refused[c] => conn[c].dirty)
  BY <1>1 DEF Shape, Checks
<1>4. DOMAIN x = ConnFields /\ x.inTxn = conn[c].inTxn /\ x.dirty = conn[c].dirty /\ x.watched = <<>>
  BY <1>3 DEF ConnFields
<1>5. DOMAIN y = ThreadFields /\ y.pc = "replay" /\ DOMAIN z = ThreadFields /\ z.pc = "get"
  BY <1>1, <1>3, IdleIs DEF ThreadFields
<1> HIDE DEF x, y, z
<1>6. Threads(c)
  BY <1>2, <1>3, <1>5, IdleIs DEF Threads
<1>7. CASE conn' = conn
  BY <1>1, <1>6, <1>7, Untouched, RunInv
<1>8. CASE conn' = [conn EXCEPT ![c] = x]
  BY <1>1, <1>3, <1>4, <1>6, <1>8, ConnInv
<1> QED
  BY <1>2, <1>7, <1>8

-----------------------------------------------------------------------------
(* The invariant holds.                                                    *)

LEMMA InitInv == Init => Inv
<1> SUFFICES ASSUME Init PROVE Inv
  OBVIOUS
<1>1. Shape
  BY FreshIs, IdleIs DEF Init, Shape, EntryOK
<1>2. Watches
  BY FreshIs, EmptyIs DEF Init, Watches
<1>3. Checks
  BY IdleIs DEF Init, Checks
<1> QED
  BY <1>1, <1>2, <1>3 DEF Inv

\* The surroundings leave connections and goroutines alone.
LEMMA AsideInv ==
  ASSUME Inv, DictStep(dict', seen'), UNCHANGED <<conn, cl, refused>>
  PROVE  Inv'
<1>1. Shape /\ Watches /\ Checks
  BY DEF Inv
<1>2. /\ DOMAIN dict' = Keys /\ (\A k \in Keys : EntryOK(dict'[k])) /\ DOMAIN seen' = Clients
      /\ \A d \in Clients : \A k \in DOMAIN conn[d].watched \cap Keys :
           k \in DOMAIN seen'[d] /\ WatchOK(conn[d].watched[k], seen'[d][k], dict'[k])
  BY <1>1, DictKeeps
<1>3. Shape' /\ Watches' /\ Checks'
  BY <1>1, <1>2 DEF Shape, Watches, Checks
<1> QED
  BY <1>3 DEF Inv

LEMMA RunsInv ==
  ASSUME Inv, NEW c \in Clients, Runs(c)
  PROVE  Inv'
<1>1. Threads(c)
  BY DEF Runs, Moves, Threads
<1> QED
  BY <1>1, RunInv DEF Runs

LEMMA NextInv ==
  ASSUME NoneIsNoEntry, Inv, [Next]_vars
  PROVE  Inv'
<1>0. Shape
  BY DEF Inv
<1>1. CASE UNCHANGED vars
  <2>1. UNCHANGED <<dict, seen, conn, cl, refused>>
    BY <1>1 DEF vars, store
  <2> QED
    BY <1>0, <2>1, Untouched, AsideInv
<1>2. ASSUME NEW c \in Clients, Step(c)
      PROVE  Inv'
  BY <1>0, <1>2, StepRuns, RunsInv, execRunInv, execReplayInv
<1>3. ASSUME NEW c \in Clients, NEW m, Command(c, m)
      PROVE  Inv'
  BY <1>3, handleRefusesInv, handleQueuesInv, handleInv, cmdMultiInv, cmdDiscardInv, cmdWatchInv, cmdUnwatchInv, cmdExecInv
     DEF Command
<1>4. ASSUME NEW c \in Clients, NEW k \in Keys, execCheck(c, k)
      PROVE  Inv'
  BY <1>4, execCheckInv
<1>5. ASSUME NEW k \in Keys, evictOne(k)
      PROVE  Inv'
  <2>1. dict' = [dict EXCEPT ![k] = None] /\ seen' = noted(k, "gone") /\ UNCHANGED <<conn, cl, refused>>
    BY <1>5 DEF evictOne, dictDelete, note
  <2>2. EntryOK(None)
    BY DEF EntryOK
  <2>3. DictStep(dict', seen')
    BY <1>0, <2>1, <2>2, GoneStep
  <2> QED
    BY <2>1, <2>3, AsideInv
<1>6. ASSUME NEW k \in Keys, NEW i, Compact(k, i)
      PROVE  Inv'
  <2>1. UNCHANGED <<dict, seen, conn, cl, refused>>
    BY <1>6 DEF Compact
  <2> QED
    BY <1>0, <2>1, Untouched, AsideInv
<1>7. CASE Tick
  <2>1. UNCHANGED <<dict, seen, conn, cl, refused>>
    BY <1>7 DEF Tick
  <2> QED
    BY <1>0, <2>1, Untouched, AsideInv
<1> QED
  BY <1>1, <1>2, <1>3, <1>4, <1>5, <1>6, <1>7 DEF Next

-----------------------------------------------------------------------------
(* EXEC, between the check and the replay.                                 *)

LEMMA CommandStays ==
  ASSUME Shape, NEW c \in Clients, NEW d \in Clients, c # d, NEW m, Command(d, m)
  PROVE  cl'[c] = cl[c]
  BY DEF Command, Shape, handleRefuses, handleQueues, handle, cmdMulti, cmdDiscard, cmdWatch, cmdUnwatch, cmdExec

LEMMA CommandIdle ==
  ASSUME NEW c, NEW m, Command(c, m)
  PROVE  cl[c].pc = "idle"
  BY DEF Command, handleRefuses, handleQueues, handle, cmdMulti, cmdDiscard, cmdWatch, cmdUnwatch, cmdExec, Sends, At

\* Only execCheck and execRun move a client that is checking.
LEMMA CheckMoves ==
  ASSUME NoneIsNoEntry, Inv, [Next]_vars, NEW c \in Clients, cl[c].pc = "check", cl'[c] # cl[c]
  PROVE  execRun(c) \/ \E k \in Keys : execCheck(c, k)
<1>1. Shape /\ DOMAIN cl = Clients
  BY DEF Inv, Shape
<1>2. ASSUME UNCHANGED cl
      PROVE  FALSE
  BY <1>2
<1>3. ASSUME NEW d \in Clients, Step(d)
      PROVE  execRun(c)
  <2>1. CASE d = c
    <3>1. ~Runs(c) /\ ~execReplay(c)
      BY DEF Runs, execReplay, At
    <3> QED
      BY <1>1, <1>3, <2>1, <3>1, StepRuns
  <2>2. CASE d # c /\ execRun(d)
    BY <1>1, <2>2 DEF execRun
  <2>3. CASE d # c /\ execReplay(d)
    BY <1>1, <2>3 DEF execReplay
  <2>4. CASE d # c /\ Runs(d)
    BY <2>4 DEF Runs, Moves
  <2> QED
    BY <1>1, <1>3, <2>1, <2>2, <2>3, <2>4, StepRuns
<1>4. ASSUME NEW d \in Clients, NEW m, Command(d, m)
      PROVE  FALSE
  BY <1>1, <1>4, CommandStays, CommandIdle
<1>5. ASSUME NEW d \in Clients, NEW k \in Keys, execCheck(d, k)
      PROVE  d = c
  BY <1>1, <1>5 DEF execCheck
<1>6. ASSUME NEW k \in Keys, evictOne(k) \/ \E i \in 1..Len(eng[k]) - 1 : Compact(k, i)
      PROVE  UNCHANGED cl
  BY <1>6 DEF evictOne, Compact
<1>7. (Tick => UNCHANGED cl) /\ (UNCHANGED vars => UNCHANGED cl)
  BY DEF Tick, vars
<1> QED
  BY <1>2, <1>3, <1>4, <1>5, <1>6, <1>7 DEF Next

\* What execCheck does to its client.
LEMMA execCheckIs ==
  ASSUME Shape, NEW c \in Clients, NEW k \in Keys, execCheck(c, k)
  PROVE  /\ changed(c, k) => cl'[c].pc = "idle"
         /\ ~changed(c, k) => cl'[c].pc = "check" /\ cl'[c].keys = cl[c].keys \ {k} /\ seen' = missed(k)
<1> DEFINE x == [cl[c] EXCEPT !.keys = cl[c].keys \ {k}]
<1>1. DOMAIN cl = Clients /\ DOMAIN cl[c] = ThreadFields /\ cl[c].pc = "check"
  BY DEF Shape, execCheck, At
<1>2. x.pc = "check" /\ x.keys = cl[c].keys \ {k}
  BY <1>1 DEF ThreadFields
<1>3. CASE changed(c, k)
  BY <1>1, <1>3, IdleIs DEF execCheck
<1>4. CASE ~changed(c, k)
  <2>1. cl' = [cl EXCEPT ![c] = x] /\ seen' = missed(k)
    BY <1>4 DEF execCheck
  <2> HIDE DEF x
  <2> QED
    BY <1>1, <1>2, <1>4, <2>1
<1> QED
  BY <1>3, <1>4

LEMMA execRunIs ==
  ASSUME Shape, NEW c \in Clients, execRun(c)
  PROVE  cl'[c].pc \in {"idle", "replay"} /\ (cl'[c].pc = "replay" => ~conn[c].dirty)
<1> DEFINE x == [Idle EXCEPT !.pc = "replay", !.todo = conn[c].queue, !.exec = TRUE]
<1>1. DOMAIN cl = Clients /\ cl' = [cl EXCEPT ![c] = IF conn[c].dirty \/ conn[c].queue = <<>> THEN Idle ELSE x]
  BY DEF Shape, execRun
<1>2. x.pc = "replay"
  BY IdleIs DEF ThreadFields
<1> HIDE DEF x
<1> QED
  BY <1>1, <1>2, IdleIs

LEMMA RunsClean ==
  ASSUME NoneIsNoEntry, Inv, [Next]_vars, NEW c \in Clients, At(c, "check"), cl'[c].pc = "replay"
  PROVE  ~refused[c]
<1>1. Shape /\ cl[c].pc = "check" /\ cl'[c] # cl[c] /\ (refused[c] => conn[c].dirty)
  BY DEF Inv, Checks, At
<1>2. execRun(c)
  BY <1>1, CheckMoves, execCheckIs
<1> QED
  BY <1>1, <1>2, execRunIs

\* A key that passes the check with a write in its history went away in between.
LEMMA PassedWasGone ==
  ASSUME Inv, NEW c \in Clients, NEW k \in Keys, k \in DOMAIN conn[c].watched, ~changed(c, k),
         "wrote" \in seen[c][k], NEW s, s = missed(k)
  PROVE  "gone" \in s[c][k]
<1> DEFINE w == conn[c].watched[k]
           e == dict[k]
<1>1. k \in DOMAIN seen[c] /\ WatchOK(w, seen[c][k], e) /\ EntryOK(e) /\ DOMAIN dict = Keys /\ Shape
  BY DEF Inv, Watches, Shape
<1>2. \A n \in Nat \ {0} : n # 0 /\ ~(n > n)
  BY SMTT(30)
<1>3. CASE found(k)
  <2>1. s = seen /\ e # None /\ e.ver = w.ver
    BY <1>3 DEF missed, lookedUp, found, changed
  <2>2. e.ver \in Nat \ {0}
    BY <1>1, <2>1 DEF EntryOK
  <2> QED
    BY <1>1, <1>2, <2>1, <2>2 DEF WatchOK
<1>4. CASE ~found(k) /\ e = None
  <2>1. s = seen
    BY <1>1, <1>4 DEF missed, lookedUp
  <2> QED
    BY <1>1, <1>4, <2>1 DEF WatchOK
<1>5. CASE ~found(k) /\ e # None
  <2>1. s = noted(k, "gone")
    BY <1>1, <1>5 DEF missed, lookedUp
  <2>2. Adds(s, k, "gone")
    BY <1>1, <2>1, NotedAdds
  <2> QED
    BY <1>1, <2>2 DEF Adds
<1> QED
  BY <1>3, <1>4, <1>5

LEMMA PassesUnwritten ==
  ASSUME NoneIsNoEntry, Inv, [Next]_vars, NEW c \in Clients, NEW k \in Keys, At(c, "check"), k \in cl[c].keys,
         cl'[c].pc = "check", k \notin cl'[c].keys, "wrote" \in seen[c][k]
  PROVE  "gone" \in seen'[c][k]
<1>1. Shape /\ cl[c].pc = "check" /\ cl'[c] # cl[c] /\ k \in DOMAIN conn[c].watched
  BY DEF Inv, Checks, At
<1>2. PICK j \in Keys : execCheck(c, j)
  BY <1>1, CheckMoves, execRunIs
<1>3. ~changed(c, j) /\ cl'[c].keys = cl[c].keys \ {j} /\ seen' = missed(j)
  BY <1>1, <1>2, execCheckIs
<1>4. j = k
  BY <1>3
<1> QED
  BY <1>1, <1>3, <1>4, PassedWasGone

-----------------------------------------------------------------------------
(* Theorems.                                                               *)

\* Watches, entries and checks fit together in every reachable state, for any clients, keys and commands:
\* a watched version is never ahead of its entry's, a write moves the entry past it (dict.Set, SetCounter),
\* and cmdExec knows of every refusal.
THEOREM InvHolds == ASSUME NoneIsNoEntry PROVE Spec => []Inv
<1>1. Init => Inv
  BY InitInv
<1>2. Inv /\ [Next]_vars => Inv'
  BY NextInv
<1> QED
  BY <1>1, <1>2, PTL DEF Spec

\* cmdExec does not let a transaction past a watched key that was written since cmdWatch took its version,
\* unless the dict entry went away in between.
THEOREM WatchesDetect == ASSUME NoneIsNoEntry PROVE Spec => WatchDetects
<1>1. Inv /\ [Next]_vars =>
        [\A c \in Clients, k \in Keys :
            At(c, "check") /\ k \in cl[c].keys /\ cl'[c].pc = "check" /\ k \notin cl'[c].keys
              => ("wrote" \in seen[c][k] => "gone" \in seen'[c][k])]_vars
  BY PassesUnwritten
<1> QED
  BY <1>1, InvHolds, PTL DEF Spec, WatchDetects

\* cmdExec replays nothing of a transaction in which handle refused a command.
THEOREM RefusedNeverRun == ASSUME NoneIsNoEntry PROVE Spec => PoisonedNeverRuns
<1>1. Inv /\ [Next]_vars => [\A c \in Clients : At(c, "check") /\ cl'[c].pc = "replay" => ~refused[c]]_vars
  BY RunsClean
<1> QED
  BY <1>1, InvHolds, PTL DEF Spec, PoisonedNeverRuns

=============================================================================
