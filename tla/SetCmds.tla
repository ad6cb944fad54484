------------------------------- MODULE SetCmds ------------------------------
(* The set commands (cmd_set.go).  A set is a function on its members. *)
EXTENDS HashCmds

asSet(M) == [m \in M |-> TRUE]

\* Members are looked up in Pebble, not in the batch: the same new member given
\* twice counts twice.
setAddSparse(s, k, members) ==
    LET new == SelectSeq(members, LAMBDA m : m \notin DOMAIN s.el[k].set)
    IN  IF new = <<>> THEN Done(s, 0)
        ELSE Done(putValue([s EXCEPT !.el[k].set = asSet(ToSet(new)) @@ @], k,
                           [s.rec[k] EXCEPT !.cnt = @ + Len(new)], s.rec[k].exp), Len(new))

setAdd(s0, k, members) == OnAgg(s0, k, "set", LAMBDA s, a :
    LET new == ToSet(members) \ DOMAIN a.val
    IN  IF isSparse(s, k) THEN setAddSparse(s, k, members)
        ELSE IF new = {} THEN Done(s, 0)
        ELSE Done(saveAgg(s, k, [a EXCEPT !.val = asSet(new) @@ @]), Cardinality(new)))

setRem(s0, k, members) == OnAgg(s0, k, "set", LAMBDA s, a :
    LET gone == ToSet(members) \cap DOMAIN a.val
    IN  IF gone = {} THEN Done(s, 0)
        ELSE saveOrDelete(s, k, [a EXCEPT !.val = Restrict(@, DOMAIN @ \ gone)],
                          Cardinality(gone)))

setMembers(s, k) == Sorted(DOMAIN loadAgg(s, k, "set").val, <)

\* Both types are checked before anything moves; then two separate writes.
setMove(s0, src, dst, m) == TypedAll(s0, <<src, dst>>, "set", LAMBDA s :
    IF m \notin DOMAIN loadAgg(s, src, "set").val THEN Done(s, FALSE)
    ELSE Answer(Then(setRem(s, src, <<m>>), LAMBDA t : setAdd(t, dst, <<m>>)), TRUE))

\* One result per choice of the members to remove.
setPop(s0, k, n) ==
    LET s == getTyped(s0, k)
    IN  IF Wrong(s, k, "set") THEN {Done(s, WRONGTYPE)}
        ELSE {Answer(setRem(s, k, p), p) : p \in RandomPicks(DOMAIN loadAgg(s, k, "set").val, n)}

cmdSAdd(s, c) == setAdd(s, c.k, c.members)

cmdSRem(s, c) == setRem(s, c.k, c.members)

cmdSMove(s, c) == setMove(s, c.k, c.dst, c.m)

cmdSPop(s, c) == IF c.n < 0 THEN {Done(s, OUTOFRANGE)} ELSE setPop(s, c.k, c.n)

cmdSMembers(s0, c) == Typed(s0, c.k, "set", LAMBDA s : Done(s, setMembers(s, c.k)))

cmdSIsMember(s, c) == Read(s, c.k, "set", LAMBDA m : c.m \in DOMAIN m)

cmdSMIsMember(s, c) == Read(s, c.k, "set", LAMBDA m :
    [i \in DOMAIN c.members |-> c.members[i] \in DOMAIN m])

cmdSCard(s, c) == Read(s, c.k, "set", LAMBDA m : Cardinality(DOMAIN m))

cmdSRandMember(s0, c) ==
    LET s == getTyped(s0, c.k)
    IN  IF Wrong(s, c.k, "set") THEN {Done(s, WRONGTYPE)}
        ELSE {Done(s, p) : p \in RandomPicks(DOMAIN loadAgg(s, c.k, "set").val, c.n)}

\* The union, intersection or difference of the loaded sets, left to right.
combine(sets, op) ==
    CASE op = "union" -> UNION ToSet(sets)
      [] op = "inter" -> {m \in sets[1] : \A i \in 2..Len(sets) : m \in sets[i]}
      [] op = "diff"  -> FoldLeft(\, sets[1], Tail(sets))

loadSets(s, ks) == [i \in DOMAIN ks |-> DOMAIN loadAgg(s, ks[i], "set").val]

\* SUNION, SINTER, SDIFF.
setOp(s0, c) == TypedAll(s0, c.keys, "set", LAMBDA s :
    Done(s, Sorted(combine(loadSets(s, c.keys), c.setop), <)))

\* SUNIONSTORE, SINTERSTORE, SDIFFSTORE: the destination is deleted, then written.
setStoreOp(s0, c) == TypedAll(s0, c.keys, "set", LAMBDA s :
    LET out == combine(loadSets(s, c.keys), c.setop)
    IN  IF out = {} THEN Answer(deleteKey(s, c.dst), 0)
        ELSE Then(deleteKey(s, c.dst), LAMBDA t : setAdd(t, c.dst, SetToSeq(out))))

cmdSInterCard(s0, c) == TypedAll(s0, c.keys, "set", LAMBDA s :
    LET n == Cardinality(combine(loadSets(s, c.keys), "inter"))
    IN  Done(s, IF c.n > 0 THEN atMost(n, c.n) ELSE n))

cmdSScan(s0, c) == Typed(s0, c.k, "set", LAMBDA s :
    Done(s, scanPage(setMembers(s, c.k), c.cursor, c.n)))

=============================================================================
