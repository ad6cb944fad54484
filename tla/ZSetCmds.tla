------------------------------ MODULE ZSetCmds ------------------------------
(***************************************************************************)
(* The sorted-set commands (cmd_zset.go, cmd_zset2.go).  Members are       *)
(* integers, compared as strings are; scores are integers.  An item is     *)
(* <<score, member>>; a bound of a range is [at, ex], ex for an open one.  *)
(***************************************************************************)
EXTENDS ListCmds

CONSTANTS Scores     \* the scores and weighted scores that can occur

ASSUME ScoresAssumption == Scores \subseteq Int

before(x, y) == x[1] < y[1] \/ (x[1] = y[1] /\ x[2] < y[2])

sortedMembers(z, desc) ==
    LET up == Sorted(scorePairs(z), before) IN IF desc THEN Reverse(up) ELSE up

names(items) == [i \in DOMAIN items |-> items[i][2]]

zsetOf(items) == [m \in ToSet(names(items)) |-> (CHOOSE x \in ToSet(items) : x[2] = m)[1]]

\* Does option set o let new replace old (exists says whether there is an old one)?
admits(o, exists, old, new) ==
    /\ "NX" \in o => ~exists
    /\ "XX" \in o => exists
    /\ exists /\ "GT" \in o => new > old
    /\ exists /\ "LT" \in o => new < old

\* One batch for the members, their score-index keys and the header.
zAddSparse(s, k, items, o) ==
    LET old == s.el[k].zset
        has(m) == m \in DOMAIN old
        puts == SelectSeq(items, LAMBDA x : admits(o, has(x[2]), old[x[2]], x[1]))
        added == Len(SelectSeq(puts, LAMBDA x : ~has(x[2])))
        changed == Len(SelectSeq(puts, LAMBDA x : ~has(x[2]) \/ old[x[2]] # x[1]))
        new == FoldLeft(LAMBDA z, x : (x[2] :> x[1]) @@ z, old, puts)
        \* in the order of the arguments: the old index key goes, the new one comes
        rescore(sc, x) == (sc \ (IF has(x[2]) /\ old[x[2]] # x[1] THEN {<<old[x[2]], x[2]>>} ELSE {}))
                             \cup {x}
    IN  IF puts = <<>> THEN Done(s, 0)
        ELSE Done(putValue([s EXCEPT !.el[k].zset = new, !.sc[k] = FoldLeft(rescore, @, puts)], k,
                           [s.rec[k] EXCEPT !.cnt = @ + added], s.rec[k].exp),
                  IF "CH" \in o THEN changed ELSE added)

\* The inline path saves whether or not a member was accepted; INCR takes one member
\* and answers its new score, None when the options refuse it.
zAdd(s0, k, items, o) == OnAgg(s0, k, "zset", LAMBDA s, a :
    LET score(z, x) == IF "INCR" \in o /\ x[2] \in DOMAIN z THEN z[x[2]] + x[1] ELSE x[1]
        step(acc, x) ==
            LET has == x[2] \in DOMAIN acc.z
                n == score(acc.z, x)
            IN  IF ~admits(o, has, acc.z[x[2]], n) THEN acc
                ELSE [z |-> (x[2] :> n) @@ acc.z,
                      added |-> acc.added + (IF has THEN 0 ELSE 1),
                      changed |-> acc.changed + (IF has /\ acc.z[x[2]] = n THEN 0 ELSE 1),
                      incr |-> n]
        end == FoldLeft(step, [z |-> a.val, added |-> 0, changed |-> 0, incr |-> None], items)
    IN  IF isSparse(s, k) /\ "INCR" \notin o THEN zAddSparse(s, k, items, o)
        ELSE Done(saveAgg(s, k, [a EXCEPT !.val = end.z]),
                  IF "INCR" \in o THEN end.incr ELSE IF "CH" \in o THEN end.changed ELSE end.added))

zRem(s0, k, members) == OnAgg(s0, k, "zset", LAMBDA s, a :
    LET gone == ToSet(members) \cap DOMAIN a.val
    IN  IF gone = {} THEN Done(s, 0)
        ELSE saveOrDelete(s, k, [a EXCEPT !.val = Restrict(@, DOMAIN @ \ gone)],
                          Cardinality(gone)))

zIncrBy(s0, k, delta, m) == OnAgg(s0, k, "zset", LAMBDA s, a :
    LET next == (IF m \in DOMAIN a.val THEN a.val[m] ELSE 0) + delta
    IN  Done(saveAgg(s, k, [a EXCEPT !.val = (m :> next) @@ @]), next))

zPopMinMax(s0, k, n, max) == OnAgg(s0, k, "zset", LAMBDA s, a :
    LET all == sortedMembers(a.val, max)
        out == SubSeq(all, 1, atMost(n, Len(all)))
    IN  IF all = <<>> THEN Done(s, <<>>) ELSE Answer(zRem(s, k, names(out)), out))

\* NX excludes the others, GT excludes LT, INCR takes one pair.
cmdZAdd(s, c) ==
    IF \/ "NX" \in c.opts /\ c.opts \cap {"XX", "GT", "LT"} # {}
       \/ {"GT", "LT"} \subseteq c.opts
       \/ "INCR" \in c.opts /\ Len(c.items) # 1 THEN Done(s, OUTOFRANGE)
    ELSE zAdd(s, c.k, c.items, c.opts)

cmdZRem(s, c) == zRem(s, c.k, c.members)

cmdZScore(s, c) == Read(s, c.k, "zset", LAMBDA z : hashGet(z, c.m))

cmdZMScore(s, c) == Read(s, c.k, "zset", LAMBDA z : [i \in DOMAIN c.members |-> hashGet(z, c.members[i])])

cmdZCard(s, c) == Read(s, c.k, "zset", LAMBDA z : Cardinality(DOMAIN z))

\* zRank: the position in the sorted order.
rankCmd(s, c) == Read(s, c.k, "zset", LAMBDA z :
    IF c.m \notin DOMAIN z THEN None
    ELSE SelectInSeq(sortedMembers(z, c.rev), LAMBDA x : x[2] = c.m) - 1)

cmdZIncrBy(s, c) == zIncrBy(s, c.k, c.n, c.m)

within(v, min, max) == /\ IF min.ex THEN v > min.at ELSE v >= min.at
                       /\ IF max.ex THEN v < max.at ELSE v <= max.at

filterByScoreRange(items, min, max) == SelectSeq(items, LAMBDA x : within(x[1], min, max))

sortedByLex(z) == Sorted(scorePairs(z), LAMBDA x, y : x[2] < y[2])

lexInRange(items, min, max) == SelectSeq(items, LAMBDA x : within(x[2], min, max))

\* The items a ZRANGE form selects: by index, BYSCORE or BYLEX, then REV and LIMIT.
zRangeItems(z, c) ==
    LET items == CASE c.by = "index" -> indexRange(sortedMembers(z, c.rev), c.start, c.stop)
                   [] c.by = "score" -> filterByScoreRange(sortedMembers(z, FALSE), c.min, c.max)
                   [] c.by = "lex"   -> lexInRange(sortedByLex(z), c.min, c.max)
        turned == IF c.rev /\ c.by # "index" THEN Reverse(items) ELSE items
    IN  IF c.limit = <<>> THEN turned ELSE applyLimit(turned, c.limit[1], c.limit[2])

cmdZRange(s, c) == Read(s, c.k, "zset", LAMBDA z : zRangeItems(z, c))

cmdZCount(s, c) == Read(s, c.k, "zset", LAMBDA z :
    Len(filterByScoreRange(sortedMembers(z, FALSE), c.min, c.max)))

cmdZLexCount(s, c) == Read(s, c.k, "zset", LAMBDA z : Len(lexInRange(sortedByLex(z), c.min, c.max)))

zPopCmd(s, c) == IF c.n < 0 THEN Done(s, OUTOFRANGE) ELSE zPopMinMax(s, c.k, c.n, c.top)

\* ZREMRANGEBYRANK, BYSCORE and BYLEX load, select, and go through zRem.
zRemRange(s0, k, victims(_)) == OnAgg(s0, k, "zset", LAMBDA s, a :
    LET v == victims(a.val)
    IN  IF v = <<>> THEN Done(s, 0) ELSE zRem(s, k, names(v)))

cmdZRemRangeByRank(s, c) ==
    zRemRange(s, c.k, LAMBDA z : indexRange(sortedMembers(z, FALSE), c.start, c.stop))

cmdZRemRangeByScore(s, c) ==
    zRemRange(s, c.k, LAMBDA z : filterByScoreRange(sortedMembers(z, FALSE), c.min, c.max))

cmdZRemRangeByLex(s, c) == zRemRange(s, c.k, LAMBDA z : lexInRange(sortedByLex(z), c.min, c.max))

cmdZScan(s, c) == Read(s, c.k, "zset", LAMBDA z :
    LET ms == sortedKeys(z)
    IN  scanPage(FlattenSeq([i \in DOMAIN ms |-> <<ms[i], z[ms[i]]>>]), c.cursor, 2 * c.n))

=============================================================================
