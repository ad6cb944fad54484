------------------------------- MODULE ZSetOps ------------------------------
(* Combining sorted sets, storing ranges, popping from several keys (cmd_zset2.go). *)
EXTENDS ZSetCmds

zApplyAgg(a, b, agg) ==
    CASE agg = "MIN" -> IF b < a THEN b ELSE a
      [] agg = "MAX" -> IF b > a THEN b ELSE a
      [] agg = "SUM" -> a + b

\* A source of zOpResult: a sorted set, or a set whose members score 1.
zSource(s, k) ==
    IF s.rec[k] # None /\ s.rec[k].typ = "set"
    THEN [m \in DOMAIN loadAgg(s, k, "set").val |-> 1]
    ELSE loadAgg(s, k, "zset").val

\* Slip: the weight of the first source is used for all of them.
zOpResultWeight(sets, w, agg, op) ==
    LET mine(i) == [m \in DOMAIN sets[i] |-> sets[i][m] * w[1]]
        add(z, i) == [m \in DOMAIN z \cup DOMAIN sets[i] |->
                         IF m \notin DOMAIN sets[i] THEN z[m]
                         ELSE IF m \notin DOMAIN z THEN mine(i)[m]
                         ELSE zApplyAgg(z[m], mine(i)[m], agg)]
        meet(z, i) == [m \in DOMAIN z \cap DOMAIN sets[i] |-> zApplyAgg(z[m], mine(i)[m], agg)]
        rest == [i \in 1..(Len(sets) - 1) |-> i + 1]
    IN  CASE op = "union" -> FoldLeft(add, mine(1), rest)
          [] op = "inter" -> FoldLeft(meet, mine(1), rest)
          [] op = "diff"  -> Restrict(sets[1], DOMAIN sets[1] \ UNION {DOMAIN sets[i] : i \in ToSet(rest)})

\* Source by source: union merges, intersection prunes, difference ignores weights.
zOpResult(sets, w, agg, op) ==
    LET mine(i) == [m \in DOMAIN sets[i] |-> sets[i][m] * w[i]]
        add(z, i) == [m \in DOMAIN z \cup DOMAIN sets[i] |->
                         IF m \notin DOMAIN sets[i] THEN z[m]
                         ELSE IF m \notin DOMAIN z THEN mine(i)[m]
                         ELSE zApplyAgg(z[m], mine(i)[m], agg)]
        meet(z, i) == [m \in DOMAIN z \cap DOMAIN sets[i] |-> zApplyAgg(z[m], mine(i)[m], agg)]
        rest == [i \in 1..(Len(sets) - 1) |-> i + 1]
    IN  CASE op = "union" -> FoldLeft(add, mine(1), rest)
          [] op = "inter" -> FoldLeft(meet, mine(1), rest)
          [] op = "diff"  -> Restrict(sets[1], DOMAIN sets[1] \ UNION {DOMAIN sets[i] : i \in ToSet(rest)})

\* Reads the sources in order; a key that is neither kind of set stops the command.
ZSources(s, ks, F(_)) ==
    LET bad(t, k) == t.rec[k] # None /\ t.rec[k].typ \notin {"set", "zset"}
        read(acc, k) == IF acc.wrong THEN acc
                        ELSE LET t == getTyped(acc.s, k) IN [s |-> t, wrong |-> bad(t, k)]
        end == FoldLeft(read, [s |-> s, wrong |-> FALSE], ks)
    IN  IF end.wrong THEN Done(end.s, WRONGTYPE) ELSE F(end.s)

zCombined(s, c) == zOpResult([i \in DOMAIN c.keys |-> zSource(s, c.keys[i])], c.w, c.agg, c.setop)

\* ZUNION, ZINTER, ZDIFF.
cmdZUnion(s0, c) == ZSources(s0, c.keys, LAMBDA s : Done(s, sortedMembers(zCombined(s, c), FALSE)))

\* The destination is deleted, then saved as a new sorted set without a deadline.
zReplace(s, dst, z) ==
    IF z = <<>> THEN Answer(deleteKey(s, dst), 0)
    ELSE Then(deleteKey(s, dst), LAMBDA t :
              Done(saveAgg(t, dst, [newAgg("zset", z) EXCEPT !.exists = TRUE]), Cardinality(DOMAIN z)))

zStoreOp(s0, c) == ZSources(s0, c.keys, LAMBDA s : zReplace(s, c.dst, zCombined(s, c)))

cmdZRangeStore(s0, c) == OnAgg(s0, c.k, "zset", LAMBDA s, a :
    zReplace(s, c.dst, zsetOf(zRangeItems(a.val, c))))

cmdZRandMember(s0, c) ==
    LET s == getTyped(s0, c.k)
    IN  IF Wrong(s, c.k, "zset") THEN {Done(s, WRONGTYPE)}
        ELSE {Done(s, p) : p \in RandomPicks(scorePairs(loadAgg(s, c.k, "zset").val), c.n)}

zPopFromKeys(s0, c, i) == TypedAll(s0, upTo(c.keys, i), "zset", LAMBDA s :
    IF i = 0 THEN Done(s, None) ELSE withKey(zPopMinMax(s, c.keys[i], c.n, c.top), c.keys[i]))

cmdZMPop(s, c) == zPopFromKeys(s, c, firstFull(s, c.keys))

=============================================================================
