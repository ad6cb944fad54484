------------------------------ MODULE HashCmds ------------------------------
(* The hash commands (cmd_hash.go).  Pairs and fields are sequences of arguments. *)
EXTENDS Aggregate, Ranges

CONSTANTS MinInt, MaxInt     \* int64, scaled down

ASSUME IntAssumption == MinInt \in Int /\ MaxInt \in Int /\ MinInt < 0 /\ MaxInt > 0

\* toInt64 accepts the values of int64.
Number(v) == v \in MinInt..MaxInt

sortedKeys(h) == Sorted(DOMAIN h, <)

\* Slip: a batch per field instead of one for the command.
hashSetSparsePerField(s, k, pairs, nx) ==
    LET put(log, p) == Append(log, putValue([Last(log) EXCEPT !.el[k].hash = (p[1] :> p[2]) @@ @], k,
                                            [Last(log).rec[k] EXCEPT !.cnt =
                                                 IF p[1] \in DOMAIN Last(log).el[k].hash THEN @ ELSE @ + 1],
                                            s.rec[k].exp))
        log == FoldLeft(put, <<s>>, pairs)
    IN  [log |-> log, res |-> Last(log).rec[k].cnt - s.rec[k].cnt]

\* Each field is looked up in Pebble, not in the batch that is being filled.
hashSetSparse(s, k, pairs, nx) ==
    LET old == s.el[k].hash
        puts == SelectSeq(pairs, LAMBDA p : ~(nx /\ p[1] \in DOMAIN old))
        added == Len(SelectSeq(puts, LAMBDA p : p[1] \notin DOMAIN old))
        new == FoldLeft(LAMBDA h, p : (p[1] :> p[2]) @@ h, old, puts)
    IN  IF puts = <<>> THEN Done(s, 0)
        ELSE Done(putValue([s EXCEPT !.el[k].hash = new], k,
                           [s.rec[k] EXCEPT !.cnt = @ + added], s.rec[k].exp), added)

hashSet(s0, k, pairs, nx) == OnAgg(s0, k, "hash", LAMBDA s, a :
    LET put(h, p) == IF nx /\ p[1] \in DOMAIN h THEN h ELSE (p[1] :> p[2]) @@ h
        new == FoldLeft(put, a.val, pairs)
    IN  IF isSparse(s, k) THEN hashSetSparse(s, k, pairs, nx)
        ELSE Done(saveAgg(s, k, [a EXCEPT !.val = new]),
                  Cardinality(DOMAIN new \ DOMAIN a.val)))

hashGet(h, f) == IF f \in DOMAIN h THEN h[f] ELSE None

hashDel(s0, k, fields) == OnAgg(s0, k, "hash", LAMBDA s, a :
    LET left == DOMAIN a.val \ ToSet(fields)
    IN  IF ~a.exists THEN Done(s, 0)
        ELSE saveOrDelete(s, k, [a EXCEPT !.val = Restrict(@, left)],
                          aggLen(a) - Cardinality(left)))

hashIncrBy(s0, k, f, delta) == OnAgg(s0, k, "hash", LAMBDA s, a :
    LET cur == IF f \in DOMAIN a.val THEN a.val[f] ELSE 0
    IN  IF ~Number(cur) THEN Done(s, NOTINTEGER)
        ELSE IF \/ delta > 0 /\ cur > MaxInt - delta
                \/ delta < 0 /\ cur < MinInt - delta THEN Done(s, OVERFLOW)
        ELSE Done(saveAgg(s, k, [a EXCEPT !.val = (f :> cur + delta) @@ @]), cur + delta))

cmdHSet(s, c) == hashSet(s, c.k, c.pairs, FALSE)

cmdHSetNX(s, c) == hashSet(s, c.k, c.pairs, TRUE)

cmdHMSet(s, c) ==
    LET r == hashSet(s, c.k, c.pairs, FALSE)
    IN  IF r.res = WRONGTYPE THEN r ELSE Answer(r, OK)

cmdHDel(s, c) == hashDel(s, c.k, c.fields)

cmdHIncrBy(s, c) == hashIncrBy(s, c.k, c.f, c.n)

\* Two loads: the sum is computed on the first, hashSet reads again.
cmdHIncrByFloat(s0, c) == OnAgg(s0, c.k, "hash", LAMBDA s, a :
    LET cur == IF c.f \in DOMAIN a.val THEN a.val[c.f] ELSE 0
    IN  IF cur \in Long THEN Done(s, NOTFLOAT)
        ELSE Answer(hashSet(s, c.k, <<<<c.f, cur + c.n>>>>, FALSE), cur + c.n))

cmdHGet(s, c) == Read(s, c.k, "hash", LAMBDA h : hashGet(h, c.f))

cmdHExists(s, c) == Read(s, c.k, "hash", LAMBDA h : c.f \in DOMAIN h)

cmdHLen(s, c) == Read(s, c.k, "hash", LAMBDA h : Cardinality(DOMAIN h))

\* HKEYS and HVALS.
hashEnumerate(s, c, keys) == Read(s, c.k, "hash", LAMBDA h :
    LET fields == sortedKeys(h)
    IN  [i \in DOMAIN fields |-> IF keys THEN fields[i] ELSE h[fields[i]]])

cmdHGetAll(s, c) == Read(s, c.k, "hash", LAMBDA h :
    LET fields == sortedKeys(h) IN [i \in DOMAIN fields |-> <<fields[i], h[fields[i]]>>])

cmdHMGet(s, c) == Read(s, c.k, "hash", LAMBDA h :
    [i \in DOMAIN c.fields |-> hashGet(h, c.fields[i])])

\* The picks rand makes: with repeats for a negative count.
RandomPicks(M, n) ==
    IF M = {} THEN {<<>>}
    ELSE IF n < 0 THEN [1..(-n) -> M]
    ELSE Injection(1..atMost(n, Cardinality(M)), M)

\* One result per pick.
cmdHRandField(s0, c) ==
    LET s == getTyped(s0, c.k)
        h == loadAgg(s, c.k, "hash").val
    IN  IF Wrong(s, c.k, "hash") THEN {Done(s, WRONGTYPE)}
        ELSE {Done(s, [i \in DOMAIN p |-> <<p[i], h[p[i]]>>]) : p \in RandomPicks(DOMAIN h, c.n)}

\* COUNT counts pairs; a page is cut out of the flattened pairs.
cmdHScan(s, c) == Read(s, c.k, "hash", LAMBDA h :
    LET fields == sortedKeys(h)
    IN  scanPage(FlattenSeq([i \in DOMAIN fields |-> <<fields[i], h[fields[i]]>>]), c.cursor, 2 * c.n))

=============================================================================
