----------------------------- MODULE GenericCmds ----------------------------
(***************************************************************************)
(* The string commands and the commands that take a key of any type        *)
(* (cmd_string.go, cmd_generic.go, data.go, parts of cmd_completion.go).   *)
(* A string value is a sequence of bytes.  A key of the model stands for a *)
(* (database, name) pair, so COPY ... DB and MOVE go from key to key.      *)
(***************************************************************************)
EXTENDS ZSetOps

CONSTANTS Sec,      \* milliseconds in a second, scaled down
          Nano,     \* nanoseconds in a millisecond, scaled down
          SYNTAX, INVALIDEXP

ASSUME UnitAssumption == Sec \in Nat \ {0} /\ Nano \in Nat \ {0}

\* Two's complement.
int64(n) == MinInt + ((n - MinInt) % (MaxInt - MinInt + 1))

Overflows(n) == int64(n) # n

\* now.Add of a time.Duration: ms milliseconds wrap at int64 nanoseconds, and a duration
\* that is not positive counts as none given.
addDuration(now, ms) ==
    LET d == int64(ms * Nano) IN IF d > 0 THEN now + (d \div Nano) ELSE 0

\* SetOption.ExpireAt for one <<kind, value>>.
ExpireAt(now, x) ==
    CASE x[1] = "EX"   -> addDuration(now, x[2] * Sec)
      [] x[1] = "PX"   -> addDuration(now, x[2])
      [] x[1] = "EXAT" -> int64(x[2] * Sec)
      [] x[1] = "PXAT" -> x[2]

\* The deadline asked for, 0 for none, or the error the options deserve; ttl holds
\* the <<kind, value>> options and opts the flags.
parseSetOption(now, ttl, opts) ==
    IF {"NX", "XX"} \subseteq opts \/ Cardinality(ttl) > 1 THEN SYNTAX
    ELSE IF \E x \in ttl : x[2] <= 0 \/ (x[1] = "EX" /\ Overflows(x[2] * Sec)) THEN INVALIDEXP
    ELSE IF "KEEPTTL" \in opts /\ ttl # {} THEN SYNTAX
    ELSE IF ttl = {} THEN 0
    ELSE ExpireAt(now, CHOOSE x \in ttl : TRUE)

\* None stands for ErrInvalidExpire.
expireAbsTime(now, value, mult) ==
    LET ms == int64(value * mult)
        abs == int64(now + ms)
    IN  IF Overflows(value * mult) \/ (ms > 0 /\ abs < now) \/ (ms < 0 /\ abs > now) THEN None
        ELSE abs

\* The flag combinations the EXPIRE family refuses.
parseExpireOption(o) ==
    \/ {"NX", "XX"} \subseteq o
    \/ {"GT", "LT"} \subseteq o
    \/ "NX" \in o /\ o \cap {"GT", "LT"} # {}

-----------------------------------------------------------------------------

oldExpiry(s, k) == IF s.rec[k] = None THEN 0 ELSE s.rec[k].exp

strVal(s, k) == IF s.rec[k] = None THEN <<>> ELSE s.rec[k].val

setStringSimple(s, k, v, exp) == putValue(s, k, StringRec(v, exp), oldExpiry(s, k))

\* SET and its relatives: o holds NX, XX, GET, KEEPTTL; at is the deadline asked for.
setString(s0, k, v, at, o) ==
    LET s == getTyped(s0, k)
        exists == s.rec[k] # None
        old == IF exists THEN s.rec[k].val ELSE None
        exp == IF "KEEPTTL" \in o THEN oldExpiry(s, k) ELSE at
    IN  IF "GET" \in o /\ Wrong(s, k, "string") THEN Done(s, WRONGTYPE)
        ELSE IF ("NX" \in o /\ exists) \/ ("XX" \in o /\ ~exists)
        THEN Done(s, IF "GET" \in o THEN old ELSE None)
        ELSE Answer(IF exp # 0 /\ exp <= s.now THEN deleteKey(s, k)
                    ELSE Done(putValue(s, k, StringRec(v, exp), oldExpiry(s, k)), OK),
                    IF "GET" \in o THEN old ELSE OK)

cmdSet(s, c) ==
    LET at == parseSetOption(s.now, c.ttl, c.opts)
    IN  IF at \in {SYNTAX, INVALIDEXP} THEN Done(s, at) ELSE setString(s, c.k, c.str, at, c.opts)

\* SETNX and SETXX answer whether the value was written.
Written(r) == Answer(r, IF r.res = OK THEN 1 ELSE 0)

cmdSetNX(s, c) == Written(setString(s, c.k, c.str, 0, {"NX"}))

cmdSetXX(s, c) == Written(setString(s, c.k, c.str, 0, {"XX"}))

\* The seconds become a Duration without the check parseSetOption makes.
cmdSetEx(s, c) ==
    IF c.n <= 0 THEN Done(s, INVALIDEXP)
    ELSE setString(s, c.k, c.str, addDuration(s.now, c.n * Sec), {})

cmdPSetEx(s, c) ==
    IF c.n <= 0 THEN Done(s, INVALIDEXP) ELSE setString(s, c.k, c.str, addDuration(s.now, c.n), {})

cmdGetSet(s, c) == setString(s, c.k, c.str, 0, {"GET"})

cmdGet(s0, c) == Typed(s0, c.k, "string", LAMBDA s :
    Done(s, IF s.rec[c.k] = None THEN None ELSE s.rec[c.k].val))

cmdGetDel(s0, c) == Typed(s0, c.k, "string", LAMBDA s :
    IF s.rec[c.k] = None THEN Done(s, None) ELSE Answer(deleteKey(s, c.k), s.rec[c.k].val))

\* A key of another type answers as if it were missing.
cmdMGet(s0, c) ==
    LET s == FoldLeft(getTyped, s0, c.keys)
    IN  Done(s, [i \in DOMAIN c.keys |-> IF s.rec[c.keys[i]] = None \/ Wrong(s, c.keys[i], "string")
                                         THEN None ELSE s.rec[c.keys[i]].val])

\* One batch for all pairs; the old deadlines' index entries go with it.
mSetPairs(s, pairs) ==
    FoldLeft(LAMBDA t, p : putValue(t, p[1], StringRec(p[2], 0), oldExpiry(s, p[1])), s, pairs)

cmdMSet(s, c) == Done(mSetPairs(s, c.pairs), OK)

\* Reads up to the first key that exists.
cmdMSetNX(s0, c) ==
    LET read(acc, p) == IF acc.hit THEN acc
                        ELSE LET t == getTyped(acc.s, p[1])
                             IN  [s |-> t, hit |-> t.rec[p[1]] # None]
        end == FoldLeft(read, [s |-> s0, hit |-> FALSE], c.pairs)
    IN  IF end.hit THEN Done(end.s, 0) ELSE Done(mSetPairs(end.s, c.pairs), 1)

cmdAppend(s0, c) == Typed(s0, c.k, "string", LAMBDA s :
    LET next == strVal(s, c.k) \o c.str
    IN  Done(setStringSimple(s, c.k, next, oldExpiry(s, c.k)), Len(next)))

\* Zero bytes fill the gap; the tail the new bytes do not reach stays.
cmdSetRange(s0, c) ==
    IF c.n < 0 THEN Done(s0, OUTOFRANGE)
    ELSE Typed(s0, c.k, "string", LAMBDA s :
        LET cur == strVal(s, c.k)
            need == IF c.n + Len(c.str) < Len(cur) THEN Len(cur) ELSE c.n + Len(c.str)
            next == [i \in 1..need |-> IF i > c.n /\ i <= c.n + Len(c.str) THEN c.str[i - c.n]
                                       ELSE IF i <= Len(cur) THEN cur[i] ELSE 0]
        IN  IF s.rec[c.k] = None /\ c.str = <<>> THEN Done(s, 0)
            ELSE Done(setStringSimple(s, c.k, next, oldExpiry(s, c.k)), need))

cmdGetRange(s0, c) == Typed(s0, c.k, "string", LAMBDA s :
    Done(s, getRange(strVal(s, c.k), c.start, c.stop)))

cmdStrLen(s0, c) == Typed(s0, c.k, "string", LAMBDA s : Done(s, Len(strVal(s, c.k))))

\* ttl is empty, holds one <<kind, value>>, or is PERSIST, <<"PERSIST", 0>>.
cmdGetEx(s0, c) ==
    LET num == {x \in c.ttl : x[1] # "PERSIST"}
        \* unlike SET: plain int64 arithmetic on milliseconds
        at(s) == CASE num = {} -> 0
                   [] OTHER -> LET x == CHOOSE x \in num : TRUE
                                   ms == IF x[1] \in {"EX", "EXAT"} THEN x[2] * Sec ELSE x[2]
                               IN  int64(ms + (IF x[1] \in {"EX", "PX"} THEN s.now ELSE 0))
    IN  IF \E x \in num : x[2] <= 0 THEN Done(s0, INVALIDEXP)
        ELSE IF Cardinality(c.ttl) > 1 THEN Done(s0, SYNTAX)
        ELSE Typed(s0, c.k, "string", LAMBDA s :
                IF s.rec[c.k] = None THEN Done(s, None)
                ELSE Done(IF c.ttl = {} THEN s ELSE setStringSimple(s, c.k, strVal(s, c.k), at(s)),
                          strVal(s, c.k)))

\* cond is None, "IFEQ" or "IFNE".
cmdDelex(s0, c) ==
    LET s == getTyped(s0, c.k)
    IN  IF s.rec[c.k] = None THEN Done(s, FALSE)
        ELSE IF c.cond # None /\ Wrong(s, c.k, "string") THEN Done(s, WRONGTYPE)
        ELSE IF \/ c.cond = None
                \/ c.cond = "IFEQ" /\ s.rec[c.k].val = c.str
                \/ c.cond = "IFNE" /\ s.rec[c.k].val # c.str THEN deleteKey(s, c.k)
        ELSE Done(s, FALSE)

-----------------------------------------------------------------------------

\* Key after key, each in its own writes.
cmdDel(s, c) ==
    LET step(r, k) == LET d == deleteKey(Last(r.log), k)
                      IN  [log |-> r.log \o d.log, res |-> r.res + (IF d.res THEN 1 ELSE 0)]
    IN  FoldLeft(step, Done(s, 0), c.keys)

\* EXISTS, and TOUCH.
cmdExists(s, c) ==
    LET t == FoldLeft(getTyped, s, c.keys)
    IN  Done(t, Len(SelectSeq(c.keys, LAMBDA k : t.rec[k] # None)))

cmdType(s0, c) == LET s == getTyped(s0, c.k)
                  IN  Done(s, IF s.rec[c.k] = None THEN None ELSE s.rec[c.k].typ)

ttlOf(s0, k) == LET s == getTyped(s0, k)
                IN  Done(s, IF s.rec[k] = None THEN -2
                            ELSE IF s.rec[k].exp = 0 THEN -1 ELSE s.rec[k].exp - s.now)

\* Seconds are rounded up.
cmdTTL(s, c) ==
    LET r == ttlOf(s, c.k)
    IN  IF r.res \in {-1, -2} THEN r ELSE Answer(r, (r.res + Sec - 1) \div Sec)

cmdPTTL(s, c) == ttlOf(s, c.k)

\* EXPIRETIME and PEXPIRETIME: the deadline itself, in units of mult milliseconds.
expireTimeCmd(s0, c, mult) ==
    LET s == getTyped(s0, c.k)
    IN  Done(s, IF s.rec[c.k] = None THEN -2
                ELSE IF s.rec[c.k].exp = 0 THEN -1 ELSE s.rec[c.k].exp \div mult)

\* No deadline counts as an infinite one.
setExpiry(s0, k, at, o) ==
    LET s == getTyped(s0, k)
        r == s.rec[k]
        refused == \/ "NX" \in o /\ r.exp # 0
                   \/ "XX" \in o /\ r.exp = 0
                   \/ "GT" \in o /\ (r.exp = 0 \/ at <= r.exp)
                   \/ "LT" \in o /\ r.exp # 0 /\ at >= r.exp
    IN  IF r = None \/ refused THEN Done(s, 0)
        ELSE IF at <= s.now THEN Answer(deleteKey(s, k), 1)
        ELSE Done(putValue(s, k, [r EXCEPT !.exp = at], r.exp), 1)

expireAtCmd(s, c, at) ==
    IF at = None THEN Done(s, INVALIDEXP)
    ELSE IF parseExpireOption(c.opts) THEN Done(s, SYNTAX)
    ELSE setExpiry(s, c.k, at, c.opts)

cmdExpire(s, c) == expireAtCmd(s, c, expireAbsTime(s.now, c.n, Sec))

cmdPExpire(s, c) == expireAtCmd(s, c, expireAbsTime(s.now, c.n, 1))

\* time.Unix and UnixMilli do not check.
cmdExpireAt(s, c) == expireAtCmd(s, c, int64(c.n * Sec))

cmdPExpireAt(s, c) == expireAtCmd(s, c, c.n)

persist(s0, c) ==
    LET s == getTyped(s0, c.k)
        r == s.rec[c.k]
    IN  IF r = None \/ r.exp = 0 THEN Done(s, FALSE)
        ELSE Done(putValue(s, c.k, [r EXCEPT !.exp = 0], r.exp), TRUE)

\* The record moves, element keys do not.
rename(s0, k, dst, nx) ==
    LET s1 == getTyped(s0, k)
        s == IF nx /\ s1.rec[k] # None THEN getTyped(s1, dst) ELSE s1
        r == s.rec[k]
        p == putValue(s, dst, r, oldExpiry(s, dst))
    IN  IF r = None THEN Done(s, NOSUCHKEY)
        ELSE IF (nx /\ s.rec[dst] # None) \/ k = dst THEN Done(s, OK)
        ELSE Answer(Then(Done(p, OK), LAMBDA t : deleteKey(t, k)), OK)

cmdRename(s, c) == rename(s, c.k, c.dst, FALSE)

cmdRenameNX(s0, c) ==
    LET s == getTyped(s0, c.dst)
        r == rename(s, c.k, c.dst, TRUE)
    IN  IF s.rec[c.dst] # None THEN Done(s, 0) ELSE IF r.res = OK THEN Answer(r, 1) ELSE r

\* An aggregate is loaded and saved under the new key with its representation; a
\* sparse list has no delta to write.
copyKey(s0, src, dst, replace) ==
    LET s1 == IF replace THEN s0 ELSE getTyped(s0, dst)
        s == getTyped(s1, src)
        r == s.rec[src]
        na == [loadAgg(s, src, r.typ) EXCEPT !.orig = 0, !.snap = <<>>]
    IN  IF ~replace /\ s1.rec[dst] # None THEN Done(s1, FALSE)
        ELSE IF r = None THEN Done(s, FALSE)
        ELSE IF r.typ = "string" THEN Done(putValue(s, dst, r, oldExpiry(s, dst)), TRUE)
        ELSE Then(deleteKey(s, dst), LAMBDA t : Done(saveAgg(t, dst, na), TRUE))

cmdCopy(s, c) == IF c.k = c.dst THEN Done(s, OUTOFRANGE) ELSE copyKey(s, c.k, c.dst, c.x)

cmdMove(s, c) ==
    LET r == copyKey(s, c.k, c.dst, TRUE)
    IN  IF c.k = c.dst THEN Done(s, OUTOFRANGE)
        ELSE IF r.res THEN Then(r, LAMBDA t : deleteKey(t, c.k)) ELSE r

\* KEYS *: the records keyAlive accepts.
cmdKeys(s, c) == Done(s, {k \in Keys : s.rec[k] # None /\ ~IsExpired(s, k)})

\* Segment after segment, then the records, then the expiry entries.
flushDB(s) ==
    LET drop(t) == [x \in AggTypes |-> [k \in Keys |-> [t.el[k] EXCEPT ![x] = <<>>]]]
        t1 == [s EXCEPT !.el = drop(s)["hash"]]
        t2 == [t1 EXCEPT !.el = drop(t1)["list"]]
        t3 == [t2 EXCEPT !.el = drop(t2)["set"]]
        t4 == [t3 EXCEPT !.el = drop(t3)["zset"]]
        t5 == [t4 EXCEPT !.sc = [k \in Keys |-> {}]]
        t6 == [t5 EXCEPT !.rec = [k \in Keys |-> None]]
    IN  [log |-> <<s, t1, t2, t3, t4, t5, t6, [t6 EXCEPT !.ix = {}]>>, res |-> OK]

\* The members SORT starts from: list order, score order, or any order for a set.
sortItems(s, k) ==
    CASE s.rec[k] = None -> <<>>
      [] s.rec[k].typ = "list" -> loadAgg(s, k, "list").val
      [] s.rec[k].typ = "set"  -> setMembers(s, k)
      [] s.rec[k].typ = "zset" -> names(sortedMembers(loadAgg(s, k, "zset").val, FALSE))

\* Numeric weights, ties by element, DESC turns the comparison.
sortRows(items, desc) ==
    LET up == SortSeq(items, <) IN IF desc THEN Reverse(up) ELSE up

sortLimit(rows, off, count) ==
    LET lo == atMost(off, Len(rows))
        end == IF count >= 0 /\ count < Len(rows) - lo THEN lo + count ELSE Len(rows)
    IN  SubSeq(rows, lo + 1, end)

sortStore(s, dst, result) ==
    IF result = <<>> THEN Answer(deleteKey(s, dst), 0)
    ELSE Answer(Then(deleteKey(s, dst), LAMBDA t : listPush(t, dst, result, FALSE, FALSE)), Len(result))

cmdSort(s0, c) ==
    LET s == getTyped(s0, c.k)
        items == sortItems(s, c.k)
        result == sortLimit(sortRows(items, c.rev), c.limit[1], c.limit[2])
    IN  IF s.rec[c.k] # None /\ s.rec[c.k].typ \in {"string", "hash"} THEN Done(s, WRONGTYPE)
        ELSE IF ~allShort(items) THEN Done(s, NOTFLOAT)
        ELSE IF c.dst # None THEN sortStore(s, c.dst, result)
        ELSE Done(s, result)

=============================================================================
