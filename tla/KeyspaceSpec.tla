---------------------------- MODULE KeyspaceSpec ----------------------------
(***************************************************************************)
(* What the commands promise, without representations: a keyspace maps a   *)
(* key to None or to [typ, val, exp].  A hash or sorted set is a function, *)
(* a set a function on its members, a list or a string a sequence; a       *)
(* collection is never empty.  Ref(v, now, c) is the set of outcomes       *)
(* [v, res] command c may have.  The contents follow the replies the       *)
(* handlers document and the command tests under tests/compat expect.      *)
(***************************************************************************)
EXTENDS BitCmds

valOf(v, k) == IF v[k] = None THEN <<>> ELSE v[k].val

expOf(v, k) == IF v[k] = None THEN 0 ELSE v[k].exp

Out(v, res) == {[v |-> v, res |-> res]}

\* The value of k becomes x; its deadline stays.
Write(v, k, typ, x) ==
    [v EXCEPT ![k] = IF DOMAIN x = {} /\ typ # "string" THEN None
                     ELSE [typ |-> typ, val |-> x, exp |-> expOf(v, k)]]

\* k becomes a new key without a deadline.
Renew(v, k, typ, x) == Write([v EXCEPT ![k] = None], k, typ, x)

\* The elements of l at positions lo .. hi, which count from 0, or from -1 backwards.
Between(l, lo, hi) ==
    LET at(i) == IF i < 0 THEN i + Len(l) ELSE i
        ps == Sorted({p \in DOMAIN l : at(lo) < p /\ p <= at(hi) + 1}, <)
    IN  [i \in DOMAIN ps |-> l[ps[i]]]

Overwrite(f, pairs) == FoldLeft(LAMBDA g, p : (p[1] :> p[2]) @@ g, f, pairs)

Without(f, S) == Restrict(f, DOMAIN f \ S)

RefHash(v, c) ==
    LET h == valOf(v, c.k)
        cur == IF c.f \in DOMAIN h THEN h[c.f] ELSE 0
        fresh == SelectSeq(c.pairs, LAMBDA p : p[1] \notin DOMAIN h)
        new == {p[1] : p \in ToSet(fresh)}
        put(f) == Write(v, c.k, "hash", f)
        order == Sorted(DOMAIN h, <)
    IN  CASE c.op = "HSET"   -> Out(put(Overwrite(h, c.pairs)), Cardinality(new))
          [] c.op = "HMSET"  -> Out(put(Overwrite(h, c.pairs)), OK)
          [] c.op = "HSETNX" -> Out(put(Overwrite(h, fresh)), Cardinality(new))
          [] c.op = "HDEL"   -> Out(put(Without(h, ToSet(c.fields))),
                                    Cardinality(ToSet(c.fields) \cap DOMAIN h))
          [] c.op = "HINCRBY" -> IF ~Number(cur) THEN Out(v, NOTINTEGER)
                                 ELSE IF ~Number(cur + c.n) THEN Out(v, OVERFLOW)
                                 ELSE Out(put((c.f :> cur + c.n) @@ h), cur + c.n)
          [] c.op = "HINCRBYFLOAT" -> IF cur \in Long THEN Out(v, NOTFLOAT)
                                      ELSE Out(put((c.f :> cur + c.n) @@ h), cur + c.n)
          [] c.op = "HGET"    -> Out(v, IF c.f \in DOMAIN h THEN h[c.f] ELSE None)
          [] c.op = "HEXISTS" -> Out(v, c.f \in DOMAIN h)
          [] c.op = "HLEN"    -> Out(v, Cardinality(DOMAIN h))
          [] c.op = "HKEYS"   -> Out(v, order)
          [] c.op = "HVALS"   -> Out(v, [i \in DOMAIN order |-> h[order[i]]])
          [] c.op = "HGETALL" -> Out(v, [i \in DOMAIN order |-> <<order[i], h[order[i]]>>])
          [] c.op = "HMGET"   -> Out(v, [i \in DOMAIN c.fields |->
                                            IF c.fields[i] \in DOMAIN h THEN h[c.fields[i]] ELSE None])
          [] c.op = "HRANDFIELD" -> {[v |-> v, res |-> r] :
                r \in {q \in SeqOf({<<f, h[f]>> : f \in DOMAIN h}, 2) :
                          IF c.n < 0 /\ h # <<>> THEN Len(q) = -c.n
                          ELSE IsInjective(q) /\ Len(q) = Min({Cardinality(DOMAIN h), Max({c.n, 0})})}}

SetOf(v, k) == DOMAIN valOf(v, k)

Combined(v, c) == {m \in UNION {SetOf(v, k) : k \in ToSet(c.keys)} :
                      CASE c.setop = "union" -> TRUE
                        [] c.setop = "inter" -> \A k \in ToSet(c.keys) : m \in SetOf(v, k)
                        [] c.setop = "diff"  -> /\ m \in SetOf(v, c.keys[1])
                                                /\ \A i \in 2..Len(c.keys) : m \notin SetOf(v, c.keys[i])}

RefSet(v, c) ==
    LET S == SetOf(v, c.k)
        put(w, k, M) == Write(w, k, "set", [m \in M |-> TRUE])
        args == ToSet(c.members)
        picks == {q \in SeqOf(S, 2) :
                     IF c.n < 0 /\ S # {} THEN Len(q) = -c.n
                     ELSE IsInjective(q) /\ Len(q) = Min({Cardinality(S), Max({c.n, 0})})}
    IN  CASE c.op = "SADD"  -> Out(put(v, c.k, S \cup args), Cardinality(args \ S))
          [] c.op = "SREM"  -> Out(put(v, c.k, S \ args), Cardinality(args \cap S))
          [] c.op = "SMOVE" -> IF c.m \notin S THEN Out(v, FALSE)
                               ELSE LET w == put(v, c.k, S \ {c.m})
                                    IN  Out(put(w, c.dst, SetOf(w, c.dst) \cup {c.m}), TRUE)
          [] c.op = "SPOP"  -> {[v |-> put(v, c.k, S \ ToSet(q)), res |-> q] : q \in picks}
          [] c.op = "SRANDMEMBER" -> {[v |-> v, res |-> q] : q \in picks}
          [] c.op = "SMEMBERS"    -> Out(v, Sorted(S, <))
          [] c.op = "SISMEMBER"   -> Out(v, c.m \in S)
          [] c.op = "SMISMEMBER"  -> Out(v, [i \in DOMAIN c.members |-> c.members[i] \in S])
          [] c.op = "SCARD"       -> Out(v, Cardinality(S))
          [] c.op = "SOP"         -> Out(v, Sorted(Combined(v, c), <))
          [] c.op = "SSTORE"      -> Out(Renew(v, c.dst, "set", [m \in Combined(v, c) |-> TRUE]),
                                         Cardinality(Combined(v, c)))
          [] c.op = "SINTERCARD"  -> Out(v, LET n == Cardinality(Combined(v, [c EXCEPT !.setop = "inter"]))
                                            IN  IF c.n = 0 THEN n ELSE Min({n, c.n}))

RefList(v, c) ==
    LET l == valOf(v, c.k)
        put(w, k, x) == Write(w, k, "list", x)
        joined(x, e, left) == IF left THEN Reverse(e) \o x ELSE x \o e
        cut(x, n, left) == IF left THEN SubSeq(x, n + 1, Len(x)) ELSE SubSeq(x, 1, Len(x) - n)
        ends(x, n, left) == LET m == Min({n, Len(x)})
                            IN  [i \in 1..m |-> IF left THEN x[i] ELSE x[Len(x) + 1 - i]]
        move(left, dleft) ==
            IF l = <<>> THEN Out(v, None)
            ELSE LET e == ends(l, 1, left)
                     w == [v EXCEPT ![c.k].val = cut(l, 1, left)]
                     d == joined(valOf(w, c.dst), e, dleft)
                     x == IF c.k # c.dst /\ w[c.k].val = <<>> THEN [w EXCEPT ![c.k] = None] ELSE w
                 IN  Out(put(x, c.dst, d), e[1])
        near(i) == c.maxlen = 0 \/ (IF c.rank > 0 THEN i ELSE Len(l) + 1 - i) <= c.maxlen
        hits == {i \in DOMAIN l : l[i] = c.v /\ (c.op = "LPOS" => near(i))}
        idx == IF c.n < 0 THEN Len(l) + c.n + 1 ELSE c.n + 1
        pivots == {i \in DOMAIN l : l[i] = c.pivot}
    IN  CASE c.op = "PUSH" -> IF c.x /\ v[c.k] = None THEN Out(v, 0)
                              ELSE Out(put(v, c.k, joined(l, c.elems, c.left)), Len(l) + Len(c.elems))
          [] c.op = "POP"  -> Out(put(v, c.k, cut(l, c.n, c.left)), ends(l, c.n, c.left))
          [] c.op = "LRANGE" -> Out(v, Between(l, c.start, c.stop))
          [] c.op = "LTRIM"  -> Out(put(v, c.k, Between(l, c.start, c.stop)), OK)
          [] c.op = "LLEN"   -> Out(v, Len(l))
          [] c.op = "LINDEX" -> Out(v, IF idx \in DOMAIN l THEN l[idx] ELSE None)
          [] c.op = "LSET"   -> IF v[c.k] = None THEN Out(v, NOSUCHKEY)
                                ELSE IF idx \notin DOMAIN l THEN Out(v, OUTOFRANGE)
                                ELSE Out(put(v, c.k, [l EXCEPT ![idx] = c.v]), OK)
          [] c.op = "LREM"   -> LET R == {i \in hits :
                                           \/ c.n = 0
                                           \/ c.n > 0 /\ Cardinality({j \in hits : j < i}) < c.n
                                           \/ c.n < 0 /\ Cardinality({j \in hits : j > i}) < -c.n}
                                    ps == Sorted(DOMAIN l \ R, <)
                                IN  Out(put(v, c.k, [i \in DOMAIN ps |-> l[ps[i]]]), Cardinality(R))
          [] c.op = "LINSERT" -> IF v[c.k] = None THEN Out(v, 0)
                                 ELSE IF pivots = {} THEN Out(v, -1)
                                 ELSE LET p == Min(pivots) - (IF c.before THEN 1 ELSE 0)
                                      IN  Out(put(v, c.k, SubSeq(l, 1, p) \o <<c.v>>
                                                            \o SubSeq(l, p + 1, Len(l))), Len(l) + 1)
          [] c.op = "LPOS"   -> LET n(i) == Cardinality({j \in hits : IF c.rank > 0 THEN j <= i ELSE j >= i})
                                    r == IF c.rank > 0 THEN c.rank ELSE -c.rank
                                    S == {i - 1 : i \in {j \in hits : n(j) >= r /\ (c.count > 0 => n(j) < r + c.count)}}
                                    q == Sorted(S, <)
                                    o == IF c.rank > 0 THEN q ELSE Reverse(q)
                                IN  Out(v, IF c.count >= 0 THEN o ELSE IF o = <<>> THEN None ELSE o[1])
          [] c.op = "RPOPLPUSH" -> move(FALSE, TRUE)
          [] c.op = "LMOVE"     -> move(c.left, c.dleft)
          [] c.op = "LMPOP"     -> LET i == SelectInSeq(c.keys, LAMBDA k : v[k] # None)
                                       k == c.keys[i]
                                       x == valOf(v, k)
                                       m == Min({c.n, Len(x)})
                                   IN  IF i = 0 THEN Out(v, None)
                                       ELSE Out(put(v, k, cut(x, c.n, c.left)),
                                                <<k, IF c.left THEN SubSeq(x, 1, m)
                                                     ELSE SubSeq(x, Len(x) - m + 1, Len(x))>>)

\* Members in the order of their scores, ties by name.
Ordered(z) ==
    LET pos(m) == Cardinality({x \in DOMAIN z : z[x] < z[m] \/ (z[x] = z[m] /\ x <= m)})
    IN  [i \in 1..Cardinality(DOMAIN z) |-> CHOOSE m \in DOMAIN z : pos(m) = i]

Inside(x, c) == /\ c.min.at < x \/ (c.min.at = x /\ ~c.min.ex)
                /\ x < c.max.at \/ (c.max.at = x /\ ~c.max.ex)

\* The members a range form selects, in the order it answers them.
Selected(z, c) ==
    LET way(q) == IF c.rev THEN Reverse(q) ELSE q
        all == way(Ordered(z))
        byName == way(Sorted(DOMAIN z, <))
        in == CASE c.by = "index" -> Between(all, c.start, c.stop)
                [] c.by = "score" -> SelectSeq(all, LAMBDA m : Inside(z[m], c))
                [] c.by = "lex"   -> SelectSeq(byName, LAMBDA m : Inside(m, c))
    IN  IF c.limit = <<>> THEN in
        ELSE LET last == c.limit[1] + c.limit[2]
             IN  SubSeq(in, c.limit[1] + 1, IF c.limit[2] < 0 THEN Len(in) ELSE Min({last, Len(in)}))

\* A source of the combining commands; every member of a plain set scores 1.
Weighed(v, c, i) ==
    LET k == c.keys[i]
        one(m) == IF v[k].typ = "set" THEN 1 ELSE v[k].val[m]
    IN  [m \in DOMAIN valOf(v, k) |-> one(m) * (IF c.setop = "diff" THEN 1 ELSE c.w[i])]

ZCombination(v, c) ==
    [m \in Combined(v, c) |->
        LET S == {i \in DOMAIN c.keys : m \in SetOf(v, c.keys[i])}
            xs == {Weighed(v, c, i)[m] : i \in S}
        IN  CASE c.setop = "diff" -> Weighed(v, c, 1)[m]
              [] c.agg = "MIN" -> Min(xs)
              [] c.agg = "MAX" -> Max(xs)
              [] c.agg = "SUM" -> FoldSet(LAMBDA i, acc : Weighed(v, c, i)[m] + acc, 0, S)]

ZAddClash(c) == \/ "NX" \in c.opts /\ c.opts \cap {"XX", "GT", "LT"} # {}
                \/ {"GT", "LT"} \subseteq c.opts
                \/ "INCR" \in c.opts /\ Len(c.items) # 1

RefZSet(v, c) ==
    LET z == valOf(v, c.k)
        put(w, k, x) == Write(w, k, "zset", x)
        scored(q, f) == [i \in DOMAIN q |-> <<f[q[i]], q[i]>>]
        drop(w, k, f, S, res) == Out(put(w, k, Without(f, S)), res)
        \* ZADD, one pair after the other
        add(acc, x) ==
            LET has == x[2] \in DOMAIN acc.z
                old == IF has THEN acc.z[x[2]] ELSE 0
                n == IF "INCR" \in c.opts THEN old + x[1] ELSE x[1]
                ok == /\ "NX" \in c.opts => ~has
                      /\ "XX" \in c.opts => has
                      /\ has => ("GT" \in c.opts => n > old) /\ ("LT" \in c.opts => n < old)
            IN  IF ~ok THEN acc
                ELSE [z |-> (x[2] :> n) @@ acc.z, incr |-> n,
                      added |-> acc.added + (IF has THEN 0 ELSE 1),
                      changed |-> acc.changed + (IF has /\ old = n THEN 0 ELSE 1)]
        end == FoldLeft(add, [z |-> z, incr |-> None, added |-> 0, changed |-> 0], c.items)
        top(f, max) == IF max THEN Reverse(Ordered(f)) ELSE Ordered(f)
        pop(k, n, max) == SubSeq(top(valOf(v, k), max), 1, Min({n, Cardinality(SetOf(v, k))}))
        args == ToSet(c.members) \cap DOMAIN z
        sel == Selected(z, c)
    IN  CASE c.op = "ZADD" -> IF ZAddClash(c) THEN Out(v, OUTOFRANGE)
                              ELSE Out(put(v, c.k, end.z),
                                       IF "INCR" \in c.opts THEN end.incr
                                       ELSE IF "CH" \in c.opts THEN end.changed ELSE end.added)
          [] c.op = "ZREM"    -> drop(v, c.k, z, args, Cardinality(args))
          [] c.op = "ZINCRBY" -> LET n == c.n + (IF c.m \in DOMAIN z THEN z[c.m] ELSE 0)
                                 IN  Out(put(v, c.k, (c.m :> n) @@ z), n)
          [] c.op = "ZSCORE"  -> Out(v, IF c.m \in DOMAIN z THEN z[c.m] ELSE None)
          [] c.op = "ZMSCORE" -> Out(v, [i \in DOMAIN c.members |->
                                            IF c.members[i] \in args THEN z[c.members[i]] ELSE None])
          [] c.op = "ZCARD"   -> Out(v, Cardinality(DOMAIN z))
          [] c.op = "ZRANK"   -> Out(v, IF c.m \notin DOMAIN z THEN None
                                        ELSE (CHOOSE i \in DOMAIN Ordered(z) : top(z, c.rev)[i] = c.m) - 1)
          [] c.op = "ZRANGE"  -> Out(v, scored(sel, z))
          [] c.op \in {"ZCOUNT", "ZLEXCOUNT"} -> Out(v, Len(sel))
          [] c.op \in {"ZREMRANGEBYRANK", "ZREMRANGEBYSCORE", "ZREMRANGEBYLEX"} ->
                drop(v, c.k, z, ToSet(sel), Len(sel))
          [] c.op = "ZPOP"    -> drop(v, c.k, z, ToSet(pop(c.k, c.n, c.top)), scored(pop(c.k, c.n, c.top), z))
          [] c.op = "ZMPOP"   -> LET i == SelectInSeq(c.keys, LAMBDA k : v[k] # None)
                                     f == valOf(v, c.keys[i])
                                     out == pop(c.keys[i], c.n, c.top)
                                 IN  IF i = 0 THEN Out(v, None)
                                     ELSE drop(v, c.keys[i], f, ToSet(out), <<c.keys[i], scored(out, f)>>)
          [] c.op = "ZOP"     -> Out(v, scored(Ordered(ZCombination(v, c)), ZCombination(v, c)))
          [] c.op = "ZSTORE"  -> Out(Renew(v, c.dst, "zset", ZCombination(v, c)), Cardinality(Combined(v, c)))
          [] c.op = "ZRANGESTORE" -> Out(Renew(v, c.dst, "zset", Restrict(z, ToSet(sel))), Len(sel))
          [] c.op = "ZRANDMEMBER" -> {[v |-> v, res |-> scored(q, z)] :
                q \in {q \in SeqOf(DOMAIN z, 2) :
                          IF c.n < 0 /\ z # <<>> THEN Len(q) = -c.n
                          ELSE IsInjective(q) /\ Len(q) = Min({Cardinality(DOMAIN z), Max({c.n, 0})})}}

\* A deadline at or before now is a deletion.
Dated(v, now, k, at) == IF at # 0 /\ at <= now THEN [v EXCEPT ![k] = None] ELSE [v EXCEPT ![k].exp = at]

Deadline(now, x) == CASE x[1] = "EX" -> now + x[2] * Sec
                      [] x[1] = "PX" -> now + x[2]
                      [] x[1] = "EXAT" -> x[2] * Sec
                      [] x[1] = "PXAT" -> x[2]
                      [] x[1] = "PERSIST" -> 0

RefString(v, now, c) ==
    LET str == valOf(v, c.k)
        has == v[c.k] # None
        old == IF has THEN str ELSE None
        put(x) == Write(v, c.k, "string", x)
        fresh(at) == Dated(Renew(v, c.k, "string", c.str), now, c.k, at)
        many == FoldLeft(LAMBDA w, p : Renew(w, p[1], "string", p[2]), v, c.pairs)
        ttls == {Deadline(now, x) : x \in c.ttl}
        numbers == {x \in c.ttl : x[1] # "PERSIST"}
        bad == \E x \in numbers : x[2] <= 0
    IN  CASE c.op = "SET" ->
                IF {"NX", "XX"} \subseteq c.opts \/ Cardinality(c.ttl) > 1 THEN Out(v, SYNTAX)
                ELSE IF bad \/ \E x \in c.ttl : x[1] = "EX" /\ Overflows(x[2] * Sec) THEN Out(v, INVALIDEXP)
                ELSE IF "KEEPTTL" \in c.opts /\ c.ttl # {} THEN Out(v, SYNTAX)
                ELSE IF "GET" \in c.opts /\ has /\ v[c.k].typ # "string" THEN Out(v, WRONGTYPE)
                ELSE IF ("NX" \in c.opts /\ has) \/ ("XX" \in c.opts /\ ~has)
                THEN Out(v, IF "GET" \in c.opts THEN old ELSE None)
                ELSE Out(IF "KEEPTTL" \in c.opts THEN put(c.str) ELSE fresh(Max(ttls \cup {0})),
                         IF "GET" \in c.opts THEN old ELSE OK)
          [] c.op = "SETNX"  -> IF has THEN Out(v, 0) ELSE Out(fresh(0), 1)
          [] c.op = "SETXX"  -> IF has THEN Out(fresh(0), 1) ELSE Out(v, 0)
          [] c.op = "SETEX"  -> IF c.n <= 0 THEN Out(v, INVALIDEXP) ELSE Out(fresh(now + c.n * Sec), OK)
          [] c.op = "PSETEX" -> IF c.n <= 0 THEN Out(v, INVALIDEXP) ELSE Out(fresh(now + c.n), OK)
          [] c.op = "GETSET" -> Out(fresh(0), old)
          [] c.op = "GET"    -> Out(v, old)
          [] c.op = "MGET"   -> Out(v, [i \in DOMAIN c.keys |->
                LET k == c.keys[i] IN IF v[k] # None /\ v[k].typ = "string" THEN v[k].val ELSE None])
          [] c.op = "MSET"   -> Out(many, OK)
          [] c.op = "MSETNX" -> IF \E p \in ToSet(c.pairs) : v[p[1]] # None THEN Out(v, 0) ELSE Out(many, 1)
          [] c.op = "GETDEL" -> Out([v EXCEPT ![c.k] = None], old)
          [] c.op = "APPEND" -> Out(put(str \o c.str), Len(str \o c.str))
          [] c.op = "STRLEN" -> Out(v, Len(str))
          [] c.op = "GETRANGE" -> Out(v, Between(str, c.start, c.stop))
          [] c.op = "SETRANGE" ->
                LET n == IF c.str = <<>> THEN Max({Len(str), c.n}) ELSE Max({Len(str), c.n + Len(c.str)})
                    byte(i) == IF i - c.n \in DOMAIN c.str THEN c.str[i - c.n]
                               ELSE IF i \in DOMAIN str THEN str[i] ELSE 0
                IN  IF c.n < 0 THEN Out(v, OUTOFRANGE)
                    ELSE IF ~has /\ c.str = <<>> THEN Out(v, 0)
                    ELSE Out(put([i \in 1..n |-> byte(i)]), n)
          [] c.op = "GETEX"  -> IF bad THEN Out(v, INVALIDEXP)
                                ELSE IF Cardinality(c.ttl) > 1 THEN Out(v, SYNTAX)
                                ELSE Out(IF has /\ c.ttl # {} THEN Dated(v, now, c.k, Max(ttls)) ELSE v, old)

\* The bits of a string, first byte first.
BitsOf(str) == FlattenSeq([i \in DOMAIN str |-> [j \in 1..ByteBits |-> (str[i] \div 2^(ByteBits - j)) % 2]])

\* The string of the bits of q.
Packed(q) == [i \in 1..(Len(q) \div ByteBits) |->
                 FoldLeft(LAMBDA x, bit : 2 * x + bit, 0, SubSeq(q, (i - 1) * ByteBits + 1, i * ByteBits))]

\* The subsequences of q.
Subsequences(q) == {[i \in DOMAIN ps |-> q[ps[i]]] : ps \in {Sorted(P, <) : P \in SUBSET DOMAIN q}}

\* Zeros make every bit sequence as long as is needed.
Padded(q, n) == [i \in 1..Max({n, Len(q)}) |-> IF i <= Len(q) THEN q[i] ELSE 0]

WithBit(q, n, x) == Packed([Padded(q, (n \div ByteBits + 1) * ByteBits) EXCEPT ![n + 1] = x])

\* Whether op gives 1 for n sources of which so many have a 1.
BitResult(op, ones, n) ==
    \/ op = "AND" /\ ones = n
    \/ op = "OR" /\ ones > 0
    \/ op = "XOR" /\ ones % 2 = 1
    \/ op = "NOT" /\ ones = 0

Combination(op, srcs, long) ==
    Packed([i \in 1..long |->
               IF BitResult(op, Cardinality({k \in DOMAIN srcs : i <= Len(srcs[k]) /\ srcs[k][i] = 1}), Len(srcs))
               THEN 1 ELSE 0])

\* The bytes, from 0, that a BITCOUNT or BITPOS range names.
BytesIn(n, limit) ==
    ToSet(Between([i \in 1..n |-> i - 1], IF Len(limit) = 0 THEN 0 ELSE limit[1],
                  IF Len(limit) < 2 THEN -1 ELSE IF limit[2] + n < 0 THEN 0 ELSE limit[2]))

\* The first of the bits that is x; past the end of a string without a given end there are zeros.
FirstBit(bits, in, x, open) ==
    LET hits == {i \in DOMAIN bits : (i - 1) \div ByteBits \in in /\ bits[i] = x}
    IN  IF hits # {} THEN Min(hits) - 1 ELSE IF x = 0 /\ in # {} /\ open THEN Len(bits) ELSE -1

LongestCommon(p, q) ==
    LET common == Subsequences(p) \cap Subsequences(q)
    IN  {x \in common : \A y \in common : Len(y) <= Len(x)}

RefBitsOf(v, c, bits, in, srcs, long) ==
    CASE c.op = "GETBIT"   -> Out(v, Padded(bits, c.n + 1)[c.n + 1])
      [] c.op = "SETBIT"   -> Out(Write(v, c.k, "string", WithBit(bits, c.n, c.v)), Padded(bits, c.n + 1)[c.n + 1])
      [] c.op = "BITCOUNT" -> Out(v, Cardinality({i \in DOMAIN bits : (i - 1) \div ByteBits \in in /\ bits[i] = 1}))
      [] c.op = "BITPOS"   -> Out(v, IF v[c.k] = None THEN c.v * (-1) ELSE FirstBit(bits, in, c.v, Len(c.limit) < 2))
      [] c.op = "BITOP"    -> Out(IF long = 0 THEN [v EXCEPT ![c.dst] = None]
                                  ELSE Renew(v, c.dst, "string", Combination(c.bop, srcs, long)), long \div ByteBits)

RefBits(v, c) ==
    CASE c.op \in {"GETBIT", "SETBIT", "BITCOUNT", "BITPOS", "BITOP"} ->
            RefBitsOf(v, c, BitsOf(valOf(v, c.k)), BytesIn(Len(valOf(v, c.k)), c.limit),
                      [i \in DOMAIN c.keys |-> BitsOf(valOf(v, c.keys[i]))],
                      Max({0} \cup {Len(BitsOf(valOf(v, k))) : k \in ToSet(c.keys)}))
      [] c.op = "LCS" ->
            IF \E k \in ToSet(c.keys) : v[k] = None THEN Out(v, None)
            ELSE {[v |-> v, res |-> IF c.x THEN Len(q) ELSE q] :
                     q \in LongestCommon(valOf(v, c.keys[1]), valOf(v, c.keys[2]))}

\* What is copied keeps type, value and deadline.
RefKey(v, now, c) ==
    LET r == IF c.k = None THEN None ELSE v[c.k]
        has == r # None
        live == SelectSeq(c.keys, LAMBDA k : v[k] # None)
        gone(w, k) == [w EXCEPT ![k] = None]
        expire(at) ==
            IF parseExpireOption(c.opts) THEN Out(v, SYNTAX)
            ELSE IF \/ ~has
                    \/ "NX" \in c.opts /\ r.exp # 0
                    \/ "XX" \in c.opts /\ r.exp = 0
                    \/ "GT" \in c.opts /\ (r.exp = 0 \/ at <= r.exp)
                    \/ "LT" \in c.opts /\ r.exp # 0 /\ at >= r.exp THEN Out(v, 0)
            ELSE Out(IF at <= now THEN gone(v, c.k) ELSE [v EXCEPT ![c.k].exp = at], 1)
        left == IF ~has THEN -2 ELSE IF r.exp = 0 THEN -1 ELSE r.exp - now
        sorted == SortSeq(IF ~has THEN <<>>
                          ELSE IF r.typ = "list" THEN r.val ELSE SetToSeq(DOMAIN r.val),
                          LAMBDA x, y : IF c.rev THEN x > y ELSE x < y)
        rows == SubSeq(sorted, c.limit[1] + 1,
                       IF c.limit[2] < 0 THEN Len(sorted) ELSE Min({Len(sorted), c.limit[1] + c.limit[2]}))
    IN  CASE c.op = "DEL"    -> Out(FoldLeft(gone, v, c.keys), Cardinality(ToSet(live)))
          [] c.op = "EXISTS" -> Out(v, Len(live))
          [] c.op = "KEYS"   -> Out(v, {k \in Keys : v[k] # None})
          [] c.op = "TYPE"   -> Out(v, IF has THEN r.typ ELSE None)
          [] c.op = "TTL"    -> Out(v, IF left < 0 THEN left ELSE (left + Sec - 1) \div Sec)
          [] c.op = "PTTL"   -> Out(v, left)
          [] c.op = "EXPIRETIME"  -> Out(v, IF left < 0 THEN left ELSE r.exp \div Sec)
          [] c.op = "PEXPIRETIME" -> Out(v, IF left < 0 THEN left ELSE r.exp)
          [] c.op = "EXPIRE"    -> IF Overflows(now + c.n * Sec) THEN Out(v, INVALIDEXP) ELSE expire(now + c.n * Sec)
          [] c.op = "PEXPIRE"   -> IF Overflows(now + c.n) THEN Out(v, INVALIDEXP) ELSE expire(now + c.n)
          [] c.op = "EXPIREAT"  -> expire(c.n * Sec)
          [] c.op = "PEXPIREAT" -> expire(c.n)
          [] c.op = "PERSIST"   -> Out(IF has THEN [v EXCEPT ![c.k].exp = 0] ELSE v, has /\ r.exp # 0)
          [] c.op = "RENAME"    -> IF ~has THEN Out(v, NOSUCHKEY)
                                   ELSE Out([gone(v, c.k) EXCEPT ![c.dst] = r], OK)
          [] c.op = "RENAMENX"  -> IF v[c.dst] # None THEN Out(v, 0)
                                   ELSE IF ~has THEN Out(v, NOSUCHKEY)
                                   ELSE Out([gone(v, c.k) EXCEPT ![c.dst] = r], 1)
          [] c.op = "COPY"      -> IF c.k = c.dst THEN Out(v, OUTOFRANGE)
                                   ELSE IF ~has \/ (v[c.dst] # None /\ ~c.x) THEN Out(v, FALSE)
                                   ELSE Out([v EXCEPT ![c.dst] = r], TRUE)
          [] c.op = "MOVE"      -> IF c.k = c.dst THEN Out(v, OUTOFRANGE)
                                   ELSE IF ~has THEN Out(v, FALSE)
                                   ELSE Out([gone(v, c.k) EXCEPT ![c.dst] = r], TRUE)
          [] c.op = "DELEX"     -> IF ~has THEN Out(v, FALSE)
                                   ELSE IF c.cond # None /\ r.typ # "string" THEN Out(v, WRONGTYPE)
                                   ELSE IF c.cond # None /\ (c.cond = "IFEQ") # (r.val = c.str) THEN Out(v, FALSE)
                                   ELSE Out(gone(v, c.k), TRUE)
          [] c.op = "FLUSHDB"   -> Out([k \in Keys |-> None], OK)
          [] c.op = "SORT"      -> IF has /\ r.typ \in {"string", "hash"} THEN Out(v, WRONGTYPE)
                                   ELSE IF has /\ r.typ = "list" /\ ToSet(r.val) \cap Long # {} THEN Out(v, NOTFLOAT)
                                   ELSE IF c.dst = None THEN Out(v, rows)
                                   ELSE Out(Renew(v, c.dst, "list", rows), Len(rows))

-----------------------------------------------------------------------------

\* The keys whose type a command checks, in order, and the types it takes.
Checked(v, c) ==
    LET first == SelectInSeq(c.keys, LAMBDA k : v[k] # None)
    IN  CASE c.op \in {"SMOVE", "LMOVE", "RPOPLPUSH"} -> {c.k, c.dst}
          [] c.op \in {"SOP", "SSTORE", "SINTERCARD", "ZOP", "ZSTORE", "BITOP", "LCS"} -> ToSet(c.keys)
          [] c.op \in {"LMPOP", "ZMPOP"} -> IF first = 0 THEN {} ELSE {c.keys[first]}
          [] c.op \in {"SET", "SETNX", "SETXX", "SETEX", "PSETEX", "MGET", "MSET", "MSETNX"} -> {}
          [] OTHER -> {c.k}

Accepted(c) == IF c.op \in {"ZOP", "ZSTORE"} THEN {"set", "zset"}
               ELSE IF c.fam = "bits" THEN {"string"} ELSE {c.fam}

\* A command of a type's family refuses keys of another type; what it refuses for its
\* arguments alone comes first.
Ref(v, now, c) ==
    LET out == CASE c.fam = "hash"   -> RefHash(v, c)
                 [] c.fam = "set"    -> RefSet(v, c)
                 [] c.fam = "list"   -> RefList(v, c)
                 [] c.fam = "zset"   -> RefZSet(v, c)
                 [] c.fam = "string" -> RefString(v, now, c)
                 [] c.fam = "bits"   -> RefBits(v, c)
                 [] c.fam = "key"    -> RefKey(v, now, c)
        wrong == \E k \in Checked(v, c) : v[k] # None /\ v[k].typ \notin Accepted(c)
        refused == \/ c.op = "GETEX" /\ (\/ Cardinality(c.ttl) > 1
                                       \/ \E x \in c.ttl : x[1] # "PERSIST" /\ x[2] <= 0)
                   \/ c.op = "ZADD" /\ ZAddClash(c)
                   \/ c.op = "SETRANGE" /\ c.n < 0
        malformed == CASE c.op \in {"GETBIT", "SETBIT"} /\ c.n < 0 -> NOTINTEGER
                       [] c.op \in {"GETBIT", "SETBIT"} /\ c.n >= MaxOffset -> OUTOFRANGE
                       [] c.op = "BITOP" /\ c.bop = "NOT" /\ Len(c.keys) # 1 -> SYNTAX
                       [] OTHER -> OK
    IN  IF c.fam = "bits" /\ malformed # OK THEN Out(v, malformed)
        ELSE IF c.fam # "key" /\ wrong /\ ~refused THEN Out(v, WRONGTYPE) ELSE out

=============================================================================
