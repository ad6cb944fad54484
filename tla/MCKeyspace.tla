----------------------------- MODULE MCKeyspace -----------------------------
(* Two keys and the commands of one family at a time. *)
EXTENDS Keyspace

CONSTANTS key1, key2, big

MCKeys == {key1, key2}
MCLong == {big}
MCScores == -8..8
MCMinInt == -8

Blank == [op |-> "", fam |-> "", k |-> key1, dst |-> None, keys |-> <<>>, pairs |-> <<>>, fields |-> <<>>,
          f |-> 1, n |-> 1, members |-> <<>>, m |-> 1, setop |-> "union", elems |-> <<>>, left |-> TRUE,
          dleft |-> TRUE, x |-> FALSE, v |-> 1, start |-> 0, stop |-> 0, pivot |-> 1, before |-> TRUE,
          rank |-> 1, count |-> -1, maxlen |-> 0, items |-> <<>>, opts |-> {}, rev |-> FALSE,
          by |-> "index", min |-> [at |-> 0, ex |-> FALSE], max |-> [at |-> 0, ex |-> FALSE],
          limit |-> <<>>, w |-> <<1, 1>>, agg |-> "SUM", ttl |-> {}, cond |-> None, str |-> <<>>, top |-> FALSE, bop |-> "AND"]

Of(fam, op) == [Blank EXCEPT !.fam = fam, !.op = op]

Ops(fam, S) == {Of(fam, op) : op \in S}

Flush == [Of("key", "FLUSHDB") EXCEPT !.k = None]

\* What the families share: deadlines, another type in the way, moving keys about.
KeyCmds ==
    {[Of("key", "PEXPIREAT") EXCEPT !.n = 2], [Of("key", "DEL") EXCEPT !.keys = <<key1, key2>>],
     [Of("key", "DEL") EXCEPT !.keys = <<key2>>], Of("key", "PERSIST"), Flush,
     [Of("string", "SET") EXCEPT !.str = <<1>>], [Of("string", "SET") EXCEPT !.k = key2, !.str = <<1>>]}
    \cup {[Of("key", op) EXCEPT !.dst = key2, !.x = x] : op \in {"RENAME", "RENAMENX", "MOVE"}, x \in {FALSE}}
    \cup {[Of("key", "COPY") EXCEPT !.dst = key2, !.x = x] : x \in BOOLEAN}

HashCommands == KeyCmds
    \cup {[Of("hash", op) EXCEPT !.pairs = ps] : op \in {"HSET", "HMSET"},
              ps \in {<<<<1, 1>>>>, <<<<2, big>>>>, <<<<1, big>>, <<2, 1>>>>, <<<<1, 1>>, <<1, big>>>>}}
    \cup {[Of("hash", "HSETNX") EXCEPT !.pairs = <<<<f, 1>>>>] : f \in 1..2}
    \cup {[Of("hash", "HDEL") EXCEPT !.fields = fs] : fs \in {<<1>>, <<2>>, <<1, 2, 1>>}}
    \cup {[Of("hash", "HINCRBY") EXCEPT !.n = n] : n \in {-8, 8}}
    \cup {[Of("hash", "HINCRBYFLOAT") EXCEPT !.n = 7]}
    \cup Ops("hash", {"HGET", "HEXISTS", "HLEN", "HGETALL", "HKEYS", "HVALS"})
    \cup {[Of("hash", "HMGET") EXCEPT !.fields = <<2, 1, 2>>]}
    \cup {[Of("hash", "HRANDFIELD") EXCEPT !.n = n] : n \in {-2, 0, 1, 2}}

Pair == {<<key1, key2>>, <<key2, key1>>}

SetCommands == KeyCmds
    \cup {[Of("set", op) EXCEPT !.members = ms] : op \in {"SADD", "SREM"},
              ms \in {<<1>>, <<2>>, <<1, 3>>, <<3, 2, 3>>}}
    \cup {[Of("set", "SMOVE") EXCEPT !.m = m, !.k = p[1], !.dst = p[2]] : m \in {1, 3}, p \in Pair \cup {<<key1, key1>>}}
    \cup {[Of("set", op) EXCEPT !.n = n] : op \in {"SPOP", "SRANDMEMBER"}, n \in {0, 2}}
    \cup {[Of("set", "SRANDMEMBER") EXCEPT !.n = -2], [Of("set", "SMISMEMBER") EXCEPT !.members = <<3, 1>>]}
    \cup Ops("set", {"SMEMBERS", "SISMEMBER", "SCARD"})
    \cup {[Of("set", "SOP") EXCEPT !.setop = o, !.keys = p] : o \in {"union", "inter", "diff"}, p \in Pair}
    \cup {[Of("set", "SSTORE") EXCEPT !.setop = o, !.keys = p, !.dst = key1] :
              o \in {"union", "inter", "diff"}, p \in Pair}
    \cup {[Of("set", "SINTERCARD") EXCEPT !.keys = <<key1, key2>>, !.n = n] : n \in 0..1}
    \cup {[Of("key", "SORT") EXCEPT !.limit = <<0, -1>>]}

ListCommands == KeyCmds
    \cup {[Of("list", "PUSH") EXCEPT !.elems = es, !.left = l, !.x = x] :
              es \in {<<1>>, <<big, 1>>}, l \in BOOLEAN, x \in {FALSE}}
    \cup {[Of("list", "PUSH") EXCEPT !.elems = <<1>>, !.x = TRUE, !.left = FALSE]}
    \cup {[Of("list", "POP") EXCEPT !.n = n, !.left = l] : n \in 0..2, l \in BOOLEAN}
    \cup {[Of("list", op) EXCEPT !.start = r[1], !.stop = r[2]] : op \in {"LRANGE", "LTRIM"},
              r \in {<<1, 5>>, <<-2, -1>>, <<-9, 0>>, <<2, 1>>}}
    \cup {[Of("list", op) EXCEPT !.n = n] : op \in {"LINDEX", "LSET", "LREM"}, n \in {-1, 0, 1}}
    \cup {[Of("list", "LSET") EXCEPT !.n = 0, !.v = big], Of("list", "LLEN")}
    \cup {[Of("list", "LINSERT") EXCEPT !.before = x] : x \in BOOLEAN}
    \cup {[Of("list", "LPOS") EXCEPT !.rank = r, !.count = n, !.maxlen = m] :
              r \in {1, -2}, n \in {-1, 1}, m \in {0, 2}}
    \cup {[Of("list", "RPOPLPUSH") EXCEPT !.k = p[1], !.dst = p[2]] : p \in Pair}
    \cup {[Of("list", "LMOVE") EXCEPT !.dst = d, !.left = l, !.dleft = FALSE] : d \in {key1, key2}, l \in BOOLEAN}
    \cup {[Of("list", "LMPOP") EXCEPT !.keys = <<key2, key1>>, !.n = 2, !.left = l] : l \in BOOLEAN}
    \cup {[Of("key", "SORT") EXCEPT !.dst = d, !.rev = (l = 1), !.limit = <<l, 2>>] :
              d \in {None, key2}, l \in 0..1}

Bound(x, e) == [at |-> x, ex |-> e]

ZSetCommands == KeyCmds
    \cup {[Of("zset", "ZADD") EXCEPT !.items = is, !.opts = o] :
              is \in {<<<<2, 1>>>>, <<<<1, 2>>, <<2, 3>>>>}, o \in {{}, {"NX", "CH"}, {"XX", "CH"}, {"GT"}}}
    \cup {[Of("zset", "ZADD") EXCEPT !.items = <<<<1, 1>>>>, !.opts = o] : o \in {{}, {"LT", "XX"}, {"INCR", "GT"}}}
    \cup {[Of("zset", "ZADD") EXCEPT !.items = <<<<1, 1>>, <<2, 1>>>>],
          [Of("zset", "ZADD") EXCEPT !.items = <<<<1, 1>>>>, !.opts = {"NX", "XX"}]}
    \cup {[Of("zset", op) EXCEPT !.members = ms] : op \in {"ZREM", "ZMSCORE"}, ms \in {<<1>>, <<3, 2, 3>>}}
    \cup {[Of("zset", "ZINCRBY") EXCEPT !.n = -1, !.m = 2]}
    \cup Ops("zset", {"ZSCORE", "ZCARD"})
    \cup {[Of("zset", "ZRANK") EXCEPT !.rev = r] : r \in BOOLEAN}
    \cup {[Of("zset", op) EXCEPT !.start = r[1], !.stop = r[2], !.rev = v] :
              op \in {"ZRANGE"}, r \in {<<1, -1>>, <<-2, 0>>}, v \in BOOLEAN}
    \cup {[Of("zset", "ZRANGE") EXCEPT !.by = y, !.rev = v, !.limit = l,
                                       !.min = Bound(1, v), !.max = Bound(2, ~v)] :
              y \in {"score", "lex"}, v \in BOOLEAN, l \in {<<>>, <<1, -1>>}}
    \cup {[Of("zset", op) EXCEPT !.by = "score", !.min = Bound(1, TRUE), !.max = Bound(2, FALSE)] :
              op \in {"ZCOUNT", "ZREMRANGEBYSCORE"}}
    \cup {[Of("zset", op) EXCEPT !.by = "lex", !.min = Bound(1, TRUE), !.max = Bound(3, TRUE)] :
              op \in {"ZLEXCOUNT", "ZREMRANGEBYLEX"}}
    \cup {[Of("zset", "ZREMRANGEBYRANK") EXCEPT !.start = 1, !.stop = -1]}
    \cup {[Of("zset", "ZPOP") EXCEPT !.n = n, !.top = x] : n \in {0, 2}, x \in BOOLEAN}
    \cup {[Of("zset", "ZMPOP") EXCEPT !.keys = <<key2, key1>>, !.top = x] : x \in BOOLEAN}
    \cup {[Of("zset", op) EXCEPT !.keys = p, !.setop = o, !.agg = g, !.w = <<1, 2>>, !.dst = key2] :
              op \in {"ZOP"}, p \in {<<key1, key2>>}, o \in {"union", "inter", "diff"}, g \in {"SUM", "MIN"}}
    \cup {[Of("zset", "ZSTORE") EXCEPT !.keys = <<key1, key2>>, !.setop = o, !.agg = "MAX", !.dst = key2] :
              o \in {"union", "inter", "diff"}}
    \cup {[Of("zset", "ZRANGESTORE") EXCEPT !.stop = 1, !.rev = v, !.dst = key2] : v \in BOOLEAN}
    \cup {[Of("zset", "ZRANDMEMBER") EXCEPT !.n = n] : n \in {-2, 1}}

Bytes == {<<1>>, <<2, 1>>}

StringCommands ==
    {[Of("string", "SET") EXCEPT !.str = <<1>>, !.opts = o, !.ttl = t] :
         o \in {{}, {"XX", "GET"}, {"GET", "KEEPTTL"}}, t \in {{}, {<<"EX", 1>>}, {<<"PXAT", 2>>}}}
    \cup {[Of("string", "SET") EXCEPT !.str = <<1>>, !.ttl = t, !.opts = {"NX"}] :
         t \in {{<<"PX", 1>>}, {<<"EXAT", 1>>}, {<<"PXAT", 1>>}, {<<"EX", 1>>, <<"PX", 1>>},
                {<<"EX", 0>>}, {<<"EX", 8>>}, {<<"EX", 3>>}, {<<"EXAT", 8>>}}}
    \cup {[Of("string", "SET") EXCEPT !.str = <<1>>, !.opts = {"NX", "XX"}]}
    \cup {[Of("string", op) EXCEPT !.str = <<2>>, !.n = n] : op \in {"SETEX", "PSETEX"}, n \in {0, 1, 8}}
    \cup {[Of("string", op) EXCEPT !.str = <<2>>] : op \in {"SETNX", "SETXX", "GETSET", "APPEND"}}
    \cup Ops("string", {"GET", "GETDEL", "STRLEN"})
    \cup {[Of("string", op) EXCEPT !.pairs = <<<<key1, <<1>>>>, <<key2, <<2>>>>, <<key1, <<2>>>>>>] : op \in {"MSET", "MSETNX"}}
    \cup {[Of("string", "MGET") EXCEPT !.keys = <<key2, key1>>]}
    \cup {[Of("string", "GETRANGE") EXCEPT !.start = r[1], !.stop = r[2]] : r \in {<<0, 0>>, <<-1, 5>>, <<1, -1>>}}
    \cup {[Of("string", "SETRANGE") EXCEPT !.n = n, !.str = v] : n \in {-1, 0, 1}, v \in {<<>>, <<2>>}}
    \cup {[Of("string", "GETEX") EXCEPT !.ttl = t] :
              t \in {{}, {<<"EX", 1>>}, {<<"PX", 1>>}, {<<"PXAT", 1>>}, {<<"PERSIST", 0>>}, {<<"EX", 0>>},
                     {<<"PX", 1>>, <<"PERSIST", 0>>}}}
    \cup {[Of("key", op) EXCEPT !.n = n, !.opts = o] : op \in {"EXPIRE", "PEXPIRE", "EXPIREAT", "PEXPIREAT"},
              n \in {-1, 1, 8}, o \in {{}}}
    \cup {[Of("key", "PEXPIREAT") EXCEPT !.n = n, !.opts = o] : n \in 2..3,
              o \in {{"NX"}, {"XX", "GT"}, {"LT"}, {"NX", "GT"}}}
    \cup Ops("key", {"TTL", "PTTL", "EXPIRETIME", "PEXPIRETIME", "TYPE", "PERSIST"})
    \cup {Flush, [Of("key", "KEYS") EXCEPT !.k = None]}
    \cup {[Of("key", op) EXCEPT !.keys = <<key1, key2, key1>>] : op \in {"DEL", "EXISTS"}}
    \cup {[Of("key", op) EXCEPT !.k = p[1], !.dst = p[2]] : op \in {"RENAME", "RENAMENX", "MOVE", "COPY"}, p \in Pair \cup {<<key1, key1>>}}
    \cup {[Of("key", "COPY") EXCEPT !.dst = key2, !.x = TRUE]}
    \cup {[Of("key", "DELEX") EXCEPT !.cond = x, !.str = <<1>>] : x \in {None, "IFEQ", "IFNE"}}
    \cup {[Of("list", "PUSH") EXCEPT !.k = key2, !.elems = <<1>>], [Of("key", "SORT") EXCEPT !.limit = <<0, -1>>]}

BitCommands ==
    {[Of("string", "SET") EXCEPT !.str = v, !.k = k] : v \in {<<>>, <<3, 1>>}, k \in {key1, key2}}
    \cup {[Of("string", "GETDEL") EXCEPT !.k = key2],
          [Of("key", "PEXPIREAT") EXCEPT !.n = 2], [Of("list", "PUSH") EXCEPT !.k = key2, !.elems = <<1>>]}
    \cup {[Of("bits", "GETBIT") EXCEPT !.n = n] : n \in {-1, 0, 3, 6}}
    \cup {[Of("bits", "SETBIT") EXCEPT !.n = n, !.v = v] : n \in {-1, 0, 3, 8}, v \in {1}}
    \cup {[Of("bits", "SETBIT") EXCEPT !.n = 2, !.v = 0]}
    \cup {[Of("bits", "BITCOUNT") EXCEPT !.limit = r] : r \in {<<>>, <<0, 0>>, <<-1, -1>>, <<1, 5>>, <<0, -9>>}}
    \cup {[Of("bits", "BITPOS") EXCEPT !.v = v, !.limit = r, !.k = k] :
              v \in 0..1, k \in {key1, key2}, r \in {<<>>, <<1>>, <<-2>>, <<0, 0>>, <<1, -1>>, <<2, 1>>}}
    \cup {[Of("bits", "BITOP") EXCEPT !.bop = o, !.keys = p, !.dst = key2] :
              o \in {"AND", "OR", "XOR"}, p \in {<<key1, key2>>, <<key2, key1>>, <<key1>>}}
    \cup {[Of("bits", "BITOP") EXCEPT !.bop = "NOT", !.keys = p, !.dst = key2] : p \in {<<key1>>, <<key1, key2>>}}
    \cup {[Of("bits", "LCS") EXCEPT !.keys = p, !.x = x] : p \in Pair, x \in BOOLEAN}

MCCommands == [f \in Families |-> CASE f = "hash" -> HashCommands
                                    [] f = "set" -> SetCommands
                                    [] f = "list" -> ListCommands
                                    [] f = "zset" -> ZSetCommands
                                    [] f = "string" -> StringCommands
                                    [] f = "bits" -> BitCommands]

\* Keeps lists, strings and numbers small.
Small == \A k \in Keys :
    LET v == View(store)[k]
    IN  v # None => /\ v.typ = "string" => Len(v.val) <= 2
                    /\ v.typ = "list" => Len(v.val) <= IF k = key1 THEN 3 ELSE 1
                    /\ v.typ = "hash" => \A f \in DOMAIN v.val : v.val[f] \in {1, 8, big}
                    /\ v.typ = "zset" => \A m \in DOMAIN v.val : v.val[m] \in 1..2
                    /\ store.rec[k].tail <= 2
                    /\ v.exp <= 4

=============================================================================
