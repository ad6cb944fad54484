------------------------------ MODULE Keyspace ------------------------------
(***************************************************************************)
(* The keyspace commands as one state machine: clients run commands, one   *)
(* at a time (KeyLocks is about why they may be taken one at a time), and  *)
(* the clock advances.  Which commands there are is a parameter.  The      *)
(* store is what Pebble holds; the abstract keyspace of KeyspaceSpec is    *)
(* what a client sees of it.                                               *)
(***************************************************************************)
EXTENDS KeyspaceSpec, CommandKeys

CONSTANTS Commands,     \* the commands of each family: [family -> set of commands]
          Families,
          MaxTime

VARIABLES store,
          family        \* the family of commands this behaviour uses

vars == <<store, family>>

\* The results c may have: several for the commands that draw at random.
Results(s, c) ==
    CASE c.op = "HSET" -> {cmdHSet(s, c)}          [] c.op = "HSETNX" -> {cmdHSetNX(s, c)}
      [] c.op = "HMSET" -> {cmdHMSet(s, c)}        [] c.op = "HDEL" -> {cmdHDel(s, c)}
      [] c.op = "HINCRBY" -> {cmdHIncrBy(s, c)}    [] c.op = "HINCRBYFLOAT" -> {cmdHIncrByFloat(s, c)}
      [] c.op = "HGET" -> {cmdHGet(s, c)}          [] c.op = "HEXISTS" -> {cmdHExists(s, c)}
      [] c.op = "HLEN" -> {cmdHLen(s, c)}          [] c.op = "HGETALL" -> {cmdHGetAll(s, c)}
      [] c.op = "HKEYS" -> {hashEnumerate(s, c, TRUE)}
      [] c.op = "HVALS" -> {hashEnumerate(s, c, FALSE)}
      [] c.op = "HMGET" -> {cmdHMGet(s, c)}        [] c.op = "HRANDFIELD" -> cmdHRandField(s, c)
      [] c.op = "SADD" -> {cmdSAdd(s, c)}          [] c.op = "SREM" -> {cmdSRem(s, c)}
      [] c.op = "SMOVE" -> {cmdSMove(s, c)}        [] c.op = "SPOP" -> cmdSPop(s, c)
      [] c.op = "SMEMBERS" -> {cmdSMembers(s, c)}  [] c.op = "SISMEMBER" -> {cmdSIsMember(s, c)}
      [] c.op = "SMISMEMBER" -> {cmdSMIsMember(s, c)}
      [] c.op = "SCARD" -> {cmdSCard(s, c)}        [] c.op = "SRANDMEMBER" -> cmdSRandMember(s, c)
      [] c.op = "SOP" -> {setOp(s, c)}             [] c.op = "SSTORE" -> {setStoreOp(s, c)}
      [] c.op = "SINTERCARD" -> {cmdSInterCard(s, c)}
      [] c.op = "PUSH" -> {pushCmd(s, c)}          [] c.op = "POP" -> {popCmd(s, c)}
      [] c.op = "LRANGE" -> {cmdLRange(s, c)}      [] c.op = "LLEN" -> {cmdLLen(s, c)}
      [] c.op = "LINDEX" -> {cmdLIndex(s, c)}      [] c.op = "LSET" -> {cmdLSet(s, c)}
      [] c.op = "LREM" -> {cmdLRem(s, c)}          [] c.op = "LTRIM" -> {cmdLTrim(s, c)}
      [] c.op = "LINSERT" -> {cmdLInsert(s, c)}    [] c.op = "LPOS" -> {cmdLPos(s, c)}
      [] c.op = "RPOPLPUSH" -> {cmdRPopLPush(s, c)} [] c.op = "LMOVE" -> {lmoveCmd(s, c)}
      [] c.op = "LMPOP" -> {lmpopCmd(s, c)}
      [] c.op = "ZADD" -> {cmdZAdd(s, c)}          [] c.op = "ZREM" -> {cmdZRem(s, c)}
      [] c.op = "ZINCRBY" -> {cmdZIncrBy(s, c)}    [] c.op = "ZSCORE" -> {cmdZScore(s, c)}
      [] c.op = "ZMSCORE" -> {cmdZMScore(s, c)}    [] c.op = "ZCARD" -> {cmdZCard(s, c)}
      [] c.op = "ZRANK" -> {rankCmd(s, c)}         [] c.op = "ZRANGE" -> {cmdZRange(s, c)}
      [] c.op = "ZCOUNT" -> {cmdZCount(s, c)}      [] c.op = "ZLEXCOUNT" -> {cmdZLexCount(s, c)}
      [] c.op = "ZPOP" -> {zPopCmd(s, c)}          [] c.op = "ZMPOP" -> {cmdZMPop(s, c)}
      [] c.op = "ZREMRANGEBYRANK" -> {cmdZRemRangeByRank(s, c)}
      [] c.op = "ZREMRANGEBYSCORE" -> {cmdZRemRangeByScore(s, c)}
      [] c.op = "ZREMRANGEBYLEX" -> {cmdZRemRangeByLex(s, c)}
      [] c.op = "ZOP" -> {cmdZUnion(s, c)}         [] c.op = "ZSTORE" -> {zStoreOp(s, c)}
      [] c.op = "ZRANGESTORE" -> {cmdZRangeStore(s, c)}
      [] c.op = "ZRANDMEMBER" -> cmdZRandMember(s, c)
      [] c.op = "SET" -> {cmdSet(s, c)}            [] c.op = "SETNX" -> {cmdSetNX(s, c)}
      [] c.op = "SETXX" -> {cmdSetXX(s, c)}        [] c.op = "SETEX" -> {cmdSetEx(s, c)}
      [] c.op = "PSETEX" -> {cmdPSetEx(s, c)}      [] c.op = "GETSET" -> {cmdGetSet(s, c)}
      [] c.op = "GET" -> {cmdGet(s, c)}            [] c.op = "MGET" -> {cmdMGet(s, c)}
      [] c.op = "MSET" -> {cmdMSet(s, c)}          [] c.op = "MSETNX" -> {cmdMSetNX(s, c)}
      [] c.op = "GETDEL" -> {cmdGetDel(s, c)}      [] c.op = "APPEND" -> {cmdAppend(s, c)}
      [] c.op = "STRLEN" -> {cmdStrLen(s, c)}      [] c.op = "GETRANGE" -> {cmdGetRange(s, c)}
      [] c.op = "SETRANGE" -> {cmdSetRange(s, c)}  [] c.op = "GETEX" -> {cmdGetEx(s, c)}
      [] c.op = "DEL" -> {cmdDel(s, c)}            [] c.op = "EXISTS" -> {cmdExists(s, c)}
      [] c.op = "KEYS" -> {cmdKeys(s, c)}          [] c.op = "TYPE" -> {cmdType(s, c)}
      [] c.op = "TTL" -> {cmdTTL(s, c)}            [] c.op = "PTTL" -> {cmdPTTL(s, c)}
      [] c.op = "EXPIRETIME" -> {expireTimeCmd(s, c, Sec)}
      [] c.op = "PEXPIRETIME" -> {expireTimeCmd(s, c, 1)}
      [] c.op = "EXPIRE" -> {cmdExpire(s, c)}      [] c.op = "PEXPIRE" -> {cmdPExpire(s, c)}
      [] c.op = "EXPIREAT" -> {cmdExpireAt(s, c)}  [] c.op = "PEXPIREAT" -> {cmdPExpireAt(s, c)}
      [] c.op = "PERSIST" -> {persist(s, c)}       [] c.op = "RENAME" -> {cmdRename(s, c)}
      [] c.op = "RENAMENX" -> {cmdRenameNX(s, c)}  [] c.op = "COPY" -> {cmdCopy(s, c)}
      [] c.op = "MOVE" -> {cmdMove(s, c)}          [] c.op = "DELEX" -> {cmdDelex(s, c)}
      [] c.op = "FLUSHDB" -> {flushDB(s)}          [] c.op = "SORT" -> {cmdSort(s, c)}
      [] c.op = "GETBIT" -> {cmdGetBit(s, c)}      [] c.op = "SETBIT" -> {cmdSetBit(s, c)}
      [] c.op = "BITCOUNT" -> {cmdBitCount(s, c)}  [] c.op = "BITPOS" -> {cmdBitPos(s, c)}
      [] c.op = "BITOP" -> {cmdBitOp(s, c)}        [] c.op = "LCS" -> {cmdLCS(s, c)}

\* The words after the command's name, as far as commandKeys looks at them.
ArgsOf(c) ==
    CASE c.op \in {"DEL", "EXISTS", "MGET", "SOP", "LCS"} -> c.keys
      [] c.op \in {"SINTERCARD", "ZMPOP", "ZOP", "LMPOP"} -> <<Len(c.keys)>> \o c.keys
      [] c.op = "SSTORE" -> <<c.dst>> \o c.keys
      [] c.op = "ZSTORE" -> <<c.dst, Len(c.keys)>> \o c.keys
      [] c.op = "BITOP" -> <<c.bop, c.dst>> \o c.keys
      [] c.op \in {"MSET", "MSETNX"} -> FlattenSeq(c.pairs)
      [] c.op = "SORT" /\ c.dst # None -> <<c.k, "STORE", c.dst>>
      [] c.op \in {"RENAME", "RENAMENX", "COPY", "SMOVE", "RPOPLPUSH", "LMOVE", "ZRANGESTORE"} -> <<c.k, c.dst>>
      [] OTHER -> <<c.k>>

-----------------------------------------------------------------------------
(* Commands the code is known not to serve as a client expects, and when.  *)

Duplicates(q) == ~IsInjective(q)

\* The elements of a sparse collection that c leaves behind: it overwrites, renames or
\* reaps the record without dropElems.
Orphans(s, c) ==
    LET named == (IF c.k = None THEN {} ELSE {c.k}) \cup (IF c.dst = None THEN {} ELSE {c.dst})
                    \cup ToSet(c.keys) \cup {p[1] : p \in ToSet(IF c.fam = "string" THEN c.pairs ELSE <<>>)}
        live(k) == isSparse(s, k) /\ ~IsExpired(s, k)
    IN  \/ \E k \in named : isSparse(s, k) /\ IsExpired(s, k)
        \/ c.op \in {"SET", "SETNX", "SETXX", "SETEX", "PSETEX"} /\ live(c.k)
        \/ c.op = "BITOP" /\ live(c.dst)
        \/ c.op = "MSET" /\ \E p \in ToSet(c.pairs) : live(p[1])
        \/ c.op \in {"RENAME", "RENAMENX"} /\ (live(c.k) \/ live(c.dst))
        \/ c.op \in {"COPY", "MOVE"} /\ live(c.dst) /\ s.rec[c.k] # None /\ s.rec[c.k].typ = "string"

\* A sparse list is read in the order of unsigned sequence numbers, so a left push that
\* ends up sparse is read back at the wrong end; LINSERT, LREM and COPY write the header of
\* a sparse list alone; popping and pushing the last element of one list loses its deadline.
BreaksList(s, c) ==
    LET isList(k) == s.rec[k] # None /\ s.rec[k].typ = "list" /\ ~IsExpired(s, k)
        sparse(k) == isList(k) /\ s.rec[k].sparse
        sum(k) == IF isList(k) THEN s.rec[k].cnt ELSE 0
        leftSparse(k, e) == sparse(k) \/ sum(k) + Len(e) > InlineMax \/ ~allShort(e)
        mayBeLong(k) == sparse(k) /\ ToSet(loadAgg(s, k, "list").val) \cap Long # {}
        badMove(dleft) ==
            \/ dleft /\ c.k # c.dst /\ sum(c.k) > 0 /\ (leftSparse(c.dst, <<1>>) \/ mayBeLong(c.k))
            \/ c.k = c.dst /\ sum(c.k) = 1 /\ s.rec[c.k].exp # 0
            \/ c.k = c.dst /\ dleft /\ sparse(c.k)
    IN  \/ c.op = "PUSH" /\ c.left /\ leftSparse(c.k, c.elems)
        \/ c.op = "RPOPLPUSH" /\ badMove(TRUE)
        \/ c.op = "LMOVE" /\ badMove(c.dleft)
        \/ c.op \in {"LINSERT", "LREM", "COPY", "MOVE"} /\ sparse(c.k)

\* One batch counts a new member given twice as two.
Miscounts(s, c) ==
    /\ c.k # None /\ isSparse(s, c.k)
    /\ \/ c.op \in {"HSET", "HMSET"} /\ Duplicates([i \in DOMAIN c.pairs |-> c.pairs[i][1]])
       \/ c.op = "SADD" /\ Duplicates(c.members)
       \/ c.op = "ZADD" /\ Duplicates(names(c.items))

\* ZADD XX saves an empty sorted set for a key that does not exist.
SavesEmpty(s, c) == c.op = "ZADD" /\ "XX" \in c.opts /\ (s.rec[c.k] = None \/ IsExpired(s, c.k))

\* Durations that do not fit time.Duration, deadlines that do not fit a millisecond clock;
\* SETBIT drops the deadline of the key.
MisdatesKey(s, c) ==
    \/ c.op = "SETBIT" /\ s.rec[c.k] # None /\ s.rec[c.k].exp # 0
    \/ c.op \in {"SETEX", "EXPIREAT"} /\ (Overflows(c.n * Sec) \/ Overflows(c.n * Sec * Nano))
    \/ c.op = "PSETEX" /\ Overflows(c.n * Nano)
    \/ c.op \in {"SET", "GETEX"} /\ \E x \in c.ttl : Overflows(x[2] * Sec * Nano) \/ Overflows(s.now + x[2] * Sec)

Damaging(s, c) ==
    Orphans(s, c) \/ BreaksList(s, c) \/ Miscounts(s, c) \/ SavesEmpty(s, c) \/ MisdatesKey(s, c)

-----------------------------------------------------------------------------

Init == store = EmptyStore /\ family \in Families

Run(c) == \E r \in Results(store, c) : store' = Last(r.log) /\ UNCHANGED family

Tick == store.now < MaxTime /\ store' = [store EXCEPT !.now = @ + 1] /\ UNCHANGED family

RunUndamaged == \E c \in Commands[family] : ~Damaging(store, c) /\ Run(c)

\* The commands outside the list of known exceptions.
Spec == Init /\ [][RunUndamaged \/ Tick]_vars

-----------------------------------------------------------------------------

\* What a client sees of the store.
View(s) == [k \in Keys |-> IF s.rec[k] = None \/ IsExpired(s, k) THEN None
                           ELSE [typ |-> s.rec[k].typ, exp |-> s.rec[k].exp,
                                 val |-> IF s.rec[k].typ = "string" THEN s.rec[k].val
                                         ELSE loadAgg(s, k, s.rec[k].typ).val]]

\* aggregate.go:195-266.  The record, the element keys, the score index and a list's bounds
\* tell one story: a sparse header counts exactly the element keys of its type, a list's
\* sequence numbers are the non-negative head .. tail, a sorted set has one score-index key
\* per member, and no element key exists that a record does not account for.
Represented == \A k \in Keys :
    LET r == store.rec[k]
        mine(t) == r # None /\ r.sparse /\ r.typ = t
    IN  /\ \A t \in AggTypes : ~mine(t) => store.el[k][t] = <<>>
        /\ \A t \in AggTypes : mine(t) => r.cnt = Cardinality(DOMAIN store.el[k][t]) /\ r.cnt > 0
        /\ mine("list") => DOMAIN store.el[k].list = r.head..r.tail /\ r.head >= 0
        /\ store.sc[k] = IF mine("zset") THEN scorePairs(store.el[k].zset) ELSE {}
        /\ r # None /\ ~r.sparse /\ r.typ # "string" => r.val # <<>>

\* Of several longest common subsequences LCS answers one.
Agrees(c, got, want) == IF c.op = "LCS" THEN got # {} /\ got \subseteq want ELSE got = want

\* Every command outside the exceptions changes exactly what KeyspaceSpec says and answers
\* exactly that, whatever mixture of inline and sparse collections, deadlines and types the
\* commands before it have left (the handlers of cmd_*.go over aggregate.go and data.go).
CommandsCorrect ==
    LET v == View(store)
    IN  \A c \in Commands[family] :
            \/ Damaging(store, c)
            \/ Agrees(c, {[v |-> View(Last(r.log)), res |-> r.res] : r \in Results(store, c)}, Ref(v, store.now, c))

\* The commands that write one key and keep it.
OneKey == {"HSET", "HSETNX", "HMSET", "HINCRBY", "HINCRBYFLOAT", "SADD", "PUSH", "LSET", "LINSERT",
           "ZADD", "ZINCRBY", "SET", "SETNX", "SETXX", "GETSET", "MSET", "MSETNX", "APPEND",
           "SETRANGE", "PERSIST"}

\* The expiry entries the records call for.
Due(s) == {<<s.rec[k].exp, k>> : k \in {x \in Keys : s.rec[x] # None /\ s.rec[x].exp # 0}}

\* aggregate.go:200-202, "flips from the old state to the new one in one step".  Were the
\* process to crash between two commits of a command, a command that writes one key and keeps
\* it shows the key as it was or as it will be, and no command leaves a record whose deadline
\* has no entry in the expiry segment, so that the active expirer finds it.
CrashSafe ==
    LET v == View(store)
    IN  \A c \in Commands[family] : Damaging(store, c) \/ \A r \in Results(store, c) :
            \A i \in 1..(Len(r.log) - 1) :
                /\ Due(r.log[i]) \subseteq r.log[i].ix
                /\ c.op \in OneKey => View(r.log[i]) \in {v, View(Last(r.log))}

\* data.go:213-297.  Once a command is over the expiry segment lists exactly the deadlines of
\* the records: nothing that must be reaped is missing, no stale entry is left to reap a key
\* whose deadline moved.
DeadlinesIndexed == store.ix = Due(store)

\* The commands that write keys handle() has not locked for them: commandKeys takes the words
\* of S*STORE for a count, leaves out the destination of Z*STORE and of MOVE, takes LMPOP's
\* count for its key, and knows of one key of LCS.
Unlocked == {"SSTORE", "ZSTORE", "LMPOP", "MOVE", "LCS"}

\* keys.go:9-13, "dispatch locks every key the command may read or write".  Outside these
\* exceptions and the whole-database commands, every key a command changes or reaps is among
\* those commandKeys finds in its words.
LocksCover ==
    \A c \in Commands[family] : c.op \in Unlocked \cup {"FLUSHDB"} \/ \A r \in Results(store, c) :
        LET t == Last(r.log)
        IN  {k \in Keys : t.rec[k] # store.rec[k] \/ t.el[k] # store.el[k] \/ t.sc[k] # store.sc[k]}
                \subseteq ToSet(commandKeys(c.op, ArgsOf(c)))

\* What the pages of a scan with COUNT n answer one after the other, until the cursor is 0
\* again or there have been as many calls as elements.
Pages(page(_), n) ==
    LET call(acc, i) == IF acc.over THEN acc
                        ELSE LET r == page(acc.cursor)
                             IN  [out |-> acc.out \o r.page, cursor |-> r.next, over |-> r.next = 0]
    IN  FoldLeft(call, [out |-> <<>>, cursor |-> 0, over |-> FALSE], [i \in 1..n |-> i])

\* cmd_generic.go:834-839.  HSCAN, SSCAN and ZSCAN of a collection nobody changes end, and
\* have then answered every element once, whatever the page size and the representation.
ScansComplete == \A k \in Keys, n \in 1..2 :
    LET r == View(store)[k]
        c == [k |-> k, n |-> n]
        page(cur) == LET d == [cursor |-> cur] @@ c
                     IN  CASE r.typ = "hash" -> cmdHScan(store, d).res
                           [] r.typ = "set"  -> cmdSScan(store, d).res
                           [] r.typ = "zset" -> cmdZScan(store, d).res
        pairs == [e \in DOMAIN r.val |-> <<e, r.val[e]>>]
        want == IF r.typ = "set" THEN Sorted(DOMAIN r.val, <)
                ELSE FlattenSeq([i \in 1..Cardinality(DOMAIN r.val) |-> pairs[Sorted(DOMAIN r.val, <)[i]]])
        got == Pages(page, Len(want))
    IN  r # None /\ r.typ \in {"hash", "set", "zset"} => got.over /\ got.out = want

=============================================================================
