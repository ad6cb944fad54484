------------------------------- MODULE BitCmds ------------------------------
(***************************************************************************)
(* The bit commands (cmd_bit.go) and LCS (cmd_completion.go).  A byte is a *)
(* number of ByteBits bits; offset 0 is the most significant bit of the    *)
(* first byte.                                                             *)
(***************************************************************************)
EXTENDS GenericCmds

CONSTANTS ByteBits,       \* 8, scaled down
          MaxOffset       \* bitMaxOffset

ASSUME BitsAssumption == ByteBits \in Nat \ {0} /\ MaxOffset \in Nat

\* Bit i of byte x, counting from the most significant one.
bitAt(x, i) == (x \div 2^(ByteBits - 1 - i)) % 2

byteOf(F(_)) == MapThenSumSet(LAMBDA i : F(i) * 2^(ByteBits - 1 - i), 0..(ByteBits - 1))

bitOf(data, off) ==
    LET i == off \div ByteBits IN IF i >= Len(data) THEN 0 ELSE bitAt(data[i + 1], off % ByteBits)

bitOffset(n) == IF n < 0 THEN NOTINTEGER ELSE IF n >= MaxOffset THEN OUTOFRANGE ELSE OK

cmdGetBit(s0, c) ==
    IF bitOffset(c.n) # OK THEN Done(s0, bitOffset(c.n))
    ELSE Typed(s0, c.k, "string", LAMBDA s : Done(s, bitOf(strVal(s, c.k), c.n)))

\* Zero bytes up to the one that holds the bit; the record is written without a deadline.
setBit(data, off, val) ==
    LET at == off \div ByteBits + 1
        old(i) == IF i <= Len(data) THEN data[i] ELSE 0
        n == IF at > Len(data) THEN at ELSE Len(data)
    IN  [i \in 1..n |-> IF i # at THEN old(i)
                        ELSE byteOf(LAMBDA b : IF b = off % ByteBits THEN val ELSE bitAt(old(i), b))]

cmdSetBit(s0, c) ==
    IF bitOffset(c.n) # OK THEN Done(s0, bitOffset(c.n))
    ELSE IF c.v \notin {0, 1} THEN Done(s0, OUTOFRANGE)
    ELSE Typed(s0, c.k, "string", LAMBDA s :
            Done(setStringSimple(s, c.k, setBit(strVal(s, c.k), c.n, c.v), 0),
                 bitOf(strVal(s, c.k), c.n)))

bitPopCount(x) == MapThenSumSet(LAMBDA i : bitAt(x, i), 0..(ByteBits - 1))

\* limit is empty or <<start, end>>, in bytes.
cmdBitCount(s0, c) == Typed(s0, c.k, "string", LAMBDA s :
    LET data == strVal(s, c.k)
        r == IF c.limit = <<>> THEN <<0, Len(data) - 1>> ELSE byteRange(data, c.limit[1], c.limit[2])
    IN  Done(s, IF data = <<>> \/ r = <<>> THEN 0
                ELSE MapThenSumSet(LAMBDA i : bitPopCount(data[i + 1]), r[1]..r[2])))

\* limit is empty, <<start>> or <<start, end>>; only without an end do zeros follow.
bitPos(data, want, limit) ==
    LET n == Len(data)
        r == CASE limit = <<>> -> <<0, n - 1>>
               [] Len(limit) = 1 -> byteRange(data, limit[1], n - 1)
               [] OTHER -> byteRange(data, limit[1], limit[2])
        hits == {off \in (r[1] * ByteBits)..(r[2] * ByteBits + ByteBits - 1) : bitOf(data, off) = want}
    IN  IF n = 0 \/ r = <<>> THEN -1
        ELSE IF hits # {} THEN Min(hits)
        ELSE IF want = 0 /\ Len(limit) < 2 /\ r[2] = n - 1 THEN n * ByteBits ELSE -1

\* A missing key is all zeros, whatever the range.
cmdBitPos(s0, c) ==
    IF c.v \notin {0, 1} THEN Done(s0, NOTINTEGER)
    ELSE Typed(s0, c.k, "string", LAMBDA s :
            Done(s, IF s.rec[c.k] = None THEN (IF c.v = 0 THEN 0 ELSE -1)
                    ELSE bitPos(strVal(s, c.k), c.v, c.limit)))

bitOp(op, x, y) == byteOf(LAMBDA i :
    LET p == bitAt(x, i) q == bitAt(y, i)
    IN  CASE op = "AND" -> p * q
          [] op = "OR"  -> p + q - p * q
          [] op = "XOR" -> (p + q) % 2
          [] op = "NOT" -> 1 - p)

\* Source by source; the shorter value counts as followed by zero bytes.
bitFold(op, srcs) ==
    LET at(d, i) == IF i <= Len(d) THEN d[i] ELSE 0
        step(res, d) == [i \in 1..(IF Len(d) > Len(res) THEN Len(d) ELSE Len(res)) |->
                             bitOp(op, at(res, i), at(d, i))]
    IN  IF op = "NOT" THEN [i \in DOMAIN srcs[1] |-> bitOp("NOT", srcs[1][i], 0)]
        ELSE FoldLeft(step, srcs[1], Tail(srcs))

cmdBitOp(s0, c) ==
    IF c.bop = "NOT" /\ Len(c.keys) # 1 THEN Done(s0, SYNTAX)
    ELSE TypedAll(s0, c.keys, "string", LAMBDA s :
            LET res == bitFold(c.bop, [i \in DOMAIN c.keys |-> strVal(s, c.keys[i])])
            IN  IF res = <<>> THEN Answer(deleteKey(s, c.dst), 0)
                ELSE Done(setStringSimple(s, c.dst, res, 0), Len(res)))

-----------------------------------------------------------------------------

\* lcsLen[i, j] is the length for the tails of p and q that start at i and j.
lcsTable(p, q) ==
    LET m == Len(p) n == Len(q)
        l[i \in 1..(m + 1), j \in 1..(n + 1)] ==
            IF i > m \/ j > n THEN 0
            ELSE IF p[i] = q[j] THEN l[i + 1, j + 1] + 1
            ELSE IF l[i + 1, j] >= l[i, j + 1] THEN l[i + 1, j] ELSE l[i, j + 1]
    IN  l

\* The pairs of positions the walk through the table matches.
lcsWalk(p, q) ==
    LET m == Len(p) n == Len(q)
        l == lcsTable(p, q)
        w[i \in 1..(m + 1), j \in 1..(n + 1)] ==
            IF i > m \/ j > n THEN <<>>
            ELSE IF p[i] = q[j] THEN <<<<i, j>>>> \o w[i + 1, j + 1]
            ELSE IF l[i + 1, j] >= l[i, j + 1] THEN w[i + 1, j] ELSE w[i, j + 1]
    IN  w[1, 1]

lcsString(p, pairs) == [i \in DOMAIN pairs |-> p[pairs[i][1]]]

\* x asks for LEN.
cmdLCS(s0, c) == TypedAll(s0, c.keys, "string", LAMBDA s :
    LET p == strVal(s, c.keys[1])
        pairs == lcsWalk(p, strVal(s, c.keys[2]))
    IN  Done(s, IF \E k \in ToSet(c.keys) : s.rec[k] = None THEN None
                ELSE IF c.x THEN Len(pairs) ELSE lcsString(p, pairs)))

=============================================================================
