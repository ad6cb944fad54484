------------------------------ MODULE ListCmds ------------------------------
(***************************************************************************)
(* The list commands (cmd_list.go and the list half of cmd_completion.go). *)
(* A sparse list keeps its elements under sequence numbers head .. tail    *)
(* and is read back in the order of the encoded numbers.                   *)
(***************************************************************************)
EXTENDS SetCmds

\* One batch: the promotion if there is one, the new sequence keys, the header.
listPushSparse(s, k, a0, elems, left) ==
    LET a == IF a0.sparse THEN a0 ELSE centred(a0)
        t == IF a0.sparse THEN s ELSE writeElems(s, k, a0)
        seqOf(i) == IF left THEN a.head - i ELSE a.tail + i
        pushed == [n \in {seqOf(i) : i \in DOMAIN elems} |->
                       elems[IF left THEN a.head - n ELSE n - a.tail]]
        b == [a EXCEPT !.head = IF left THEN @ - Len(elems) ELSE @,
                       !.tail = IF left THEN @ ELSE @ + Len(elems)]
        n == aggLen(a) + Len(elems)
    IN  Done(putValue([t EXCEPT !.el[k].list = pushed @@ @], k, sparseHeader(b, n), a.orig), n)

allShort(elems) == \A i \in DOMAIN elems : elems[i] \notin Long

listPush(s0, k, elems, left, onlyIfExists) == OnAgg(s0, k, "list", LAMBDA s, a :
    LET new == IF left THEN Reverse(elems) \o a.val ELSE a.val \o elems
    IN  IF onlyIfExists /\ ~a.exists THEN Done(s, 0)
        ELSE IF ~a.sparse /\ aggLen(a) + Len(elems) <= InlineMax /\ allShort(elems)
        THEN Done(saveAgg(s, k, [a EXCEPT !.val = new]), Len(new))
        ELSE listPushSparse(s, k, a, elems, left))

\* Elements of a list from the end given, in list order, and the list without them.
taken(l, n, left) == IF left THEN SubSeq(l, 1, n) ELSE SubSeq(l, Len(l) - n + 1, Len(l))

remaining(l, n, left) == IF left THEN SubSeq(l, n + 1, Len(l)) ELSE SubSeq(l, 1, Len(l) - n)

\* The sequence keys head, head+1, ... (or tail, tail-1, ...) are deleted and committed with
\* the header; a list that empties is deleted afterwards.
popSparse(s, k, a, n, left) ==
    LET gone == IF left THEN a.head..(a.head + n - 1) ELSE (a.tail - n + 1)..a.tail
        cut == [s EXCEPT !.el[k].list = Restrict(@, DOMAIN @ \ gone)]
        rest == [a EXCEPT !.head = IF left THEN @ + n ELSE @, !.tail = IF left THEN @ ELSE @ - n]
    IN  IF n = aggLen(a) THEN Then(Done(cut, OK), LAMBDA t : deleteKey(t, k))
        ELSE Done(putValue(cut, k, sparseHeader(rest, aggLen(a) - n), a.orig), OK)

popN(s, k, a, n, left) ==
    Answer(IF a.sparse THEN popSparse(s, k, a, n, left)
           ELSE saveOrDelete(s, k, [a EXCEPT !.val = remaining(@, n, left)], OK),
           taken(a.val, n, left))

listPop(s0, k, count, left) == OnAgg(s0, k, "list", LAMBDA s, a :
    IF aggLen(a) = 0 THEN Done(s, <<>>) ELSE popN(s, k, a, atMost(count, aggLen(a)), left))

\* A sparse list gets the one sequence key rewritten.
listSet(s0, k, index, v) == OnAgg(s0, k, "list", LAMBDA s, a :
    LET i == fromEnd(index, aggLen(a))
    IN  IF ~a.exists THEN Done(s, NOSUCHKEY)
        ELSE IF i < 0 \/ i >= aggLen(a) THEN Done(s, OUTOFRANGE)
        ELSE IF a.sparse THEN Done([s EXCEPT !.el[k].list[a.seqs[i + 1]] = v], OK)
        ELSE Done(saveAgg(s, k, [a EXCEPT !.val[i + 1] = v]), OK))

\* The positions LREM takes: the first count ones, the last -count, or all.
remPositions(l, count, v) ==
    LET at == Sorted({i \in DOMAIN l : l[i] = v}, <)
        n == Len(at)
    IN  ToSet(IF count > 0 THEN SubSeq(at, 1, atMost(count, n))
              ELSE IF count < 0 THEN SubSeq(at, n - atMost(-count, n) + 1, n)
              ELSE at)

\* The sequence keys go in a batch of their own; saveAgg or deleteKey follow.
listRem(s0, k, count, v) == OnAgg(s0, k, "list", LAMBDA s, a :
    LET removed == remPositions(a.val, count, v)
        kept == Sorted(DOMAIN a.val \ removed, <)
        rest == [a EXCEPT !.val = [i \in DOMAIN kept |-> @[kept[i]]]]
        cut == [s EXCEPT !.el[k].list = Restrict(@, DOMAIN @ \ {a.seqs[i] : i \in removed})]
    IN  IF removed = {} THEN Done(s, 0)
        ELSE IF a.sparse THEN Then(Done(cut, 0), LAMBDA t :
                                   saveOrDelete(t, k, rest, Cardinality(removed)))
        ELSE saveOrDelete(s, k, rest, Cardinality(removed)))

\* A sparse list is dropped and written again as a new one.
listTrim(s0, k, start, stop) == OnAgg(s0, k, "list", LAMBDA s, a :
    LET kept == sliceRange(a.val, start, stop)
        fresh == [a EXCEPT !.val = kept, !.sparse = FALSE, !.seqs = <<>>, !.head = 0, !.tail = 0]
    IN  IF Len(kept) = aggLen(a) THEN Done(s, OK)
        ELSE IF kept = <<>> THEN Answer(deleteKey(s, k), OK)
        ELSE IF a.sparse THEN Then(Done(dropElems(s, k, "list"), OK), LAMBDA t :
                                   Done(saveAgg(t, k, fresh), OK))
        ELSE Done(saveAgg(s, k, fresh), OK))

pushCmd(s, c) == listPush(s, c.k, c.elems, c.left, c.x)

\* RPOP answers tail first.
tailFirst(r, left) == IF r.res = WRONGTYPE \/ left THEN r ELSE Answer(r, Reverse(r.res))

popCmd(s, c) == tailFirst(listPop(s, c.k, c.n, c.left), c.left)

cmdLRange(s, c) == Read(s, c.k, "list", LAMBDA l : sliceRange(l, c.start, c.stop))

cmdLLen(s, c) == Read(s, c.k, "list", Len)

cmdLIndex(s, c) == Read(s, c.k, "list", LAMBDA l :
    LET i == fromEnd(c.n, Len(l)) IN IF i < 0 \/ i >= Len(l) THEN None ELSE l[i + 1])

cmdLSet(s, c) == listSet(s, c.k, c.n, c.v)

cmdLRem(s, c) == listRem(s, c.k, c.n, c.v)

cmdLTrim(s, c) == listTrim(s, c.k, c.start, c.stop)

cmdLInsert(s0, c) == OnAgg(s0, c.k, "list", LAMBDA s, a :
    LET i == SelectInSeq(a.val, LAMBDA e : e = c.pivot)
    IN  IF ~a.exists THEN Done(s, 0)
        ELSE IF i = 0 THEN Done(s, -1)
        ELSE Done(saveAgg(s, c.k, [a EXCEPT !.val = InsertAt(@, IF c.before THEN i ELSE i + 1, c.v)]),
                  aggLen(a) + 1))

\* The matches from the given end, skipping |rank|-1 of them, within the first
\* maxlen positions; a positive COUNT bounds their number, none asks for the first.
cmdLPos(s, c) == Read(s, c.k, "list", LAMBDA l :
    LET n == Len(l)
        near(i) == c.maxlen = 0 \/ (IF c.rank > 0 THEN i <= c.maxlen ELSE n - i < c.maxlen)
        up == Sorted({i \in DOMAIN l : l[i] = c.v /\ near(i)}, <)
        all == IF c.rank > 0 THEN up ELSE Reverse(up)
        skip == IF c.rank > 0 THEN c.rank - 1 ELSE -c.rank - 1
        hits == SubSeq(all, skip + 1, IF c.count > 0 THEN atMost(skip + c.count, Len(all)) ELSE Len(all))
        matches == [i \in DOMAIN hits |-> hits[i] - 1]
    IN  IF c.count >= 0 THEN matches ELSE IF matches = <<>> THEN None ELSE matches[1])

\* What the pop answered is pushed, in a write of its own.
pushPopped(p, k, left) ==
    IF p.res = WRONGTYPE THEN p
    ELSE IF p.res = <<>> THEN Answer(p, None)
    ELSE Answer(Then(p, LAMBDA t : listPush(t, k, p.res, left, FALSE)), p.res[1])

\* The destination's type is checked before the pop.
moveElem(s0, c, srcLeft, dstLeft) == Typed(s0, c.dst, "list", LAMBDA s :
    pushPopped(listPop(s, c.k, 1, srcLeft), c.dst, dstLeft))

cmdRPopLPush(s, c) == moveElem(s, c, FALSE, TRUE)

lmoveCmd(s, c) == moveElem(s, c, c.left, c.dleft)

\* The position of the first key that is not empty, 0 if there is none.
firstFull(s, ks) ==
    SelectInSeq(ks, LAMBDA k : s.rec[k] # None /\ ~IsExpired(s, k) /\ loadAgg(s, k, s.rec[k].typ).val # <<>>)

\* The keys before it are read and type-checked, and it is.
upTo(ks, i) == IF i = 0 THEN ks ELSE SubSeq(ks, 1, i)

withKey(r, k) == Answer(r, <<k, r.res>>)

popFirst(s0, c, i) == TypedAll(s0, upTo(c.keys, i), "list", LAMBDA s :
    IF i = 0 THEN Done(s, None) ELSE withKey(listPop(s, c.keys[i], c.n, c.left), c.keys[i]))

lmpopCmd(s, c) == popFirst(s, c, firstFull(s, c.keys))

=============================================================================
