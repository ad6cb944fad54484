----------------------------- MODULE Aggregate ------------------------------
(***************************************************************************)
(* How collections are kept in Pebble (aggregate.go, storage/object.go and *)
(* the parts of data.go they go through).  A collection is one record that *)
(* holds every element (inline) or a header plus one Pebble key per        *)
(* element (sparse); a sparse sorted set has a score-index key per member  *)
(* as well.                                                                *)
(*                                                                         *)
(* A store is the record                                                   *)
(*   rec[k]  what EncodeDataKey(db, k) holds, None when there is nothing   *)
(*   el[k]   per type, the element keys of k: field |-> value of a hash,   *)
(*           member |-> TRUE of a set, member |-> score of a sorted set,   *)
(*           sequence number |-> value of a list                           *)
(*   sc[k]   the score-index keys of k, pairs <<score, member>>            *)
(*   ix      the expiry segment, pairs <<deadline, key>>                   *)
(*   now     the clock                                                     *)
(*                                                                         *)
(* The dict is left out: DataPath is about what it caches, and what it     *)
(* answers is the record.  A routine of the code is an operator that       *)
(* returns [log, res]: log is the store after each Pebble write it commits *)
(* (the first entry is the store after its reads, which reap expired       *)
(* records), res what it answers.                                          *)
(***************************************************************************)
EXTENDS Integers, FiniteSets, Sequences, SequencesExt, Functions, TLC

CONSTANTS Keys,
          None,
          Long,         \* the values longer than InlineMaxValueSize
          InlineMax,    \* InlineMaxEntries
          Word,         \* 2^64, scaled down: sequence numbers are encoded modulo Word
          OK, WRONGTYPE, OVERFLOW, NOTINTEGER, NOTFLOAT, OUTOFRANGE, NOSUCHKEY    \* replies

ASSUME InlineMaxAssumption == InlineMax \in Nat \ {0}
ASSUME WordAssumption == Word \in Nat /\ Word > 2 * InlineMax

AggTypes == {"hash", "list", "set", "zset"}

EmptyStore == [rec |-> [k \in Keys |-> None],
               el |-> [k \in Keys |-> [t \in AggTypes |-> <<>>]],
               sc |-> [k \in Keys |-> {}], ix |-> {}, now |-> 1]

Done(s, res) == [log |-> <<s>>, res |-> res]

Then(r, F(_)) == LET q == F(Last(r.log)) IN [log |-> r.log \o q.log, res |-> q.res]

Answer(r, res) == [r EXCEPT !.res = res]

-----------------------------------------------------------------------------

IsExpired(s, k) == s.rec[k] # None /\ s.rec[k].exp # 0 /\ s.rec[k].exp <= s.now

\* deleteExpired knows the record and its index entry, not the element keys.
deleteExpired(s, k) ==
    [s EXCEPT !.rec[k] = None, !.ix = @ \ {<<s.rec[k].exp, k>>}]

\* The store once getTyped(k) has returned.
getTyped(s, k) == IF IsExpired(s, k) THEN deleteExpired(s, k) ELSE s

Wrong(s, k, typ) == s.rec[k] # None /\ s.rec[k].typ # typ

\* The common start of the handlers: read k, refuse another type.
Typed(s, k, typ, F(_)) ==
    LET t == getTyped(s, k)
    IN  IF Wrong(t, k, typ) THEN Done(t, WRONGTYPE) ELSE F(t)

\* Reads ks in order up to the first key of another type.
TypedAll(s, ks, typ, F(_)) ==
    LET read(acc, k) == IF acc.wrong THEN acc
                        ELSE LET t == getTyped(acc.s, k)
                             IN  [s |-> t, wrong |-> Wrong(t, k, typ)]
        end == FoldLeft(read, [s |-> s, wrong |-> FALSE], ks)
    IN  IF end.wrong THEN Done(end.s, WRONGTYPE) ELSE F(end.s)

\* Slip: the index entry of the old deadline stays.
putValueKeepsIndex(s, k, r, prev) ==
    [s EXCEPT !.rec[k] = r, !.ix = @ \cup (IF r.exp # 0 THEN {<<r.exp, k>>} ELSE {})]

putValue(s, k, r, prev) ==
    [s EXCEPT !.rec[k] = r,
              !.ix = (@ \ (IF prev # r.exp THEN {<<prev, k>>} ELSE {}))
                        \cup (IF r.exp \notin {0, prev} THEN {<<r.exp, k>>} ELSE {})]

StringRec(v, exp) == [typ |-> "string", exp |-> exp, sparse |-> FALSE, val |-> v,
                      cnt |-> 0, head |-> 0, tail |-> 0]

-----------------------------------------------------------------------------

\* S in the order lt (a loop over an iterator, or slices.Sort).
Sorted(S, lt(_, _)) == SortSeq(FoldSet(LAMBDA x, q : Append(q, x), <<>>, S), lt)

uint64(n) == n % Word

\* The sequence numbers of k in key order, big-endian unsigned.
scanList(s, k) == Sorted(DOMAIN s.el[k].list, LAMBDA m, n : uint64(m) < uint64(n))

isSparse(s, k) == s.rec[k] # None /\ s.rec[k].sparse

newAgg(typ, val) == [typ |-> typ, exists |-> FALSE, sparse |-> FALSE, exp |-> 0, orig |-> 0,
                     val |-> val, snap |-> <<>>, seqs |-> <<>>, head |-> 0, tail |-> 0]

\* The elements under the element keys el; those of a list in the order of seqs.
scanElems(el, typ, seqs) == IF typ = "list" THEN [i \in DOMAIN seqs |-> el.list[seqs[i]]] ELSE el[typ]

\* exp is what will be written, orig what the index holds; snap is the loaded snapshot
\* saveAgg diffs against.
aggOf(r, val, seqs) == [typ |-> r.typ, exists |-> TRUE, sparse |-> r.sparse, exp |-> r.exp, orig |-> r.exp,
                        val |-> val, snap |-> val, seqs |-> seqs, head |-> r.head, tail |-> r.tail]

sparseAgg(s, k, r, seqs) == aggOf(r, scanElems(s.el[k], r.typ, seqs), seqs)

\* After getTyped and the type check.
loadAgg(s, k, typ) ==
    LET r == s.rec[k]
    IN  IF r = None THEN newAgg(typ, <<>>)
        ELSE IF r.sparse THEN sparseAgg(s, k, r, IF typ = "list" THEN scanList(s, k) ELSE <<>>)
        ELSE aggOf(r, r.val, <<>>)

\* Most handlers: read k, refuse another type, load the collection.
OnAgg(s, k, typ, F(_, _)) == Typed(s, k, typ, LAMBDA t : F(t, loadAgg(t, k, typ)))

\* The commands that only read.
Read(s, k, typ, F(_)) == OnAgg(s, k, typ, LAMBDA t, a : Done(t, F(a.val)))

aggLen(a) == Cardinality(DOMAIN a.val)

fitsInline(a) == /\ aggLen(a) <= InlineMax
                 /\ a.typ \in {"hash", "list"} => \A e \in DOMAIN a.val : a.val[e] \notin Long

inlineRec(a) == [typ |-> a.typ, exp |-> a.exp, sparse |-> FALSE, val |-> a.val,
                 cnt |-> aggLen(a), head |-> 0, tail |-> 0]

sparseHeader(a, n) == [typ |-> a.typ, exp |-> a.exp, sparse |-> TRUE, val |-> <<>>,
                       cnt |-> n, head |-> a.head, tail |-> a.tail]

dropElems(s, k, typ) ==
    [s EXCEPT !.el[k][typ] = <<>>, !.sc[k] = IF typ = "zset" THEN {} ELSE @]

\* Sequence numbers of a promoted list are 0 .. n-1.
centred(a) == IF a.typ = "list" THEN [a EXCEPT !.head = 0, !.tail = aggLen(a) - 1] ELSE a

scorePairs(z) == {<<z[m], m>> : m \in DOMAIN z}

writeElems(s, k, a) ==
    LET new == IF a.typ = "list" THEN [n \in 0..(aggLen(a) - 1) |-> a.val[n + 1]] ELSE a.val
    IN  [s EXCEPT !.el[k][a.typ] = new @@ @,
                  !.sc[k] = IF a.typ = "zset" THEN @ \cup scorePairs(a.val) ELSE @]

\* Slip: a changed score leaves its old score-index key behind.
diffElemsKeepsScore(s, k, a) ==
    LET gone == DOMAIN a.snap \ DOMAIN a.val
    IN  IF a.typ = "list" THEN s
        ELSE [s EXCEPT !.el[k][a.typ] = a.val @@ Restrict(@, DOMAIN @ \ gone),
                       !.sc[k] = IF a.typ = "zset" THEN @ \cup scorePairs(a.val) ELSE @]

\* Lists write their own deltas.
diffElems(s, k, a) ==
    LET gone == DOMAIN a.snap \ DOMAIN a.val
    IN  IF a.typ = "list" THEN s
        ELSE [s EXCEPT !.el[k][a.typ] = a.val @@ Restrict(@, DOMAIN @ \ gone),
                       !.sc[k] = IF a.typ = "zset"
                                 THEN (@ \ (scorePairs(a.snap) \ scorePairs(a.val)))
                                        \cup (scorePairs(a.val) \ scorePairs(a.snap))
                                 ELSE @]

\* One batch: the elements, the record and the expiry index.
saveAgg(s, k, a) ==
    LET b == IF a.sparse THEN a ELSE centred(a)
        t == IF a.sparse THEN diffElems(s, k, a) ELSE writeElems(s, k, a)
    IN  IF fitsInline(a)
        THEN putValue(IF a.sparse THEN dropElems(s, k, a.typ) ELSE s, k, inlineRec(a), a.orig)
        ELSE putValue(t, k, sparseHeader(b, aggLen(a)), a.orig)

\* Three writes: the elements, the record, the index entry.
deleteKey(s, k) ==
    LET t == getTyped(s, k)
        r == t.rec[k]
        t1 == IF r.typ = "string" THEN t ELSE dropElems(t, k, r.typ)
        t2 == [t1 EXCEPT !.rec[k] = None]
        t3 == [t2 EXCEPT !.ix = @ \ {<<r.exp, k>>}]
    IN  IF r = None THEN Done(t, FALSE)
        ELSE [log |-> <<t, t1, t2, t3>>, res |-> TRUE]

\* The end of most handlers: nothing left means the key goes.
saveOrDelete(s, k, a, res) ==
    IF aggLen(a) = 0 THEN Answer(deleteKey(s, k), res) ELSE Done(saveAgg(s, k, a), res)

=============================================================================
