------------------------------ MODULE Counter -------------------------------
(***************************************************************************)
(* The merge operator behind INCR, DECR, INCRBY and DECRBY                 *)
(* (storage/merge.go) and what Pebble makes of it.  A key's records stand  *)
(* newest first: a put ends what a read looks at, operands above it are    *)
(* folded into one value.  A compaction replaces neighbouring records by   *)
(* their fold at a time of its own choosing.  The numbers in between are   *)
(* exact; what is stored is text that went through a float64, so integers  *)
(* past its mantissa are rounded.                                          *)
(***************************************************************************)
EXTENDS Integers, Sequences, SequencesExt

CONSTANTS Text,         \* a string that is no number
          Exact,        \* 2^53: float64 holds every integer up to it
          MaxInt        \* the largest int64

ASSUME CounterAssumption == Exact \in Nat \ {0} /\ MaxInt \in Nat /\ Exact <= MaxInt

isInt(v) == v # Text

abs(n) == IF n < 0 THEN -n ELSE n

\* The distance between neighbouring float64 at n; 2^4 is wide enough for what int64 operands reach here.
spacing(n) == CHOOSE u \in {1, 2, 4, 8, 16} : abs(n) <= Exact * u /\ (u = 1 \/ abs(n) > Exact * (u \div 2))

\* formatCounterFloat of an integer: through float64, to the nearest, ties to even.
formatCounterFloat(n) ==
    LET u == spacing(n)
        q == abs(n) \div u
        r == 2 * (abs(n) % u)
        up == IF r < u THEN q ELSE IF r > u THEN q + 1 ELSE IF q % 2 = 0 THEN q ELSE q + 1
    IN  IF n < 0 THEN -(up * u) ELSE up * u

\* Records: a put, and a merge operand.  A folded operand carries an expiry like a put does.
Put(v, exp) == [put |-> TRUE, v |-> v, exp |-> exp]

EncodeIntDelta(d) == [put |-> FALSE, v |-> d, exp |-> 0]

\* Slip: a put met under the operands counts for nothing.
foldOperandsOnly(m, r) == IF r.put THEN m ELSE [m EXCEPT !.v = @ + r.v]

\* fold: an older record into the sum; a put that is no number is passed over, its deadline is not.
fold(m, r) == [v   |-> IF isInt(r.v) THEN m.v + r.v ELSE m.v,
               exp |-> IF r.exp > m.exp THEN r.exp ELSE m.exp]

\* What a run of records folds to: Merge of the newest, fold of the others, Finish.
Finish(recs) ==
    LET m == FoldLeft(fold, [v |-> Head(recs).v, exp |-> Head(recs).exp], Tail(recs))
    IN  [put |-> Last(recs).put, v |-> formatCounterFloat(m.v), exp |-> m.exp]

\* eng.Get of records s # <<>>.
resolve(s) == IF Head(s).put THEN Head(s) ELSE Finish(s)

\* Pebble drops what a put hides.
overwrite(v, exp) == <<Put(v, exp)>>

\* A compaction folds the records i and i + 1.
compacted(s, i) == SubSeq(s, 1, i - 1) \o <<Finish(SubSeq(s, i, i + 1))>> \o SubSeq(s, i + 2, Len(s))

=============================================================================
