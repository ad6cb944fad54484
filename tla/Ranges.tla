------------------------------- MODULE Ranges -------------------------------
(***************************************************************************)
(* The index arithmetic the range and paging commands share.  Positions    *)
(* count from 0, as in the code; a negative one counts from the end.       *)
(***************************************************************************)
EXTENDS Integers, Sequences

\* items[lo:hi+1]
Slice(items, lo, hi) == SubSeq(items, lo + 1, hi + 1)

fromEnd(i, n) == IF i < 0 THEN i + n ELSE i

atLeast0(i) == IF i < 0 THEN 0 ELSE i

atMost(i, m) == IF i > m THEN m ELSE i

sliceRange(items, start, stop) ==
    LET n == Len(items)
        lo == atLeast0(fromEnd(start, n))
        hi == atMost(fromEnd(stop, n), n - 1)
    IN  IF lo > hi \/ lo >= n \/ n = 0 THEN <<>> ELSE Slice(items, lo, hi)

indexRange(items, start, stop) ==
    LET n == Len(items)
        lo == atLeast0(fromEnd(start, n))
        hi == atMost(fromEnd(stop, n), n - 1)
    IN  IF lo > hi \/ lo >= n \/ n = 0 THEN <<>> ELSE Slice(items, lo, hi)

\* Unlike the two above, an end before the start of the value becomes 0.
resolveRange(start, end, n) ==
    <<atLeast0(fromEnd(start, n)), atMost(atLeast0(fromEnd(end, n)), n - 1)>>

getRange(val, start, end) ==
    LET n == Len(val)
        r == resolveRange(start, end, n)
    IN  IF (start < 0 /\ end < 0 /\ start > end) \/ r[1] > r[2] \/ r[1] >= n THEN <<>>
        ELSE Slice(val, r[1], r[2])

\* <<lo, hi>>, or <<>> for an empty range.
byteRange(data, start, end) ==
    LET n == Len(data)
        lo == atLeast0(fromEnd(start, n))
        hi == atMost(atLeast0(fromEnd(end, n)), n - 1)
    IN  IF lo > hi \/ lo >= n THEN <<>> ELSE <<lo, hi>>

applyLimit(items, offset, count) ==
    LET rest == SubSeq(items, offset + 1, Len(items))
    IN  IF offset < 0 \/ offset >= Len(items) THEN <<>>
        ELSE IF count < 0 THEN rest
        ELSE SubSeq(rest, 1, atMost(count, Len(rest)))

\* Slip: the page takes one element too few off the rest.
scanPageOverlap(flat, cursor, count) ==
    LET end == atMost(cursor + count, Len(flat))
    IN  IF cursor >= Len(flat) THEN [next |-> 0, page |-> <<>>]
        ELSE [next |-> IF end >= Len(flat) THEN 0 ELSE end + 1,
              page |-> SubSeq(flat, cursor + 1, end)]

\* One page of HSCAN, SSCAN and ZSCAN, and the cursor to go on from; 0 ends the scan.
scanPage(flat, cursor, count) ==
    LET end == atMost(cursor + count, Len(flat))
    IN  IF cursor >= Len(flat) THEN [next |-> 0, page |-> <<>>]
        ELSE [next |-> IF end >= Len(flat) THEN 0 ELSE end,
              page |-> SubSeq(flat, cursor + 1, end)]

=============================================================================
