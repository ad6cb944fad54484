----------------------------- MODULE StreamIds ------------------------------
(***************************************************************************)
(* Stream IDs, their order and the ranges cut out of them (stream.go).  An *)
(* ID is <<ms, seq>>; both halves are unsigned words, MaxWord being the    *)
(* largest.                                                                *)
(***************************************************************************)
EXTENDS Integers, Sequences, FiniteSets, Functions

CONSTANTS MaxWord,      \* ^uint64(0)
          Refused       \* the reply to an ID that is not one

ASSUME WordAssumption == MaxWord \in Nat \ {0}

Word64 == 0..MaxWord

ID == Word64 \X Word64

ZeroID == <<0, 0>>

\* "+", and the marker ">" is parsed to.
MaxID == <<MaxWord, MaxWord>>

inc(n) == (n + 1) % (MaxWord + 1)

less(i, j) == IF i[1] # j[1] THEN i[1] < j[1] ELSE i[2] < j[2]

leq(i, j) == i = j \/ less(i, j)

\* The smallest ID above id.
nextID(id) == IF id[2] = MaxWord THEN <<inc(id[1]), 0>> ELSE <<id[1], id[2] + 1>>

prevID(id) == IF id[2] = 0 THEN <<id[1] - 1, MaxWord>> ELSE <<id[1], id[2] - 1>>

\* A bound of XRANGE or XPENDING: "-", "+", an ID, a bare millisecond part, with or
\* without "(" in front.
parseStreamBound(b, asStart) ==
    IF b.kind \in {"-", "+"}
    THEN IF b.exclusive THEN Refused ELSE IF b.kind = "-" THEN ZeroID ELSE MaxID
    ELSE IF ~b.exclusive THEN IF b.kind = "ms" /\ ~asStart THEN <<b.id[1], MaxWord>> ELSE b.id
    ELSE IF asStart THEN nextID(b.id)
    ELSE IF b.id = ZeroID THEN Refused ELSE prevID(b.id)

\* The IDs of S in key order.
inOrder(S) ==
    CHOOSE q \in [1..Cardinality(S) -> S] : Range(q) = S /\ \A i, j \in DOMAIN q : i < j => less(q[i], q[j])

\* The last ID of a read.
Last(s) == s[Len(s)]

\* The exclusive end of the scan: one past the inclusive end.
hiEnd(end) ==
    IF end[2] = MaxWord /\ end[1] # MaxWord THEN <<end[1] + 1, 0>> ELSE <<end[1], inc(end[2])>>

\* Entries between the bounds, whichever comes first; count <= 0 is no limit.
xRange(entries, start, end, count, rev) ==
    LET lo == IF less(end, start) THEN end ELSE start
        hi == IF less(end, start) THEN start ELSE end
        found == inOrder({i \in entries : leq(lo, i) /\ less(i, hiEnd(hi)) /\ leq(i, hi)})
        out == IF rev THEN [k \in DOMAIN found |-> found[Len(found) + 1 - k]] ELSE found
    IN  IF count > 0 /\ Len(out) > count THEN SubSeq(out, 1, count) ELSE out

\* The pending IDs of the owners, from start to end; the end's sequence is bumped
\* without a carry.
pelList(pel, owners, start, end, count) ==
    LET out == inOrder({i \in DOMAIN pel : pel[i] \in owners /\ leq(start, i) /\ less(i, <<end[1], inc(end[2])>>)})
    IN  IF count > 0 /\ Len(out) > count THEN SubSeq(out, 1, count) ELSE out

=============================================================================
