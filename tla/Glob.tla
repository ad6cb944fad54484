-------------------------------- MODULE Glob --------------------------------
(***************************************************************************)
(* The matcher of KEYS, SCAN MATCH and PSUBSCRIBE (glob/glob.go), and what *)
(* a pattern means.  Patterns and names are sequences of bytes.            *)
(***************************************************************************)
EXTENDS Integers, Sequences, SequencesExt

CONSTANT MaxStars                        \* maxStarCount

Star == 42
Question == 63
Open == 91
Close == 93
Negations == {94, 33}                    \* ^ and !
Dash == 45
Escape == 92

\* matchClass from position j on: [in, end], end at the closing bracket or past the end.
classFrom(seg, start, sc) ==
    LET n == Len(seg)
        f[j \in 1..(n + 2), in \in BOOLEAN] ==
            IF j > n THEN [in |-> in, end |-> j]
            ELSE IF seg[j] = Close THEN [in |-> in, end |-> j]
            ELSE LET l == IF seg[j] = Escape /\ j < n THEN j + 1 ELSE j
                     ranged == l + 2 <= n /\ seg[l + 1] = Dash /\ seg[l + 2] # Close
                     h == IF ranged THEN l + 2 ELSE l
                 IN  f[h + 1, in \/ (seg[l] <= sc /\ sc <= seg[h])]
    IN  f[start, FALSE]

matchClass(seg, k, sc) ==
    LET negate == k < Len(seg) /\ seg[k + 1] \in Negations
        r == classFrom(seg, IF negate THEN k + 2 ELSE k + 1, sc)
    IN  [ok |-> r.in # negate, end |-> r.end]

\* The position in str after seg has matched from position i on, 0 if it does not.
matchAt(seg, str, i) ==
    LET n == Len(seg)
        m[k \in 1..(n + 2), si \in 1..(Len(str) + 1)] ==
            IF k > n THEN si
            ELSE IF si > Len(str) THEN 0
            ELSE CASE seg[k] = Question -> m[k + 1, si + 1]
                   [] seg[k] = Open -> LET r == matchClass(seg, k, str[si])
                                       IN  IF r.ok THEN m[r.end + 1, si + 1] ELSE 0
                   [] seg[k] = Escape -> IF k < n /\ seg[k + 1] = str[si]
                                         THEN m[k + 2, si + 1] ELSE 0
                   [] OTHER -> IF seg[k] = str[si] THEN m[k + 1, si + 1] ELSE 0
    IN  m[1, i]

splitPattern(pattern) ==
    LET put(segs, ch) == IF ch = Star THEN Append(segs, <<>>)
                         ELSE [segs EXCEPT ![Len(segs)] = Append(@, ch)]
    IN  FoldLeft(put, <<<<>>>>, pattern)

\* Where a run ends that is put at its earliest match (the last run: at the end of str);
\* ends[i] is where it ends when put at i.
earliest(ends, goal) ==
    LET hits == {i \in DOMAIN ends : ends[i] # 0 /\ goal \in {0, ends[i]}}
    IN  IF hits = {} THEN 0 ELSE ends[CHOOSE i \in hits : \A j \in hits : i <= j]

\* Slip: the last run may match anywhere.
nextRunUnanchored(segs, str, i, pos) ==
    IF segs[i] = <<>> THEN pos
    ELSE earliest([j \in pos..(Len(str) + 1) |-> matchAt(segs[i], str, j)], 0)

\* The position after run i, searched from pos on.
nextRun(segs, str, i, pos) ==
    IF segs[i] = <<>> THEN pos
    ELSE earliest([j \in pos..(Len(str) + 1) |-> matchAt(segs[i], str, j)],
                  IF i = Len(segs) THEN Len(str) + 1 ELSE 0)

matchRuns(segs, str) ==
    LET step(pos, i) == IF pos = 0 THEN 0
                        ELSE IF i = 1 THEN matchAt(segs[1], str, 1)
                        ELSE nextRun(segs, str, i, pos)
        end == FoldLeft(step, 1, [i \in DOMAIN segs |-> i])
    IN  IF Len(segs) = 1 THEN end = Len(str) + 1 ELSE end # 0

\* The runs between the stars in order: the first at the start, the last at the end, the
\* others as early as they match.
match(pattern, str) ==
    LET stars == SelectSeq(pattern, LAMBDA ch : ch = Star)
    IN  Len(stars) <= MaxStars /\ matchRuns(splitPattern(pattern), str)

-----------------------------------------------------------------------------
(* What a pattern means, read character by character.                      *)

\* What a class whose text is p stands for: [set, size], the bytes named and the length of
\* the text, its closing bracket included.
Class(p) ==
    LET cls[i \in 1..(Len(p) + 1)] ==
            IF i > Len(p) THEN [set |-> {}, size |-> Len(p)]
            ELSE IF p[i] = Close THEN [set |-> {}, size |-> i]
            ELSE LET q == IF p[i] = Escape /\ i < Len(p) THEN i + 1 ELSE i
                     r == IF q + 2 <= Len(p) /\ p[q + 1] = Dash /\ p[q + 2] # Close THEN q + 2 ELSE q
                 IN  [cls[r + 1] EXCEPT !.set = @ \cup p[q]..p[r]]
    IN  cls[1]

\* Whether the rest of p from position i on means the rest of s from position j on.
Means(p, s) ==
    LET m[i \in 1..(Len(p) + 1), j \in 1..(Len(s) + 1)] ==
            IF i > Len(p) THEN j > Len(s)
            ELSE IF p[i] = Star THEN m[i + 1, j] \/ (j <= Len(s) /\ m[i, j + 1])
            ELSE /\ j <= Len(s)
                 /\ CASE p[i] = Question -> m[i + 1, j + 1]
                      [] p[i] = Escape -> i < Len(p) /\ p[i + 1] = s[j] /\ m[i + 2, j + 1]
                      [] p[i] = Open ->
                            LET not == i < Len(p) /\ p[i + 1] \in Negations
                                from == IF not THEN i + 2 ELSE i + 1
                                c == Class(SubSeq(p, from, Len(p)))
                            IN  (s[j] \in c.set) # not /\ m[from + c.size, j + 1]
                      [] OTHER -> p[i] = s[j] /\ m[i + 1, j + 1]
    IN  m[1, 1]

=============================================================================
