------------------------------- MODULE MCScan -------------------------------
(***************************************************************************)
(* A small instance of Scan: three keys, a table of four cursors, one      *)
(* client that iterates once while another iterates often enough to push   *)
(* its cursor out of the table.                                            *)
(***************************************************************************)
EXTENDS Scan

CONSTANTS c1, c2

MCClients == {c1, c2}
MCKeys == 1..3
A == 97
B == 98
MCNames == <<<<A>>, <<A, B>>, <<B, A>>>>
MCTypes == {"string", "list"}
Everything == [pattern |-> <<Star>>, type |-> AnyType, count |-> 1]
MCFilters == c1 :> {Everything,
                   [pattern |-> <<Star, A, Star>>, type |-> "string", count |-> 1]}
             @@ c2 :> {Everything}
MCDisks == {<<"string", "list", "string">>}
MCIterations == c1 :> 1 @@ c2 :> 2

\* A star that is escaped or stands in a class ends a run all the same (splitPattern).
Splits(pat) == \E i \in DOMAIN pat : pat[i] = Star /\ \E j \in 1..(i - 1) : pat[j] \in {Open, Escape}

Bytes == {A, B, Star, Question, Open, Close, 94, Dash, Escape}
Longer == {<<Open, A, Dash, B, Close>>, <<Open, 94, A, B, Close>>, <<Open, B, Dash, A, Close>>,
           <<Star, A, Star, B, Star>>, <<A, Star, B, Star, A>>, <<Open, A, Escape, Close, Close>>,
           <<Star, Open, 94, B, Close, A>>, <<Star, Star, Star, Star, A>>}
MCPatterns == {pat \in BoundedSeq(Bytes, 3) \cup Longer : ~Splits(pat)}
MCWords == BoundedSeq({A, B}, 3) \cup BoundedSeq({A, Close, Dash}, 2) \cup {<<A, B, A, A>>, <<B, A, A, B>>}

=============================================================================
