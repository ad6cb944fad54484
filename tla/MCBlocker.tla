----------------------------- MODULE MCBlocker ------------------------------
(* Instances of Blocker. *)
EXTENDS Blocker

CONSTANTS c1, c2, c3, k1, k2

BLPop(ks, t0) == [keys |-> ks, left |-> TRUE, timed |-> t0, dst |-> None]

BRPopLPush(s, d, t0) == [keys |-> <<s>>, left |-> FALSE, timed |-> t0, dst |-> d]

\* c1 moves from k1 to k2, c2 waits on both, c3 only pushes: c1 and c2 may pop the same list and write
\* back each other's elements.
SharedLists == [c \in Clients |-> CASE c = c1 -> {BRPopLPush(k1, k2, TRUE)}
                                    [] c = c2 -> {BLPop(<<k2, k1>>, FALSE)}
                                    [] OTHER  -> {}]

\* c1 waits, the others push.
OneWaiter == [c \in Clients |-> IF c = c1 THEN {BLPop(<<k1>>, FALSE)} ELSE {}]

=============================================================================
