---------------------------- MODULE MCKeyLocks ----------------------------
(* An instance of KeyLocks: three keys of which two collide on a shard.     *)
EXTENDS KeyLocks

CONSTANTS k1, k2, k3

ThreeKeys == {k1, k2, k3}
AllKeySets == (SUBSET Keys) \ {{}}
TwoShards == {0, 1}
Hash == [k \in Keys |-> IF k = k3 THEN 0 ELSE 1]
===========================================================================
