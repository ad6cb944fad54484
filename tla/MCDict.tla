------------------------------- MODULE MCDict -------------------------------
(* Two threads and the evictor over four keys in three shards. *)
EXTENDS Dict, TLC

CONSTANTS t1, t2, ev, k1, k2, k3, k4

MCThreads == {t1, t2, ev}

MCKeys == {k1, k2, k3, k4}

MCShardFor == k1 :> 1 @@ k2 :> 1 @@ k3 :> 2 @@ k4 :> 3

Of(op, key, size, exp) == [op |-> op, key |-> key, size |-> size, exp |-> exp]

MCOperations ==
    t1 :> {Of("Set", k1, 1, 0), Of("Set", k1, 2, 1), Of("Set", k3, 1, 0), Of("Delete", k2, 0, 0), Of("Lookup", k1, 0, 0)}
    @@ t2 :> {Of("SetCounter", k2, 1, 0), Of("Set", k4, 1, 1), Of("SetExpiry", k1, 0, 1), Of("Flush", None, 0, 0)}
    @@ ev :> {Of("MaybeEvict", None, 0, 0)}

MCMaxOps == t1 :> 3 @@ t2 :> 2 @@ ev :> 0

=============================================================================
