----------------------------- MODULE MCSessions -----------------------------
(* A client that runs transactions on one key, and one that writes the key. *)
EXTENDS Sessions, TLC

CONSTANTS a, b, key1

MCClients == {a, b}

MCKeys == {key1}

Of(name, arg) == [name |-> name, key |-> key1, arg |-> arg]

MCCommands ==
    a :> {Of("WATCH", 0), Of("MULTI", 0), Of("SET", 3), Of("INCR", 1), Of("UNWATCH", 0), Of("EXEC", 0), Of("DISCARD", 0),
          Of("UNKNOWN", 0), Of("ARITY", 0)}
    @@ b :> {Of("SET", Text), Of("SET", 6), Of("INCR", 1), Of("DEL", 0), Of("EXPIRE", 0), Of("EXPIRE", 1), Of("GET", 0)}

MCBudget == a :> 3 @@ b :> 1

=============================================================================
