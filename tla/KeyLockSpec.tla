---------------------------- MODULE KeyLockSpec ----------------------------
(***************************************************************************)
(* What keyLockTable.lockAll promises a command (store.go:98-164): between *)
(* the return of lockAll and the call of the closure it returns, no other  *)
(* command runs with a claim that conflicts with this one.  Two claims     *)
(* conflict when they share a key and at least one of them is exclusive.   *)
(*                                                                         *)
(* KeyLocks is shown to implement this module; DataPath relies on it.      *)
(***************************************************************************)
CONSTANTS Clients,      \* the goroutines that run commands, one per connection
          Keys

VARIABLE claim          \* claim[c]: what c holds, NoClaim when it holds nothing

Claims == [keys : SUBSET Keys, write : BOOLEAN]

NoClaim == [keys |-> {}, write |-> FALSE]

Compatible(a, b) == a.keys \cap b.keys = {} \/ (~a.write /\ ~b.write)

\* c may be granted q, given what the others hold.
MayEnter(c, q, held) == \A d \in Clients \ {c} : Compatible(q, held[d])

Init == claim = [c \in Clients |-> NoClaim]

Enter(c, q) == /\ claim[c] = NoClaim
               /\ MayEnter(c, q, claim)
               /\ claim' = [claim EXCEPT ![c] = q]

Leave(c) == /\ claim[c] # NoClaim
            /\ claim' = [claim EXCEPT ![c] = NoClaim]

Next == \E c \in Clients : Leave(c) \/ \E q \in Claims \ {NoClaim} : Enter(c, q)

Spec == Init /\ [][Next]_claim

=============================================================================
