----------------------------- MODULE CommandKeys ----------------------------
(***************************************************************************)
(* Which keys handle() locks for a command (keys.go).  args are the words  *)
(* after the command name; a word that is a number is an Int, any other    *)
(* word is not.  The variants of a command that keys.go treats alike have  *)
(* one name here, as in Keyspace.                                          *)
(***************************************************************************)
EXTENDS Integers, Sequences

\* "A malformed count yields nil so the caller simply takes no lock".
keysWithNumkeys(args, numIdx) ==
    IF numIdx >= Len(args) \/ ~(args[numIdx + 1] \in Nat) THEN <<>>
    ELSE LET end == numIdx + 1 + args[numIdx + 1]
         IN  SubSeq(args, numIdx + 2, IF end > Len(args) THEN Len(args) ELSE end)

sortKeys(args) ==
    LET at == {i \in 2..(Len(args) - 1) : args[i] = "STORE"}
    IN  IF at = {} THEN <<args[1]>>
        ELSE <<args[1], args[(CHOOSE i \in at : \A j \in at : i <= j) + 1]>>

\* Slip: the commands with two keys fall through to the default.
commandKeysFirst(op, args) ==
    CASE op \in {"DEL", "EXISTS", "MGET", "SOP", "SINTERCARD"} -> args
      [] op \in {"MSET", "MSETNX"} -> [i \in 1..(Len(args) \div 2) |-> args[2 * i - 1]]
      [] op \in {"SSTORE", "ZSTORE"} -> keysWithNumkeys(args, 1)
      [] op \in {"ZMPOP", "ZOP"} -> keysWithNumkeys(args, 0)
      [] op = "BITOP" -> Tail(args)
      [] op = "SORT" -> sortKeys(args)
      [] op \in {"FLUSHDB", "KEYS"} -> <<>>
      [] OTHER -> <<args[1]>>

commandKeys(op, args) ==
    CASE op \in {"DEL", "EXISTS", "MGET", "SOP", "SINTERCARD"} -> args
      [] op \in {"MSET", "MSETNX"} -> [i \in 1..(Len(args) \div 2) |-> args[2 * i - 1]]
      [] op \in {"RENAME", "RENAMENX", "COPY", "SMOVE", "RPOPLPUSH", "LMOVE", "ZRANGESTORE"} ->
             SubSeq(args, 1, 2)
      [] op \in {"SSTORE", "ZSTORE"} -> keysWithNumkeys(args, 1)
      [] op \in {"ZMPOP", "ZOP"} -> keysWithNumkeys(args, 0)
      [] op = "BITOP" -> Tail(args)
      [] op = "SORT" -> sortKeys(args)
      [] op \in {"FLUSHDB", "KEYS"} -> <<>>
      [] OTHER -> <<args[1]>>

=============================================================================
