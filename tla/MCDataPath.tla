---------------------------- MODULE MCDataPath -----------------------------
(* Instances of DataPath for TLC. *)
EXTENDS DataPath, TLC

CONSTANTS c1, c2,       \* connections
          k1, k2,       \* keys
          a, b          \* fragments: {a} is small enough to be inlined, {a, b} is not

NoOpts == [op |-> "GET", key |-> k1, dst |-> k1, val |-> {}, at |-> 0, opts |-> {}]

Cmd(op, k) == [NoOpts EXCEPT !.op = op, !.key = k, !.dst = k]

Set(k, v, at, opts) == [Cmd("SET", k) EXCEPT !.val = v, !.at = at, !.opts = opts]

Expire(k, at, opts) == [Cmd("EXPIRE", k) EXCEPT !.at = at, !.opts = opts]

Append(k, v) == [Cmd("APPEND", k) EXCEPT !.val = v]

Rename(k, l) == [Cmd("RENAME", k) EXCEPT !.dst = l]

RenameNX(k, l) == [Rename(k, l) EXCEPT !.opts = {"NX"}]

\* No instance tells its locked clients apart.
ClientSymmetry == Permutations({c1, c2})

OneKey == {k1}

TwoKeys == {k1, k2}

TwoFrags == {a, b}

Small == {{a}}

\* Records of an opened store: without TTL, and with the deadlines that fall
\* inside the bound on time.
Records == {[val |-> {a}, exp |-> 0], [val |-> {a, b}, exp |-> 2]}

\* One key: every branch of the handlers that keep or change a TTL.
OneKeyCommands ==
  {Cmd("GET", k1), Cmd("DEL", k1), Cmd("PERSIST", k1), Append(k1, {b}),
   Set(k1, {b}, 0, {}), Set(k1, {a}, 2, {"NX"}), Set(k1, {a, b}, 0, {"XX", "KEEPTTL"}),
   Set(k1, {a}, 1, {}),
   Expire(k1, 1, {}), Expire(k1, 0, {"LT"}), Expire(k1, 3, {}), Expire(k1, 2, {"NX"}), Expire(k1, 3, {"XX", "GT"}), Expire(k1, 2, {"LT"})}

\* Two keys: RENAME both ways and onto itself, against readers and writers.
RenameCommands ==
  {Cmd("GET", k1), Cmd("GET", k2), Set(k2, {b}, 2, {}),
   Rename(k1, k2), Rename(k2, k1), Rename(k1, k1), RenameNX(k1, k2)}

\* Commands that create no record and change no TTL; k1 is only ever read.
ReadAndDelete == {Cmd("GET", k1), Cmd("SCAN", k1), Cmd("GET", k2), Cmd("DEL", k2)}

\* A TTL on the record that the dict keeps inline.
DatedRecords == {[val |-> {a, b}, exp |-> 0], [val |-> {a}, exp |-> 2]}

=============================================================================
