----------------------------- MODULE MCStreams ------------------------------
(* A producer and two consumers, x and y, of one group. *)
EXTENDS Streams, TLC

CONSTANTS p, r1, r2, x, y

MCTimes == {1}

MCClients == {p, r1, r2}

Blank == [op |-> "XADD", auto |-> "no", id |-> <<0, 0>>, trim |-> "no", n |-> 0, minid |-> <<0, 0>>,
          nomkstream |-> FALSE, ids |-> {}, list |-> <<>>, dollar |-> FALSE, mkstream |-> FALSE,
          block |-> "no", consumer |-> None, history |-> FALSE]

Of(op) == [Blank EXCEPT !.op = op]

MCCommands ==
    p :> {[Of("XADD") EXCEPT !.auto = "*"],
          [Of("XADD") EXCEPT !.auto = "ms-*", !.id = <<2, 0>>, !.trim = "MAXLEN", !.n = 1],
          [Of("XADD") EXCEPT !.id = <<1, 1>>, !.nomkstream = TRUE],
          [Of("XTRIM") EXCEPT !.trim = "MINID", !.minid = <<1, 0>>], [Of("XDEL") EXCEPT !.ids = {<<1, 0>>}],
          [Of("XACK") EXCEPT !.list = <<<<1, 0>>>>],
          [Of("XCLAIM") EXCEPT !.consumer = y, !.list = <<<<1, 0>>>>],
          [Of("CREATE") EXCEPT !.mkstream = TRUE, !.dollar = TRUE],
          Of("SETID"), Of("DESTROY"), [Of("DELCONSUMER") EXCEPT !.consumer = x]}
    @@ r1 :> {[Of("XREADGROUP") EXCEPT !.consumer = x, !.n = 2, !.block = "ms"],
              [Of("XREADGROUP") EXCEPT !.consumer = x, !.history = TRUE],
              [Of("XREAD") EXCEPT !.dollar = TRUE, !.block = "forever"]}
    @@ r2 :> {[Of("XREADGROUP") EXCEPT !.consumer = y, !.n = 1]}

=============================================================================
