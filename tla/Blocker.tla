------------------------------ MODULE Blocker ------------------------------
(***************************************************************************)
(* Blocking list commands (blocking.go): the version counter that a push   *)
(* bumps, the channels blocked commands sleep on, and the BLPOP and        *)
(* BRPOPLPUSH loops around them, against pushes that hold their key lock.  *)
(*                                                                         *)
(* A list operation is its read (loadAgg) and its write (saveAgg or        *)
(* deleteKeyLocked), as two steps: dispatch exempts blocking commands from *)
(* the key lock, so another command may run in between.                    *)
(***************************************************************************)
EXTENDS Integers, Sequences

CONSTANTS Clients, Keys,
          Pops,         \* Pops[c]: the blocking commands client c calls
          Pushers,      \* the clients that call RPUSH
          PushKeys,     \* keys they call it on
          MaxPushes,    \* bound on the elements ever pushed
          None

\* keys in the order given, the end popped from, whether there is a timeout, and
\* the list BRPOPLPUSH moves the element to.
ASSUME PopsAssumption ==
  \A c \in Clients : \A q \in Pops[c] :
    /\ DOMAIN q = {"keys", "left", "timed", "dst"}
    /\ q.keys \in Seq(Keys) /\ q.keys # <<>>
    /\ {q.left, q.timed} \subseteq BOOLEAN
    /\ q.dst = None \/ q.dst \in Keys
ASSUME PushAssumption == Pushers \subseteq Clients /\ PushKeys \subseteq Keys /\ MaxPushes \in Nat

VARIABLES list,       \* list[k]: the elements under k, numbered as pushed
          seq,        \* blocker.seq
          chans,      \* blocker.chans: the clients whose channel is registered
          token,      \* token[c]: c's channel holds a wake-up
          t,          \* t[c]: the goroutine of client c
          pushed,     \* elements pushed so far
          taken,      \* taken[e]: how many clients were handed element e
          refilled    \* history: lists that hold what a pop wrote back after another client had
                      \* emptied them, with no push since

vars == <<list, seq, chans, token, t, pushed, taken, refilled>>

\* pop is the blocking command being run, key the list the client works on,
\* elem what it pushes, snap the list loadAgg read, v the version it sleeps on,
\* chs the channels notify has still to signal.
Thread(pc, pop, key, elem) == [pc |-> pc, pop |-> pop, i |-> 0, v |-> 0, key |-> key, elem |-> elem,
                               snap |-> <<>>, chs |-> {}]

IdleThread == Thread("idle", None, None, 0)

Init == /\ list = [k \in Keys |-> <<>>]
        /\ seq = 0
        /\ chans = {}
        /\ token = [c \in Clients |-> FALSE]
        /\ t = [c \in Clients |-> IdleThread]
        /\ pushed = 0
        /\ taken = [e \in 1..MaxPushes |-> 0]
        /\ refilled = {}

-----------------------------------------------------------------------------
(* RPUSH: listPush, under the exclusive lock of its key *)

RPush(c, k) ==
  /\ c \in Pushers
  /\ t[c].pc = "idle"
  /\ pushed < MaxPushes
  /\ ~\E d \in Clients : t[d].pc # "idle" /\ t[d].pop = None /\ t[d].key = k
  /\ pushed' = pushed + 1
  /\ t' = [t EXCEPT ![c] = Thread("pushload", None, k, pushed + 1)]
  /\ UNCHANGED <<list, seq, chans, token, taken, refilled>>

PushLoad(c) ==
  /\ t[c].pc = "pushload"
  /\ t' = [t EXCEPT ![c].pc = "pushsave", ![c].snap = list[t[c].key]]
  /\ UNCHANGED <<list, seq, chans, token, pushed, taken, refilled>>

\* RPUSH appends, BRPOPLPUSH prepends.
PushSave(c) ==
  /\ t[c].pc = "pushsave"
  /\ list' = [list EXCEPT ![t[c].key] = IF t[c].pop = None THEN Append(t[c].snap, t[c].elem)
                                        ELSE <<t[c].elem>> \o t[c].snap]
  /\ t' = [t EXCEPT ![c].pc = "notify", ![c].snap = <<>>]
  /\ refilled' = refilled \ {t[c].key}
  /\ UNCHANGED <<seq, chans, token, pushed, taken>>

\* Slip: notify forgets the version.
NotifyUnversioned(c) ==
  /\ t[c].pc = "notify"
  /\ chans' = {}
  /\ t' = [t EXCEPT ![c].pc = "signal", ![c].chs = chans]
  /\ UNCHANGED <<list, seq, token, pushed, taken, refilled>>

\* notify under b.mu: bump the version, take the registered channels.
Notify(c) ==
  /\ t[c].pc = "notify"
  /\ seq' = seq + 1
  /\ chans' = {}
  /\ t' = [t EXCEPT ![c].pc = "signal", ![c].chs = chans]
  /\ UNCHANGED <<list, token, pushed, taken, refilled>>

\* The loop after the unlock: a buffered send that never blocks.
Signal(c) ==
  /\ t[c].pc = "signal"
  /\ \/ \E d \in t[c].chs : /\ token' = [token EXCEPT ![d] = TRUE]
                            /\ t' = [t EXCEPT ![c].chs = @ \ {d}]
     \/ /\ t[c].chs = {}
        /\ t' = [t EXCEPT ![c] = IdleThread]
        /\ UNCHANGED token
  /\ UNCHANGED <<list, seq, chans, pushed, taken, refilled>>

-----------------------------------------------------------------------------
(* BLPOP and BRPOPLPUSH: blockedPop, cmdBRPopLPush *)

BPop(c, q) ==
  /\ t[c].pc = "idle"
  /\ t' = [t EXCEPT ![c] = Thread("version", q, None, 0)]
  /\ UNCHANGED <<list, seq, chans, token, pushed, taken, refilled>>

\* blockVersion, before the lists are looked at.
Version(c) ==
  /\ t[c].pc = "version"
  /\ t' = [t EXCEPT ![c].pc = "load", ![c].v = seq, ![c].i = 1]
  /\ UNCHANGED <<list, seq, chans, token, pushed, taken, refilled>>

\* listPop's read of the i-th key; an empty list passes on to the next key.
PopLoad(c) ==
  LET x == t[c]
      k == x.pop.keys[x.i] IN
  /\ x.pc = "load"
  /\ t' = [t EXCEPT ![c] =
             IF list[k] # <<>> THEN [x EXCEPT !.pc = "save", !.key = k, !.snap = list[k]]
             ELSE IF x.i < Len(x.pop.keys) THEN [x EXCEPT !.i = @ + 1]
             ELSE [x EXCEPT !.pc = "empty", !.i = 0]]
  /\ UNCHANGED <<list, seq, chans, token, pushed, taken, refilled>>

\* listPop's write; BRPOPLPUSH goes on to push what it took.
PopSave(c) ==
  LET x == t[c]
      e == IF x.pop.left THEN Head(x.snap) ELSE x.snap[Len(x.snap)]
      rest == IF x.pop.left THEN Tail(x.snap) ELSE SubSeq(x.snap, 1, Len(x.snap) - 1) IN
  /\ x.pc = "save"
  /\ list' = [list EXCEPT ![x.key] = rest]
  /\ refilled' = IF rest = <<>> THEN refilled \ {x.key}
                 ELSE IF list[x.key] = <<>> THEN refilled \cup {x.key} ELSE refilled
  /\ IF x.pop.dst = None
     THEN /\ taken' = [taken EXCEPT ![e] = @ + 1]
          /\ t' = [t EXCEPT ![c] = IdleThread]
     ELSE /\ t' = [t EXCEPT ![c] = Thread("pushload", x.pop, x.pop.dst, e)]
          /\ UNCHANGED taken
  /\ UNCHANGED <<seq, chans, token, pushed>>

\* All lists empty: past the deadline the reply is null, else sleepSince.
GiveUp(c) ==
  /\ t[c].pc = "empty"
  /\ t[c].pop.timed
  /\ t' = [t EXCEPT ![c] = IdleThread]
  /\ UNCHANGED <<list, seq, chans, token, pushed, taken, refilled>>

\* Slip: sleepSince registers without comparing versions.
SleepBlindly(c) ==
  /\ t[c].pc = "empty"
  /\ chans' = chans \cup {c}
  /\ token' = [token EXCEPT ![c] = FALSE]
  /\ t' = [d \in Clients |-> IF d = c THEN [t[c] EXCEPT !.pc = "parked", !.v = 0]
                             ELSE [t[d] EXCEPT !.chs = @ \ {c}]]
  /\ UNCHANGED <<list, seq, pushed, taken, refilled>>

\* sleepSince under b.mu.  The channel is a new one: a notify that still holds
\* an old one of c signals nobody.
SleepSince(c) ==
  /\ t[c].pc = "empty"
  /\ \/ /\ seq # t[c].v
        /\ t' = [t EXCEPT ![c].pc = "version", ![c].v = 0]
        /\ UNCHANGED <<chans, token>>
     \/ /\ seq = t[c].v
        /\ chans' = chans \cup {c}
        /\ token' = [token EXCEPT ![c] = FALSE]
        /\ t' = [d \in Clients |-> IF d = c THEN [t[c] EXCEPT !.pc = "parked", !.v = 0]
                                   ELSE [t[d] EXCEPT !.chs = @ \ {c}]]
  /\ UNCHANGED <<list, seq, pushed, taken, refilled>>

Woken(c) ==
  /\ t[c].pc = "parked"
  /\ token[c]
  /\ token' = [token EXCEPT ![c] = FALSE]
  /\ t' = [t EXCEPT ![c].pc = "version"]
  /\ UNCHANGED <<list, seq, chans, pushed, taken, refilled>>

\* time.After wins the select, also over a wake-up that is there already.
Timeout(c) ==
  /\ t[c].pc = "parked"
  /\ t[c].pop.timed
  /\ t' = [t EXCEPT ![c].pc = "timedout"]
  /\ UNCHANGED <<list, seq, chans, token, pushed, taken, refilled>>

\* Slip: the channel of a timed-out client stays registered.
UnregisterNot(c) ==
  /\ t[c].pc = "timedout"
  /\ token' = [token EXCEPT ![c] = FALSE]
  /\ t' = [t EXCEPT ![c] = IdleThread]
  /\ UNCHANGED <<list, seq, chans, pushed, taken, refilled>>

Unregister(c) ==
  /\ t[c].pc = "timedout"
  /\ chans' = chans \ {c}
  /\ token' = [token EXCEPT ![c] = FALSE]
  /\ t' = [t EXCEPT ![c] = IdleThread]
  /\ UNCHANGED <<list, seq, pushed, taken, refilled>>

Push(c) == PushLoad(c) \/ PushSave(c) \/ Notify(c) \/ Signal(c)

Pop(c) == Version(c) \/ PopLoad(c) \/ PopSave(c) \/ SleepSince(c) \/ Woken(c) \/ Unregister(c)

Next == \E c \in Clients :
          \/ Push(c) \/ Pop(c) \/ GiveUp(c) \/ Timeout(c)
          \/ \E k \in PushKeys : RPush(c, k)
          \/ \E q \in Pops[c] : BPop(c, q)

Spec == Init /\ [][Next]_vars

\* Goroutines run on; nothing makes a client call, or a timeout win.
Fairness == \A c \in Clients : WF_vars(Push(c)) /\ WF_vars(Pop(c))

FairSpec == Spec /\ Fairness

-----------------------------------------------------------------------------
(* Properties *)

PCs == {"idle", "pushload", "pushsave", "notify", "signal", "version", "load", "save", "empty",
        "parked", "timedout"}

\* The goroutine of client c: a blocking command is one of c's, at a key it has; listPop only takes from
\* a list it read as non-empty.
ThreadOK(c, x) ==
  /\ DOMAIN x = DOMAIN IdleThread
  /\ x.pc \in PCs
  /\ x.v \in Nat /\ x.i \in Nat
  /\ x.chs \subseteq Clients /\ (x.pc # "signal" => x.chs = {})
  /\ x.snap \in Seq(1..MaxPushes)
  /\ x.pc \in {"pushload", "pushsave", "notify"} => x.key \in Keys /\ x.elem \in 1..MaxPushes
  /\ x.pc \in {"version", "load", "save", "empty", "parked", "timedout"} => x.pop \in Pops[c]
  /\ x.pc = "load" => x.i \in 1..Len(x.pop.keys)
  /\ x.pc = "save" => x.snap # <<>> /\ \E i \in 1..Len(x.pop.keys) : x.key = x.pop.keys[i]

TypeOK == /\ list \in [Keys -> Seq(1..MaxPushes)]
          /\ seq \in Nat
          /\ chans \subseteq Clients
          /\ token \in [Clients -> BOOLEAN]
          /\ DOMAIN t = Clients /\ \A c \in Clients : ThreadOK(c, t[c])
          /\ pushed \in 0..MaxPushes
          /\ taken \in [1..MaxPushes -> Nat]
          /\ refilled \subseteq Keys

\* Elements that a push put under k, and not a pop that writes back what others have taken.
Pushed(k) == list[k] # <<>> /\ k \notin refilled

\* c is parked although one of its lists has a pushed element.
Ready(c) == t[c].pc = "parked" /\ \E i \in 1..Len(t[c].pop.keys) : Pushed(t[c].pop.keys[i])

\* A wake-up for c exists or is on its way.
WakeUpDue(c) == \/ token[c]
                \/ \E d \in Clients : c \in t[d].chs
                \/ c \in chans /\ \E d \in Clients : t[d].pc = "notify"

\* No client is parked on a list that has a pushed element unless a wake-up for it
\* is due: version, sleepSince and notify miss no push wherever the check and the
\* sleep fall (blocking.go:19-21). What a pop writes back into a list that another
\* client has emptied meanwhile (cmd_list.go, the pops of a blocking command hold no
\* lock) is announced to nobody, and is not counted as pushed.
NoLostWakeUp == \A c \in Clients : Ready(c) => WakeUpDue(c)

\* A channel is registered only while its client waits on it, so the count
\* blockedLen reports is right and notify signals no one who has gone (blocking.go:68-75).
NoLeakedChannel == \A c \in chans : t[c].pc \in {"parked", "timedout"}

\* A list that c has found empty since it took the version has an element.
Filled(c) == /\ t[c].pc \in {"load", "empty", "parked"}
             /\ \E i \in 1..Len(t[c].pop.keys) :
                  (t[c].pc = "load" => i < t[c].i) /\ Pushed(t[c].pop.keys[i])

NotifyDue == \E d \in Clients : t[d].pc = "notify"

\* Whose channel is registered has no wake-up yet, nor one on its way.
ChannelOK(c) ==
  /\ c \in chans => /\ t[c].pc \in {"parked", "timedout"}
                    /\ ~token[c]
                    /\ \A d \in Clients : c \notin t[d].chs
  /\ t[c].pc = "parked" => c \in chans \/ token[c] \/ \E d \in Clients : c \in t[d].chs

\* A push to a list c has found empty is still to be notified, or the version tells.
WakeOK(c) ==
  /\ t[c].pc \in {"load", "empty"} => t[c].v <= seq
  /\ Filled(c) /\ t[c].pc \in {"load", "empty"} /\ t[c].v = seq => NotifyDue
  /\ Filled(c) /\ t[c].pc = "parked" /\ c \in chans => NotifyDue

Inv == TypeOK /\ \A c \in Clients : ChannelOK(c) /\ WakeOK(c)

\* No two clients block on the same list.
ListsApart ==
  \A c, d \in Clients : c # d =>
    \A p \in Pops[c], q \in Pops[d] : \A i \in 1..Len(p.keys), j \in 1..Len(q.keys) : p.keys[i] # q.keys[j]

\* What a client is about to take is still there.
SaveOK(c) == t[c].pc = "save" => list[t[c].key] # <<>>

\* A client parked on a list that has a pushed element does not stay parked while its
\* lists keep elements.
SleepersWake == \A c \in Clients : Ready(c) ~> ~Ready(c)

\* Once every command has returned or sleeps, each pushed element has been handed
\* out or is still in a list.
NoElementLost ==
  (\A c \in Clients : t[c].pc \in {"idle", "parked"})
    => \A e \in 1..pushed :
         taken[e] > 0 \/ \E k \in Keys : \E i \in 1..Len(list[k]) : list[k][i] = e

=============================================================================
