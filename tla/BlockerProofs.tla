--------------------------- MODULE BlockerProofs ----------------------------
(***************************************************************************)
(* Proofs about Blocker, for any clients, keys, blocking commands and      *)
(* number of pushes: channels are registered exactly while somebody waits  *)
(* on them, and a push wakes whoever waits on its list.                    *)
(***************************************************************************)
EXTENDS Blocker, SequenceTheorems, TLAPS

\* Most leaves are first-order: Zenon proves them.  The others name SMT.
USE ZenonT(30)

\* A step of client c that moves its goroutine on to x.
LEMMA Moves ==
  ASSUME TypeOK, NEW c \in Clients, NEW x, ThreadOK(c, x), t' = [t EXCEPT ![c] = x]
  PROVE  /\ DOMAIN t' = Clients /\ \A d \in Clients : ThreadOK(d, t'[d])
         /\ t'[c] = x /\ \A d \in Clients \ {c} : t'[d] = t[d]
  BY DEF TypeOK

LEMMA Fields ==
  ASSUME TypeOK, NEW c \in Clients
  PROVE  DOMAIN t[c] = {"pc", "pop", "i", "v", "key", "elem", "snap", "chs"} /\ DOMAIN t[c] = DOMAIN IdleThread
  BY DEF TypeOK, ThreadOK, IdleThread, Thread

\* A goroutine that goes on with its blocking command.
LEMMA StillPops ==
  ASSUME TypeOK, NEW c \in Clients, t[c].pop \in Pops[c], t[c].pc # "signal",
         NEW x, DOMAIN x = DOMAIN IdleThread, x.pop = t[c].pop, x.chs = t[c].chs, x.snap = t[c].snap,
         x.pc \in {"version", "load", "empty", "parked", "timedout"}, x.v \in Nat, x.i \in Nat,
         x.pc = "load" => x.i \in 1..Len(t[c].pop.keys)
  PROVE  ThreadOK(c, x)
<1>1. t[c].chs = {} /\ t[c].snap \in Seq(1..MaxPushes)
  BY DEF TypeOK, ThreadOK
<1> QED
  BY <1>1 DEF ThreadOK, PCs

LEMMA IdleOK ==
  ASSUME NEW c \in Clients
  PROVE  ThreadOK(c, IdleThread) /\ IdleThread.pc = "idle" /\ IdleThread.chs = {}
  BY SMTT(30) DEF ThreadOK, IdleThread, Thread, PCs

\* A blocking command has a first key, and its keys are keys.
LEMMA PopKeys ==
  ASSUME NEW c \in Clients, NEW q \in Pops[c]
  PROVE  /\ q.keys \in Seq(Keys) /\ Len(q.keys) \in Nat \ {0}
         /\ \A i \in 1..Len(q.keys) : q.keys[i] \in Keys
         /\ q.dst = None \/ q.dst \in Keys
  BY PopsAssumption, SMTT(30)

\* What is left of a non-empty list when listPop takes an end of it.
LEMMA ListEnds ==
  ASSUME NEW s \in Seq(1..MaxPushes), s # <<>>
  PROVE  /\ Head(s) \in 1..MaxPushes /\ s[Len(s)] \in 1..MaxPushes
         /\ Tail(s) \in Seq(1..MaxPushes) /\ SubSeq(s, 1, Len(s) - 1) \in Seq(1..MaxPushes)
<1>1. Len(s) \in Nat \ {0}
  BY EmptySeq
<1>2. \A i \in 1..Len(s) : s[i] \in 1..MaxPushes
  BY ElementOfSeq
<1>3. Head(s) \in 1..MaxPushes /\ Tail(s) \in Seq(1..MaxPushes)
  BY HeadTailProperties
<1>4. s[Len(s)] \in 1..MaxPushes
  BY <1>1, <1>2, SMTT(30)
<1>5. SubSeq(s, 1, Len(s) - 1) \in Seq(1..MaxPushes)
  <2>1. \A i \in 1..(Len(s) - 1) : s[i] \in 1..MaxPushes
    BY <1>1, <1>2, SMTT(30)
  <2> QED
    BY <1>1, <2>1, SubSeqProperties, SMTT(30)
<1> QED
  BY <1>3, <1>4, <1>5

LEMMA InitInv == Init => Inv
<1> SUFFICES ASSUME Init PROVE Inv
  OBVIOUS
<1>1. \A c \in Clients : t[c] = IdleThread
  BY DEF Init
<1>2. TypeOK
  BY <1>1, IdleOK, PushAssumption, SMTT(30) DEF Init, TypeOK
<1>3. \A c \in Clients : ChannelOK(c)
  BY <1>1, IdleOK DEF Init, ChannelOK
<1>4. \A c \in Clients : WakeOK(c)
  BY <1>1, IdleOK DEF WakeOK, Filled
<1> QED
  BY <1>2, <1>3, <1>4 DEF Inv

-----------------------------------------------------------------------------
(* What a step may not touch.                                              *)

\* Nobody comes to wait or leaves, and no channel changes hands.
LEMMA ChannelsKept ==
  ASSUME \A d \in Clients : ChannelOK(d), chans' = chans, token' = token,
         \A d \in Clients : t'[d].chs = t[d].chs,
         \A d \in Clients : \/ t'[d].pc = t[d].pc
                            \/ t[d].pc \notin {"parked", "timedout"} /\ t'[d].pc \notin {"parked", "timedout"}
  PROVE  \A d \in Clients : ChannelOK(d)'
<1> SUFFICES ASSUME NEW d \in Clients PROVE ChannelOK(d)'
  OBVIOUS
<1>1. d \in chans => t[d].pc \in {"parked", "timedout"} /\ ~token[d] /\ \A b \in Clients : d \notin t[b].chs
  BY DEF ChannelOK
<1>2. t[d].pc = "parked" => d \in chans \/ token[d] \/ \E b \in Clients : d \in t[b].chs
  BY DEF ChannelOK
<1> QED
  BY <1>1, <1>2 DEF ChannelOK

LEMMA SameLists ==
  ASSUME list' = list, refilled' = refilled
  PROVE  \A k \in Keys : Pushed(k)' => Pushed(k)
  BY DEF Pushed

\* No list is filled, no version moves, and whoever looks at lists or waits is where it was.
LEMMA WakeKept ==
  ASSUME TypeOK, seq' = seq, NotifyDue => NotifyDue',
         \A k \in Keys : Pushed(k)' => Pushed(k) \/ NotifyDue',
         NEW d \in Clients, WakeOK(d), d \in chans' => d \in chans,
         \/ t'[d].pc \notin {"load", "empty", "parked"}
         \/ t'[d].pc = t[d].pc /\ t'[d].v = t[d].v /\ t'[d].i = t[d].i /\ t'[d].pop = t[d].pop
  PROVE  WakeOK(d)'
<1> SUFFICES ASSUME t'[d].pc \in {"load", "empty", "parked"} PROVE WakeOK(d)'
  BY DEF WakeOK, Filled
<1>1. t'[d].pc = t[d].pc /\ t'[d].v = t[d].v /\ t'[d].i = t[d].i /\ t'[d].pop = t[d].pop
  OBVIOUS
<1>2. t[d].pop \in Pops[d]
  BY <1>1 DEF TypeOK, ThreadOK
<1>3. \A i \in 1..Len(t[d].pop.keys) : t[d].pop.keys[i] \in Keys
  BY <1>2, PopKeys
<1>4. Filled(d)' => Filled(d) \/ NotifyDue'
  BY <1>1, <1>3 DEF Filled
<1> QED
  BY <1>1, <1>4 DEF WakeOK

-----------------------------------------------------------------------------
(* Steps of a client that is not waiting and does not come to wait.        *)

LEMMA QuietStep ==
  ASSUME Inv, NEW c \in Clients, NEW x, ThreadOK(c, x), t' = [t EXCEPT ![c] = x],
         t[c].pc \notin {"parked", "timedout", "notify", "signal"},
         x.pc \notin {"load", "empty", "parked", "timedout", "signal"},
         list' = list, seq' = seq, chans' = chans, token' = token,
         pushed' \in 0..MaxPushes, taken' = taken, refilled' = refilled
  PROVE  Inv'
<1>1. TypeOK /\ \A d \in Clients : ChannelOK(d) /\ WakeOK(d)
  BY DEF Inv
<1>2. /\ DOMAIN t' = Clients /\ \A d \in Clients : ThreadOK(d, t'[d])
      /\ t'[c] = x /\ \A d \in Clients \ {c} : t'[d] = t[d]
  BY <1>1, Moves
<1>3. TypeOK'
  BY <1>1, <1>2 DEF TypeOK
<1>4. x.chs = {} /\ t[c].chs = {}
  BY <1>1 DEF TypeOK, ThreadOK
<1>5. \A d \in Clients : ChannelOK(d)'
  BY <1>1, <1>2, <1>4, ChannelsKept
<1>6. NotifyDue => NotifyDue'
  BY <1>2 DEF NotifyDue
<1>7. \A d \in Clients : WakeOK(d)'
  BY <1>1, <1>2, <1>6, WakeKept, SameLists
<1> QED
  BY <1>3, <1>5, <1>7 DEF Inv

LEMMA RPushInv ==
  ASSUME Inv, NEW c \in Clients, NEW k \in PushKeys, RPush(c, k)
  PROVE  Inv'
<1> DEFINE x == Thread("pushload", None, k, pushed + 1)
<1>1. TypeOK
  BY DEF Inv
<1>2. pushed + 1 \in 1..MaxPushes /\ pushed' \in 0..MaxPushes
  BY <1>1, PushAssumption, SMTT(30) DEF TypeOK, RPush
<1>3. ThreadOK(c, x) /\ x.pc = "pushload"
  BY <1>2, PushAssumption, SMTT(30) DEF ThreadOK, Thread, IdleThread, PCs
<1>4. t' = [t EXCEPT ![c] = x] /\ t[c].pc = "idle"
  BY DEF RPush
<1> HIDE DEF x
<1> QED
  BY <1>2, <1>3, <1>4, QuietStep DEF RPush

LEMMA PushLoadInv ==
  ASSUME Inv, NEW c \in Clients, PushLoad(c)
  PROVE  Inv'
<1> DEFINE x == [t[c] EXCEPT !.pc = "pushsave", !.snap = list[t[c].key]]
<1>1. TypeOK
  BY DEF Inv
<1>2. t[c].pc = "pushload" /\ list[t[c].key] \in Seq(1..MaxPushes)
  BY <1>1 DEF PushLoad, TypeOK, ThreadOK
<1>3. /\ DOMAIN x = DOMAIN IdleThread /\ x.pc = "pushsave" /\ x.snap = list[t[c].key]
      /\ x.pop = t[c].pop /\ x.i = t[c].i /\ x.v = t[c].v /\ x.key = t[c].key /\ x.elem = t[c].elem /\ x.chs = t[c].chs
  BY <1>1, Fields
<1>4. t' = [t EXCEPT ![c] = x] /\ pushed' \in 0..MaxPushes
  BY <1>1 DEF PushLoad, TypeOK
<1> HIDE DEF x
<1>5. ThreadOK(c, x)
  BY <1>1, <1>2, <1>3 DEF TypeOK, ThreadOK, PCs
<1> QED
  BY <1>2, <1>3, <1>4, <1>5, QuietStep DEF PushLoad

LEMMA BPopInv ==
  ASSUME Inv, NEW c \in Clients, NEW q \in Pops[c], BPop(c, q)
  PROVE  Inv'
<1> DEFINE x == Thread("version", q, None, 0)
<1>1. TypeOK
  BY DEF Inv
<1>2. ThreadOK(c, x) /\ x.pc = "version"
  BY SMTT(30) DEF ThreadOK, Thread, IdleThread, PCs
<1>3. t' = [t EXCEPT ![c] = x] /\ t[c].pc = "idle" /\ pushed' \in 0..MaxPushes
  BY <1>1 DEF BPop, TypeOK
<1> HIDE DEF x
<1> QED
  BY <1>2, <1>3, QuietStep DEF BPop

LEMMA GiveUpInv ==
  ASSUME Inv, NEW c \in Clients, GiveUp(c)
  PROVE  Inv'
<1>1. t' = [t EXCEPT ![c] = IdleThread] /\ t[c].pc = "empty" /\ pushed' \in 0..MaxPushes
  BY DEF GiveUp, Inv, TypeOK
<1> QED
  BY <1>1, IdleOK, QuietStep DEF GiveUp

-----------------------------------------------------------------------------
(* The push: save, notify, signal.                                         *)

LEMMA PushSaveInv ==
  ASSUME Inv, NEW c \in Clients, PushSave(c)
  PROVE  Inv'
<1> DEFINE x == [t[c] EXCEPT !.pc = "notify", !.snap = <<>>]
           new == IF t[c].pop = None THEN Append(t[c].snap, t[c].elem) ELSE <<t[c].elem>> \o t[c].snap
<1>1. TypeOK /\ \A d \in Clients : ChannelOK(d) /\ WakeOK(d)
  BY DEF Inv
<1>2. t[c].pc = "pushsave" /\ t[c].key \in Keys /\ t[c].elem \in 1..MaxPushes /\ t[c].snap \in Seq(1..MaxPushes)
  BY <1>1 DEF PushSave, TypeOK, ThreadOK
<1>3. new \in Seq(1..MaxPushes)
  <2>1. <<t[c].elem>> \in Seq(1..MaxPushes)
    BY <1>2, SMTT(30)
  <2> QED
    BY <1>2, <2>1, AppendProperties, ConcatProperties
<1>4. /\ DOMAIN x = DOMAIN IdleThread /\ x.pc = "notify" /\ x.snap = <<>>
      /\ x.pop = t[c].pop /\ x.i = t[c].i /\ x.v = t[c].v /\ x.key = t[c].key /\ x.elem = t[c].elem /\ x.chs = t[c].chs
  BY <1>1, Fields
<1>5. t' = [t EXCEPT ![c] = x] /\ list' = [list EXCEPT ![t[c].key] = new]
  BY <1>1 DEF PushSave, TypeOK
<1> HIDE DEF x, new
<1>6. ThreadOK(c, x)
  <2>1. <<>> \in Seq(1..MaxPushes)
    BY EmptySeq
  <2> QED
    BY <1>1, <1>2, <1>4, <2>1 DEF TypeOK, ThreadOK, PCs
<1>7. /\ DOMAIN t' = Clients /\ \A d \in Clients : ThreadOK(d, t'[d])
      /\ t'[c] = x /\ \A d \in Clients \ {c} : t'[d] = t[d]
  BY <1>1, <1>5, <1>6, Moves
<1>8. TypeOK'
  BY <1>1, <1>2, <1>3, <1>5, <1>7, SMTT(30) DEF PushSave, TypeOK
<1>9. \A d \in Clients : ChannelOK(d)'
  BY <1>1, <1>2, <1>4, <1>7, ChannelsKept DEF PushSave
<1>10. NotifyDue'
  BY <1>4, <1>7 DEF NotifyDue
<1>11. \A d \in Clients : WakeOK(d)'
  BY <1>1, <1>4, <1>7, <1>10, WakeKept DEF PushSave
<1> QED
  BY <1>8, <1>9, <1>11 DEF Inv

LEMMA NotifyInv ==
  ASSUME Inv, NEW c \in Clients, Notify(c)
  PROVE  Inv'
<1> DEFINE x == [t[c] EXCEPT !.pc = "signal", !.chs = chans]
<1>1. TypeOK /\ \A d \in Clients : ChannelOK(d) /\ WakeOK(d)
  BY DEF Inv
<1>2. /\ DOMAIN x = DOMAIN IdleThread /\ x.pc = "signal" /\ x.chs = chans
      /\ x.pop = t[c].pop /\ x.i = t[c].i /\ x.v = t[c].v /\ x.key = t[c].key /\ x.elem = t[c].elem /\ x.snap = t[c].snap
  BY <1>1, Fields
<1>3. t' = [t EXCEPT ![c] = x] /\ t[c].pc = "notify" /\ t[c].chs = {}
  BY <1>1 DEF Notify, TypeOK, ThreadOK
<1> HIDE DEF x
<1>4. ThreadOK(c, x)
  BY <1>1, <1>2, <1>3 DEF TypeOK, ThreadOK, PCs
<1>5. /\ DOMAIN t' = Clients /\ \A d \in Clients : ThreadOK(d, t'[d])
      /\ t'[c] = x /\ \A d \in Clients \ {c} : t'[d] = t[d]
  BY <1>1, <1>3, <1>4, Moves
<1>6. TypeOK'
  BY <1>1, <1>5, SMTT(30) DEF Notify, TypeOK
<1>7. \A d \in Clients : ChannelOK(d)'
  <2> TAKE d \in Clients
  <2>1. t[d].pc = "parked" => d \in chans \/ token[d] \/ \E b \in Clients : d \in t[b].chs
    BY <1>1 DEF ChannelOK
  <2>2. t'[d].pc = "parked" => t[d].pc = "parked"
    BY <1>2, <1>5
  <2>3. d \in chans => d \in t'[c].chs
    BY <1>2, <1>5
  <2>4. \A b \in Clients : d \in t[b].chs => d \in t'[b].chs
    BY <1>3, <1>5
  <2> QED
    BY <2>1, <2>2, <2>3, <2>4 DEF ChannelOK, Notify
<1>8. \A d \in Clients : WakeOK(d)'
  <2> TAKE d \in Clients
  <2>1. t'[d].pc \in {"load", "empty"} => t'[d].v = t[d].v /\ t[d].v <= seq /\ t[d].v \in Nat /\ seq \in Nat
    BY <1>1, <1>2, <1>5 DEF WakeOK, TypeOK, ThreadOK
  <2> QED
    BY <2>1, SMTT(30) DEF WakeOK, Notify
<1> QED
  BY <1>6, <1>7, <1>8 DEF Inv

LEMMA SignalInv ==
  ASSUME Inv, NEW c \in Clients, Signal(c)
  PROVE  Inv'
<1>1. TypeOK /\ \A d \in Clients : ChannelOK(d) /\ WakeOK(d)
  BY DEF Inv
<1>2. t[c].pc = "signal" /\ list' = list /\ seq' = seq /\ chans' = chans /\ pushed' = pushed /\ taken' = taken /\ refilled' = refilled
  BY DEF Signal
<1>3. ASSUME NEW e \in t[c].chs, token' = [token EXCEPT ![e] = TRUE], t' = [t EXCEPT ![c].chs = @ \ {e}]
      PROVE  Inv'
  <2> DEFINE x == [t[c] EXCEPT !.chs = t[c].chs \ {e}]
  <2>1. /\ DOMAIN x = DOMAIN IdleThread /\ x.pc = "signal" /\ x.chs = t[c].chs \ {e}
        /\ x.pop = t[c].pop /\ x.i = t[c].i /\ x.v = t[c].v /\ x.key = t[c].key /\ x.elem = t[c].elem /\ x.snap = t[c].snap
    BY <1>1, <1>2, Fields
  <2>2. t' = [t EXCEPT ![c] = x]
    BY <1>1, <1>3 DEF TypeOK
  <2> HIDE DEF x
  <2>3. ThreadOK(c, x)
    <3>1. ThreadOK(c, t[c])
      BY <1>1 DEF TypeOK
    <3> QED
      BY <1>2, <2>1, <3>1 DEF ThreadOK
  <2>4. /\ DOMAIN t' = Clients /\ \A d \in Clients : ThreadOK(d, t'[d])
        /\ t'[c] = x /\ \A d \in Clients \ {c} : t'[d] = t[d]
    BY <1>1, <2>2, <2>3, Moves
  <2>5. TypeOK'
    BY <1>1, <1>2, <1>3, <2>4 DEF TypeOK
  <2>6. e \in Clients /\ token'[e] /\ \A d \in Clients : d # e => token'[d] = token[d]
    BY <1>1, <1>3 DEF TypeOK, ThreadOK
  <2>7. \A d \in Clients : ChannelOK(d)'
    <3> TAKE d \in Clients
    <3>1. t'[d].pc = t[d].pc
      BY <1>2, <2>1, <2>4
    <3>2. \A b \in Clients : t'[b].chs \subseteq t[b].chs /\ (d # e /\ d \in t[b].chs => d \in t'[b].chs)
      BY <2>1, <2>4
    <3>3. d \in chans => t[d].pc \in {"parked", "timedout"} /\ ~token[d] /\ \A b \in Clients : d \notin t[b].chs
      BY <1>1 DEF ChannelOK
    <3>4. t[d].pc = "parked" => d \in chans \/ token[d] \/ \E b \in Clients : d \in t[b].chs
      BY <1>1 DEF ChannelOK
    <3>5. d \in chans => d # e
      BY <1>3, <3>3
    <3>6. d \in chans' => t'[d].pc \in {"parked", "timedout"} /\ ~token'[d] /\ \A b \in Clients : d \notin t'[b].chs
      BY <1>2, <2>6, <3>1, <3>2, <3>3, <3>5
    <3>7. t'[d].pc = "parked" => d \in chans' \/ token'[d] \/ \E b \in Clients : d \in t'[b].chs
      BY <1>2, <2>6, <3>1, <3>2, <3>4
    <3> QED
      BY <3>6, <3>7 DEF ChannelOK
  <2>8. NotifyDue => NotifyDue'
    BY <1>2, <2>4 DEF NotifyDue
  <2>9. \A d \in Clients : WakeOK(d)'
    BY <1>1, <1>2, <2>1, <2>4, <2>8, WakeKept, SameLists
  <2> QED
    BY <2>5, <2>7, <2>9 DEF Inv
<1>4. ASSUME t[c].chs = {}, t' = [t EXCEPT ![c] = IdleThread], token' = token
      PROVE  Inv'
  <2>1. /\ DOMAIN t' = Clients /\ \A d \in Clients : ThreadOK(d, t'[d])
        /\ t'[c] = IdleThread /\ \A d \in Clients \ {c} : t'[d] = t[d]
    BY <1>1, <1>4, IdleOK, Moves
  <2>2. TypeOK'
    BY <1>1, <1>2, <1>4, <2>1 DEF TypeOK
  <2>3. \A d \in Clients : ChannelOK(d)'
    BY <1>1, <1>2, <1>4, <2>1, IdleOK, ChannelsKept
  <2>4. NotifyDue => NotifyDue'
    BY <1>2, <2>1 DEF NotifyDue
  <2>5. \A d \in Clients : WakeOK(d)'
    BY <1>1, <1>2, <2>1, <2>4, IdleOK, WakeKept, SameLists
  <2> QED
    BY <2>2, <2>3, <2>5 DEF Inv
<1> QED
  BY <1>3, <1>4 DEF Signal

-----------------------------------------------------------------------------
(* The blocking pop.                                                       *)

\* Facts every lemma below starts from: a step of c to x, with nobody else moved.
LEMMA PopStep ==
  ASSUME Inv, NEW c \in Clients, NEW x, ThreadOK(c, x), t' = [t EXCEPT ![c] = x],
         list' \in [Keys -> Seq(1..MaxPushes)], seq' = seq, chans' \subseteq chans, token' \in [Clients -> BOOLEAN],
         pushed' = pushed, taken' \in [1..MaxPushes -> Nat],
         t[c].pc # "notify",
         refilled' \subseteq Keys, \A k \in Keys : Pushed(k)' => Pushed(k) \/ NotifyDue'
  PROVE  /\ TypeOK' /\ t'[c] = x /\ \A d \in Clients \ {c} : t'[d] = t[d]
         /\ NotifyDue => NotifyDue'
         /\ \A d \in Clients \ {c} : WakeOK(d)'
<1>1. TypeOK /\ \A d \in Clients : WakeOK(d)
  BY DEF Inv
<1>2. /\ DOMAIN t' = Clients /\ \A d \in Clients : ThreadOK(d, t'[d])
      /\ t'[c] = x /\ \A d \in Clients \ {c} : t'[d] = t[d]
  BY <1>1, Moves
<1>3. TypeOK'
  BY <1>1, <1>2 DEF TypeOK
<1>4. NotifyDue => NotifyDue'
  BY <1>2 DEF NotifyDue
<1>5. \A d \in Clients \ {c} : WakeOK(d)'
  BY <1>1, <1>2, <1>4, WakeKept, SameLists
<1> QED
  BY <1>2, <1>3, <1>4, <1>5

LEMMA VersionInv ==
  ASSUME Inv, NEW c \in Clients, Version(c)
  PROVE  Inv'
<1> DEFINE x == [t[c] EXCEPT !.pc = "load", !.v = seq, !.i = 1]
<1>1. TypeOK /\ \A d \in Clients : ChannelOK(d)
  BY DEF Inv
<1>2. t[c].pc = "version" /\ t[c].pop \in Pops[c]
  BY <1>1 DEF Version, TypeOK, ThreadOK
<1>3. Len(t[c].pop.keys) \in Nat \ {0}
  BY <1>2, PopKeys
<1>4. /\ DOMAIN x = DOMAIN IdleThread /\ x.pc = "load" /\ x.v = seq /\ x.i = 1
      /\ x.pop = t[c].pop /\ x.key = t[c].key /\ x.elem = t[c].elem /\ x.chs = t[c].chs /\ x.snap = t[c].snap
  BY <1>1, Fields
<1>5. t' = [t EXCEPT ![c] = x]
  BY <1>1 DEF Version, TypeOK
<1> HIDE DEF x
<1>6. ThreadOK(c, x)
  <2>1. seq \in Nat /\ 1 \in 1..Len(t[c].pop.keys)
    BY <1>1, <1>3, SMTT(30) DEF TypeOK
  <2> QED
    BY <1>1, <1>2, <1>4, <2>1, StillPops, SMTT(30)
<1>7. /\ list' = list /\ seq' = seq /\ chans' = chans /\ token' = token /\ pushed' = pushed /\ taken' = taken
      /\ refilled' = refilled /\ refilled' \subseteq Keys
      /\ list' \in [Keys -> Seq(1..MaxPushes)] /\ token' \in [Clients -> BOOLEAN] /\ taken' \in [1..MaxPushes -> Nat]
  BY <1>1 DEF Version, TypeOK
<1>8. /\ TypeOK' /\ t'[c] = x /\ \A d \in Clients \ {c} : t'[d] = t[d]
      /\ \A d \in Clients \ {c} : WakeOK(d)'
  BY <1>2, <1>5, <1>6, <1>7, PopStep, SameLists
<1>9. \A d \in Clients : ChannelOK(d)'
  BY <1>1, <1>2, <1>4, <1>7, <1>8, ChannelsKept
<1>10. WakeOK(c)'
  BY <1>1, <1>4, <1>7, <1>8, SMTT(30) DEF WakeOK, Filled, TypeOK
<1> QED
  BY <1>8, <1>9, <1>10 DEF Inv

LEMMA PopLoadInv ==
  ASSUME Inv, NEW c \in Clients, PopLoad(c)
  PROVE  Inv'
<1>1. TypeOK /\ \A d \in Clients : ChannelOK(d) /\ WakeOK(d)
  BY DEF Inv
<1>2. t[c].pc = "load" /\ t[c].pop \in Pops[c] /\ t[c].i \in 1..Len(t[c].pop.keys)
  BY <1>1 DEF PopLoad, TypeOK, ThreadOK
<1>3. PICK k \in Keys : k = t[c].pop.keys[t[c].i] /\ list[k] \in Seq(1..MaxPushes)
  BY <1>1, <1>2, PopKeys DEF TypeOK
<1>4. Len(t[c].pop.keys) \in Nat \ {0}
  BY <1>2, PopKeys
<1>5. /\ list' = list /\ seq' = seq /\ chans' = chans /\ token' = token /\ pushed' = pushed /\ taken' = taken
      /\ refilled' = refilled /\ refilled' \subseteq Keys
      /\ list' \in [Keys -> Seq(1..MaxPushes)] /\ token' \in [Clients -> BOOLEAN] /\ taken' \in [1..MaxPushes -> Nat]
      /\ pushed' \in 0..MaxPushes
  BY <1>1 DEF PopLoad, TypeOK
<1>6. CASE list[k] # <<>>
  <2> DEFINE x == [t[c] EXCEPT !.pc = "save", !.key = k, !.snap = list[k]]
  <2>1. /\ DOMAIN x = DOMAIN IdleThread /\ x.pc = "save" /\ x.key = k /\ x.snap = list[k]
        /\ x.pop = t[c].pop /\ x.i = t[c].i /\ x.v = t[c].v /\ x.elem = t[c].elem /\ x.chs = t[c].chs
    BY <1>1, Fields
  <2>2. t' = [t EXCEPT ![c] = x]
    BY <1>3, <1>6 DEF PopLoad
  <2> HIDE DEF x
  <2>3. ThreadOK(c, x)
    BY <1>1, <1>2, <1>3, <1>6, <2>1 DEF TypeOK, ThreadOK, PCs
  <2> QED
    BY <1>2, <1>5, <2>1, <2>2, <2>3, QuietStep
<1>7. CASE list[k] = <<>> /\ t[c].i < Len(t[c].pop.keys)
  <2> DEFINE x == [t[c] EXCEPT !.i = t[c].i + 1]
  <2>1. /\ DOMAIN x = DOMAIN IdleThread /\ x.pc = "load" /\ x.i = t[c].i + 1 /\ x.pop = t[c].pop /\ x.v = t[c].v
        /\ x.key = t[c].key /\ x.snap = t[c].snap /\ x.elem = t[c].elem /\ x.chs = t[c].chs
    BY <1>1, <1>2, Fields
  <2>2. t' = [t EXCEPT ![c] = x]
    BY <1>3, <1>7 DEF PopLoad
  <2> HIDE DEF x
  <2>3. ThreadOK(c, x)
    <3>1. t[c].v \in Nat /\ t[c].i + 1 \in Nat /\ t[c].i + 1 \in 1..Len(t[c].pop.keys)
      BY <1>1, <1>2, <1>4, <1>7, SMTT(30) DEF TypeOK, ThreadOK
    <3> QED
      BY <1>1, <1>2, <2>1, <3>1, StillPops
  <2>4. /\ TypeOK' /\ t'[c] = x /\ \A d \in Clients \ {c} : t'[d] = t[d]
        /\ NotifyDue => NotifyDue'
        /\ \A d \in Clients \ {c} : WakeOK(d)'
    BY <1>2, <1>5, <2>2, <2>3, PopStep, SameLists
  <2>5. \A d \in Clients : ChannelOK(d)'
    BY <1>1, <1>2, <1>5, <2>1, <2>4, ChannelsKept
  <2>6. Filled(c)' => Filled(c)
    <3> SUFFICES ASSUME NEW i \in 1..Len(t[c].pop.keys), (t'[c].pc = "load" => i < t'[c].i), list[t[c].pop.keys[i]] # <<>>
                 PROVE  i < t[c].i
      BY <1>2, <1>5, <2>1, <2>4 DEF Filled, Pushed
    <3>1. i # t[c].i
      BY <1>3, <1>7
    <3> QED
      BY <1>2, <1>4, <1>7, <2>1, <2>4, <3>1, SMTT(30)
  <2>7. WakeOK(c)'
    BY <1>1, <1>2, <1>5, <2>1, <2>4, <2>6 DEF WakeOK
  <2> QED
    BY <2>4, <2>5, <2>7 DEF Inv
<1>8. CASE list[k] = <<>> /\ ~(t[c].i < Len(t[c].pop.keys))
  <2> DEFINE x == [t[c] EXCEPT !.pc = "empty", !.i = 0]
  <2>1. /\ DOMAIN x = DOMAIN IdleThread /\ x.pc = "empty" /\ x.i = 0 /\ x.pop = t[c].pop /\ x.v = t[c].v
        /\ x.key = t[c].key /\ x.snap = t[c].snap /\ x.elem = t[c].elem /\ x.chs = t[c].chs
    BY <1>1, <1>2, Fields
  <2>2. t' = [t EXCEPT ![c] = x]
    BY <1>3, <1>8 DEF PopLoad
  <2> HIDE DEF x
  <2>3. ThreadOK(c, x)
    <3>1. t[c].v \in Nat /\ 0 \in Nat
      BY <1>1 DEF TypeOK, ThreadOK
    <3> QED
      BY <1>1, <1>2, <2>1, <3>1, StillPops
  <2>4. /\ TypeOK' /\ t'[c] = x /\ \A d \in Clients \ {c} : t'[d] = t[d]
        /\ NotifyDue => NotifyDue'
        /\ \A d \in Clients \ {c} : WakeOK(d)'
    BY <1>2, <1>5, <2>2, <2>3, PopStep, SameLists
  <2>5. \A d \in Clients : ChannelOK(d)'
    BY <1>1, <1>2, <1>5, <2>1, <2>4, ChannelsKept
  <2>6. Filled(c)' => Filled(c)
    <3> SUFFICES ASSUME NEW i \in 1..Len(t[c].pop.keys), (t'[c].pc = "load" => i < t'[c].i), list[t[c].pop.keys[i]] # <<>>
                 PROVE  i < t[c].i
      BY <1>2, <1>5, <2>1, <2>4 DEF Filled, Pushed
    <3>1. i # t[c].i
      BY <1>3, <1>8
    <3> QED
      BY <1>2, <1>4, <1>8, <2>1, <2>4, <3>1, SMTT(60)
  <2>7. WakeOK(c)'
    BY <1>1, <1>2, <1>5, <2>1, <2>4, <2>6 DEF WakeOK
  <2> QED
    BY <2>4, <2>5, <2>7 DEF Inv
<1> QED
  BY <1>6, <1>7, <1>8

\* listPop puts no element where there was none, or the list counts as refilled.
LEMMA PopSaveInv ==
  ASSUME Inv, NEW c \in Clients, PopSave(c)
  PROVE  Inv'
<1> DEFINE e == IF t[c].pop.left THEN Head(t[c].snap) ELSE t[c].snap[Len(t[c].snap)]
           rest == IF t[c].pop.left THEN Tail(t[c].snap) ELSE SubSeq(t[c].snap, 1, Len(t[c].snap) - 1)
           x == IF t[c].pop.dst = None THEN IdleThread ELSE Thread("pushload", t[c].pop, t[c].pop.dst, e)
<1>1. TypeOK /\ \A d \in Clients : ChannelOK(d) /\ WakeOK(d)
  BY DEF Inv
<1>2. t[c].pc = "save" /\ t[c].pop \in Pops[c] /\ t[c].snap \in Seq(1..MaxPushes) /\ t[c].snap # <<>> /\ t[c].chs = {}
  BY <1>1 DEF PopSave, TypeOK, ThreadOK
<1>3. e \in 1..MaxPushes /\ rest \in Seq(1..MaxPushes)
  BY <1>2, ListEnds
<1>4. t[c].pop.dst = None \/ t[c].pop.dst \in Keys
  BY <1>2, PopKeys
<1>5. /\ t' = [t EXCEPT ![c] = x] /\ list' = [list EXCEPT ![t[c].key] = rest]
      /\ refilled' = IF rest = <<>> THEN refilled \ {t[c].key}
                     ELSE IF list[t[c].key] = <<>> THEN refilled \cup {t[c].key} ELSE refilled
      /\ (taken' = taken \/ taken' = [taken EXCEPT ![e] = @ + 1])
      /\ seq' = seq /\ chans' = chans /\ token' = token /\ pushed' = pushed
  BY DEF PopSave
<1> HIDE DEF e, rest
<1>6. ThreadOK(c, x) /\ x.pc \in {"idle", "pushload"} /\ x.chs = {}
  <2>1. ThreadOK(c, Thread("pushload", t[c].pop, t[c].pop.dst, e)) \/ t[c].pop.dst = None
    BY <1>3, <1>4, SMTT(60) DEF ThreadOK, Thread, IdleThread, PCs
  <2> QED
    BY <2>1, IdleOK DEF Thread
<1> HIDE DEF x
<1>7. /\ list' \in [Keys -> Seq(1..MaxPushes)] /\ token' \in [Clients -> BOOLEAN] /\ taken' \in [1..MaxPushes -> Nat]
      /\ refilled' \subseteq Keys
  <2>1. list' \in [Keys -> Seq(1..MaxPushes)]
    BY <1>1, <1>3, <1>5 DEF TypeOK
  <2>2. taken' \in [1..MaxPushes -> Nat]
    BY <1>1, <1>3, <1>5, SMTT(30) DEF TypeOK
  <2>3. t[c].key \in Keys
    BY <1>1, <1>2, PopKeys DEF TypeOK, ThreadOK
  <2> QED
    BY <1>1, <1>5, <2>1, <2>2, <2>3 DEF TypeOK
<1>8. \A k \in Keys : Pushed(k)' => Pushed(k)
  BY <1>1, <1>5 DEF Pushed, TypeOK
<1>9. /\ TypeOK' /\ t'[c] = x /\ \A d \in Clients \ {c} : t'[d] = t[d]
      /\ \A d \in Clients \ {c} : WakeOK(d)'
  BY <1>2, <1>5, <1>6, <1>7, <1>8, PopStep
<1>10. \A d \in Clients : ChannelOK(d)'
  BY <1>1, <1>2, <1>5, <1>6, <1>9, ChannelsKept
<1>11. WakeOK(c)'
  BY <1>6, <1>9 DEF WakeOK, Filled
<1> QED
  BY <1>9, <1>10, <1>11 DEF Inv

-----------------------------------------------------------------------------
(* Waiting.                                                                *)

\* The version has moved: c looks again.
LEMMA LookAgain ==
  ASSUME Inv, NEW c \in Clients, t[c].pc = "empty", t' = [t EXCEPT ![c].pc = "version", ![c].v = 0],
         list' = list, seq' = seq, chans' = chans, token' = token, pushed' = pushed, taken' = taken, refilled' = refilled
  PROVE  Inv'
<1> DEFINE x == [t[c] EXCEPT !.pc = "version", !.v = 0]
<1>1. TypeOK
  BY DEF Inv
<1>2. t[c].pop \in Pops[c] /\ t[c].i \in Nat /\ pushed' \in 0..MaxPushes
  BY <1>1 DEF TypeOK, ThreadOK
<1>3. /\ DOMAIN x = DOMAIN IdleThread /\ x.pc = "version" /\ x.i = t[c].i /\ x.pop = t[c].pop /\ x.v = 0
      /\ x.key = t[c].key /\ x.snap = t[c].snap /\ x.elem = t[c].elem /\ x.chs = t[c].chs
  BY <1>1, Fields
<1>4. t' = [t EXCEPT ![c] = x]
  BY <1>1 DEF TypeOK
<1> HIDE DEF x
<1>5. ThreadOK(c, x)
  BY <1>1, <1>2, <1>3, StillPops, SMTT(30)
<1> QED
  BY <1>2, <1>3, <1>4, <1>5, QuietStep

\* The version is the one c took: whatever has been pushed since is still to be notified, and will find c's
\* channel among the registered ones.
LEMMA GoToSleep ==
  ASSUME Inv, NEW c \in Clients, t[c].pc = "empty", seq = t[c].v,
         chans' = chans \cup {c}, token' = [token EXCEPT ![c] = FALSE],
         t' = [d \in Clients |-> IF d = c THEN [t[c] EXCEPT !.pc = "parked", !.v = 0]
                                 ELSE [t[d] EXCEPT !.chs = @ \ {c}]],
         list' = list, seq' = seq, pushed' = pushed, taken' = taken, refilled' = refilled
  PROVE  Inv'
<1>1. TypeOK /\ \A d \in Clients : ChannelOK(d) /\ WakeOK(d)
  BY DEF Inv
<1>2. t[c].pop \in Pops[c] /\ t[c].i \in Nat /\ t[c].chs = {}
  BY <1>1 DEF TypeOK, ThreadOK
<1>3. /\ DOMAIN t'[c] = DOMAIN IdleThread /\ t'[c].pc = "parked" /\ t'[c].i = t[c].i /\ t'[c].pop = t[c].pop
      /\ t'[c].v = 0 /\ t'[c].snap = t[c].snap /\ t'[c].chs = t[c].chs
  BY <1>1, Fields
<1>4. \A d \in Clients \ {c} :
        /\ DOMAIN t'[d] = DOMAIN IdleThread /\ t'[d].chs = t[d].chs \ {c}
        /\ t'[d].pc = t[d].pc /\ t'[d].i = t[d].i /\ t'[d].pop = t[d].pop /\ t'[d].v = t[d].v
        /\ t'[d].key = t[d].key /\ t'[d].snap = t[d].snap /\ t'[d].elem = t[d].elem
  BY <1>1, Fields
<1>5. ThreadOK(c, t'[c])
  <2>1. t'[c].v \in Nat /\ t'[c].i \in Nat /\ t'[c].pc # "load" /\ t[c].pc # "signal"
    BY <1>2, <1>3, SMTT(30)
  <2> QED
    BY <1>1, <1>2, <1>3, <2>1, StillPops
<1>6. \A d \in Clients \ {c} : ThreadOK(d, t'[d])
  <2> TAKE d \in Clients \ {c}
  <2>1. ThreadOK(d, t[d])
    BY <1>1 DEF TypeOK
  <2>2. t'[d].chs \subseteq Clients /\ (t'[d].pc # "signal" => t'[d].chs = {})
    BY <1>4, <2>1 DEF ThreadOK
  <2>3. t'[d].pc = "save" => \E i \in 1..Len(t'[d].pop.keys) : t'[d].key = t'[d].pop.keys[i]
    BY <1>4, <2>1, ZenonT(60) DEF ThreadOK
  <2> QED
    BY <1>4, <2>1, <2>2, <2>3 DEF ThreadOK
<1>7. TypeOK'
  BY <1>1, <1>5, <1>6 DEF TypeOK
<1>8. /\ ~token'[c] /\ \A d \in Clients \ {c} : token'[d] = token[d]
  BY <1>1 DEF TypeOK
<1>9. ChannelOK(c)'
  BY <1>2, <1>3, <1>4, <1>8, SMTT(30) DEF ChannelOK
<1>10. \A d \in Clients \ {c} : ChannelOK(d)'
  <2> TAKE d \in Clients \ {c}
  <2>1. d \in chans => t[d].pc \in {"parked", "timedout"} /\ ~token[d] /\ \A b \in Clients : d \notin t[b].chs
    BY <1>1 DEF ChannelOK
  <2>2. t[d].pc = "parked" => d \in chans \/ token[d] \/ \E b \in Clients : d \in t[b].chs
    BY <1>1 DEF ChannelOK
  <2>3. \A b \in Clients : d \in t'[b].chs <=> d \in t[b].chs
    BY <1>3, <1>4, SMTT(30)
  <2> QED
    BY <1>4, <1>8, <2>1, <2>2, <2>3, SMTT(30) DEF ChannelOK
<1>11. NotifyDue => NotifyDue'
  BY <1>4 DEF NotifyDue
<1>12. \A d \in Clients \ {c} : WakeOK(d)'
  <2> TAKE d \in Clients \ {c}
  <2>1. d \in chans' => d \in chans
    OBVIOUS
  <2>2. t'[d].pc = t[d].pc /\ t'[d].v = t[d].v /\ t'[d].i = t[d].i /\ t'[d].pop = t[d].pop
    BY <1>4
  <2> QED
    BY <1>1, <1>11, <2>1, <2>2, SameLists, WakeKept
<1>13. WakeOK(c)'
  <2>1. Filled(c)' => Filled(c)
    BY <1>3, SMTT(30) DEF Filled, Pushed
  <2> QED
    BY <1>1, <1>3, <1>11, <2>1 DEF WakeOK
<1> QED
  BY <1>7, <1>9, <1>10, <1>12, <1>13 DEF Inv

LEMMA SleepSinceInv ==
  ASSUME Inv, NEW c \in Clients, SleepSince(c)
  PROVE  Inv'
  BY LookAgain, GoToSleep DEF SleepSince

\* A client that stops waiting: its channel is taken off, or it has timed out and will take it off.
LEMMA StopsWaiting ==
  ASSUME Inv, NEW c \in Clients, t[c].pc \in {"parked", "timedout"},
         NEW x, ThreadOK(c, x), t' = [t EXCEPT ![c] = x], x.pc \notin {"load", "empty", "parked", "signal"},
         chans' \subseteq chans, \A d \in chans : d # c => d \in chans',
         c \in chans' => x.pc = "timedout" /\ ~token'[c],
         token' \in [Clients -> BOOLEAN], \A d \in Clients : d # c => token'[d] = token[d],
         list' = list, seq' = seq, pushed' = pushed, taken' = taken, refilled' = refilled
  PROVE  Inv'
<1>1. TypeOK /\ \A d \in Clients : ChannelOK(d)
  BY DEF Inv
<1>2. /\ list' \in [Keys -> Seq(1..MaxPushes)] /\ taken' \in [1..MaxPushes -> Nat] /\ t[c].chs = {} /\ x.chs = {}
      /\ refilled' \subseteq Keys
  BY <1>1 DEF TypeOK, ThreadOK
<1>3. /\ TypeOK' /\ t'[c] = x /\ \A d \in Clients \ {c} : t'[d] = t[d]
      /\ \A d \in Clients \ {c} : WakeOK(d)'
  BY <1>2, PopStep, SameLists
<1>4. WakeOK(c)'
  BY <1>3 DEF WakeOK, Filled
<1>5. \A d \in Clients : ChannelOK(d)'
  <2> TAKE d \in Clients
  <2>1. d \in chans => t[d].pc \in {"parked", "timedout"} /\ ~token[d] /\ \A b \in Clients : d \notin t[b].chs
    BY <1>1 DEF ChannelOK
  <2>2. t[d].pc = "parked" => d \in chans \/ token[d] \/ \E b \in Clients : d \in t[b].chs
    BY <1>1 DEF ChannelOK
  <2>3. \A b \in Clients : t'[b].chs = t[b].chs
    BY <1>2, <1>3
  <2>4. CASE d = c
    BY <1>3, <2>1, <2>3, <2>4 DEF ChannelOK
  <2>5. CASE d # c
    BY <1>3, <2>1, <2>2, <2>3, <2>5 DEF ChannelOK
  <2> QED
    BY <2>4, <2>5
<1> QED
  BY <1>3, <1>4, <1>5 DEF Inv

LEMMA WokenInv ==
  ASSUME Inv, NEW c \in Clients, Woken(c)
  PROVE  Inv'
<1> DEFINE x == [t[c] EXCEPT !.pc = "version"]
<1>1. TypeOK /\ ChannelOK(c)
  BY DEF Inv
<1>2. t[c].pop \in Pops[c] /\ t[c].i \in Nat /\ t[c].v \in Nat /\ t[c].pc = "parked"
  BY <1>1 DEF TypeOK, ThreadOK, Woken
<1>3. /\ DOMAIN x = DOMAIN IdleThread /\ x.pc = "version" /\ x.i = t[c].i /\ x.pop = t[c].pop /\ x.v = t[c].v
      /\ x.snap = t[c].snap /\ x.chs = t[c].chs
  BY <1>1, Fields
<1>4. t' = [t EXCEPT ![c] = x]
  BY <1>1 DEF Woken, TypeOK
<1> HIDE DEF x
<1>5. ThreadOK(c, x)
  BY <1>1, <1>2, <1>3, StillPops
<1>6. c \notin chans
  BY <1>1 DEF ChannelOK, Woken
<1>7. token' \in [Clients -> BOOLEAN] /\ \A d \in Clients : d # c => token'[d] = token[d]
  BY <1>1 DEF Woken, TypeOK
<1> QED
  BY <1>2, <1>3, <1>4, <1>5, <1>6, <1>7, StopsWaiting DEF Woken

LEMMA TimeoutInv ==
  ASSUME Inv, NEW c \in Clients, Timeout(c)
  PROVE  Inv'
<1> DEFINE x == [t[c] EXCEPT !.pc = "timedout"]
<1>1. TypeOK /\ ChannelOK(c)
  BY DEF Inv
<1>2. t[c].pop \in Pops[c] /\ t[c].i \in Nat /\ t[c].v \in Nat /\ t[c].pc = "parked"
  BY <1>1 DEF TypeOK, ThreadOK, Timeout
<1>3. /\ DOMAIN x = DOMAIN IdleThread /\ x.pc = "timedout" /\ x.i = t[c].i /\ x.pop = t[c].pop /\ x.v = t[c].v
      /\ x.snap = t[c].snap /\ x.chs = t[c].chs
  BY <1>1, Fields
<1>4. t' = [t EXCEPT ![c] = x]
  BY <1>1 DEF Timeout, TypeOK
<1> HIDE DEF x
<1>5. ThreadOK(c, x)
  BY <1>1, <1>2, <1>3, StillPops
<1>6. c \in chans => ~token[c]
  BY <1>1 DEF ChannelOK
<1>7. token' \in [Clients -> BOOLEAN] /\ token' = token
  BY <1>1 DEF Timeout, TypeOK
<1> QED
  BY <1>2, <1>3, <1>4, <1>5, <1>6, <1>7, StopsWaiting DEF Timeout

LEMMA UnregisterInv ==
  ASSUME Inv, NEW c \in Clients, Unregister(c)
  PROVE  Inv'
<1>1. t[c].pc = "timedout" /\ t' = [t EXCEPT ![c] = IdleThread] /\ chans' = chans \ {c}
  BY DEF Unregister
<1>2. token' \in [Clients -> BOOLEAN] /\ \A d \in Clients : d # c => token'[d] = token[d]
  BY DEF Unregister, Inv, TypeOK
<1> QED
  BY <1>1, <1>2, IdleOK, StopsWaiting DEF Unregister

-----------------------------------------------------------------------------
LEMMA NextInv == Inv /\ [Next]_vars => Inv'
<1> SUFFICES ASSUME Inv, [Next]_vars PROVE Inv'
  OBVIOUS
<1>1. CASE UNCHANGED vars
  <2>1. TypeOK /\ \A d \in Clients : ChannelOK(d) /\ WakeOK(d)
    BY DEF Inv
  <2>2. list' = list /\ seq' = seq /\ chans' = chans /\ token' = token /\ t' = t /\ pushed' = pushed /\ taken' = taken /\ refilled' = refilled
    BY <1>1 DEF vars
  <2>3. TypeOK'
    BY <2>1, <2>2 DEF TypeOK
  <2>4. \A d \in Clients : ChannelOK(d)'
    BY <2>1, <2>2 DEF ChannelOK
  <2>5. NotifyDue => NotifyDue'
    BY <2>2 DEF NotifyDue
  <2>6. \A d \in Clients : WakeOK(d)'
    BY <2>1, <2>2, <2>5, WakeKept, SameLists
  <2> QED
    BY <2>3, <2>4, <2>6 DEF Inv
<1>2. ASSUME NEW c \in Clients, Push(c) PROVE Inv'
  BY <1>2, PushLoadInv, PushSaveInv, NotifyInv, SignalInv DEF Push
<1>4. ASSUME NEW c \in Clients, Version(c) \/ PopLoad(c) \/ PopSave(c) \/ SleepSince(c) \/ Woken(c) \/ Unregister(c) PROVE Inv'
  BY <1>4, VersionInv, PopLoadInv, PopSaveInv, SleepSinceInv, WokenInv, UnregisterInv
<1>5. ASSUME NEW c \in Clients, GiveUp(c) \/ Timeout(c) PROVE Inv'
  BY <1>5, GiveUpInv, TimeoutInv
<1>6. ASSUME NEW c \in Clients, NEW k \in PushKeys, RPush(c, k) PROVE Inv'
  BY <1>6, RPushInv
<1>7. ASSUME NEW c \in Clients, NEW q \in Pops[c], BPop(c, q) PROVE Inv'
  BY <1>7, BPopInv
<1> QED
  BY <1>1, <1>2, <1>4, <1>5, <1>6, <1>7 DEF Next, Pop

\* The inductive invariant holds throughout.
THEOREM InvHolds == Spec => []Inv
<1> QED
  BY InitInv, NextInv, PTL DEF Spec

\* Every variable keeps its type: in particular listPop (cmd_list.go) never takes from an empty list, and
\* every element comes from a push.
THEOREM TypeCorrect == Spec => []TypeOK
<1>1. Inv => TypeOK
  BY DEF Inv
<1> QED
  BY <1>1, InvHolds, PTL

\* For any clients, lists and blocking commands: a client that sleeps on a list with a pushed element has a
\* wake-up coming (blocker.notify against sleepSince, blocking.go).
THEOREM WakeUpsKept == Spec => []NoLostWakeUp
<1>1. Inv => NoLostWakeUp
  <2> SUFFICES ASSUME Inv, NEW c \in Clients, Ready(c) PROVE WakeUpDue(c)
    BY DEF NoLostWakeUp
  <2>1. ChannelOK(c) /\ WakeOK(c) /\ t[c].pc = "parked"
    BY DEF Inv, Ready
  <2>2. Filled(c)
    BY DEF Ready, Filled
  <2> QED
    BY <2>1, <2>2 DEF ChannelOK, WakeOK, WakeUpDue, NotifyDue
<1> QED
  BY <1>1, InvHolds, PTL

\* unregister and notify leave no channel behind (blocking.go).
THEOREM ChannelsNotLeaked == Spec => []NoLeakedChannel
<1>1. Inv => NoLeakedChannel
  BY DEF Inv, TypeOK, ChannelOK, NoLeakedChannel
<1> QED
  BY <1>1, InvHolds, PTL

-----------------------------------------------------------------------------
(* Clients that block on lists of their own never write back a list that    *)
(* another client has emptied.                                             *)

Steady == Inv /\ refilled = {} /\ \A c \in Clients : SaveOK(c)

LEMMA SteadyStep ==
  ASSUME ListsApart, Steady, [Next]_vars
  PROVE  refilled' = {} /\ \A c \in Clients : SaveOK(c)'
<1>1. TypeOK /\ refilled = {} /\ \A d \in Clients : SaveOK(d)
  BY DEF Steady, Inv
<1>2. ASSUME NEW c \in Clients, PopSave(c) PROVE refilled' = {} /\ \A d \in Clients : SaveOK(d)'
  <2>1. t[c].pc = "save" /\ list[t[c].key] # <<>>
    BY <1>1, <1>2 DEF PopSave, SaveOK
  <2>2. refilled' = {}
    BY <1>1, <1>2, <2>1 DEF PopSave
  <2>3. t'[c].pc # "save" /\ \A d \in Clients \ {c} : t'[d] = t[d]
    BY <1>1, <1>2, SMTT(30) DEF PopSave, Thread, IdleThread, TypeOK
  <2>4. \A k \in Keys : k # t[c].key => list'[k] = list[k]
    BY <1>1, <1>2 DEF PopSave, TypeOK
  <2>5. \A d \in Clients \ {c} : t[d].pc = "save" => t[d].key # t[c].key /\ t[d].key \in Keys
    <3> SUFFICES ASSUME NEW d \in Clients \ {c}, t[d].pc = "save" PROVE t[d].key # t[c].key /\ t[d].key \in Keys
      OBVIOUS
    <3>1. PICK i \in 1..Len(t[c].pop.keys) : t[c].key = t[c].pop.keys[i]
      BY <1>1, <2>1 DEF TypeOK, ThreadOK
    <3>2. PICK j \in 1..Len(t[d].pop.keys) : t[d].key = t[d].pop.keys[j]
      BY <1>1 DEF TypeOK, ThreadOK
    <3>3. t[c].pop \in Pops[c] /\ t[d].pop \in Pops[d]
      BY <1>1, <2>1 DEF TypeOK, ThreadOK
    <3> QED
      BY <3>1, <3>2, <3>3, PopKeys DEF ListsApart
  <2> QED
    BY <1>1, <2>2, <2>3, <2>4, <2>5, SMTT(30) DEF SaveOK
<1>3. ASSUME NEW c \in Clients, PushSave(c) PROVE refilled' = {} /\ \A d \in Clients : SaveOK(d)'
  <2>1. t[c].key \in Keys /\ t[c].elem \in 1..MaxPushes /\ t[c].snap \in Seq(1..MaxPushes)
    BY <1>1, <1>3 DEF PushSave, TypeOK, ThreadOK
  <2>2. t'[c].pc = "notify" /\ \A d \in Clients \ {c} : t'[d] = t[d]
    BY <1>1, <1>3, Fields DEF PushSave, TypeOK
  <2>3. Append(t[c].snap, t[c].elem) # <<>> /\ <<t[c].elem>> \o t[c].snap # <<>>
    <3>1. <<t[c].elem>> \in Seq(1..MaxPushes) /\ <<t[c].elem>> # <<>>
      BY <2>1, SMTT(30)
    <3> QED
      BY <2>1, <3>1, AppendProperties, ConcatEqualIffEmpty, SMTT(30)
  <2>4. list'[t[c].key] # <<>> /\ \A k \in Keys : k # t[c].key => list'[k] = list[k]
    BY <1>1, <1>3, <2>1, <2>3 DEF PushSave, TypeOK
  <2>5. \A d \in Clients : t[d].pc = "save" => t[d].key \in Keys
    BY <1>1, PopKeys DEF TypeOK, ThreadOK
  <2>6. refilled' = {}
    BY <1>1, <1>3 DEF PushSave
  <2>7. ASSUME NEW d \in Clients, d # c PROVE SaveOK(d)'
    BY <1>1, <2>2, <2>4, <2>5, <2>7 DEF SaveOK
  <2>8. SaveOK(c)'
    BY <2>2 DEF SaveOK
  <2> QED
    BY <2>6, <2>7, <2>8
<1>4. ASSUME NEW c \in Clients, PopLoad(c) PROVE refilled' = {} /\ \A d \in Clients : SaveOK(d)'
  <2>1. list' = list /\ refilled' = refilled /\ \A d \in Clients \ {c} : t'[d] = t[d]
    BY <1>1, <1>4 DEF PopLoad, TypeOK
  <2>2. t'[c].pc = "save" => list[t'[c].key] # <<>>
    BY <1>1, <1>4, Fields DEF PopLoad, TypeOK
  <2> QED
    BY <1>1, <2>1, <2>2 DEF SaveOK
<1>5. ASSUME list' = list, refilled' = refilled,
             \A d \in Clients : t'[d].pc = "save" => t[d].pc = "save" /\ t'[d].key = t[d].key
      PROVE  refilled' = {} /\ \A d \in Clients : SaveOK(d)'
  BY <1>1, <1>5 DEF SaveOK
<1>6. ASSUME NEW c \in Clients,
             PushLoad(c) \/ Notify(c) \/ Version(c) \/ Woken(c) \/ Timeout(c)
      PROVE  \A d \in Clients : t'[d].pc = "save" => t[d].pc = "save" /\ t'[d].key = t[d].key
  <2>1. \A d \in Clients \ {c} : t'[d] = t[d]
    BY <1>1, <1>6 DEF PushLoad, Notify, Version, Woken, Timeout, TypeOK
  <2>2. t'[c].pc # "save"
    BY <1>1, <1>6, Fields, SMTT(30) DEF PushLoad, Notify, Version, Woken, Timeout, TypeOK
  <2> QED
    BY <2>1, <2>2
<1>7. ASSUME NEW c \in Clients, GiveUp(c) \/ Unregister(c) \/ (\E k \in PushKeys : RPush(c, k)) \/ (\E q \in Pops[c] : BPop(c, q))
      PROVE  \A d \in Clients : t'[d].pc = "save" => t[d].pc = "save" /\ t'[d].key = t[d].key
  <2>1. \A d \in Clients \ {c} : t'[d] = t[d]
    BY <1>1, <1>7 DEF GiveUp, Unregister, RPush, BPop, TypeOK
  <2>2. t'[c].pc # "save"
    BY <1>1, <1>7, SMTT(60) DEF GiveUp, Unregister, RPush, BPop, IdleThread, Thread, TypeOK
  <2> QED
    BY <2>1, <2>2
<1>8. ASSUME NEW c \in Clients, Signal(c)
      PROVE  \A d \in Clients : t'[d].pc = "save" => t[d].pc = "save" /\ t'[d].key = t[d].key
  <2>1. \A d \in Clients \ {c} : t'[d] = t[d]
    BY <1>1, <1>8 DEF Signal, TypeOK
  <2>2. t'[c].pc # "save"
    BY <1>1, <1>8, Fields, SMTT(60) DEF Signal, TypeOK, IdleThread, Thread
  <2> QED
    BY <2>1, <2>2
<1>9. ASSUME NEW c \in Clients, SleepSince(c)
      PROVE  \A d \in Clients : t'[d].pc = "save" => t[d].pc = "save" /\ t'[d].key = t[d].key
  <2>1. \A d \in Clients \ {c} : t'[d].pc = t[d].pc /\ t'[d].key = t[d].key
    BY <1>1, <1>9, Fields, SMTT(30) DEF SleepSince, TypeOK
  <2>2. t'[c].pc # "save"
    BY <1>1, <1>9, Fields DEF SleepSince, TypeOK
  <2> QED
    BY <2>1, <2>2
<1>10. CASE UNCHANGED vars
  BY <1>5, <1>10 DEF vars
<1>11. ASSUME NEW c \in Clients, Push(c) PROVE refilled' = {} /\ \A d \in Clients : SaveOK(d)'
  BY <1>3, <1>5, <1>6, <1>8, <1>11 DEF Push, PushLoad, Notify, Signal
<1>12. ASSUME NEW c \in Clients, Pop(c) PROVE refilled' = {} /\ \A d \in Clients : SaveOK(d)'
  BY <1>2, <1>4, <1>5, <1>6, <1>7, <1>9, <1>12 DEF Pop, Version, Woken, Unregister, SleepSince
<1>13. ASSUME NEW c \in Clients, GiveUp(c) \/ Timeout(c) \/ (\E k \in PushKeys : RPush(c, k)) \/ (\E q \in Pops[c] : BPop(c, q))
       PROVE refilled' = {} /\ \A d \in Clients : SaveOK(d)'
  BY <1>5, <1>6, <1>7, <1>13 DEF GiveUp, Timeout, RPush, BPop
<1> QED
  BY <1>10, <1>11, <1>12, <1>13 DEF Next

\* When no two clients block on the same list, no list is ever refilled by a pop, so WakeUpsKept is about
\* every element.
THEOREM NeverRefilled == ASSUME ListsApart PROVE Spec => [](refilled = {})
<1>1. Init => Steady
  BY InitInv, IdleOK DEF Init, Steady, SaveOK
<1>2. Steady /\ [Next]_vars => Steady'
  BY NextInv, SteadyStep DEF Steady
<1>3. Steady => refilled = {}
  BY DEF Steady
<1> QED
  BY <1>1, <1>2, <1>3, PTL DEF Spec

=============================================================================
