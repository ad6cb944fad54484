-------------------------------- MODULE Scan --------------------------------
(***************************************************************************)
(* SCAN over the keys of one database (cmd_generic.go): clients iterate    *)
(* page by page through numeric cursors kept in a table of limited size,   *)
(* while other commands create, delete and expire keys.                    *)
(*                                                                         *)
(* Keys are numbers in the order of their encoded names; disk[k] is what   *)
(* the engine holds: nothing, a value of some type, or a value whose       *)
(* deadline has passed and that nobody removed yet.                        *)
(***************************************************************************)
EXTENDS Glob, FiniteSets

CONSTANTS Clients,
          Keys,              \* 1..n
          Names,             \* the name of each key
          Types,
          Filters,           \* of each client: records [pattern, type, count] of SCAN's options
          Disks,             \* what the engine may hold at the start
          MaxCursors,        \* maxScanCursors
          MaxChanges,        \* bound: commands of other clients that change a key
          MaxExpiries,       \* bound: times scanCursorTTL passes over a cursor
          Iterations,        \* bound: how many iterations each client runs
          Patterns, Words,   \* the patterns whose meaning is compared on the words
          NoPattern,
          AnyType            \* no TYPE option

Gone == "gone"
Dead == "dead"               \* expired, still stored

ASSUME TypesAssumption == {Gone, Dead, AnyType} \cap Types = {}
ASSUME LimitAssumption == MaxCursors \in Nat /\ MaxCursors >= 4
ASSUME KeysAssumption == IsFiniteSet(Keys) /\ Keys = 1..Cardinality(Keys)
ASSUME FiltersAssumption == \A c \in Clients : Filters[c] # {} /\ \A f \in Filters[c] : f.count \in Nat \ {0}
ASSUME DisksAssumption == Disks \subseteq [Keys -> Types \cup {Gone, Dead}]

VARIABLES disk,              \* what the engine holds of each key
          next, byID,        \* the cursor table: id -> [key, expired]
          iter,              \* of each client: its iteration and the command it runs
          changes, expiries, \* used up of the bounds
          probe              \* a pattern examined on its own

table == <<next, byID>>
vars == <<disk, table, iter, changes, expiries, probe>>

-----------------------------------------------------------------------------
(* The cursor table.                                                       *)

\* Slip: a full table gives no room back.
allocKeepsAll(key) ==
    /\ next' = next + 1
    /\ byID' = [id \in DOMAIN byID \cup {next + 1} |->
                   IF id = next + 1 THEN [key |-> key, expired |-> FALSE] ELSE byID[id]]

\* At the limit the expired cursors and the older half go; ids only grow.
alloc(key) ==
    LET dropped == {id \in DOMAIN byID : byID[id].expired \/ id < next - MaxCursors \div 2}
        keeps == IF Cardinality(DOMAIN byID) >= MaxCursors THEN DOMAIN byID \ dropped ELSE DOMAIN byID
    IN  /\ next' = next + 1
        /\ byID' = [id \in keeps \cup {next + 1} |->
                       IF id = next + 1 THEN [key |-> key, expired |-> FALSE] ELSE byID[id]]

\* The key to resume after; 0, before every key, when the cursor is unknown or expired.
lookup(id) ==
    IF id \in DOMAIN byID THEN (IF byID[id].expired THEN 0 ELSE byID[id].key) ELSE 0

-----------------------------------------------------------------------------
(* SCAN.  One call is two steps: the engine's iterator sees the keys of    *)
(* the moment it is opened, whether each is alive is looked up later.      *)

TypeAdmits(filter, v) == v \notin {Gone, Dead} /\ filter.type \in {AnyType, v}

\* A client starts an iteration with cursor 0.  matching holds the keys its pattern matches,
\* whole those it may count on.
Begin(c) ==
    /\ iter[c].pc = "idle" /\ iter[c].left > 0
    /\ \E f \in Filters[c] :
           iter' = [iter EXCEPT ![c] =
                       [@ EXCEPT !.pc = "call", !.filter = f, !.cursor = 0, !.got = {},
                                 !.left = iter[c].left - 1,
                                 !.matching = {k \in Keys : match(f.pattern, Names[k])},
                                 !.whole = {k \in Keys : TypeAdmits(f, disk[k])}]]
    /\ UNCHANGED <<disk, table, changes, expiries, probe>>

\* Slip: the seek lands past the key after the last one.
seekPast(start) == {k \in Keys : disk[k] # Gone /\ k > (IF start = 0 THEN 0 ELSE start + 1)}

\* Slip: the seek lands on the key of the cursor itself.
seekAt(start) == {k \in Keys : disk[k] # Gone /\ k >= start}

\* The keys the iterator shows: those stored now, strictly after start.
seek(start) == {k \in Keys : disk[k] # Gone /\ k > start}

\* Slip: a cursor the table does not hold any more is not answered.
ScanKeysFromKnown(c) ==
    LET start == lookup(iter[c].cursor)
    IN  /\ iter[c].pc = "call"
        /\ iter[c].cursor = 0 \/ start # 0
        /\ iter' = [iter EXCEPT ![c] = [@ EXCEPT !.pc = "page", !.snap = [k \in seek(start) |-> disk[k]]]]
        /\ UNCHANGED <<disk, table, changes, expiries, probe>>

\* The cursor is resolved, the clock is read and the iterator is opened.
ScanKeysFrom(c) ==
    LET start == lookup(iter[c].cursor)
    IN  /\ iter[c].pc = "call"
        /\ iter' = [iter EXCEPT ![c] =
                       [@ EXCEPT !.pc = "page",
                                 !.snap = [k \in seek(start) |-> disk[k]],
                                 !.restarted = iter[c].restarted \/ (iter[c].cursor # 0 /\ start = 0)]]
        /\ UNCHANGED <<disk, table, changes, expiries, probe>>

\* The first n keys of S.
firstN(S, n) == {k \in S : Cardinality({j \in S : j < k}) < n}

\* The iterator ran off the end: no key comes after the one that filled the page.
ranOff(snap, hits, count) ==
    Cardinality(hits) < count \/ \A k \in DOMAIN snap : \E h \in firstN(hits, count) : k <= h

\* The keys of the iterator that SCAN answers.  A key that expired during the call still
\* counts if the dict holds it (cached): its deadline is compared with the time of the call.
hitsOf(me, cached) ==
    {k \in DOMAIN me.snap :
        /\ \/ TypeAdmits(me.filter, disk[k])
           \/ k \in cached /\ me.snap[k] # Dead /\ me.filter.type = AnyType
        /\ k \in me.matching}

\* The page is answered and, unless it is the last, a cursor for its last key.  Expired keys
\* that were examined and not in the dict are removed.
answer(c, cached, batch, over) ==
    /\ disk' = [k \in Keys |->
                   IF /\ k \in DOMAIN iter[c].snap \ cached
                      /\ disk[k] = Dead
                      /\ over \/ \E h \in batch : k <= h
                   THEN Gone ELSE disk[k]]
    /\ iter' = [iter EXCEPT ![c] =
                   [@ EXCEPT !.pc = IF over THEN "done" ELSE "call",
                             !.cursor = IF over THEN 0 ELSE next + 1,
                             !.got = iter[c].got \cup batch,
                             !.repeated = iter[c].repeated \/ batch \cap iter[c].got # {},
                             !.snap = <<>>]]
    /\ IF over THEN UNCHANGED table ELSE alloc(CHOOSE h \in batch : \A k \in batch : k <= h)

cmdScan(c) ==
    /\ iter[c].pc = "page"
    /\ \E cached \in SUBSET {k \in DOMAIN iter[c].snap : disk[k] = Dead} :
           \E hits \in {hitsOf(iter[c], cached)} :
               answer(c, cached, firstN(hits, iter[c].filter.count),
                      ranOff(iter[c].snap, hits, iter[c].filter.count))
    /\ UNCHANGED <<changes, expiries, probe>>

\* The client has its keys and may iterate again.
Finish(c) ==
    /\ iter[c].pc = "done"
    /\ iter' = [iter EXCEPT ![c] = [@ EXCEPT !.pc = "idle", !.got = {}, !.whole = {}, !.matching = {},
                                                   !.restarted = FALSE, !.repeated = FALSE]]
    /\ UNCHANGED <<disk, table, changes, expiries, probe>>

-----------------------------------------------------------------------------
(* Everything else that changes the keys, and time.                        *)

\* Another command creates, overwrites or deletes k, or its deadline passes.
Change(k) ==
    /\ changes < MaxChanges /\ changes' = changes + 1
    /\ \E v \in (Types \cup {Gone} \cup (IF disk[k] = Gone THEN {} ELSE {Dead})) \ {disk[k]} :
           /\ disk' = [disk EXCEPT ![k] = v]
           /\ iter' = [c \in Clients |->
                          IF TypeAdmits(iter[c].filter, v) THEN iter[c]
                          ELSE [iter[c] EXCEPT !.whole = @ \ {k}]]
    /\ UNCHANGED <<table, expiries, probe>>

\* scanCursorTTL passes over a cursor and the ones handed out before it.
ExpireCursor(id) ==
    /\ expiries < MaxExpiries /\ expiries' = expiries + 1
    /\ ~byID[id].expired
    /\ byID' = [i \in DOMAIN byID |-> [byID[i] EXCEPT !.expired = @ \/ i <= id]]
    /\ UNCHANGED <<disk, next, iter, changes, probe>>

Init ==
    /\ probe \in Patterns \cup {NoPattern}
    /\ disk \in IF probe = NoPattern THEN Disks ELSE [Keys -> {Gone}]
    /\ next = 0 /\ byID = <<>>
    /\ iter = [c \in Clients |->
                  [pc |-> "idle", left |-> Iterations[c], filter |-> CHOOSE f \in Filters[c] : TRUE,
                   cursor |-> 0, snap |-> <<>>, got |-> {}, matching |-> {}, whole |-> {},
                   restarted |-> FALSE, repeated |-> FALSE]]
    /\ changes = 0 /\ expiries = 0

\* The next page of an iteration that has begun.
Page(c) == probe = NoPattern /\ (ScanKeysFrom(c) \/ cmdScan(c))

Next ==
    /\ probe = NoPattern
    /\ \/ \E c \in Clients : Begin(c) \/ Page(c) \/ Finish(c)
       \/ \E k \in Keys : Change(k)
       \/ \E id \in DOMAIN byID : ExpireCursor(id)

\* A client keeps asking for the next page, and the server answers it.
Spec == Init /\ [][Next]_vars /\ \A c \in Clients : WF_vars(Page(c))

-----------------------------------------------------------------------------

\* The table has the shape scanCursorTable gives it, and no more than maxScanCursors
\* entries; the cursors of the newest half are in it, so none of them is lost to the limit.
CursorTable ==
    /\ next \in Nat
    /\ DOMAIN byID \subseteq 1..next
    /\ \A id \in DOMAIN byID : byID[id].key \in Keys /\ byID[id].expired \in BOOLEAN
    /\ Cardinality(DOMAIN byID) <= MaxCursors
    /\ \A id \in 1..next : id > next - MaxCursors \div 2 => id \in DOMAIN byID \/ expiries > 0

\* An iteration that has come back to cursor 0 has returned every key that was there, with
\* the wanted type and name, from its first call to its last (the comment of cmdScan), and
\* no key of another name: whatever the other commands did, and however often the cursor
\* was lost and the scan began again.
ScanComplete ==
    \A c \in Clients : iter[c].pc = "done" =>
        /\ {k \in iter[c].whole : Means(iter[c].filter.pattern, Names[k])} \subseteq iter[c].got
        /\ \A k \in iter[c].got : Means(iter[c].filter.pattern, Names[k])

\* A key comes twice only after a lost cursor made the scan begin again.
RepeatsOnlyAfterRestart == \A c \in Clients : iter[c].repeated => iter[c].restarted

\* A pattern matches what it means, however its runs are searched (match, matchAt and
\* matchClass of glob.go); one with more than maxStarCount stars matches nothing.
GlobCorrect ==
    probe # NoPattern =>
        \A w \in Words :
            match(probe, w) <=> /\ Cardinality({i \in DOMAIN probe : probe[i] = Star}) <= MaxStars
                               /\ Means(probe, w)

\* Every iteration comes back to cursor 0, with other clients taking cursors and keys
\* coming and going meanwhile.
ScanEnds == \A c \in Clients : iter[c].pc \in {"call", "page"} ~> iter[c].pc = "done"

=============================================================================
