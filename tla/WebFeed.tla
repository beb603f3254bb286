------------------------------- MODULE WebFeed -------------------------------
(***************************************************************************)
(* The feed of the web panel (web/app.js): the newest page of the chosen   *)
(* filter, older pages on demand, inserts pushed by the database's         *)
(* Realtime channel, and a catch-up for those the channel missed.  The     *)
(* script runs to its next await without interruption; whatever else there *)
(* is to do comes in between.                                              *)
(***************************************************************************)
EXTENDS Integers, FiniteSets, FiniteSetsExt

CONSTANTS
    NumRow,         \* the rows of the events table, in the order (received_at, event_id)
    At,             \* received_at of each row: those of one post have the same
    Present,        \* the rows that are there when the panel is opened
    Filter,         \* the filters the server applies
    NoFilter,       \* the one of a panel just opened
    Matches,        \* the rows each filter is after
    PageSize,       \* pageSize
    CatchSize,      \* the limit of a catch-up
    NumLoad,        \* bound: loads on their way at a time
    MaxOverlap,     \* bound: transactions that commit ahead of an earlier one
    MaxChange,      \* bound: changes of the filter, and reloads
    MaxFail,        \* bound: requests that fail
    MaxDrop         \* bound: breaks of the channel, and inserts it loses silently

Row == 1..NumRow
Stamp == {At[r] : r \in Row}
Slot == 0..NumLoad      \* slot 0 is catchUp's: it is the flag catchingUp
None == [kind |-> "none"]

ASSUME FeedAssumption ==
    /\ NumRow \in Nat /\ PageSize \in Nat \ {0} /\ NumLoad \in Nat \ {0}
    /\ At \in [Row -> Nat \ {0}]
    /\ \A r, s \in Row : r < s => At[r] <= At[s]
    /\ Present \subseteq Row /\ \A r \in Present, s \in Row : At[s] = At[r] => s \in Present
    /\ NoFilter \in Filter /\ Matches \in [Filter -> SUBSET Row]
    \* A post has fewer rows than a catch-up brings.
    /\ CatchSize \in Nat
    /\ \A t \in Stamp : Cardinality({r \in Row : At[r] = t}) < CatchSize
    /\ MaxOverlap \in Nat /\ MaxChange \in Nat /\ MaxFail \in Nat /\ MaxDrop \in Nat

VARIABLES
    committed,      \* the rows in the database
    channel,        \* the Realtime channel: "none" yet, "down" or "up"
    wire,           \* inserts on the channel
    filter,         \* F
    store,          \* store
    lastRecv,       \* lastRecv, or 0
    cursor,         \* (curRecv, curId), or 0
    reachedEnd,     \* reachedEnd
    moreBusy,       \* loadMoreBtn.disabled
    open,           \* the requests on their way
    lost,           \* history: rows the channel did not bring since the first page was read
    gone,           \* history: those of them that lastRecv has passed
    mixed,          \* history: an answer to an earlier load has been applied
    changes, fails, drops   \* the bounds' counters

page == <<cursor, reachedEnd, moreBusy>>
feed == <<store, lastRecv>>
database == <<committed, channel, wire>>
history == <<lost, gone, mixed>>
counters == <<changes, fails, drops>>
vars == <<database, filter, feed, page, open, history, counters>>
-----------------------------------------------------------------------------
Request(kind, from, f) ==
    [kind |-> kind, from |-> from, filter |-> f, served |-> FALSE, stale |-> FALSE,
     rows |-> {}]

IsHistory(q) == q.kind \in {"boot", "history"}

\* The slot a load takes: the first that is free.
Takes(s) == open[s] = None /\ \A u \in 1..(s - 1) : open[u] # None

\* initApp: the first load is on its way, and the channel is opened after it.
Init ==
    /\ committed = Present /\ channel = "none" /\ wire = {}
    /\ filter = NoFilter
    /\ store = {} /\ lastRecv = 0
    /\ cursor = 0 /\ reachedEnd = FALSE /\ moreBusy = FALSE
    /\ open = [s \in Slot |-> IF s = 1 THEN Request("boot", 0, NoFilter) ELSE None]
    /\ lost = {} /\ gone = {} /\ mixed = FALSE
    /\ changes = 0 /\ fails = 0 /\ drops = 0
-----------------------------------------------------------------------------
(* The database and its Realtime channel.                                    *)

RowsAt(t) == {r \in Row : At[r] = t}
Browser == <<filter, feed, page, open, mixed>>

\* A catch-up will not ask for a row before lastRecv, nor for one that an answer on its
\* way has looked past.
Passed(r) ==
    \/ At[r] < lastRecv
    \/ \E s \in Slot : /\ open[s] # None /\ r \notin open[s].rows
                       /\ \E u \in open[s].rows : At[r] < At[u]

Lose(rows) ==
    /\ lost' = lost \cup {r \in rows : ~Passed(r)}
    /\ gone' = gone \cup {r \in rows : Passed(r)}

\* A post commits; received_at is the time its transaction began, so a row may turn
\* up behind one that is there already.
Commit(t) ==
    /\ RowsAt(t) \cap committed = {}
    /\ Cardinality({u \in Stamp : u < t /\ RowsAt(u) \cap committed = {}}) <= MaxOverlap
    /\ committed' = committed \cup RowsAt(t)
    /\ IF channel = "up"
         THEN wire' = wire \cup RowsAt(t) /\ UNCHANGED <<lost, gone>>
         ELSE Lose(RowsAt(t)) /\ UNCHANGED wire
    /\ UNCHANGED <<channel, Browser, counters>>

\* CHANNEL_ERROR, TIMED_OUT or CLOSED: what is on its way does not come.
ChannelBreaks ==
    /\ channel = "up"
    /\ drops < MaxDrop
    /\ drops' = drops + 1
    /\ channel' = "down"
    /\ wire' = {} /\ Lose(wire)
    /\ UNCHANGED <<committed, Browser, changes, fails>>

\* The channel stops silently, its WebSocket still being alive.
InsertLost(r) ==
    /\ r \in wire
    /\ drops < MaxDrop
    /\ drops' = drops + 1
    /\ wire' = wire \ {r} /\ Lose({r})
    /\ UNCHANGED <<committed, channel, Browser, changes, fails>>
-----------------------------------------------------------------------------
(* The browser's requests.                                                   *)

\* The continuation of loads begun earlier is not called off.
Aged(q) == IF IsHistory(q) \/ q.kind = "more" THEN [q EXCEPT !.stale = TRUE] ELSE q

\* loadHistory, up to its await: the feed is cleared and the first page asked for.
LoadHistory(s, f) ==
    /\ Takes(s)
    /\ filter' = f
    /\ cursor' = 0 /\ reachedEnd' = FALSE
    /\ store' = {}
    /\ open' = [u \in Slot |-> IF u = s THEN Request("history", 0, f) ELSE Aged(open[u])]
    /\ mixed' = FALSE
    /\ UNCHANGED <<lastRecv, moreBusy, lost, gone>>

\* Another filter is chosen, or the feed is reloaded.
ChangeFilter(s, f) ==
    /\ changes < MaxChange
    /\ changes' = changes + 1
    /\ LoadHistory(s, f)
    /\ UNCHANGED <<database, fails, drops>>

LoadMore(s) ==
    /\ Takes(s)
    /\ ~moreBusy /\ ~reachedEnd /\ cursor # 0
    /\ moreBusy' = TRUE
    /\ open' = [open EXCEPT ![s] = Request("more", cursor, filter)]
    /\ UNCHANGED <<database, filter, feed, cursor, reachedEnd, history, counters>>

\* catchUp, up to its await.  While one runs, another does nothing.
CatchUp ==
    IF lastRecv = 0
      THEN LoadHistory(0, filter)
      ELSE /\ open' = [open EXCEPT ![0] = Request("catchup", lastRecv, filter)]
           /\ UNCHANGED <<filter, feed, page, history>>

\* On a timer, and when the tab or the network comes back.
CatchUpTimer ==
    /\ open[0] = None
    /\ CatchUp
    /\ UNCHANGED <<database, counters>>

\* Inserts come from now on, and what was missed is to be caught up.
Subscribed ==
    /\ channel = "down"
    /\ channel' = "up"
    /\ IF open[0] = None THEN CatchUp ELSE UNCHANGED <<filter, feed, page, open, history>>
    /\ UNCHANGED <<committed, wire, counters>>
-----------------------------------------------------------------------------
(* The database answers.                                                     *)

Newest(rows, n) == {r \in rows : Cardinality({u \in rows : u > r}) < n}
Oldest(rows, n) == {r \in rows : Cardinality({u \in rows : u < r}) < n}

\* received_at.lt.cur, or equal and event_id.lt.curId.
Before(r, c) == r < c

\* (Mutant.) Strictly after the last one seen.
AfterLast(q) == Oldest({r \in committed \cap Matches[q.filter] : At[r] > q.from}, CatchSize)

CatchUpRows(q) == Oldest({r \in committed \cap Matches[q.filter] : At[r] >= q.from}, CatchSize)

PageRows(q) ==
    Newest({r \in committed \cap Matches[q.filter] : q.kind = "more" => Before(r, q.from)},
           PageSize)

\* The database reads its rows; the answer is on its way.
Serve(s) ==
    /\ open[s].kind \in {"boot", "history", "more", "catchup"}
    /\ ~open[s].served
    /\ open' = [open EXCEPT ![s].served = TRUE,
                            ![s].rows = IF open[s].kind = "catchup" THEN CatchUpRows(open[s])
                                                                    ELSE PageRows(open[s])]
    /\ IF IsHistory(open[s]) /\ ~open[s].stale
         THEN lost' = {} /\ gone' = {}
         ELSE UNCHANGED <<lost, gone>>
    /\ UNCHANGED <<database, filter, feed, page, mixed, counters>>
-----------------------------------------------------------------------------
(* The browser goes on.                                                      *)

\* (Mutant.) lastRecv is taken from whatever came last.
UpsertLast(rows) ==
    /\ store' = store \cup rows
    /\ lastRecv' = IF rows = {} THEN lastRecv ELSE Max({At[r] : r \in rows})

Upsert(rows) ==
    /\ store' = store \cup rows
    /\ lastRecv' = Max({lastRecv} \cup {At[r] : r \in rows})

\* What is in the feed is not lost; what lastRecv passes may be, for good.
Found(rows) == lost' = lost \ rows /\ gone' = gone \ rows
Overtakes(rows) ==
    LET passed == {r \in lost : At[r] < lastRecv'}
    IN lost' = lost \ (rows \cup passed) /\ gone' = (gone \cup passed) \ rows

Done(s) == open' = [open EXCEPT ![s] = None]

\* The channel is opened when the first load has ended, well or not.
Boot(q) == channel' = IF q.kind = "boot" THEN "down" ELSE channel

\* A page is there and decrypted (applyPage, updateLoadMore).
PageArrives(s) ==
    /\ open[s].kind \in {"boot", "history", "more"}
    /\ open[s].served
    /\ LET q == open[s]
       IN /\ Upsert(q.rows) /\ Found(q.rows)
          /\ cursor' = IF q.rows = {} THEN cursor ELSE Min(q.rows)
          /\ reachedEnd' = (reachedEnd \/ Cardinality(q.rows) < PageSize)
          /\ mixed' = (mixed \/ q.stale)
          /\ Boot(q)
    /\ moreBusy' = FALSE
    /\ Done(s)
    /\ UNCHANGED <<committed, wire, filter, counters>>

\* The rows are merged; catchUp then waits for the list of devices.
CatchUpArrives ==
    /\ open[0].kind = "catchup"
    /\ open[0].served
    /\ LET q == open[0]
       IN /\ Upsert(q.rows)
          /\ IF q.filter = filter THEN Found(q.rows) ELSE Overtakes(q.rows)
    /\ open' = [open EXCEPT ![0] = Request("devices", 0, filter)]
    /\ UNCHANGED <<database, filter, page, mixed, counters>>

DevicesArrive ==
    /\ open[0].kind = "devices"
    /\ Done(0)
    /\ UNCHANGED <<database, filter, feed, page, history, counters>>

\* A query ends in an error: nothing is applied; catchUp still asks for the devices.
QueryFails(s) ==
    /\ open[s].kind \in {"boot", "history", "more", "catchup"}
    /\ fails < MaxFail
    /\ fails' = fails + 1
    /\ open' = [open EXCEPT ![s] = IF open[s].kind = "catchup" THEN Request("devices", 0, filter)
                                                               ELSE None]
    /\ moreBusy' = (moreBusy /\ open[s].kind # "more")
    /\ Boot(open[s])
    /\ UNCHANGED <<committed, wire, filter, feed, cursor, reachedEnd, history, changes, drops>>

\* An insert comes over the channel, whatever the filter; as each is decrypted first,
\* one may overtake another.
Insert(r) ==
    /\ r \in wire
    /\ wire' = wire \ {r}
    /\ Upsert({r}) /\ Overtakes({r})
    /\ UNCHANGED <<committed, channel, filter, page, open, mixed, counters>>
-----------------------------------------------------------------------------
Database == (\E t \in Stamp : Commit(t)) \/ ChannelBreaks \/ (\E r \in Row : InsertLost(r))

User == \E s \in 1..NumLoad : LoadMore(s) \/ (\E f \in Filter : ChangeFilter(s, f))

Answers == (\E s \in Slot : Serve(s) \/ PageArrives(s) \/ QueryFails(s))
           \/ CatchUpArrives \/ DevicesArrive \/ (\E r \in Row : Insert(r))

Next == Database \/ User \/ Answers \/ CatchUpTimer \/ Subscribed

Spec == Init /\ [][Next]_vars
-----------------------------------------------------------------------------
(* What must hold.                                                           *)

\* Every variable has its type; nothing in the feed is newer than lastRecv, and only
\* loads begun before the filter was chosen ask for another.
TypeOK ==
    /\ committed \subseteq Row /\ wire \subseteq committed
    /\ channel \in {"none", "down", "up"}
    /\ channel # "up" => wire = {}
    /\ filter \in Filter
    /\ store \subseteq committed
    /\ lastRecv \in Stamp \cup {0} /\ \A r \in store : At[r] <= lastRecv
    /\ cursor \in Row \cup {0} /\ reachedEnd \in BOOLEAN /\ moreBusy \in BOOLEAN
    /\ \A s \in Slot :
          \/ open[s] = None
          \/ /\ open[s].kind \in {"boot", "history", "more", "catchup", "devices"}
             /\ open[s].kind \in {"catchup", "devices"} => s = 0
             /\ open[s].kind \in {"boot", "history", "more"} /\ ~open[s].stale
                   => open[s].filter = filter
             /\ open[s].rows \subseteq committed
             /\ open[s].served \in BOOLEAN /\ open[s].stale \in BOOLEAN
    /\ lost \subseteq committed /\ gone \subseteq committed /\ mixed \in BOOLEAN
    /\ changes \in 0..MaxChange /\ fails \in 0..MaxFail /\ drops \in 0..MaxDrop

\* The feed has no hole: each row of the filter from the cursor on, or each at all once
\* the end is reached, is in the feed or on the channel, whether it was there before
\* or was inserted during a load or between two pages.  A row the channel did not bring
\* is there too as soon as lastRecv is past it, unless an insert or the catch-up of
\* another filter was first to pass it.  An answer to an earlier load, applied to the
\* present one, voids this.
Owed(r) ==
    /\ r \notin gone
    /\ r \in lost => At[r] < lastRecv
    /\ reachedEnd \/ ~Before(r, cursor)

NoHole ==
    (cursor # 0 \/ reachedEnd) /\ ~mixed =>
        \A r \in committed \cap Matches[filter] : Owed(r) => r \in store \cup wire
=============================================================================
