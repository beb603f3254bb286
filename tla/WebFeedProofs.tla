--------------------------- MODULE WebFeedProofs ----------------------------
(***************************************************************************)
(* The feed of the web panel has no hole, for every table of events, every *)
(* set of filters and page size and any number of loads, breaks of the     *)
(* channel and lost inserts (web/app.js).                                  *)
(***************************************************************************)
EXTENDS WebFeed, FiniteSetTheorems, WellFoundedInduction, TLAPS

-----------------------------------------------------------------------------
(* The invariant.                                                            *)

Ask == [kind : {"boot", "history", "more", "catchup", "devices"}, from : Nat,
        filter : Filter, served : BOOLEAN, stale : BOOLEAN, rows : SUBSET Row]

IsPage(q) == IsHistory(q) \/ q.kind = "more"
Current(q) == IsPage(q) /\ ~q.stale

DataOK ==
    /\ committed \subseteq Row /\ wire \subseteq committed
    /\ channel \in {"none", "down", "up"} /\ (channel # "up" => wire = {})
    /\ lost \subseteq committed /\ gone \subseteq committed

FeedOK ==
    /\ filter \in Filter
    /\ store \subseteq committed /\ lastRecv \in Stamp \cup {0}
    /\ \A r \in store : At[r] <= lastRecv

PageOK ==
    /\ cursor \in Row \cup {0} /\ (cursor # 0 => At[cursor] <= lastRecv)
    /\ reachedEnd \in BOOLEAN /\ moreBusy \in BOOLEAN /\ mixed \in BOOLEAN

AskOK(s, q) ==
    /\ q \in Ask /\ q.rows \subseteq committed
    /\ q.kind \in {"catchup", "devices"} => s = 0
    /\ q.kind = "catchup" => q.from <= lastRecv
    /\ Current(q) => q.filter = filter

OpenOK ==
    /\ open \in [Slot -> Ask \cup {None}]
    /\ \A s \in Slot : open[s] # None => AskOK(s, open[s])

CountOK == changes \in 0..MaxChange /\ fails \in 0..MaxFail /\ drops \in 0..MaxDrop

TInv == DataOK /\ FeedOK /\ PageOK /\ OpenOK /\ CountOK

\* While the first load is on its way, there is no channel.
BootOK == \A s \in Slot : open[s].kind = "boot" => s = 1 /\ channel = "none"

\* What the feed owes: a row the channel did not bring is owed once lastRecv is past
\* it, unless it was passed over for good.
Due(r) == r \notin gone /\ (r \in lost => At[r] < lastRecv)
There(r) == r \in store \cup wire

Covers(c) ==
    \A r \in committed \cap Matches[filter] : c <= r /\ Due(r) => There(r)

\* An answer on its way will make lastRecv pass the rows it has overtaken.
Overtaken(q, r) == \E u \in q.rows : At[r] < At[u]
Reaches(q, r) == Cardinality(q.rows) < PageSize \/ \E u \in q.rows : u <= r

PageCovers(q) ==
    \A r \in committed \cap Matches[filter] :
        Reaches(q, r) /\ (Due(r) \/ (r \notin gone /\ Overtaken(q, r)))
            => r \in q.rows \/ There(r)

\* An older page goes on where the feed has no hole.
MoreFits(q) ==
    /\ q.from \in Row /\ At[q.from] <= lastRecv /\ Covers(q.from)
    /\ \A u \in q.rows : u < q.from

\* A catch-up overtakes no lost row of its filter that is not caught up already.
CatchUpFits(q) ==
    \A r \in lost \cap Matches[q.filter] :
        r \notin q.rows /\ Overtaken(q, r) => At[r] < lastRecv

\* The first page is asked for with the feed empty, and by one request.
Alone(s) ==
    /\ cursor = 0 /\ ~reachedEnd
    /\ \A u \in Slot \ {s} : ~Current(open[u])

FeedCovers == (cursor # 0 => Covers(cursor)) /\ (reachedEnd => Covers(0))

PageFits(s) ==
    /\ IsHistory(open[s]) => Alone(s)
    /\ open[s].kind = "more" => MoreFits(open[s])
    /\ open[s].served => PageCovers(open[s])

PagesFit == \A s \in Slot : Current(open[s]) => PageFits(s)
CatchUpsFit == \A s \in Slot : open[s].kind = "catchup" /\ open[s].served => CatchUpFits(open[s])

HInv == (~mixed => FeedCovers /\ PagesFit) /\ CatchUpsFit
IInv == TInv /\ BootOK /\ HInv
-----------------------------------------------------------------------------
(* Finite sets of numbers.                                                   *)

\* A set of numbers that is not empty has a least one, and if it is bounded a
\* greatest one.
LEMMA LeastOf ==
    ASSUME NEW S \in SUBSET Nat, S # {}
    PROVE  \E x \in S : \A y \in S : x <= y
<1>1. PICK x \in S : \A y \in S : ~ (<<y, x>> \in OpToRel(<, Nat))
  BY NatLessThanWellFounded, WFMin
<1>2. \A y \in S : ~ (y < x)
  BY <1>1 DEF OpToRel
<1> QED
  BY <1>2

LEMMA GreatestOf ==
    ASSUME NEW S \in SUBSET Nat, S # {}, NEW b \in Nat, \A x \in S : x <= b
    PROVE  \E x \in S : \A y \in S : y <= x
<1> DEFINE T == {b - x : x \in S}
<1>1. T \in SUBSET Nat /\ T # {}
  <2>1. \A x \in S : b - x \in Nat
    OBVIOUS
  <2> QED
    BY <2>1, Zenon
<1>2. PICK t \in T : \A u \in T : t <= u
  <2> HIDE DEF T
  <2> QED
    BY <1>1, LeastOf
<1>3. PICK x \in S : t = b - x
  BY <1>2
<1>4. \A y \in S : y <= x
  BY <1>2, <1>3
<1> QED
  BY <1>4

LEMMA MinIs ==
    ASSUME NEW S \in SUBSET Nat, S # {}
    PROVE  Min(S) \in S /\ \A y \in S : Min(S) <= y
BY LeastOf DEF Min

LEMMA MaxIs ==
    ASSUME NEW S \in SUBSET Nat, S # {}, NEW b \in Nat, \A x \in S : x <= b
    PROVE  Max(S) \in S /\ \A y \in S : y <= Max(S)
<1>1. \E x \in S : \A y \in S : x >= y
  BY GreatestOf
<1> QED
  BY <1>1 DEF Max

\* The rows.
LEMMA RowsFinite == \A S \in SUBSET Row : IsFiniteSet(S) /\ Cardinality(S) \in Nat
<1>1. IsFiniteSet(Row)
  BY FeedAssumption, FS_Interval DEF Row
<1> QED
  BY <1>1, FS_Subset, FS_CardinalityType

LEMMA RowsAreNumbers == Row \subseteq Nat /\ \A r \in Row : At[r] \in Nat \ {0}
BY FeedAssumption DEF Row

\* The newest are closed upwards: a row newer than one of them is one of them.
LEMMA NewestUp ==
    ASSUME NEW S \in SUBSET Row, NEW n \in Nat, NEW u \in Newest(S, n), NEW r \in S, u <= r
    PROVE  r \in Newest(S, n)
<1>1. u \in S /\ {v \in S : v > r} \subseteq {v \in S : v > u}
  <2>1. u \in S
    BY DEF Newest
  <2>2. u \in Nat /\ r \in Nat /\ S \subseteq Nat
    BY <2>1, RowsAreNumbers
  <2>3. \A v \in S : v > r => v > u
    BY <2>2
  <2> QED
    BY <2>1, <2>3, Zenon
<1>2. /\ Cardinality({v \in S : v > r}) <= Cardinality({v \in S : v > u})
      /\ Cardinality({v \in S : v > r}) \in Nat /\ Cardinality({v \in S : v > u}) \in Nat
  <2>1. {v \in S : v > u} \in SUBSET Row /\ {v \in S : v > r} \in SUBSET Row
    OBVIOUS
  <2> QED
    BY <1>1, <2>1, RowsFinite, FS_Subset
<1> QED
  BY <1>2 DEF Newest

LEMMA OldestDown ==
    ASSUME NEW S \in SUBSET Row, NEW n \in Nat, NEW u \in Oldest(S, n), NEW r \in S, r <= u
    PROVE  r \in Oldest(S, n)
<1>1. u \in S /\ {v \in S : v < r} \subseteq {v \in S : v < u}
  <2>1. u \in S
    BY DEF Oldest
  <2>2. u \in Nat /\ r \in Nat /\ S \subseteq Nat
    BY <2>1, RowsAreNumbers
  <2>3. \A v \in S : v < r => v < u
    BY <2>2
  <2> QED
    BY <2>1, <2>3, Zenon
<1>2. /\ Cardinality({v \in S : v < r}) <= Cardinality({v \in S : v < u})
      /\ Cardinality({v \in S : v < r}) \in Nat /\ Cardinality({v \in S : v < u}) \in Nat
  <2>1. {v \in S : v < u} \in SUBSET Row /\ {v \in S : v < r} \in SUBSET Row
    OBVIOUS
  <2> QED
    BY <1>1, <2>1, RowsFinite, FS_Subset
<1> QED
  BY <1>2 DEF Oldest

\* A page that is not full has all there is.
LEMMA NewestFew ==
    ASSUME NEW S \in SUBSET Row, NEW n \in Nat, Cardinality(Newest(S, n)) < n
    PROVE  Newest(S, n) = S
<1> DEFINE Left == S \ Newest(S, n)
<1> SUFFICES ASSUME Left # {} PROVE FALSE
  BY DEF Newest
<1>1. PICK r \in Left : \A y \in Left : y <= r
  <2>1. Left \in SUBSET Nat /\ NumRow \in Nat /\ \A x \in Left : x <= NumRow
    <3>1. Left \subseteq Row
      OBVIOUS
    <3> HIDE DEF Left
    <3> QED
      BY <3>1, FeedAssumption DEF Row
  <2> HIDE DEF Left
  <2> QED
    BY <2>1, GreatestOf
<1>2. {u \in S : u > r} \subseteq Newest(S, n)
  <2>1. S \subseteq Nat
    BY RowsAreNumbers
  <2>2. \A v \in S : v > r => v \notin Left
    BY <1>1, <2>1
  <2> QED
    BY <2>2, Zenon
<1>3. Cardinality({u \in S : u > r}) <= Cardinality(Newest(S, n))
  BY <1>2, RowsFinite, FS_Subset DEF Newest
<1>4. ~(Cardinality({u \in S : u > r}) < n)
  BY DEF Newest
<1>5. /\ Cardinality({u \in S : u > r}) \in Nat /\ Cardinality(Newest(S, n)) \in Nat
  <2>1. {u \in S : u > r} \in SUBSET Row /\ Newest(S, n) \in SUBSET Row
    BY DEF Newest
  <2> QED
    BY <2>1, RowsFinite
<1> QED
  BY <1>3, <1>4, <1>5
-----------------------------------------------------------------------------
(* Types.                                                                    *)

LEMMA RequestIsAsk ==
    ASSUME NEW k \in {"boot", "history", "more", "catchup", "devices"}, NEW x \in Nat,
           NEW f \in Filter
    PROVE  /\ Request(k, x, f) \in Ask /\ Request(k, x, f) # None
           /\ Request(k, x, f).kind = k /\ Request(k, x, f).from = x
           /\ Request(k, x, f).filter = f /\ ~Request(k, x, f).served
           /\ ~Request(k, x, f).stale /\ Request(k, x, f).rows = {}
<1>1. Request(k, x, f) \in Ask
  BY DEF Request, Ask
<1> QED
  BY <1>1 DEF Request, None

LEMMA NoneIs == None.kind = "none" /\ ~Current(None) /\ ~IsHistory(None) /\ None \notin Ask
<1>1. \A q \in Ask : q.kind # "none"
  BY DEF Ask
<1>2. None.kind = "none"
  BY DEF None
<1> QED
  BY <1>1, <1>2 DEF Current, IsPage, IsHistory

\* A request in a slot has its type.
LEMMA AskIs ==
    ASSUME OpenOK, NEW s \in Slot, open[s].kind # "none"
    PROVE  open[s] # None /\ AskOK(s, open[s]) /\ open[s] \in Ask
BY NoneIs DEF OpenOK, AskOK

\* Rows are merged into the feed.
LEMMA UpsertIs ==
    ASSUME lastRecv \in Stamp \cup {0}, NEW rows \in SUBSET Row, Upsert(rows)
    PROVE  /\ store' = store \cup rows
           /\ lastRecv' \in Stamp \cup {0} /\ lastRecv <= lastRecv'
           /\ lastRecv' \in Nat /\ lastRecv \in Nat
           /\ \A r \in rows : At[r] <= lastRecv'
           /\ lastRecv' = lastRecv \/ \E u \in rows : At[u] = lastRecv'
<1> DEFINE S == {lastRecv} \cup {At[r] : r \in rows}
<1>1. lastRecv \in Nat /\ Stamp \subseteq Nat
  BY RowsAreNumbers DEF Stamp
<1>2. S \in SUBSET Nat /\ S # {}
  BY <1>1, RowsAreNumbers
<1>3. \E b \in Nat : \A x \in S : x <= b
  <2>1. CASE rows = {}
    BY <1>1, <2>1
  <2>2. CASE rows # {}
    <3>1. NumRow \in Row /\ \A r \in rows : At[r] <= At[NumRow]
      <4>1. NumRow \in Row /\ NumRow \in Nat
        <5>1. PICK r \in rows : r \in Row
          BY <2>2
        <5>2. NumRow \in Nat
          BY FeedAssumption
        <5> QED
          BY <5>1, <5>2 DEF Row
      <4>2. ASSUME NEW r \in rows PROVE At[r] <= At[NumRow]
        <5>1. r \in Row /\ (r < NumRow \/ r = NumRow)
          BY <4>1 DEF Row
        <5>2. \A q \in Row : q < NumRow => At[q] <= At[NumRow]
          BY <4>1, FeedAssumption
        <5> QED
          BY <4>1, <5>1, <5>2, RowsAreNumbers
      <4> QED
        BY <4>1, <4>2
    <3>2. At[NumRow] \in Nat /\ \A r \in rows : At[r] \in Nat
      BY <3>1, RowsAreNumbers
    <3>3. \A r \in rows : At[r] <= lastRecv + At[NumRow]
      BY <1>1, <3>1, <3>2
    <3>4. lastRecv + At[NumRow] \in Nat /\ lastRecv <= lastRecv + At[NumRow]
      BY <1>1, <3>2
    <3> QED
      BY <3>3, <3>4
  <2> QED
    BY <2>1, <2>2
<1>4. Max(S) \in S /\ \A y \in S : y <= Max(S)
  <2> HIDE DEF S
  <2> QED
    BY <1>2, <1>3, MaxIs
<1>5. store' = store \cup rows /\ lastRecv' = Max(S)
  BY DEF Upsert
<1>6. lastRecv' \in S /\ \A y \in S : y <= lastRecv'
  BY <1>4, <1>5
<1>7. /\ lastRecv' = lastRecv \/ \E u \in rows : At[u] = lastRecv'
      /\ lastRecv <= lastRecv' /\ \A r \in rows : At[r] <= lastRecv'
  BY <1>6
<1> QED
  BY <1>1, <1>5, <1>7 DEF Stamp
LEMMA LastRecvIs == ASSUME FeedOK PROVE lastRecv \in Nat
BY RowsAreNumbers DEF FeedOK, Stamp

\* The requests keep their types while the filter stays and nothing is forgotten.
LEMMA OpenStays ==
    ASSUME TInv, filter' = filter, lastRecv <= lastRecv', lastRecv' \in Nat,
           committed \subseteq committed', open' \in [Slot -> Ask \cup {None}],
           \A s \in Slot : open'[s] = open[s] \/ open'[s] = None \/ AskOK(s, open[s])'
    PROVE  OpenOK'
<1>1. ASSUME NEW s \in Slot, open'[s] # None PROVE AskOK(s, open[s])'
  <2>1. CASE AskOK(s, open[s])'
    BY <2>1
  <2>2. CASE open'[s] = open[s]
    <3>1. AskOK(s, open[s]) /\ open[s] \in Ask
      BY <1>1, <2>2 DEF TInv, OpenOK, AskOK
    <3>2. lastRecv \in Nat /\ open[s].from \in Nat
      BY <3>1, LastRecvIs DEF TInv, Ask
    <3> QED
      BY <2>2, <3>1, <3>2 DEF AskOK
  <2> QED
    BY <1>1, <2>1, <2>2
<1> QED
  BY <1>1 DEF OpenOK

LEMMA LoseIs ==
    ASSUME DataOK, NEW R, R \subseteq committed', committed \subseteq committed', Lose(R)
    PROVE  lost' \subseteq committed' /\ gone' \subseteq committed'
BY DEF DataOK, Lose

LEMMA DatabaseTyped ==
    ASSUME TInv, Database
    PROVE  TInv'
<1>1. UNCHANGED <<filter, store, lastRecv, cursor, reachedEnd, moreBusy, open, mixed>>
  BY DEF Database, Commit, ChannelBreaks, InsertLost, Browser, feed, page
<1>2. committed' \subseteq Row /\ committed \subseteq committed' /\ lastRecv \in Nat
  BY LastRecvIs DEF TInv, DataOK, Database, Commit, ChannelBreaks, InsertLost, RowsAt
<1>3. FeedOK' /\ PageOK'
  BY <1>1, <1>2 DEF TInv, FeedOK, PageOK
<1>4. OpenOK'
  BY <1>1, <1>2, OpenStays DEF TInv, OpenOK
<1>5. DataOK' /\ CountOK'
  <2>1. CASE \E t \in Stamp : Commit(t)
    <3>1. PICK t \in Stamp : Commit(t)
      BY <2>1
    <3>2. CountOK' /\ committed' = committed \cup RowsAt(t) /\ channel' = channel
      BY <3>1 DEF Commit, TInv, CountOK, counters
    <3>3. CASE channel = "up"
      BY <1>2, <3>1, <3>2, <3>3 DEF Commit, TInv, DataOK
    <3>4. CASE channel # "up"
      <4>1. Lose(RowsAt(t)) /\ wire' = wire
        BY <3>1, <3>4 DEF Commit
      <4> QED
        BY <1>2, <3>2, <3>4, <4>1, LoseIs DEF TInv, DataOK
    <3> QED
      BY <3>3, <3>4
  <2>2. CASE ChannelBreaks
    <3>1. Lose(wire) /\ wire' = {} /\ channel' = "down" /\ committed' = committed
      BY <2>2 DEF ChannelBreaks
    <3>2. CountOK'
      BY <2>2, FeedAssumption DEF ChannelBreaks, TInv, CountOK
    <3> QED
      BY <1>2, <3>1, <3>2, LoseIs DEF TInv, DataOK
  <2>3. CASE \E r \in Row : InsertLost(r)
    <3>1. PICK r \in Row : InsertLost(r)
      BY <2>3
    <3>2. /\ Lose({r}) /\ wire' = wire \ {r} /\ r \in wire
          /\ channel' = channel /\ committed' = committed
      BY <3>1 DEF InsertLost
    <3>3. CountOK'
      BY <3>1, FeedAssumption DEF InsertLost, TInv, CountOK
    <3> QED
      BY <1>2, <3>2, <3>3, LoseIs DEF TInv, DataOK
  <2> QED
    BY <2>1, <2>2, <2>3 DEF Database
<1> QED
  BY <1>3, <1>4, <1>5 DEF TInv
LEMMA AgedIs ==
    ASSUME NEW q \in Ask \cup {None}
    PROVE  /\ Aged(q) \in Ask \cup {None} /\ ~Current(Aged(q))
           /\ Aged(q) = None <=> q = None
           /\ Aged(q).kind = q.kind /\ Aged(q).from = q.from /\ Aged(q).served = q.served
           /\ Aged(q).filter = q.filter /\ Aged(q).rows = q.rows
<1>1. CASE q \in Ask /\ IsPage(q)
  <2>1. Aged(q) = [q EXCEPT !.stale = TRUE]
    BY <1>1 DEF Aged, IsPage
  <2>2. Aged(q) \in Ask /\ Aged(q).stale
    BY <1>1, <2>1 DEF Ask
  <2>3. q # None /\ Aged(q) # None
    BY <1>1, <2>2, NoneIs
  <2> QED
    BY <1>1, <2>1, <2>2, <2>3 DEF Ask, Current
<1>2. CASE ~IsPage(q)
  BY <1>2 DEF Aged, IsPage, Current
<1>3. CASE q = None
  BY <1>2, <1>3, NoneIs DEF IsPage
<1> QED
  BY <1>1, <1>2, <1>3

LEMMA LoadHistoryTyped ==
    ASSUME TInv, NEW s \in Slot, NEW f \in Filter, LoadHistory(s, f), committed' = committed
    PROVE  FeedOK' /\ PageOK' /\ OpenOK' /\ UNCHANGED <<lost, gone>>
<1>1. /\ filter' = f /\ store' = {} /\ UNCHANGED <<lastRecv, moreBusy, lost, gone>>
      /\ cursor' = 0 /\ ~reachedEnd' /\ ~mixed' /\ reachedEnd' \in BOOLEAN /\ mixed' \in BOOLEAN
      /\ open' = [u \in Slot |-> IF u = s THEN Request("history", 0, f) ELSE Aged(open[u])]
  BY DEF LoadHistory
<1>2. FeedOK' /\ PageOK'
  BY <1>1 DEF TInv, FeedOK, PageOK
<1>3. \A u \in Slot : Aged(open[u]) \in Ask \cup {None}
  BY AgedIs DEF TInv, OpenOK
<1>4. Request("history", 0, f) \in Ask
  BY RequestIsAsk
<1>5. open' \in [Slot -> Ask \cup {None}]
  BY <1>1, <1>3, <1>4
<1>6. ASSUME NEW u \in Slot, open'[u] # None PROVE AskOK(u, open[u])'
  <2>1. CASE u = s
    <3>1. open'[u] = Request("history", 0, f)
      BY <1>1, <2>1
    <3> QED
      BY <1>1, <3>1, RequestIsAsk DEF AskOK
  <2>2. CASE u # s
    <3>1. open'[u] = Aged(open[u]) /\ open[u] # None /\ open[u] \in Ask
      BY <1>1, <1>6, <2>2, AgedIs DEF TInv, OpenOK
    <3>2. AskOK(u, open[u])
      BY <3>1 DEF TInv, OpenOK
    <3> QED
      BY <1>1, <1>3, <1>6, <3>1, <3>2, AgedIs DEF AskOK
  <2> QED
    BY <2>1, <2>2
<1> QED
  BY <1>1, <1>2, <1>5, <1>6 DEF OpenOK

LEMMA CatchUpTyped ==
    ASSUME TInv, CatchUp, committed' = committed
    PROVE  FeedOK' /\ PageOK' /\ OpenOK' /\ UNCHANGED <<lost, gone>>
<1>0. 0 \in Slot /\ filter \in Filter /\ lastRecv \in Nat
  BY FeedAssumption, LastRecvIs DEF Slot, TInv, FeedOK
<1>1. CASE lastRecv = 0
  BY <1>0, <1>1, LoadHistoryTyped DEF CatchUp
<1>2. CASE lastRecv # 0
  <2>1. /\ UNCHANGED <<filter, store, lastRecv, cursor, reachedEnd, moreBusy, lost, gone, mixed>>
        /\ open' = [open EXCEPT ![0] = Request("catchup", lastRecv, filter)]
    BY <1>2 DEF CatchUp, feed, page, history
  <2>2. open' \in [Slot -> Ask \cup {None}]
    BY <1>0, <2>1, RequestIsAsk DEF TInv, OpenOK
  <2>3. AskOK(0, open[0])'
    <3>1. open'[0] = Request("catchup", lastRecv, filter)
      BY <1>0, <2>1 DEF TInv, OpenOK
    <3> QED
      BY <1>0, <2>1, <3>1, RequestIsAsk DEF AskOK, Current, IsPage, IsHistory
  <2>4. \A s \in Slot \ {0} : open'[s] = open[s]
    BY <2>1 DEF TInv, OpenOK
  <2>5. OpenOK'
    <3>1. \A s \in Slot : open'[s] = open[s] \/ open'[s] = None \/ AskOK(s, open[s])'
      BY <2>3, <2>4
    <3> QED
      BY <1>0, <2>1, <2>2, <3>1, OpenStays
  <2> QED
    BY <2>1, <2>5 DEF TInv, FeedOK, PageOK
<1> QED
  BY <1>1, <1>2

LEMMA BrowserTyped ==
    ASSUME TInv, User \/ CatchUpTimer \/ Subscribed
    PROVE  TInv'
<1>1. CASE \E s \in 1..NumLoad, f \in Filter : ChangeFilter(s, f)
  <2>1. PICK s \in 1..NumLoad, f \in Filter : ChangeFilter(s, f)
    BY <1>1
  <2>2. s \in Slot /\ LoadHistory(s, f) /\ UNCHANGED <<committed, channel, wire>>
    BY <2>1, FeedAssumption DEF ChangeFilter, Slot, database
  <2>3. CountOK'
    BY <2>1, FeedAssumption DEF ChangeFilter, TInv, CountOK
  <2> QED
    BY <2>2, <2>3, LoadHistoryTyped DEF TInv, DataOK
<1>2. CASE \E s \in 1..NumLoad : LoadMore(s)
  <2>1. PICK s \in 1..NumLoad : LoadMore(s)
    BY <1>2
  <2>2. /\ s \in Slot /\ s # 0 /\ cursor # 0 /\ moreBusy'
        /\ open' = [open EXCEPT ![s] = Request("more", cursor, filter)]
        /\ UNCHANGED <<committed, channel, wire, filter, store, lastRecv, cursor, reachedEnd,
                       lost, gone, mixed, changes, fails, drops>>
    BY <2>1, FeedAssumption DEF LoadMore, Slot, database, feed, history, counters
  <2>3. cursor \in Nat /\ filter \in Filter /\ lastRecv \in Nat
    BY <2>2, RowsAreNumbers, LastRecvIs DEF TInv, PageOK, FeedOK
  <2>4. open' \in [Slot -> Ask \cup {None}]
    BY <2>2, <2>3, RequestIsAsk DEF TInv, OpenOK
  <2>5. AskOK(s, open[s])'
    <3>1. open'[s] = Request("more", cursor, filter)
      BY <2>2 DEF TInv, OpenOK
    <3> QED
      BY <2>2, <2>3, <3>1, RequestIsAsk DEF AskOK
  <2>6. OpenOK'
    <3>1. \A u \in Slot : open'[u] = open[u] \/ open'[u] = None \/ AskOK(u, open[u])'
      BY <2>2, <2>5 DEF TInv, OpenOK
    <3> QED
      BY <2>2, <2>3, <2>4, <3>1, OpenStays
  <2>7. moreBusy' \in BOOLEAN
    BY <2>1 DEF LoadMore
  <2> QED
    BY <2>2, <2>6, <2>7 DEF TInv, DataOK, FeedOK, PageOK, CountOK
<1>3. CASE CatchUpTimer
  <2>1. CatchUp /\ UNCHANGED <<committed, channel, wire, changes, fails, drops>>
    BY <1>3 DEF CatchUpTimer, database, counters
  <2> QED
    BY <2>1, CatchUpTyped DEF TInv, DataOK, CountOK
<1>4. CASE Subscribed
  <2>1. /\ channel = "down" /\ channel' = "up"
        /\ UNCHANGED <<committed, wire, changes, fails, drops>>
    BY <1>4 DEF Subscribed, counters
  <2>2. FeedOK' /\ PageOK' /\ OpenOK' /\ UNCHANGED <<lost, gone>>
    <3>1. CASE CatchUp
      BY <2>1, <3>1, CatchUpTyped
    <3>2. CASE UNCHANGED <<filter, feed, page, open, history>>
      <4>1. UNCHANGED <<filter, store, lastRecv, cursor, reachedEnd, moreBusy, open, lost, gone,
                        mixed>>
        BY <3>2 DEF feed, page, history
      <4>2. FeedOK' /\ PageOK' /\ UNCHANGED <<lost, gone>>
        BY <2>1, <4>1 DEF TInv, FeedOK, PageOK
      <4>3. OpenOK'
        BY <2>1, <4>1, LastRecvIs, OpenStays DEF TInv, OpenOK
      <4> QED
        BY <4>2, <4>3
    <3> QED
      BY <1>4, <3>1, <3>2 DEF Subscribed
  <2> QED
    BY <2>1, <2>2 DEF TInv, DataOK, CountOK
<1> QED
  BY <1>1, <1>2, <1>3, <1>4 DEF User
ServeRows(q) == IF q.kind = "catchup" THEN CatchUpRows(q) ELSE PageRows(q)

\* What an answer brings: the request is as before, with rows of the database.
LEMMA ServeIs ==
    ASSUME TInv, NEW s \in Slot, Serve(s)
    PROVE  /\ open[s] \in Ask /\ AskOK(s, open[s]) /\ ~open[s].served
           /\ open[s].kind \in {"boot", "history", "more", "catchup"}
           /\ \A u \in Slot \ {s} : open'[u] = open[u]
           /\ open' \in [Slot -> Ask \cup {None}]
           /\ open'[s] \in Ask /\ open'[s].served /\ open'[s].rows = ServeRows(open[s])
           /\ open'[s].kind = open[s].kind /\ open'[s].from = open[s].from
           /\ open'[s].filter = open[s].filter /\ open'[s].stale = open[s].stale
           /\ ServeRows(open[s]) \subseteq committed
           /\ UNCHANGED <<committed, channel, wire, filter, store, lastRecv, cursor, reachedEnd,
                          moreBusy, mixed, changes, fails, drops>>
           /\ IF IsHistory(open[s]) /\ ~open[s].stale THEN lost' = {} /\ gone' = {}
                                                      ELSE UNCHANGED <<lost, gone>>
<1>1. open[s].kind \in {"boot", "history", "more", "catchup"} /\ ~open[s].served
  BY DEF Serve
<1>2. open[s] \in Ask /\ AskOK(s, open[s])
  BY <1>1, AskIs DEF TInv
<1>3. ServeRows(open[s]) \subseteq committed /\ committed \subseteq Row
  BY DEF ServeRows, CatchUpRows, PageRows, Newest, Oldest, TInv, DataOK
<1>4. open' = [open EXCEPT ![s] = [open[s] EXCEPT !.served = TRUE, !.rows = ServeRows(open[s])]]
  BY DEF Serve, ServeRows, TInv, OpenOK
<1>5. [open[s] EXCEPT !.served = TRUE, !.rows = ServeRows(open[s])] \in Ask
  BY <1>2, <1>3 DEF Ask
<1>6. /\ \A u \in Slot \ {s} : open'[u] = open[u]
      /\ open' \in [Slot -> Ask \cup {None}]
      /\ open'[s] = [open[s] EXCEPT !.served = TRUE, !.rows = ServeRows(open[s])]
  BY <1>4, <1>5 DEF TInv, OpenOK
<1>7. /\ open'[s] \in Ask /\ open'[s].served /\ open'[s].rows = ServeRows(open[s])
      /\ open'[s].kind = open[s].kind /\ open'[s].from = open[s].from
      /\ open'[s].filter = open[s].filter /\ open'[s].stale = open[s].stale
  BY <1>2, <1>5, <1>6 DEF Ask
<1> QED
  BY <1>1, <1>2, <1>3, <1>6, <1>7 DEF Serve, database, feed, page, counters

LEMMA ServeTyped ==
    ASSUME TInv, NEW s \in Slot, Serve(s)
    PROVE  TInv'
<1>1. AskOK(s, open[s])'
  BY ServeIs DEF AskOK, Current, IsPage, IsHistory
<1>2. OpenOK'
  BY <1>1, ServeIs, OpenStays, LastRecvIs DEF TInv
<1>3. lost' \subseteq committed /\ gone' \subseteq committed
  BY ServeIs DEF TInv, DataOK
<1> QED
  BY <1>2, <1>3, ServeIs DEF TInv, DataOK, FeedOK, PageOK, CountOK

\* A page is merged; only the cursor and the end of the feed are new besides.
LEMMA PageArrivesIs ==
    ASSUME TInv, NEW s \in Slot, PageArrives(s)
    PROVE  /\ open[s] \in Ask /\ AskOK(s, open[s]) /\ open[s].served /\ IsPage(open[s])
           /\ open[s].rows \subseteq committed /\ open[s].rows \in SUBSET Row
           /\ Upsert(open[s].rows) /\ Found(open[s].rows)
           /\ cursor' = IF open[s].rows = {} THEN cursor ELSE Min(open[s].rows)
           /\ reachedEnd' = (reachedEnd \/ Cardinality(open[s].rows) < PageSize)
           /\ mixed' = (mixed \/ open[s].stale) /\ ~moreBusy' /\ moreBusy' \in BOOLEAN
           /\ channel' \in {channel, "down"} /\ (channel' # channel => open[s].kind = "boot")
           /\ open' \in [Slot -> Ask \cup {None}] /\ open'[s] = None
           /\ \A u \in Slot \ {s} : open'[u] = open[u]
           /\ UNCHANGED <<committed, wire, filter, changes, fails, drops>>
<1>1. open[s].kind \in {"boot", "history", "more"} /\ open[s].served
  BY DEF PageArrives
<1>2. open[s] \in Ask /\ AskOK(s, open[s])
  BY <1>1, AskIs DEF TInv
<1>3. open' = [open EXCEPT ![s] = None]
  BY DEF PageArrives, Done
<1>4. /\ open' \in [Slot -> Ask \cup {None}] /\ open'[s] = None
      /\ \A u \in Slot \ {s} : open'[u] = open[u]
  BY <1>3 DEF TInv, OpenOK
<1>5. channel' \in {channel, "down"} /\ (channel' # channel => open[s].kind = "boot")
  BY DEF PageArrives, Boot
<1>6. open[s].rows \subseteq committed /\ open[s].rows \in SUBSET Row
  BY <1>2 DEF AskOK, Ask
<1> QED
  BY <1>1, <1>2, <1>4, <1>5, <1>6 DEF PageArrives, IsPage, IsHistory, counters

\* The requests that stay as they are when one has ended.
LEMMA DoneTyped ==
    ASSUME TInv, NEW s \in Slot, filter' = filter, committed' = committed,
           lastRecv <= lastRecv', lastRecv' \in Nat, open' \in [Slot -> Ask \cup {None}],
           \A u \in Slot \ {s} : open'[u] = open[u], open'[s] = None \/ AskOK(s, open[s])'
    PROVE  OpenOK'
<1>1. \A u \in Slot : open'[u] = open[u] \/ open'[u] = None \/ AskOK(u, open[u])'
  OBVIOUS
<1> QED
  BY <1>1, OpenStays

LEMMA PageArrivesTyped ==
    ASSUME TInv, BootOK, NEW s \in Slot, PageArrives(s)
    PROVE  TInv'
<1>1. /\ open[s] \in Ask /\ AskOK(s, open[s]) /\ open[s].served /\ IsPage(open[s])
      /\ open[s].rows \subseteq committed /\ open[s].rows \in SUBSET Row
      /\ Upsert(open[s].rows) /\ Found(open[s].rows)
      /\ cursor' = IF open[s].rows = {} THEN cursor ELSE Min(open[s].rows)
      /\ reachedEnd' = (reachedEnd \/ Cardinality(open[s].rows) < PageSize)
      /\ mixed' = (mixed \/ open[s].stale) /\ ~moreBusy' /\ moreBusy' \in BOOLEAN
      /\ channel' \in {channel, "down"} /\ (channel' # channel => open[s].kind = "boot")
      /\ open' \in [Slot -> Ask \cup {None}] /\ open'[s] = None
      /\ \A u \in Slot \ {s} : open'[u] = open[u]
      /\ UNCHANGED <<committed, wire, filter, changes, fails, drops>>
  BY PageArrivesIs
<1>2. /\ store' = store \cup open[s].rows
      /\ lastRecv' \in Stamp \cup {0} /\ lastRecv <= lastRecv'
      /\ lastRecv' \in Nat /\ lastRecv \in Nat
      /\ \A r \in open[s].rows : At[r] <= lastRecv'
  BY <1>1, UpsertIs DEF TInv, FeedOK
<1>3. \A r \in Row : At[r] \in Nat /\ r \in Nat
  BY RowsAreNumbers
<1>4. DataOK'
  BY <1>1 DEF TInv, DataOK, Found, BootOK
<1>5. FeedOK'
  <2>1. \A r \in store : At[r] <= lastRecv'
    BY <1>2, <1>3 DEF TInv, FeedOK, DataOK
  <2> QED
    BY <1>1, <1>2, <2>1 DEF TInv, FeedOK
<1>6. PageOK'
  <2>1. cursor' \in Row \cup {0} /\ (cursor' # 0 => At[cursor'] <= lastRecv')
    <3>1. CASE open[s].rows = {}
      BY <1>1, <1>2, <1>3, <3>1 DEF TInv, PageOK
    <3>2. CASE open[s].rows # {}
      <4>1. Min(open[s].rows) \in open[s].rows
        BY <1>1, <3>2, MinIs, RowsAreNumbers
      <4> QED
        BY <1>1, <1>2, <3>2, <4>1
    <3> QED
      BY <3>1, <3>2
  <2>2. reachedEnd' \in BOOLEAN /\ mixed' \in BOOLEAN
    <3>1. reachedEnd \in BOOLEAN /\ mixed \in BOOLEAN /\ open[s].stale \in BOOLEAN
      BY <1>1 DEF TInv, PageOK, Ask
    <3> QED
      BY <1>1, <3>1, Zenon
  <2> QED
    BY <1>1, <2>1, <2>2 DEF PageOK
<1>7. OpenOK'
  BY <1>1, <1>2, DoneTyped
<1>8. CountOK'
  BY <1>1 DEF TInv, CountOK
<1> QED
  BY <1>4, <1>5, <1>6, <1>7, <1>8 DEF TInv

\* The rows of a catch-up.
LEMMA CatchUpArrivesIs ==
    ASSUME TInv, CatchUpArrives
    PROVE  /\ 0 \in Slot /\ open[0] \in Ask /\ AskOK(0, open[0])
           /\ open[0].kind = "catchup" /\ open[0].served
           /\ open[0].rows \subseteq committed /\ open[0].rows \in SUBSET Row
           /\ Upsert(open[0].rows)
           /\ IF open[0].filter = filter THEN Found(open[0].rows) ELSE Overtakes(open[0].rows)
           /\ open' \in [Slot -> Ask \cup {None}] /\ open'[0] = Request("devices", 0, filter)
           /\ AskOK(0, open[0])' /\ \A u \in Slot \ {0} : open'[u] = open[u]
           /\ UNCHANGED <<committed, channel, wire, filter, cursor, reachedEnd, moreBusy, mixed,
                          changes, fails, drops>>
<1>0. 0 \in Slot /\ filter \in Filter
  BY FeedAssumption DEF Slot, TInv, FeedOK
<1>1. open[0].kind = "catchup" /\ open[0].served
  BY DEF CatchUpArrives
<1>2. open[0] \in Ask /\ AskOK(0, open[0])
  BY <1>0, <1>1, AskIs DEF TInv
<1>3. open[0].rows \subseteq committed /\ open[0].rows \in SUBSET Row
  BY <1>2 DEF AskOK, Ask
<1>4. open' = [open EXCEPT ![0] = Request("devices", 0, filter)]
  BY DEF CatchUpArrives
<1>5. /\ open' \in [Slot -> Ask \cup {None}] /\ open'[0] = Request("devices", 0, filter)
      /\ \A u \in Slot \ {0} : open'[u] = open[u]
  BY <1>0, <1>4, RequestIsAsk DEF TInv, OpenOK
<1>6. AskOK(0, open[0])'
  BY <1>0, <1>5, RequestIsAsk DEF AskOK, Current, IsPage, IsHistory
<1> QED
  BY <1>0, <1>1, <1>2, <1>3, <1>5, <1>6 DEF CatchUpArrives, database, page, counters

LEMMA MergeTyped ==
    ASSUME TInv, NEW rows, rows \subseteq committed, Upsert(rows), Found(rows) \/ Overtakes(rows),
           wire' \subseteq wire, UNCHANGED <<committed, channel, filter, cursor, reachedEnd,
                                             moreBusy, mixed, changes, fails, drops>>
    PROVE  /\ DataOK' /\ FeedOK' /\ PageOK' /\ CountOK'
           /\ lastRecv <= lastRecv' /\ lastRecv' \in Nat
<1>1. rows \in SUBSET Row
  BY DEF TInv, DataOK
<1>2. /\ store' = store \cup rows
      /\ lastRecv' \in Stamp \cup {0} /\ lastRecv <= lastRecv'
      /\ lastRecv' \in Nat /\ lastRecv \in Nat
      /\ \A r \in rows : At[r] <= lastRecv'
  BY <1>1, UpsertIs DEF TInv, FeedOK
<1>3. \A r \in Row : At[r] \in Nat
  BY RowsAreNumbers
<1>4. lost' \subseteq committed /\ gone' \subseteq committed
  BY DEF Found, Overtakes, TInv, DataOK
<1>5. DataOK'
  BY <1>4 DEF TInv, DataOK
<1>6. FeedOK'
  BY <1>2, <1>3 DEF TInv, FeedOK, DataOK
<1>7. PageOK' /\ CountOK'
  BY <1>2, <1>3 DEF TInv, PageOK, CountOK
<1> QED
  BY <1>2, <1>5, <1>6, <1>7

LEMMA CatchUpArrivesTyped ==
    ASSUME TInv, CatchUpArrives
    PROVE  TInv'
<1>1. DataOK' /\ FeedOK' /\ PageOK' /\ CountOK' /\ lastRecv <= lastRecv' /\ lastRecv' \in Nat
  BY CatchUpArrivesIs, MergeTyped
<1>2. OpenOK'
  BY <1>1, CatchUpArrivesIs, DoneTyped
<1> QED
  BY <1>1, <1>2 DEF TInv

LEMMA InsertTyped ==
    ASSUME TInv, NEW r \in Row, Insert(r)
    PROVE  TInv'
<1>1. /\ r \in wire /\ wire' = wire \ {r} /\ Upsert({r}) /\ Overtakes({r})
      /\ UNCHANGED <<committed, channel, filter, cursor, reachedEnd, moreBusy, open, mixed,
                     changes, fails, drops>>
  BY DEF Insert, page, counters
<1>2. DataOK' /\ FeedOK' /\ PageOK' /\ CountOK' /\ lastRecv <= lastRecv' /\ lastRecv' \in Nat
  BY <1>1, MergeTyped DEF TInv, DataOK
<1>3. OpenOK'
  BY <1>1, <1>2, OpenStays DEF TInv, OpenOK
<1> QED
  BY <1>2, <1>3 DEF TInv

LEMMA QueryFailsIs ==
    ASSUME TInv, NEW s \in Slot, QueryFails(s)
    PROVE  /\ open[s] \in Ask /\ open[s].kind \in {"boot", "history", "more", "catchup"}
           /\ open' \in [Slot -> Ask \cup {None}] /\ \A u \in Slot \ {s} : open'[u] = open[u]
           /\ open'[s] = None \/ (s = 0 /\ open'[s] = Request("devices", 0, filter))
           /\ channel' \in {channel, "down"} /\ (channel' # channel => open[s].kind = "boot")
           /\ open'[s] = None \/ AskOK(s, open[s])'
           /\ moreBusy' \in BOOLEAN /\ fails' \in 0..MaxFail
           /\ UNCHANGED <<committed, wire, filter, store, lastRecv, cursor, reachedEnd, lost, gone,
                          mixed, changes, drops>>
<1>0. filter \in Filter
  BY DEF TInv, FeedOK
<1>1. open[s].kind \in {"boot", "history", "more", "catchup"}
  BY DEF QueryFails
<1>2. open[s] \in Ask /\ AskOK(s, open[s])
  BY <1>1, AskIs DEF TInv
<1>3. open' = [open EXCEPT ![s] = IF open[s].kind = "catchup" THEN Request("devices", 0, filter)
                                                              ELSE None]
  BY DEF QueryFails
<1>4. /\ open' \in [Slot -> Ask \cup {None}] /\ \A u \in Slot \ {s} : open'[u] = open[u]
      /\ open'[s] = IF open[s].kind = "catchup" THEN Request("devices", 0, filter) ELSE None
  BY <1>0, <1>3, RequestIsAsk DEF TInv, OpenOK
<1>5. open'[s] = None \/ (s = 0 /\ open'[s] = Request("devices", 0, filter))
  BY <1>2, <1>4 DEF AskOK
<1>6. open'[s] = None \/ AskOK(s, open[s])'
  BY <1>0, <1>5, RequestIsAsk DEF AskOK, Current, IsPage, IsHistory
<1>7. channel' \in {channel, "down"} /\ (channel' # channel => open[s].kind = "boot")
  BY DEF QueryFails, Boot
<1>8. fails' \in 0..MaxFail
  BY FeedAssumption DEF QueryFails, TInv, CountOK
<1>9. moreBusy' \in BOOLEAN
  BY DEF QueryFails
<1> QED
  BY <1>1, <1>2, <1>4, <1>5, <1>6, <1>7, <1>8, <1>9 DEF QueryFails, feed, history

LEMMA QueryFailsTyped ==
    ASSUME TInv, BootOK, NEW s \in Slot, QueryFails(s)
    PROVE  TInv'
<1>1. OpenOK'
  BY QueryFailsIs, DoneTyped, LastRecvIs DEF TInv
<1>2. DataOK'
  BY QueryFailsIs DEF TInv, DataOK, BootOK
<1> QED
  BY <1>1, <1>2, QueryFailsIs DEF TInv, FeedOK, PageOK, CountOK

LEMMA DevicesArriveTyped ==
    ASSUME TInv, DevicesArrive
    PROVE  TInv' /\ 0 \in Slot /\ open'[0] = None /\ \A u \in Slot \ {0} : open'[u] = open[u]
<1>1. /\ 0 \in Slot /\ open' = [open EXCEPT ![0] = None]
      /\ UNCHANGED <<committed, channel, wire, filter, store, lastRecv, cursor, reachedEnd, moreBusy,
                     lost, gone, mixed, changes, fails, drops>>
  BY FeedAssumption DEF Slot, DevicesArrive, Done, database, feed, page, history, counters
<1>2. /\ open' \in [Slot -> Ask \cup {None}] /\ open'[0] = None
      /\ \A u \in Slot \ {0} : open'[u] = open[u]
  BY <1>1 DEF TInv, OpenOK
<1>3. OpenOK'
  BY <1>1, <1>2, DoneTyped, LastRecvIs DEF TInv
<1> QED
  BY <1>1, <1>2, <1>3 DEF TInv, DataOK, FeedOK, PageOK, CountOK
\* The requests of a load that begins.
LEMMA LoadHistoryIs ==
    ASSUME TInv, NEW s \in Slot, NEW f \in Filter, LoadHistory(s, f)
    PROVE  /\ open'[s] = Request("history", 0, f) /\ Current(open[s])'
           /\ \A u \in Slot \ {s} : /\ ~Current(open[u])' /\ open'[u].kind = open[u].kind
                                    /\ open'[u].served = open[u].served
                                    /\ open'[u].filter = open[u].filter
                                    /\ open'[u].rows = open[u].rows
<1>1. open' = [u \in Slot |-> IF u = s THEN Request("history", 0, f) ELSE Aged(open[u])]
  BY DEF LoadHistory
<1>2. \A u \in Slot : open[u] \in Ask \cup {None}
  BY DEF TInv, OpenOK
<1>3. \A u \in Slot \ {s} : open'[u] = Aged(open[u])
  BY <1>1
<1>4. open'[s] = Request("history", 0, f)
  BY <1>1
<1>5. Current(open[s])'
  BY <1>4, RequestIsAsk DEF Current, IsPage, IsHistory
<1>6. ASSUME NEW u \in Slot \ {s}
      PROVE  /\ ~Current(open[u])' /\ open'[u].kind = open[u].kind
             /\ open'[u].served = open[u].served /\ open'[u].filter = open[u].filter
             /\ open'[u].rows = open[u].rows
  <2>1. open'[u] = Aged(open[u]) /\ ~Current(Aged(open[u]))
    BY <1>2, <1>3, AgedIs
  <2>2. ~Current(open[u])'
    BY <2>1 DEF Current, IsPage, IsHistory
  <2> QED
    BY <1>2, <2>1, <2>2, AgedIs
<1> QED
  BY <1>4, <1>5, <1>6

LEMMA CatchUpIs ==
    ASSUME TInv, CatchUp
    PROVE  /\ 0 \in Slot
           /\ \/ LoadHistory(0, filter)
              \/ /\ open'[0] = Request("catchup", lastRecv, filter)
                 /\ \A u \in Slot \ {0} : open'[u] = open[u]
                 /\ UNCHANGED <<filter, store, lastRecv, cursor, reachedEnd, moreBusy, lost, gone,
                                mixed>>
<1>1. 0 \in Slot
  BY FeedAssumption DEF Slot
<1> QED
  BY <1>1 DEF CatchUp, feed, page, history, TInv, OpenOK

LEMMA BootKeeps ==
    ASSUME BootOK, \A s \in Slot : open'[s].kind = "boot" => open[s].kind = "boot",
           \/ channel' = channel \/ channel # "none"
           \/ \A s \in Slot : open'[s].kind # "boot"
    PROVE  BootOK'
BY DEF BootOK

LEMMA BootStep ==
    ASSUME TInv, BootOK, [Next]_vars
    PROVE  BootOK'
<1>1. CASE Database
  <2>1. open' = open /\ (channel' = channel \/ channel # "none")
    BY <1>1 DEF Database, Commit, ChannelBreaks, InsertLost, Browser
  <2> QED
    BY <2>1, BootKeeps
<1>2. CASE User \/ CatchUpTimer \/ Subscribed
  <2>1. channel' = channel \/ channel # "none"
    BY <1>2 DEF User, LoadMore, ChangeFilter, CatchUpTimer, Subscribed, database
  <2>2. \A s \in Slot : open'[s].kind = "boot" => open[s].kind = "boot"
    <3>1. ASSUME NEW s \in Slot, NEW f \in Filter, LoadHistory(s, f), NEW u \in Slot,
                 open'[u].kind = "boot"
          PROVE  open[u].kind = "boot"
      BY <3>1, LoadHistoryIs, RequestIsAsk
    <3>2. ASSUME CatchUp, NEW u \in Slot, open'[u].kind = "boot" PROVE open[u].kind = "boot"
      <4>1. filter \in Filter /\ lastRecv \in Nat
        BY LastRecvIs DEF TInv, FeedOK
      <4> QED
        BY <3>1, <3>2, <4>1, CatchUpIs, RequestIsAsk
    <3>3. ASSUME NEW s \in 1..NumLoad, LoadMore(s), NEW u \in Slot, open'[u].kind = "boot"
          PROVE  open[u].kind = "boot"
      <4>1. open' = [open EXCEPT ![s] = Request("more", cursor, filter)]
        BY <3>3 DEF LoadMore
      <4>2. Request("more", cursor, filter).kind = "more"
        BY DEF Request
      <4>3. open'[u] = open[u] \/ open'[u] = Request("more", cursor, filter)
        BY <4>1 DEF TInv, OpenOK
      <4> QED
        BY <3>3, <4>2, <4>3
    <3>4. CASE \E s \in 1..NumLoad, f \in Filter : ChangeFilter(s, f)
      BY <3>1, <3>4, FeedAssumption DEF ChangeFilter, Slot
    <3>5. CASE \E s \in 1..NumLoad : LoadMore(s)
      BY <3>3, <3>5
    <3>6. CASE CatchUp
      BY <3>2, <3>6
    <3>7. CASE open' = open
      BY <3>7
    <3> QED
      BY <1>2, <3>4, <3>5, <3>6, <3>7 DEF User, CatchUpTimer, Subscribed
  <2> QED
    BY <2>1, <2>2, BootKeeps
<1>3. ASSUME NEW s \in Slot, Serve(s) PROVE BootOK'
  <2>1. \A u \in Slot : open'[u].kind = open[u].kind
    BY <1>3, ServeIs
  <2> QED
    BY <1>3, <2>1, ServeIs, BootKeeps
<1>4. ASSUME NEW s \in Slot,
             \A u \in Slot \ {s} : open'[u] = open[u], open'[s].kind # "boot",
             channel' = channel \/ open[s].kind = "boot"
      PROVE  BootOK'
  BY <1>4 DEF BootOK
<1>5. Request("devices", 0, filter).kind # "boot" /\ None.kind # "boot"
  BY NoneIs DEF Request
<1>6. ASSUME NEW s \in Slot, PageArrives(s) \/ QueryFails(s) PROVE BootOK'
  BY <1>4, <1>5, <1>6, PageArrivesIs, QueryFailsIs
<1>7. CASE CatchUpArrives
  BY <1>4, <1>5, <1>7, CatchUpArrivesIs
<1>8. CASE DevicesArrive
  <2>1. channel' = channel
    BY <1>8 DEF DevicesArrive, database
  <2> QED
    BY <1>4, <1>5, <1>8, <2>1, DevicesArriveTyped
<1>9. CASE (\E r \in Row : Insert(r)) \/ UNCHANGED vars
  <2>1. open' = open /\ channel' = channel
    BY <1>9 DEF Insert, vars, database
  <2> QED
    BY <2>1, BootKeeps
<1> QED
  BY <1>1, <1>2, <1>3, <1>6, <1>7, <1>8, <1>9 DEF Next, Answers

LEMMA TypedStep ==
    ASSUME TInv, BootOK, [Next]_vars
    PROVE  TInv'
<1>1. CASE UNCHANGED vars
  BY <1>1 DEF vars, database, feed, page, history, counters, TInv, DataOK, FeedOK, PageOK, OpenOK,
              CountOK, AskOK
<1>2. CASE Database
  BY <1>2, DatabaseTyped
<1>3. CASE User \/ CatchUpTimer \/ Subscribed
  BY <1>3, BrowserTyped
<1>4. CASE Answers
  BY <1>4, ServeTyped, PageArrivesTyped, QueryFailsTyped, CatchUpArrivesTyped, DevicesArriveTyped,
     InsertTyped DEF Answers
<1> QED
  BY <1>1, <1>2, <1>3, <1>4 DEF Next

LEMMA TypedInit == Init => TInv /\ BootOK
<1> SUFFICES ASSUME Init PROVE TInv /\ BootOK
  OBVIOUS
<1>1. /\ committed = Present /\ channel = "none" /\ wire = {} /\ filter = NoFilter
      /\ store = {} /\ lastRecv = 0 /\ cursor = 0 /\ reachedEnd = FALSE /\ moreBusy = FALSE
      /\ open = [s \in Slot |-> IF s = 1 THEN Request("boot", 0, NoFilter) ELSE None]
      /\ lost = {} /\ gone = {} /\ mixed = FALSE /\ changes = 0 /\ fails = 0 /\ drops = 0
  BY DEF Init
<1>2. Present \subseteq Row /\ NoFilter \in Filter
  BY FeedAssumption
<1>3. DataOK /\ FeedOK /\ PageOK
  BY <1>1, <1>2 DEF DataOK, FeedOK, PageOK
<1>4. CountOK
  BY <1>1, FeedAssumption DEF CountOK
<1>5. OpenOK
  <2>1. open \in [Slot -> Ask \cup {None}]
    BY <1>1, <1>2, RequestIsAsk
  <2>2. ASSUME NEW s \in Slot, open[s] # None PROVE AskOK(s, open[s])
    <3>1. open[s] = Request("boot", 0, NoFilter)
      BY <1>1, <2>2
    <3> QED
      BY <1>1, <1>2, <3>1, RequestIsAsk DEF AskOK
  <2> QED
    BY <2>1, <2>2 DEF OpenOK
<1>6. BootOK
  BY <1>1, NoneIs DEF BootOK
<1> QED
  BY <1>3, <1>4, <1>5, <1>6 DEF TInv

LEMMA TypedInvariant == Spec => [](TInv /\ BootOK)
BY TypedInit, TypedStep, BootStep, PTL DEF Spec

\* Every variable keeps its type; nothing in the feed is newer than lastRecv, and
\* only a load begun before the filter was chosen asks for another (app.js).
THEOREM FeedTyped == Spec => []TypeOK
<1>1. ASSUME TInv, NEW s \in Slot, open[s] # None
      PROVE  /\ open[s].kind \in {"boot", "history", "more", "catchup", "devices"}
             /\ open[s].kind \in {"catchup", "devices"} => s = 0
             /\ open[s].kind \in {"boot", "history", "more"} /\ ~open[s].stale
                   => open[s].filter = filter
             /\ open[s].rows \subseteq committed
             /\ open[s].served \in BOOLEAN /\ open[s].stale \in BOOLEAN
  <2>1. open[s] \in Ask /\ AskOK(s, open[s])
    BY <1>1 DEF TInv, OpenOK, AskOK
  <2> QED
    BY <2>1 DEF AskOK, Ask, Current, IsPage, IsHistory
<1>2. TInv => TypeOK
  BY <1>1 DEF TInv, DataOK, FeedOK, PageOK, CountOK, TypeOK
<1> QED
  BY <1>2, TypedInvariant, PTL
-----------------------------------------------------------------------------
(* The feed has no hole.                                                     *)

\* A step in which nothing that is owed, or will be owed once an answer on its way has
\* overtaken it, is missed.
Safe(r) ==
    /\ Due(r)' => There(r)' \/ (r \in committed /\ ~There(r) /\ Due(r))
    /\ Passed(r) /\ r \notin gone' => There(r)' \/ (r \in committed /\ ~There(r) /\ r \notin gone)

Steady ==
    /\ filter' = filter /\ lastRecv <= lastRecv' /\ lastRecv' \in Nat
    /\ committed' \subseteq Row /\ lost' \subseteq Row
    /\ \A r \in lost' : r \in lost \/ ~Passed(r)
    /\ \A r \in committed' \cap Matches[filter] : Safe(r)

LEMMA OvertakenPassed ==
    ASSUME TInv, NEW s \in Slot, open[s] # None, NEW r, r \notin open[s].rows, Overtaken(open[s], r)
    PROVE  Passed(r)
BY DEF Passed, Overtaken

LEMMA CoversKeeps ==
    ASSUME Steady, NEW c, Covers(c)
    PROVE  \A r \in committed' \cap Matches[filter] : c <= r /\ Due(r)' => There(r)'
BY DEF Steady, Safe, Covers

LEMMA AskKeeps ==
    ASSUME TInv, Steady, NEW s \in Slot, open[s] # None, open'[s] = open[s]
    PROVE  /\ PageCovers(open[s]) => PageCovers(open[s])'
           /\ MoreFits(open[s]) => MoreFits(open[s])'
           /\ CatchUpFits(open[s]) => CatchUpFits(open[s])'
<1>0. open[s] \in Ask /\ lastRecv \in Nat /\ open[s].rows \subseteq Row
  BY LastRecvIs DEF TInv, OpenOK, AskOK, Ask
<1>1. ASSUME PageCovers(open[s]) PROVE PageCovers(open[s])'
  <2>1. ASSUME NEW r \in committed' \cap Matches[filter], Reaches(open[s], r),
               Due(r)' \/ (r \notin gone' /\ Overtaken(open[s], r)), r \notin open[s].rows
        PROVE  There(r)'
    <3>1. Safe(r)
      BY DEF Steady
    <3>2. CASE Due(r)'
      BY <1>1, <2>1, <3>1, <3>2 DEF PageCovers, Safe
    <3>3. CASE r \notin gone' /\ Overtaken(open[s], r)
      <4>1. Passed(r)
        BY <2>1, <3>3, OvertakenPassed
      <4> QED
        BY <1>1, <2>1, <3>1, <3>3, <4>1 DEF PageCovers, Safe
    <3> QED
      BY <2>1, <3>2, <3>3
  <2>2. filter' = filter
    BY DEF Steady
  <2> QED
    BY <2>1, <2>2 DEF PageCovers, Reaches, Overtaken
<1>2. ASSUME MoreFits(open[s]) PROVE MoreFits(open[s])'
  <2>1. Covers(open[s].from)
    BY <1>2 DEF MoreFits
  <2>2. \A r \in committed' \cap Matches[filter] : open[s].from <= r /\ Due(r)' => There(r)'
    BY <2>1, CoversKeeps
  <2>3. Covers(open[s].from)'
    BY <2>2 DEF Covers, Steady
  <2>4. At[open[s].from] \in Nat
    BY <1>2, RowsAreNumbers DEF MoreFits
  <2> QED
    BY <1>0, <1>2, <2>3, <2>4 DEF MoreFits, Steady
<1>3. ASSUME CatchUpFits(open[s]) PROVE CatchUpFits(open[s])'
  <2>1. ASSUME NEW r \in lost' \cap Matches[open[s].filter],
               r \notin open[s].rows, Overtaken(open[s], r), r \in Row
        PROVE  At[r] < lastRecv'
    <3>1. Passed(r)
      BY <2>1, OvertakenPassed
    <3>2. r \in lost
      BY <2>1, <3>1 DEF Steady
    <3>3. At[r] < lastRecv
      BY <1>3, <2>1, <3>2 DEF CatchUpFits
    <3> QED
      BY <1>0, <2>1, <3>3, RowsAreNumbers DEF Steady
  <2>2. lost' \subseteq Row
    BY DEF Steady
  <2> QED
    BY <2>1, <2>2 DEF CatchUpFits, Overtaken
<1> QED
  BY <1>1, <1>2, <1>3
\* A slot whose request covers nothing.
Still(s) == ~Current(open[s]) /\ ~(open[s].kind = "catchup" /\ open[s].served)

LEMMA CoversStay ==
    ASSUME Steady, NEW c, Covers(c), c' = c
    PROVE  Covers(c)'
<1>1. \A r \in committed' \cap Matches[filter] : c <= r /\ Due(r)' => There(r)'
  BY CoversKeeps
<1> QED
  BY <1>1 DEF Covers, Steady

LEMMA SlotKeeps ==
    ASSUME TInv, HInv, Steady, NEW s \in Slot, open'[s] = open[s]
    PROVE  /\ Current(open[s])' => Current(open[s]) /\ open[s] # None
           /\ ~mixed /\ Current(open[s]) =>
                 /\ open[s].kind = "more" => MoreFits(open[s])'
                 /\ open[s].served => PageCovers(open[s])'
           /\ open[s].kind = "catchup" /\ open[s].served => CatchUpFits(open[s])'
<1>1. Current(open[s])' => Current(open[s])
  BY DEF Current, IsPage, IsHistory
<1>2. Current(open[s]) \/ open[s].kind = "catchup" => open[s] # None
  BY NoneIs
<1>3. ~mixed /\ Current(open[s]) =>
          /\ open[s].kind = "more" => MoreFits(open[s])
          /\ open[s].served => PageCovers(open[s])
  BY DEF HInv, PagesFit, PageFits
<1>4. open[s].kind = "catchup" /\ open[s].served => CatchUpFits(open[s])
  BY DEF HInv, CatchUpsFit
<1> QED
  BY <1>1, <1>2, <1>3, <1>4, AskKeeps

LEMMA CatchUpsKeep ==
    ASSUME TInv, HInv, Steady,
           \A s \in Slot : open'[s] = open[s] \/ ~(open'[s].kind = "catchup" /\ open'[s].served)
    PROVE  CatchUpsFit'
BY SlotKeeps DEF CatchUpsFit

LEMMA FeedKeeps ==
    ASSUME HInv, Steady, ~mixed, UNCHANGED <<cursor, reachedEnd>>
    PROVE  FeedCovers'
<1>1. FeedCovers
  BY DEF HInv
<1>2. (cursor # 0 => Covers(cursor)') /\ (reachedEnd => Covers(0)')
  BY <1>1, CoversStay DEF FeedCovers
<1> QED
  BY <1>2 DEF FeedCovers

\* A step in which no load begins, is answered or ends well.
LEMMA SteadyKeeps ==
    ASSUME TInv, HInv, Steady, UNCHANGED <<cursor, reachedEnd, mixed>>,
           \A s \in Slot : open'[s] = open[s] \/ Still(s)'
    PROVE  HInv'
<1>1. ~mixed => FeedCovers'
  BY FeedKeeps
<1>2. ASSUME ~mixed, NEW s \in Slot, Current(open[s])' PROVE PageFits(s)'
  <2>1. open'[s] = open[s] /\ Current(open[s])
    BY <1>2, SlotKeeps DEF Still
  <2>2. /\ open[s].kind = "more" => MoreFits(open[s])'
        /\ open[s].served => PageCovers(open[s])'
    BY <1>2, <2>1, SlotKeeps
  <2>3. ASSUME IsHistory(open[s]) PROVE Alone(s)'
    <3>1. Alone(s)
      BY <1>2, <2>1, <2>3 DEF HInv, PagesFit, PageFits
    <3>2. ASSUME NEW u \in Slot \ {s} PROVE ~Current(open[u])'
      BY <3>1, SlotKeeps DEF Alone, Still
    <3> QED
      BY <3>1, <3>2 DEF Alone
  <2> QED
    BY <2>1, <2>2, <2>3 DEF PageFits, IsHistory
<1>3. CatchUpsFit'
  BY CatchUpsKeep DEF Still
<1> QED
  BY <1>1, <1>2, <1>3 DEF HInv, PagesFit
LEMMA IdleSteady ==
    ASSUME TInv, UNCHANGED <<committed, wire, filter, store, lastRecv, lost, gone>>
    PROVE  Steady
<1>1. lastRecv \in Nat /\ committed \subseteq Row /\ lost \subseteq Row
  BY LastRecvIs DEF TInv, DataOK
<1> QED
  BY <1>1 DEF Steady, Safe, Due, There

LEMMA LoseSteady ==
    ASSUME TInv, TInv', NEW R, Lose(R), R \subseteq committed', UNCHANGED <<filter, store, lastRecv>>,
           wire \ R \subseteq wire', committed' \subseteq committed \cup wire' \cup R
    PROVE  Steady
<1>1. lastRecv \in Nat /\ committed' \subseteq Row /\ lost' \subseteq Row
  BY LastRecvIs DEF TInv, DataOK
<1>2. /\ lost' = lost \cup {r \in R : ~Passed(r)}
      /\ gone' = gone \cup {r \in R : Passed(r)}
  BY DEF Lose
<1>3. \A r \in Row : ~Passed(r) => ~(At[r] < lastRecv)
  BY DEF Passed
<1>4. ASSUME NEW r \in committed' PROVE Safe(r)
  <2>1. CASE r \in R /\ Passed(r)
    BY <1>2, <2>1 DEF Safe, Due
  <2>2. CASE r \in R /\ ~Passed(r)
    <3>1. r \in lost' /\ ~(At[r] < lastRecv')
      BY <1>1, <1>2, <1>3, <2>2
    <3> QED
      BY <2>2, <3>1 DEF Safe, Due
  <2>3. CASE r \notin R
    <3>1. (r \in lost' <=> r \in lost) /\ (r \in gone' <=> r \in gone)
      BY <1>2, <2>3
    <3>2. There(r) => There(r)'
      BY <2>3 DEF There
    <3>3. r \in committed \/ There(r)'
      BY <2>3 DEF There
    <3> QED
      BY <3>1, <3>2, <3>3 DEF Safe, Due
  <2> QED
    BY <2>1, <2>2, <2>3
<1>5. \A r \in lost' : r \in lost \/ ~Passed(r)
  BY <1>2
<1> QED
  BY <1>1, <1>4, <1>5 DEF Steady

LEMMA MergeSteady ==
    ASSUME TInv, TInv', NEW R, R \subseteq committed, Upsert(R), wire \ R \subseteq wire',
           UNCHANGED <<committed, filter>>,
           \/ Overtakes(R)
           \/ Found(R) /\ \A r \in (lost \cap Matches[filter]) \ R :
                              At[r] < lastRecv' => At[r] < lastRecv
    PROVE  Steady
<1>1. /\ lastRecv \in Nat /\ lastRecv' \in Nat /\ lastRecv <= lastRecv'
      /\ committed' \subseteq Row /\ lost' \subseteq Row /\ store' = store \cup R
  <2>1. R \in SUBSET Row
    BY DEF TInv, DataOK
  <2> QED
    BY <2>1, UpsertIs DEF TInv, DataOK, FeedOK
<1>2. lost' \subseteq lost /\ gone \subseteq gone' \cup R /\ R \cap lost' = {}
  BY DEF Overtakes, Found
<1>3. ASSUME NEW r \in committed \cap Matches[filter] PROVE Safe(r)
  <2>1. CASE r \in R
    BY <1>1, <2>1 DEF Safe, There
  <2>2. CASE r \notin R
    <3>1. There(r) => There(r)'
      BY <1>1, <2>2 DEF There
    <3>2. r \notin gone' => r \notin gone
      BY <1>2, <2>2
    <3>3. ASSUME r \notin gone', r \in lost, r \in lost' => At[r] < lastRecv' PROVE At[r] < lastRecv
      <4>1. CASE Overtakes(R)
        BY <2>2, <3>3, <4>1 DEF Overtakes
      <4>2. CASE Found(R) /\ \A q \in (lost \cap Matches[filter]) \ R :
                              At[q] < lastRecv' => At[q] < lastRecv
        BY <2>2, <3>3, <4>2 DEF Found
      <4> QED
        BY <4>1, <4>2
    <3> QED
      BY <3>1, <3>2, <3>3 DEF Safe, Due
  <2> QED
    BY <2>1, <2>2
<1> QED
  BY <1>1, <1>2, <1>3 DEF Steady
\* The database, a lost insert, a break of the channel.
LEMMA DatabaseKeeps ==
    ASSUME TInv, TInv', HInv, Database
    PROVE  HInv'
<1>1. UNCHANGED <<filter, store, lastRecv, cursor, reachedEnd, open, mixed>>
  BY DEF Database, Commit, ChannelBreaks, InsertLost, Browser, feed, page
<1>2. Steady
  <2>1. CASE \E t \in Stamp : Commit(t)
    <3>1. PICK t \in Stamp : Commit(t)
      BY <2>1
    <3>2. committed' = committed \cup RowsAt(t)
      BY <3>1 DEF Commit
    <3>3. CASE channel = "up"
      <4>1. wire' = wire \cup RowsAt(t) /\ Lose({})
        BY <3>1, <3>3 DEF Commit, Lose
      <4> QED
        BY <1>1, <3>2, <4>1, LoseSteady
    <3>4. CASE channel # "up"
      <4>1. wire' = wire /\ Lose(RowsAt(t))
        BY <3>1, <3>4 DEF Commit
      <4> QED
        BY <1>1, <3>2, <4>1, LoseSteady
    <3> QED
      BY <3>3, <3>4
  <2>2. CASE ChannelBreaks
    <3>1. Lose(wire) /\ committed' = committed /\ wire \subseteq committed
      BY <2>2 DEF ChannelBreaks, TInv, DataOK
    <3> QED
      BY <1>1, <3>1, LoseSteady
  <2>3. CASE \E r \in Row : InsertLost(r)
    <3>1. PICK r \in Row : InsertLost(r)
      BY <2>3
    <3>2. /\ Lose({r}) /\ committed' = committed /\ wire' = wire \ {r} /\ {r} \subseteq committed
      BY <3>1 DEF InsertLost, TInv, DataOK
    <3> QED
      BY <1>1, <3>2, LoseSteady
  <2> QED
    BY <2>1, <2>2, <2>3 DEF Database
<1> QED
  BY <1>1, <1>2, SteadyKeeps

LEMMA InsertKeeps ==
    ASSUME TInv, TInv', HInv, NEW r \in Row, Insert(r)
    PROVE  HInv'
<1>1. /\ r \in wire /\ wire' = wire \ {r} /\ Upsert({r}) /\ Overtakes({r})
      /\ UNCHANGED <<committed, filter, cursor, reachedEnd, open, mixed>>
  BY DEF Insert, page
<1>2. {r} \subseteq committed
  BY <1>1 DEF TInv, DataOK
<1>3. Steady
  BY <1>1, <1>2, MergeSteady
<1> QED
  BY <1>1, <1>3, SteadyKeeps

LEMMA RequestStill ==
    ASSUME NEW k \in {"catchup", "devices"}, NEW x \in Nat
    PROVE  /\ Request(k, x, filter).kind = k /\ ~Request(k, x, filter).served
           /\ ~Current(Request(k, x, filter))
BY DEF Request, Current, IsPage, IsHistory

LEMMA NoneStill == \A s : open'[s] = None => Still(s)'
BY NoneIs DEF Still, Current, IsPage, IsHistory

LEMMA CatchUpArrivesKeeps ==
    ASSUME TInv, TInv', HInv, CatchUpArrives
    PROVE  HInv'
<1> DEFINE R == open[0].rows
<1>1. /\ 0 \in Slot /\ open[0].kind = "catchup" /\ open[0].served
      /\ R \subseteq committed /\ R \in SUBSET Row /\ Upsert(R)
      /\ IF open[0].filter = filter THEN Found(R) ELSE Overtakes(R)
      /\ open'[0] = Request("devices", 0, filter)
      /\ \A u \in Slot \ {0} : open'[u] = open[u]
      /\ UNCHANGED <<committed, wire, filter, cursor, reachedEnd, mixed>>
  BY CatchUpArrivesIs
<1>2. CatchUpFits(open[0])
  BY <1>1 DEF HInv, CatchUpsFit
<1>3. lastRecv' = lastRecv \/ \E u \in R : At[u] = lastRecv'
  BY <1>1, UpsertIs DEF TInv, FeedOK
<1>4. ASSUME open[0].filter = filter, NEW r \in (lost \cap Matches[filter]) \ R, At[r] < lastRecv'
      PROVE  At[r] < lastRecv
  <2>1. lastRecv' = lastRecv \/ Overtaken(open[0], r)
    BY <1>3, <1>4 DEF Overtaken
  <2> QED
    BY <1>2, <1>4, <2>1 DEF CatchUpFits
<1>5. Steady
  <2> HIDE DEF R
  <2> QED
    BY <1>1, <1>4, MergeSteady
<1>6. Still(0)'
  BY <1>1, RequestStill DEF Still, Current, IsPage, IsHistory
<1> QED
  BY <1>1, <1>5, <1>6, SteadyKeeps

LEMMA QueryFailsKeeps ==
    ASSUME TInv, HInv, NEW s \in Slot, QueryFails(s)
    PROVE  HInv'
<1>1. /\ \A u \in Slot \ {s} : open'[u] = open[u]
      /\ open'[s] = None \/ open'[s] = Request("devices", 0, filter)
      /\ UNCHANGED <<committed, wire, filter, store, lastRecv, cursor, reachedEnd, lost, gone, mixed>>
  BY QueryFailsIs
<1>2. Still(s)'
  <2>1. CASE open'[s] = None
    BY <2>1, NoneStill
  <2>2. CASE open'[s] = Request("devices", 0, filter)
    BY <2>2, RequestStill DEF Still, Current, IsPage, IsHistory
  <2> QED
    BY <1>1, <2>1, <2>2
<1> QED
  BY <1>1, <1>2, IdleSteady, SteadyKeeps

LEMMA DevicesArriveKeeps ==
    ASSUME TInv, HInv, DevicesArrive
    PROVE  HInv'
<1>1. UNCHANGED <<committed, wire, filter, store, lastRecv, cursor, reachedEnd, lost, gone, mixed>>
  BY DEF DevicesArrive, database, feed, page, history
<1> QED
  BY <1>1, DevicesArriveTyped, NoneStill, IdleSteady, SteadyKeeps

LEMMA StutterKeeps ==
    ASSUME TInv, HInv, UNCHANGED vars
    PROVE  HInv'
<1>1. UNCHANGED <<committed, wire, filter, store, lastRecv, cursor, reachedEnd, open, lost, gone,
                  mixed>>
  BY DEF vars, database, feed, page, history
<1> QED
  BY <1>1, IdleSteady, SteadyKeeps

\* The feed is cleared, and what earlier loads bring voids the promise.
LEMMA LoadHistoryKeeps ==
    ASSUME TInv, HInv, NEW s \in Slot, NEW f \in Filter, LoadHistory(s, f)
    PROVE  HInv'
<1>1. /\ cursor' = 0 /\ ~reachedEnd' /\ lost' = lost /\ lastRecv' = lastRecv
  BY DEF LoadHistory
<1>2. /\ open'[s] = Request("history", 0, f)
      /\ \A u \in Slot \ {s} : /\ ~Current(open[u])' /\ open'[u].kind = open[u].kind
                               /\ open'[u].served = open[u].served
                               /\ open'[u].filter = open[u].filter
                               /\ open'[u].rows = open[u].rows
  BY LoadHistoryIs
<1>3. /\ open'[s].kind = "history" /\ ~open'[s].served
  BY <1>2, RequestIsAsk
<1>4. FeedCovers'
  BY <1>1 DEF FeedCovers
<1>5. ASSUME NEW u \in Slot, Current(open[u])' PROVE PageFits(u)'
  <2>1. u = s
    BY <1>2, <1>5
  <2> QED
    BY <1>1, <1>2, <1>3, <2>1 DEF PageFits, Alone
<1>6. ASSUME NEW u \in Slot, open'[u].kind = "catchup", open'[u].served
      PROVE  CatchUpFits(open[u])'
  <2>1. u \in Slot \ {s}
    BY <1>3, <1>6
  <2>2. CatchUpFits(open[u])
    BY <1>2, <1>6, <2>1 DEF HInv, CatchUpsFit
  <2> QED
    BY <1>1, <1>2, <2>1, <2>2 DEF CatchUpFits, Overtaken
<1> QED
  BY <1>4, <1>5, <1>6 DEF HInv, PagesFit, CatchUpsFit

LEMMA CatchUpKeeps ==
    ASSUME TInv, HInv, CatchUp, UNCHANGED <<committed, wire>>
    PROVE  HInv'
<1>1. filter \in Filter /\ lastRecv \in Nat
  BY LastRecvIs DEF TInv, FeedOK
<1>2. CASE LoadHistory(0, filter)
  BY <1>1, <1>2, CatchUpIs, LoadHistoryKeeps
<1>3. CASE /\ open'[0] = Request("catchup", lastRecv, filter)
           /\ \A u \in Slot \ {0} : open'[u] = open[u]
           /\ UNCHANGED <<filter, store, lastRecv, cursor, reachedEnd, moreBusy, lost, gone, mixed>>
  <2>1. Still(0)'
    BY <1>1, <1>3, RequestStill DEF Still, Current, IsPage, IsHistory
  <2> QED
    BY <1>3, <2>1, IdleSteady, SteadyKeeps
<1> QED
  BY <1>2, <1>3, CatchUpIs
\* An older page is asked for where the feed ends.
LEMMA LoadMoreKeeps ==
    ASSUME TInv, HInv, NEW s \in Slot, LoadMore(s)
    PROVE  HInv'
<1>1. /\ cursor # 0 /\ ~reachedEnd
      /\ UNCHANGED <<committed, wire, filter, store, lastRecv, cursor, reachedEnd, lost, gone, mixed>>
  BY DEF LoadMore, database, feed, history
<1>2. /\ open'[s] = Request("more", cursor, filter)
      /\ \A u \in Slot \ {s} : open'[u] = open[u]
  BY DEF LoadMore, TInv, OpenOK
<1>3. /\ open'[s].kind = "more" /\ ~open'[s].served /\ open'[s].from = cursor /\ open'[s].rows = {}
      /\ ~IsHistory(open[s])'
  BY <1>2 DEF Request, IsHistory
<1>4. Steady
  BY <1>1, IdleSteady
<1>5. ~mixed => FeedCovers'
  BY <1>1, <1>4, FeedKeeps
<1>6. ASSUME ~mixed PROVE PageFits(s)'
  <2>1. MoreFits(open[s])'
    <3>1. Covers(cursor)'
      BY <1>1, <1>5, <1>6 DEF FeedCovers
    <3>2. cursor \in Row /\ At[cursor] <= lastRecv
      BY <1>1 DEF TInv, PageOK
    <3> QED
      BY <1>1, <1>3, <3>1, <3>2 DEF MoreFits, Covers
  <2> QED
    BY <1>3, <2>1 DEF PageFits
<1>7. ASSUME ~mixed, NEW u \in Slot \ {s}, Current(open[u])' PROVE PageFits(u)'
  <2>1. Current(open[u]) /\ open'[u] = open[u]
    BY <1>2, <1>4, <1>7, SlotKeeps
  <2>2. ~IsHistory(open[u])
    BY <1>1, <1>7, <2>1 DEF HInv, PagesFit, PageFits, Alone
  <2> QED
    BY <1>4, <1>7, <2>1, <2>2, SlotKeeps DEF PageFits, IsHistory
<1>8. CatchUpsFit'
  BY <1>2, <1>3, <1>4, CatchUpsKeep
<1> QED
  BY <1>1, <1>5, <1>6, <1>7, <1>8 DEF HInv, PagesFit

\* A page is without a gap, and an older one older than the cursor.
LEMMA PageRowsAre ==
    ASSUME committed \subseteq Row, NEW q
    PROVE  /\ \A r \in committed \cap Matches[q.filter] :
                 /\ q.kind = "more" => r < q.from
                 /\ Cardinality(PageRows(q)) < PageSize \/ \E u \in PageRows(q) : u <= r
                 => r \in PageRows(q)
           /\ q.kind = "more" => \A u \in PageRows(q) : u < q.from
<1> DEFINE S == {r \in committed \cap Matches[q.filter] : q.kind = "more" => r < q.from}
<1>1. PageRows(q) = Newest(S, PageSize) /\ S \in SUBSET Row /\ PageSize \in Nat
  BY FeedAssumption DEF PageRows, Before
<1>2. ASSUME NEW r \in S,
             Cardinality(PageRows(q)) < PageSize \/ \E u \in PageRows(q) : u <= r
      PROVE  r \in PageRows(q)
  <2> HIDE DEF S
  <2>1. CASE Cardinality(PageRows(q)) < PageSize
    BY <1>1, <2>1, NewestFew
  <2>2. CASE \E u \in PageRows(q) : u <= r
    BY <1>1, <2>2, NewestUp
  <2> QED
    BY <1>2, <2>1, <2>2
<1>3. PageRows(q) \subseteq S
  BY <1>1 DEF Newest
<1> QED
  BY <1>2, <1>3

\* A catch-up leaves out nothing between lastRecv and its last row.
LEMMA CatchUpRowsAre ==
    ASSUME committed \subseteq Row, NEW q, NEW r \in committed \cap Matches[q.filter],
           NEW u \in CatchUpRows(q), At[r] < At[u], At[r] >= q.from
    PROVE  r \in CatchUpRows(q)
<1> DEFINE S == {v \in committed \cap Matches[q.filter] : At[v] >= q.from}
<1>1. CatchUpRows(q) = Oldest(S, CatchSize) /\ S \in SUBSET Row /\ CatchSize \in Nat /\ r \in S
  BY FeedAssumption DEF CatchUpRows
<1>2. u \in Row /\ r \in Row
  BY <1>1 DEF Oldest
<1>3. r <= u
  <2>1. u < r => At[u] <= At[r]
    BY <1>2, FeedAssumption
  <2> QED
    BY <1>2, <2>1, RowsAreNumbers
<1> QED
  <2> HIDE DEF S
  <2> QED
    BY <1>1, <1>3, OldestDown

LEMMA ServeKeeps ==
    ASSUME TInv, HInv, NEW s \in Slot, Serve(s)
    PROVE  HInv'
<1>1. /\ open[s] \in Ask /\ AskOK(s, open[s]) /\ ~open[s].served
      /\ \A u \in Slot \ {s} : open'[u] = open[u]
      /\ open'[s] \in Ask /\ open'[s].served /\ open'[s].rows = ServeRows(open[s])
      /\ open'[s].kind = open[s].kind /\ open'[s].from = open[s].from
      /\ open'[s].filter = open[s].filter /\ open'[s].stale = open[s].stale
      /\ ServeRows(open[s]) \subseteq committed
      /\ UNCHANGED <<committed, wire, filter, store, lastRecv, cursor, reachedEnd, mixed>>
      /\ IF IsHistory(open[s]) /\ ~open[s].stale THEN lost' = {} /\ gone' = {}
                                                 ELSE UNCHANGED <<lost, gone>>
  BY ServeIs
<1>2. committed \subseteq Row /\ (Current(open[s]) => open[s].filter = filter)
  BY <1>1 DEF TInv, DataOK, AskOK
<1>3. Current(open[s])' <=> Current(open[s])
  BY <1>1 DEF Current, IsPage, IsHistory
<1>4. ASSUME Current(open[s]), NEW r \in committed \cap Matches[filter], Reaches(open[s], r)',
             open[s].kind = "more" => r < open[s].from
      PROVE  r \in open'[s].rows
  <2>1. open'[s].rows = PageRows(open[s])
    BY <1>1, <1>4 DEF ServeRows, Current, IsPage, IsHistory
  <2>2. Cardinality(PageRows(open[s])) < PageSize \/ \E u \in PageRows(open[s]) : u <= r
    BY <1>4, <2>1 DEF Reaches
  <2> QED
    BY <1>2, <1>4, <2>1, <2>2, PageRowsAre
<1>5. CASE IsHistory(open[s]) /\ ~open[s].stale
  <2>1. lost' = {} /\ gone' = {} /\ Current(open[s]) /\ open[s].kind # "more"
    BY <1>1, <1>5 DEF Current, IsPage, IsHistory
  <2>2. CatchUpsFit'
    BY <2>1 DEF CatchUpsFit, CatchUpFits
  <2>3. ASSUME ~mixed PROVE FeedCovers' /\ PagesFit'
    <3>1. Alone(s)
      BY <1>5, <2>1, <2>3 DEF HInv, PagesFit, PageFits
    <3>2. \A u \in Slot \ {s} : ~Current(open[u])'
      BY <1>1, <3>1 DEF Alone, Current, IsPage, IsHistory
    <3>3. Alone(s)' /\ FeedCovers'
      BY <1>1, <3>1, <3>2 DEF Alone, FeedCovers
    <3>4. PageCovers(open[s])'
      BY <1>1, <1>4, <2>1 DEF PageCovers
    <3>5. PageFits(s)'
      BY <1>1, <2>1, <3>3, <3>4 DEF PageFits
    <3> QED
      BY <3>2, <3>3, <3>5 DEF PagesFit
  <2> QED
    BY <1>1, <2>2, <2>3 DEF HInv
<1>6. CASE ~(IsHistory(open[s]) /\ ~open[s].stale)
  <2>1. Steady
    BY <1>1, <1>6, IdleSteady
  <2>2. ~mixed => FeedCovers'
    BY <1>1, <2>1, FeedKeeps
  <2>3. ASSUME ~mixed, NEW u \in Slot \ {s}, Current(open[u])' PROVE PageFits(u)'
    <3>1. Current(open[u]) /\ open'[u] = open[u]
      BY <1>1, <2>1, <2>3, SlotKeeps
    <3>2. ASSUME IsHistory(open[u]) PROVE Alone(u)'
      <4>1. Alone(u)
        BY <2>3, <3>1, <3>2 DEF HInv, PagesFit, PageFits
      <4>2. \A v \in Slot \ {u} : Current(open[v])' => Current(open[v])
        BY <1>1, <1>3 DEF Current, IsPage, IsHistory
      <4> QED
        BY <1>1, <4>1, <4>2 DEF Alone
    <3> QED
      BY <2>1, <2>3, <3>1, <3>2, SlotKeeps DEF PageFits, IsHistory
  <2>4. ASSUME ~mixed, Current(open[s])' PROVE PageFits(s)'
    <3>1. /\ Current(open[s]) /\ open[s].kind = "more" /\ ~IsHistory(open[s])'
          /\ open'[s].rows = PageRows(open[s])
      BY <1>1, <1>3, <1>6, <2>4 DEF Current, IsPage, IsHistory, ServeRows
    <3>2. MoreFits(open[s])
      BY <2>4, <3>1 DEF HInv, PagesFit, PageFits
    <3>3. MoreFits(open[s])'
      <4>1. \A u \in PageRows(open[s]) : u < open[s].from
        BY <1>2, <3>1, PageRowsAre
      <4> QED
        BY <1>1, <1>6, <3>1, <3>2, <4>1 DEF MoreFits, Covers, Due, There
    <3>4. PageCovers(open[s])'
      <4>1. ASSUME NEW r \in committed \cap Matches[filter], Reaches(open[s], r)',
                   Due(r) \/ (r \notin gone /\ Overtaken(open[s], r)')
            PROVE  r \in open'[s].rows \/ There(r)
        <5>1. CASE r < open[s].from
          BY <1>4, <3>1, <4>1, <5>1
        <5>2. CASE ~(r < open[s].from)
          <6>1. r \in Row /\ open[s].from \in Row /\ open[s].from <= r /\ At[open[s].from] <= lastRecv
            <7>1. r \in Row /\ open[s].from \in Row /\ At[open[s].from] <= lastRecv
              BY <1>2, <3>2, <4>1 DEF MoreFits
            <7>2. r \in Nat /\ open[s].from \in Nat
              BY <7>1, RowsAreNumbers
            <7> QED
              BY <5>2, <7>1, <7>2
          <6>2. Overtaken(open[s], r)' => At[r] < lastRecv
            <7>1. ASSUME NEW u \in PageRows(open[s]), At[r] < At[u] PROVE FALSE
              <8>1. u < open[s].from /\ u \in Row
                BY <1>1, <1>2, <3>1, <7>1, PageRowsAre
              <8>2. u < r
                <9>1. u \in Nat /\ r \in Nat /\ open[s].from \in Nat
                  BY <6>1, <8>1, RowsAreNumbers
                <9> QED
                  BY <6>1, <8>1, <9>1
              <8>3. At[u] <= At[r]
                BY <6>1, <8>1, <8>2, FeedAssumption
              <8> QED
                BY <6>1, <7>1, <8>1, <8>3, RowsAreNumbers
            <7> QED
              BY <3>1, <7>1 DEF Overtaken
          <6>3. Due(r)
            BY <4>1, <6>2 DEF Due
          <6> QED
            BY <3>2, <4>1, <6>1, <6>3 DEF MoreFits, Covers
        <5> QED
          BY <5>1, <5>2
      <4> QED
        BY <1>1, <1>6, <4>1 DEF PageCovers, Due, There
    <3> QED
      BY <3>1, <3>3, <3>4 DEF PageFits
  <2>5. ASSUME NEW u \in Slot, open'[u].kind = "catchup", open'[u].served
        PROVE  CatchUpFits(open[u])'
    <3>1. CASE u # s
      BY <1>1, <2>1, <2>5, <3>1, SlotKeeps
    <3>2. CASE u = s
      <4>1. /\ open'[s].rows = CatchUpRows(open[s]) /\ open[s].from <= lastRecv
            /\ open[s].from \in Nat /\ lastRecv \in Nat
        BY <1>1, <2>5, <3>2, LastRecvIs DEF ServeRows, AskOK, TInv, Ask
      <4>2. ASSUME NEW r \in lost \cap Matches[open[s].filter], r \notin open'[s].rows,
                   NEW v \in open'[s].rows, At[r] < At[v]
            PROVE  At[r] < lastRecv
        <5>1. r \in committed /\ r \in Row
          BY <1>2 DEF TInv, DataOK
        <5>2. ~(At[r] >= open[s].from)
          BY <1>2, <4>1, <4>2, <5>1, CatchUpRowsAre
        <5> QED
          BY <4>1, <5>1, <5>2, RowsAreNumbers
      <4> QED
        BY <1>1, <1>6, <3>2, <4>2 DEF CatchUpFits, Overtaken
    <3> QED
      BY <3>1, <3>2
  <2> QED
    BY <1>1, <2>2, <2>3, <2>4, <2>5 DEF HInv, PagesFit, CatchUpsFit
<1> QED
  BY <1>5, <1>6
LEMMA PageArrivesKeeps ==
    ASSUME TInv, TInv', HInv, NEW s \in Slot, PageArrives(s)
    PROVE  HInv'
<1> DEFINE R == open[s].rows
<1>1. /\ AskOK(s, open[s]) /\ open[s].served /\ IsPage(open[s])
      /\ R \subseteq committed /\ R \in SUBSET Row /\ Upsert(R) /\ Found(R)
      /\ cursor' = IF R = {} THEN cursor ELSE Min(R)
      /\ reachedEnd' = (reachedEnd \/ Cardinality(R) < PageSize)
      /\ mixed' = (mixed \/ open[s].stale)
      /\ open'[s] = None /\ \A u \in Slot \ {s} : open'[u] = open[u]
      /\ UNCHANGED <<committed, wire, filter>>
  BY PageArrivesIs
<1>2. /\ store' = store \cup R /\ lastRecv' \in Nat /\ lastRecv \in Nat /\ lastRecv <= lastRecv'
      /\ lastRecv' = lastRecv \/ \E u \in R : At[u] = lastRecv'
  BY <1>1, UpsertIs DEF TInv, FeedOK
<1>3. lost' = lost \ R /\ gone' = gone \ R /\ lost \subseteq Row
  BY <1>1 DEF Found, TInv, DataOK
<1>4. ASSUME NEW u \in Slot, open'[u].kind = "catchup", open'[u].served
      PROVE  CatchUpFits(open[u])'
  <2>1. open'[u] = open[u]
    BY <1>1, <1>4, NoneIs
  <2>2. CatchUpFits(open[u])
    BY <1>4, <2>1 DEF HInv, CatchUpsFit
  <2>3. \A r \in Row : At[r] < lastRecv => At[r] < lastRecv'
    BY <1>2, RowsAreNumbers
  <2> QED
    BY <1>3, <2>1, <2>2, <2>3 DEF CatchUpFits, Overtaken
<1>5. ASSUME ~mixed' PROVE FeedCovers' /\ PagesFit'
  <2>1. ~mixed /\ Current(open[s]) /\ PageFits(s) /\ PageCovers(open[s])
    BY <1>1, <1>5 DEF Current, HInv, PagesFit, PageFits
  <2>2. ASSUME NEW r \in committed \cap Matches[filter], Reaches(open[s], r), Due(r)'
        PROVE  There(r)'
    <3>1. CASE r \in R
      BY <1>2, <3>1 DEF There
    <3>2. CASE r \notin R
      <4>1. r \notin gone /\ (r \in lost => At[r] < lastRecv')
        BY <1>3, <2>2, <3>2 DEF Due
      <4>2. At[r] < lastRecv' => At[r] < lastRecv \/ Overtaken(open[s], r)
        BY <1>2 DEF Overtaken
      <4>3. There(r)
        BY <2>1, <2>2, <3>2, <4>1, <4>2 DEF PageCovers, Due
      <4> QED
        BY <1>1, <1>2, <4>3 DEF There
    <3> QED
      BY <3>1, <3>2
  <2>3. R # {} => Covers(cursor)'
    <3>1. ASSUME R # {}, NEW r \in committed \cap Matches[filter], Min(R) <= r
          PROVE  Reaches(open[s], r)
      <4>1. Min(R) \in R
        BY <1>1, <3>1, MinIs, RowsAreNumbers
      <4> QED
        BY <3>1, <4>1 DEF Reaches
    <3> QED
      BY <1>1, <2>2, <3>1 DEF Covers
  <2>4. Cardinality(R) < PageSize => Covers(0)'
    BY <1>1, <2>2 DEF Covers, Reaches
  <2>5. CASE IsHistory(open[s])
    <3>1. Alone(s)
      BY <2>1, <2>5 DEF PageFits
    <3>2. FeedCovers'
      BY <1>1, <2>3, <2>4, <3>1 DEF Alone, FeedCovers
    <3>3. \A u \in Slot : ~Current(open[u])'
      BY <1>1, <3>1, NoneIs DEF Alone, Current, IsPage, IsHistory
    <3> QED
      BY <3>2, <3>3 DEF PagesFit
  <2>6. CASE open[s].kind = "more"
    <3>1. MoreFits(open[s]) /\ ~IsHistory(open[s])
      BY <2>1, <2>6 DEF PageFits, IsHistory
    <3>2. lastRecv' = lastRecv
      <4>1. ASSUME NEW u \in R PROVE At[u] <= lastRecv
        <5>1. u \in Row /\ open[s].from \in Row /\ u < open[s].from /\ At[open[s].from] <= lastRecv
          BY <1>1, <3>1, <4>1 DEF MoreFits
        <5>2. At[u] <= At[open[s].from]
          BY <5>1, FeedAssumption
        <5>3. lastRecv \in Nat /\ At[u] \in Nat /\ At[open[s].from] \in Nat
          BY <1>2, <5>1, RowsAreNumbers
        <5> QED
          BY <5>1, <5>2, <5>3
      <4> QED
        <5>1. \A u \in R : At[u] = lastRecv' => lastRecv' <= lastRecv
          BY <4>1
        <5> QED
          BY <1>2, <5>1
    <3>3. Steady
      <4> HIDE DEF R
      <4> QED
        BY <1>1, <3>2, MergeSteady
    <3>4. FeedCovers'
      <4>1. FeedCovers
        BY <2>1 DEF HInv
      <4>2. R = {} /\ cursor' # 0 => Covers(cursor)'
        BY <1>1, <3>3, <4>1, CoversStay DEF FeedCovers
      <4>3. reachedEnd => Covers(0)'
        BY <3>3, <4>1, CoversStay DEF FeedCovers
      <4> QED
        BY <1>1, <2>3, <2>4, <4>2, <4>3 DEF FeedCovers
    <3>5. ASSUME NEW u \in Slot, Current(open[u])' PROVE PageFits(u)'
      <4>1. u # s /\ open'[u] = open[u]
        BY <1>1, <3>5, NoneIs DEF Current, IsPage, IsHistory
      <4>2. Current(open[u])
        BY <3>5, <4>1 DEF Current, IsPage, IsHistory
      <4>3. ~IsHistory(open[u])
        BY <2>1, <4>1, <4>2 DEF HInv, PagesFit, PageFits, Alone
      <4> QED
        BY <2>1, <3>3, <4>1, <4>2, <4>3, SlotKeeps DEF PageFits, IsHistory
    <3> QED
      BY <3>4, <3>5 DEF PagesFit
  <2> QED
    BY <1>1, <2>5, <2>6 DEF IsPage
<1> QED
  BY <1>4, <1>5 DEF HInv, CatchUpsFit

LEMMA HoleStep ==
    ASSUME TInv, TInv', HInv, [Next]_vars
    PROVE  HInv'
<1>1. CASE UNCHANGED vars
  BY <1>1, StutterKeeps
<1>2. CASE Database
  BY <1>2, DatabaseKeeps
<1>3. CASE \E s \in 1..NumLoad : LoadMore(s) \/ (\E f \in Filter : ChangeFilter(s, f))
  <2>1. PICK s \in 1..NumLoad : LoadMore(s) \/ (\E f \in Filter : ChangeFilter(s, f))
    BY <1>3
  <2>2. s \in Slot
    BY FeedAssumption DEF Slot
  <2> QED
    BY <2>1, <2>2, LoadMoreKeeps, LoadHistoryKeeps DEF ChangeFilter
<1>4. CASE CatchUpTimer
  <2>1. CatchUp /\ UNCHANGED <<committed, wire>>
    BY <1>4 DEF CatchUpTimer, database
  <2> QED
    BY <2>1, CatchUpKeeps
<1>5. CASE Subscribed
  <2>1. CASE CatchUp
    BY <1>5, <2>1, CatchUpKeeps DEF Subscribed
  <2>2. CASE UNCHANGED <<filter, feed, page, open, history>>
    <3>1. UNCHANGED <<committed, wire, filter, store, lastRecv, cursor, reachedEnd, open, lost, gone,
                      mixed>>
      BY <1>5, <2>2 DEF Subscribed, feed, page, history
    <3> QED
      BY <3>1, IdleSteady, SteadyKeeps
  <2> QED
    BY <1>5, <2>1, <2>2 DEF Subscribed
<1>6. CASE Answers
  BY <1>6, ServeKeeps, PageArrivesKeeps, QueryFailsKeeps, CatchUpArrivesKeeps, DevicesArriveKeeps,
     InsertKeeps DEF Answers
<1> QED
  BY <1>1, <1>2, <1>3, <1>4, <1>5, <1>6 DEF Next, User

LEMMA HoleInit == Init => HInv
<1> SUFFICES ASSUME Init PROVE HInv
  OBVIOUS
<1>1. /\ cursor = 0 /\ reachedEnd = FALSE
      /\ open = [s \in Slot |-> IF s = 1 THEN Request("boot", 0, NoFilter) ELSE None]
  BY DEF Init
<1>2. \A s \in Slot : open[s] = None \/ (s = 1 /\ open[s] = Request("boot", 0, NoFilter))
  BY <1>1
<1>3. \A s \in Slot : /\ ~(open[s].kind = "catchup")
                      /\ Current(open[s]) => s = 1 /\ ~open[s].served /\ open[s].kind = "boot"
  BY <1>2, NoneIs DEF Request, Current, IsPage, IsHistory
<1>4. FeedCovers
  BY <1>1 DEF FeedCovers
<1>5. ASSUME NEW s \in Slot, Current(open[s]) PROVE PageFits(s)
  BY <1>1, <1>3, <1>5 DEF PageFits, Alone
<1> QED
  BY <1>3, <1>4, <1>5 DEF HInv, PagesFit, CatchUpsFit

LEMMA FeedInvariant == Spec => []IInv
<1>1. Init => IInv
  BY TypedInit, HoleInit DEF IInv
<1>2. IInv /\ [Next]_vars => IInv'
  BY TypedStep, BootStep, HoleStep DEF IInv
<1> QED
  BY <1>1, <1>2, PTL DEF Spec

\* The feed has no hole, with pages, catch-ups, pushed inserts and commits in any order,
\* but for the holes two of these orders do make: after an answer to an earlier load
\* has been applied to the present one (mixed, app.js:691-733) nothing is claimed, and
\* a row the channel lost is not, when an insert, or a catch-up under another filter,
\* has moved lastRecv past it first (gone, app.js:620-624).  Every other row of the
\* filter from the cursor on is in the feed or on the channel, one the channel lost
\* as soon as lastRecv is past it.
THEOREM FeedHasNoHole == Spec => []NoHole
<1>1. IInv => NoHole
  <2> SUFFICES ASSUME IInv, cursor # 0 \/ reachedEnd, ~mixed,
                      NEW r \in committed \cap Matches[filter], Owed(r)
               PROVE  r \in store \cup wire
    BY DEF NoHole
  <2>1. FeedCovers /\ Due(r)
    BY DEF IInv, HInv, Owed, Due
  <2>2. r \in Nat /\ (cursor # 0 => cursor \in Nat)
    BY RowsAreNumbers DEF IInv, TInv, DataOK, PageOK
  <2>3. CASE reachedEnd
    BY <2>1, <2>2, <2>3 DEF FeedCovers, Covers, There
  <2>4. CASE ~reachedEnd
    <3>1. cursor # 0 /\ cursor <= r
      BY <2>2, <2>4 DEF Owed, Before
    <3> QED
      BY <2>1, <3>1 DEF FeedCovers, Covers, There
  <2> QED
    BY <2>3, <2>4
<1> QED
  BY <1>1, FeedInvariant, PTL
=============================================================================
