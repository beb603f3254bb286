------------------------ MODULE NothingMissedProofs -------------------------
(***************************************************************************)
(* The cursor of the audit passes no process of a Claude tree over, for    *)
(* every process tree, every limit and every fault.                        *)
(***************************************************************************)
EXTENDS OsExecAuditProofs

Excuse == forgotten \cup orphaned

CreatedIn(lg, p, k) == \E i \in 1..k : lg[i].eid = 1 /\ lg[i].proc = p
EndedIn(lg, p, k) == \E i \in 1..k : lg[i].eid = 5 /\ lg[i].proc = p

\* A process is created after its parent and before its parent's end, unless the
\* parent's creation has been cleared away.
BornRight(lg, i, why) ==
    lg[i].eid = 1 /\ Parent[lg[i].proc] # NoProc =>
        /\ Parent[lg[i].proc] \in why \/ CreatedIn(lg, Parent[lg[i].proc], i - 1)
        /\ ~EndedIn(lg, Parent[lg[i].proc], i - 1)

LogOrdered ==
    /\ \A i \in 1..Len(log) : BornRight(log, i, forgotten)
    /\ \A p \in Proc :
          /\ status[p] # "gone" => ~EndedIn(log, p, Len(log))
          /\ status[p] # "new" => p \in forgotten \/ CreatedIn(log, p, Len(log))

\* Those that the first k records leave running below a Claude process are in procs,
\* or excused.
Follows(lg, why, procs, k) ==
    \A p \in Proc : SessionOf[p] # NoProc /\ CreatedIn(lg, p, k) /\ ~EndedIn(lg, p, k)
                        => p \in procs \/ Excused(p, why)

\* Those that the first k records create below a Claude process are among the events,
\* or excused.
Covers(lg, why, events, k) ==
    \A p \in Proc : SessionOf[p] # NoProc /\ CreatedIn(lg, p, k)
                        => (\E e \in events : e.proc = p) \/ Excused(p, why)

\* A cursor that speaks about this log lies within it and has missed nothing.
CursorFits ==
    \A c \in {cursor, disk.cursor} :
        /\ c.epoch <= epoch
        /\ c.epoch = epoch => c.rid <= Len(log) /\ Covers(log, Excuse, spool, c.rid)

\* The tracked processes fit the cursor: on disk, and in memory between two polls.
TrackedFit ==
    /\ disk.cursor.epoch = epoch
          => Follows(log, Excuse, TrackedProcs(disk.tracked), disk.cursor.rid)
    /\ pc = "idle" /\ cursor.epoch = epoch
          => Follows(log, Excuse, TrackedProcs(tracked), cursor.rid)

Parsed == upTo.rid - Len(batch)
Polling == pc \in {"parse", "write", "save"}

\* The batch is what the log has between the record parsed last and upTo.
BatchFits ==
    Polling =>
        /\ cursor.epoch <= upTo.epoch /\ upTo.epoch <= epoch
        /\ cursor.rid <= Parsed
        /\ upTo.epoch = epoch =>
              /\ upTo.rid <= Len(log)
              /\ \A i \in 1..Len(batch) :
                    batch[i].eid = log[Parsed + i].eid /\ batch[i].proc = log[Parsed + i].proc

\* Will the cursor speak about this log when the poll is through?
Counts == upTo.epoch = epoch /\ (cursor.rid = 0 \/ cursor.epoch = epoch)

PollFits ==
    Polling /\ Counts =>
        /\ Follows(log, Excuse, TrackedProcs(tracked), Parsed)
        /\ Follows(log, Excuse, known, cursor.rid)
        /\ Covers(log, Excuse, spool \cup out, Parsed)

Written == pc = "save" => out \subseteq spool

CInv == LogOrdered /\ CursorFits /\ TrackedFit /\ BatchFits /\ PollFits /\ Written
-----------------------------------------------------------------------------
(* Logs, lineages and lists.                                                 *)

LEMMA LineageHas ==
    ASSUME LineageAssumption, NEW p \in Proc
    PROVE  p \in Lineage[p] /\ (Parent[p] # NoProc => Lineage[Parent[p]] \subseteq Lineage[p])
  BY DEF LineageAssumption

\* Who descends from an excused process is excused.
LEMMA ParentExcused ==
    ASSUME LineageAssumption, NEW p \in Proc, Parent[p] # NoProc, NEW why,
           Excused(Parent[p], why)
    PROVE  Excused(p, why)
  BY LineageHas DEF Excused

LEMMA SelfExcused ==
    ASSUME LineageAssumption, NEW p \in Proc, NEW why, p \in why
    PROVE  Excused(p, why)
  BY LineageHas DEF Excused

LEMMA ExcusedStays ==
    ASSUME NEW p, NEW why, NEW more, why \subseteq more, Excused(p, why)
    PROVE  Excused(p, more)
  BY DEF Excused

\* What the first k records say stays said.
LEMMA SameRecords ==
    ASSUME NEW lg, NEW lg2, NEW k \in Int, \A i \in 1..k : lg2[i] = lg[i], NEW p
    PROVE  /\ CreatedIn(lg2, p, k) <=> CreatedIn(lg, p, k)
           /\ EndedIn(lg2, p, k) <=> EndedIn(lg, p, k)
  BY DEF CreatedIn, EndedIn

LEMMA FollowsStays ==
    ASSUME NEW lg, NEW lg2, NEW why, NEW why2, NEW procs, NEW procs2, NEW k \in Int,
           Follows(lg, why, procs, k), \A i \in 1..k : lg2[i] = lg[i], why \subseteq why2,
           \A p \in procs : p \in procs2 \/ Excused(p, why2)
    PROVE  Follows(lg2, why2, procs2, k)
<1> SUFFICES ASSUME NEW p \in Proc, SessionOf[p] # NoProc, CreatedIn(lg2, p, k),
                    ~EndedIn(lg2, p, k)
             PROVE  p \in procs2 \/ Excused(p, why2)
  BY DEF Follows
<1>1. CreatedIn(lg, p, k) /\ ~EndedIn(lg, p, k)
  BY SameRecords
<1>2. p \in procs \/ Excused(p, why)
  BY <1>1 DEF Follows
<1> QED BY <1>2, ExcusedStays

LEMMA CoversStays ==
    ASSUME NEW lg, NEW lg2, NEW why, NEW why2, NEW events, NEW events2, NEW k \in Int,
           Covers(lg, why, events, k), \A i \in 1..k : lg2[i] = lg[i], why \subseteq why2,
           events \subseteq events2
    PROVE  Covers(lg2, why2, events2, k)
<1> SUFFICES ASSUME NEW p \in Proc, SessionOf[p] # NoProc, CreatedIn(lg2, p, k)
             PROVE  (\E e \in events2 : e.proc = p) \/ Excused(p, why2)
  BY DEF Covers
<1>1. CreatedIn(lg, p, k)
  BY SameRecords
<1>2. (\E e \in events : e.proc = p) \/ Excused(p, why)
  BY <1>1 DEF Covers
<1> QED BY <1>2, ExcusedStays

\* Before the first record there is nothing to follow and nothing to cover.
LEMMA NothingYet ==
    ASSUME NEW lg, NEW why, NEW procs, NEW events
    PROVE  Follows(lg, why, procs, 0) /\ Covers(lg, why, events, 0)
<1>1. \A p : ~CreatedIn(lg, p, 0)
  BY DEF CreatedIn
<1> QED BY <1>1 DEF Follows, Covers

\* dict.pop takes out no other process.
LEMMA WithoutKeeps ==
    ASSUME NEW tr \in Seq(Pair), NEW p
    PROVE  TrackedProcs(tr) \ {p} \subseteq TrackedProcs(Without(tr, p))
<1>1. CASE p \notin TrackedProcs(tr)
  BY <1>1 DEF Without
<1>2. CASE p \in TrackedProcs(tr)
  <2> DEFINE n == IndexOf(tr, p)
             a == SubSeq(tr, 1, n - 1)
             b == SubSeq(tr, n + 1, Len(tr))
  <2>1. n \in 1..Len(tr) /\ Len(tr) \in Nat /\ tr[n].proc = p
    BY <1>2, IndexType, LenProperties
  <2>2. /\ a \in Seq(Pair) /\ Len(a) = n - 1
        /\ \A i \in 1..(n - 1) : a[i] = tr[i]
    <3>1. \A i \in 1..(n - 1) : tr[i] \in Pair
      BY <2>1, ElementOfSeq
    <3> QED BY <2>1, <3>1, SubSeqProperties
  <2>3. /\ b \in Seq(Pair) /\ Len(b) = Len(tr) - n
        /\ \A i \in 1..(Len(tr) - n) : b[i] = tr[n + i]
    <3>1. \A i \in (n + 1)..Len(tr) : tr[i] \in Pair
      BY <2>1, ElementOfSeq
    <3>2. n + 1 <= Len(tr) + 1
      BY <2>1
    <3> QED BY <2>1, <3>1, <3>2, SubSeqProperties
  <2>4. Without(tr, p) = a \o b
    BY <1>2 DEF Without
  <2> HIDE DEF n, a, b
  <2>5. /\ Len(a \o b) = Len(tr) - 1
        /\ \A i \in 1..Len(a) : (a \o b)[i] = a[i]
        /\ \A i \in 1..Len(b) : (a \o b)[Len(a) + i] = b[i]
    <3>1. /\ Len(a \o b) = Len(a) + Len(b)
          /\ \A i \in 1..(Len(a) + Len(b)) :
                (a \o b)[i] = IF i <= Len(a) THEN a[i] ELSE b[i - Len(a)]
      BY <2>2, <2>3, ConcatProperties
    <3>2. \A i \in 1..Len(b) : i + Len(a) - Len(a) = i /\ ~(Len(a) + i <= Len(a))
      BY <2>1, <2>2, <2>3
    <3> QED BY <2>1, <2>2, <2>3, <3>1, <3>2, SMTT(30)
  <2> SUFFICES ASSUME NEW i \in 1..Len(tr), tr[i].proc # p
               PROVE  \E j \in 1..Len(a \o b) : (a \o b)[j].proc = tr[i].proc
    BY <2>4 DEF TrackedProcs
  <2>6. CASE i < n
    BY <2>1, <2>2, <2>5, <2>6
  <2>7. CASE i > n
    <3>1. i - n \in 1..Len(b)
      BY <2>1, <2>3, <2>7
    <3>2. (a \o b)[Len(a) + (i - n)] = b[i - n] /\ b[i - n] = tr[n + (i - n)]
      BY <2>3, <2>5, <3>1
    <3>3. (a \o b)[i - 1] = tr[i] /\ i - 1 \in 1..Len(a \o b)
      BY <2>1, <2>2, <2>5, <2>7, <3>2
    <3> QED BY <3>3
  <2>8. i # n
    BY <2>1
  <2> QED BY <2>1, <2>6, <2>7, <2>8
<1> QED BY <1>1, <1>2

\* Entering a process keeps the others.
LEMMA InsertKeeps ==
    ASSUME NEW tr \in Seq(Pair), NEW p, NEW sid
    PROVE  TrackedProcs(tr) \cup {p} \subseteq TrackedProcs(Insert(tr, p, sid))
<1> DEFINE new == Insert(tr, p, sid)
<1>0. Len(tr) \in Nat
  BY LenProperties
<1>1. CASE p \notin TrackedProcs(tr)
  <2>1. new = Append(tr, [proc |-> p, sid |-> sid])
    BY <1>1 DEF Insert
  <2>2. /\ Len(new) = Len(tr) + 1 /\ new[Len(tr) + 1] = [proc |-> p, sid |-> sid]
        /\ \A i \in 1..Len(tr) : new[i] = tr[i]
    <3>1. tr \in Seq({tr[i] : i \in 1..Len(tr)} \cup {[proc |-> p, sid |-> sid]})
      <4>1. tr \in [1..Len(tr) -> {tr[i] : i \in 1..Len(tr)} \cup {[proc |-> p, sid |-> sid]}]
        BY LenProperties
      <4> QED BY <1>0, <4>1, SeqDef
    <3> QED BY <2>1, <3>1, AppendProperties
  <2> QED BY <1>0, <2>2 DEF TrackedProcs
<1>2. CASE p \in TrackedProcs(tr)
  <2> DEFINE n == IndexOf(tr, p)
  <2>1. n \in 1..Len(tr) /\ tr[n].proc = p /\ tr[n] \in Pair
    BY <1>2, IndexType, ElementOfSeq
  <2>2. new = [tr EXCEPT ![n].sid = sid]
    BY <1>2 DEF Insert
  <2>3. DOMAIN tr = 1..Len(tr)
    BY LenProperties
  <2>4. DOMAIN new = 1..Len(tr)
    BY <2>2, <2>3
  <2>5. Len(new) = Len(tr)
    BY <1>0, <2>4, LenProperties
  <2>6. \A i \in 1..Len(tr) : new[i].proc = tr[i].proc
    BY <2>1, <2>2, <2>3 DEF Pair
  <2> QED BY <1>2, <2>5, <2>6 DEF TrackedProcs
<1> QED BY <1>1, <1>2
-----------------------------------------------------------------------------
(* The machine's steps.                                                      *)

\* Positions are numbers, so that they can be compared.
LEMMA Numbers ==
    ASSUME Inv
    PROVE  /\ cursor.rid \in Nat /\ cursor.epoch \in Nat
           /\ disk.cursor.rid \in Nat /\ disk.cursor.epoch \in Nat
           /\ upTo.rid \in Nat /\ upTo.epoch \in Nat /\ epoch \in Nat \ {0}
           /\ Len(log) \in Nat /\ Len(batch) \in Nat /\ Parsed \in Int
<1>1. Len(log) \in Nat /\ Len(batch) \in Nat
  BY LenProperties DEF Inv, TypeOK
<1> QED BY <1>1 DEF Inv, TypeOK, Position, Parsed

\* A new record changes nothing the earlier ones say.
LEMMA NewRecord ==
    ASSUME Inv, NEW r \in LogRecord, log' = Append(log, r)
    PROVE  /\ Len(log') = Len(log) + 1 /\ log'[Len(log) + 1] = r
           /\ \A i \in 1..Len(log) : log'[i] = log[i]
  BY AppendProperties DEF Inv, TypeOK, LogRecord

\* Writing to the log, the machine disturbs only what is said of the whole log.
LEMMA GrowingLog ==
    ASSUME Inv, CInv, Len(log) <= Len(log)', \A i \in 1..Len(log) : log'[i] = log[i],
           UNCHANGED <<epoch, pc, memory, disk, spool, known, excuses>>
    PROVE  CursorFits' /\ TrackedFit' /\ BatchFits' /\ PollFits' /\ Written'
<1> USE Numbers
<1>1. UNCHANGED <<cursor, tracked, batch, upTo, out, Excuse, Parsed>>
  BY DEF memory, excuses, Excuse, Parsed
<1>2. ASSUME NEW k \in Int, k <= Len(log) PROVE \A i \in 1..k : log'[i] = log[i]
  BY <1>2
<1>3. CursorFits'
  <2> SUFFICES ASSUME NEW c \in {cursor, disk.cursor}, c.epoch = epoch
               PROVE  c.rid <= Len(log)' /\ Covers(log', Excuse, spool, c.rid)
    BY <1>1 DEF CInv, CursorFits
  <2>1. c.rid \in Nat /\ c.rid <= Len(log) /\ Covers(log, Excuse, spool, c.rid)
    BY DEF CInv, CursorFits
  <2> QED BY <1>2, <2>1, CoversStays
<1>4. TrackedFit'
  <2>1. disk.cursor.epoch = epoch =>
          Follows(log', Excuse, TrackedProcs(disk.tracked), disk.cursor.rid)
    BY <1>2, FollowsStays DEF CInv, CursorFits, TrackedFit
  <2>2. pc = "idle" /\ cursor.epoch = epoch =>
          Follows(log', Excuse, TrackedProcs(tracked), cursor.rid)
    BY <1>2, FollowsStays DEF CInv, CursorFits, TrackedFit
  <2> QED BY <1>1, <2>1, <2>2 DEF TrackedFit
<1>5. BatchFits'
  <2> SUFFICES ASSUME Polling, upTo.epoch = epoch
               PROVE  /\ upTo.rid <= Len(log)'
                      /\ \A i \in 1..Len(batch) : /\ batch[i].eid = log'[Parsed + i].eid
                                                  /\ batch[i].proc = log'[Parsed + i].proc
    BY <1>1 DEF CInv, BatchFits, Polling
  <2>1. /\ upTo.rid <= Len(log) /\ cursor.rid <= Parsed
        /\ \A i \in 1..Len(batch) : /\ batch[i].eid = log[Parsed + i].eid
                                    /\ batch[i].proc = log[Parsed + i].proc
    BY DEF CInv, BatchFits
  <2>2. \A i \in 1..Len(batch) : Parsed + i \in 1..Len(log)
    BY <2>1, SMTT(30) DEF Parsed
  <2> QED BY <2>1, <2>2, SMTT(30)
<1>6. PollFits'
  <2> SUFFICES ASSUME Polling, Counts
               PROVE  /\ Follows(log', Excuse, TrackedProcs(tracked), Parsed)
                      /\ Follows(log', Excuse, known, cursor.rid)
                      /\ Covers(log', Excuse, spool \cup out, Parsed)
    BY <1>1 DEF PollFits, Polling, Counts
  <2>1. Parsed <= Len(log) /\ cursor.rid <= Len(log)
    BY DEF CInv, BatchFits, Counts, Parsed
  <2>2. /\ Follows(log, Excuse, TrackedProcs(tracked), Parsed)
        /\ Follows(log, Excuse, known, cursor.rid)
        /\ Covers(log, Excuse, spool \cup out, Parsed)
    BY DEF CInv, PollFits
  <2> QED BY <1>2, <2>1, <2>2, FollowsStays, CoversStays
<1>7. Written'
  BY <1>1 DEF CInv, Written
<1> QED BY <1>3, <1>4, <1>5, <1>6, <1>7

\* Whoever is created has a running parent.
LEMMA SpawnOrdered == AuditAssumption /\ Inv /\ CInv /\ (\E p \in Proc : Spawn(p)) => LogOrdered'
<1> SUFFICES ASSUME AuditAssumption, Inv, CInv, NEW p \in Proc, Spawn(p) PROVE LogOrdered'
  OBVIOUS
<1> DEFINE n == Len(log)
<1> USE Numbers
<1>1. /\ Len(log)' = n + 1 /\ log'[n + 1] = [eid |-> 1, proc |-> p]
      /\ \A i \in 1..n : log'[i] = log[i]
  BY NewRecord DEF Spawn, Log, LogRecord
<1>2. forgotten' = forgotten /\ status' = [status EXCEPT ![p] = "running"] /\ status[p] = "new"
  BY DEF Spawn
<1>3. LogOrdered
  BY DEF CInv
<1>4. ASSUME NEW i \in 1..(n + 1) PROVE BornRight(log', i, forgotten)
  <2>1. CASE i \in 1..n
    <3>1. log'[i] = log[i] /\ \A j \in 1..(i - 1) : log'[j] = log[j]
      BY <1>1, <2>1
    <3>2. BornRight(log, i, forgotten)
      BY <1>3, <2>1 DEF LogOrdered
    <3> QED BY <3>1, <3>2, SameRecords, SMTT(30) DEF BornRight
  <2>2. CASE i = n + 1
    <3> SUFFICES ASSUME Parent[p] # NoProc
                 PROVE  /\ Parent[p] \in forgotten \/ CreatedIn(log', Parent[p], n)
                        /\ ~EndedIn(log', Parent[p], n)
      BY <1>1, <2>2 DEF BornRight
    <3>1. Parent[p] \in Proc /\ status[Parent[p]] = "running"
      BY DEF AuditAssumption, Spawn
    <3>2. /\ Parent[p] \in forgotten \/ CreatedIn(log, Parent[p], n)
          /\ ~EndedIn(log, Parent[p], n)
      BY <1>3, <3>1 DEF LogOrdered
    <3>3. n \in Int
      OBVIOUS
    <3> QED BY <1>1, <3>2, <3>3, SameRecords
  <2> QED BY <2>1, <2>2
<1>5. ASSUME NEW q \in Proc
      PROVE  /\ status'[q] # "gone" => ~EndedIn(log', q, n + 1)
             /\ status'[q] # "new" => q \in forgotten \/ CreatedIn(log', q, n + 1)
  <2>1. CreatedIn(log, q, n) \/ q = p => CreatedIn(log', q, n + 1)
    BY <1>1, SMTT(30) DEF CreatedIn
  <2>2. EndedIn(log', q, n + 1) => EndedIn(log, q, n)
    BY <1>1, SMTT(30) DEF EndedIn
  <2>3. status \in [Proc -> {"new", "running", "gone"}]
    BY DEF Inv, TypeOK
  <2> QED BY <1>2, <1>3, <2>1, <2>2, <2>3 DEF LogOrdered
<1> QED BY <1>1, <1>2, <1>4, <1>5 DEF LogOrdered

LEMMA ExitOrdered == Inv /\ CInv /\ (\E p \in Proc : Exit(p)) => LogOrdered'
<1> SUFFICES ASSUME Inv, CInv, NEW p \in Proc, Exit(p) PROVE LogOrdered'
  OBVIOUS
<1> DEFINE n == Len(log)
<1> USE Numbers
<1>1. /\ Len(log)' = n + 1 /\ log'[n + 1] = [eid |-> 5, proc |-> p]
      /\ \A i \in 1..n : log'[i] = log[i]
  BY NewRecord DEF Exit, Log, LogRecord
<1>2. forgotten' = forgotten /\ status' = [status EXCEPT ![p] = "gone"] /\ status[p] = "running"
  BY DEF Exit
<1>3. LogOrdered
  BY DEF CInv
<1>4. ASSUME NEW i \in 1..(n + 1) PROVE BornRight(log', i, forgotten)
  <2>1. CASE i \in 1..n
    <3>1. log'[i] = log[i] /\ \A j \in 1..(i - 1) : log'[j] = log[j]
      BY <1>1, <2>1
    <3>2. BornRight(log, i, forgotten)
      BY <1>3, <2>1 DEF LogOrdered
    <3> QED BY <3>1, <3>2, SameRecords, SMTT(30) DEF BornRight
  <2>2. CASE i = n + 1
    BY <1>1, <2>2 DEF BornRight
  <2> QED BY <2>1, <2>2
<1>5. ASSUME NEW q \in Proc
      PROVE  /\ status'[q] # "gone" => ~EndedIn(log', q, n + 1)
             /\ status'[q] # "new" => q \in forgotten \/ CreatedIn(log', q, n + 1)
  <2>1. CreatedIn(log, q, n) => CreatedIn(log', q, n + 1)
    BY <1>1 DEF CreatedIn
  <2>2. EndedIn(log', q, n + 1) => EndedIn(log, q, n) \/ q = p
    BY <1>1, SMTT(30) DEF EndedIn
  <2>3. status \in [Proc -> {"new", "running", "gone"}]
    BY DEF Inv, TypeOK
  <2> QED BY <1>2, <1>3, <2>1, <2>2, <2>3 DEF LogOrdered
<1> QED BY <1>1, <1>2, <1>4, <1>5 DEF LogOrdered

\* After a clearing no position speaks about the log, and everyone is excused.
LEMMA ClearLogFits == Inv /\ CInv /\ ClearLog => CInv'
<1> SUFFICES ASSUME Inv, CInv, ClearLog PROVE CInv'
  OBVIOUS
<1> USE Numbers
<1>1. /\ log' = <<>> /\ epoch' = epoch + 1 /\ status' = status
      /\ forgotten' = forgotten \cup {p \in Proc : status[p] # "new"}
      /\ UNCHANGED <<pc, cursor, tracked, batch, upTo, out, disk, spool>>
  BY DEF ClearLog, MachineFrame, memory
<1>2. LogOrdered'
  <2>1. 1..Len(log') = {} /\ \A p : ~EndedIn(log', p, Len(log'))
    BY <1>1 DEF EndedIn
  <2> QED BY <1>1, <2>1 DEF LogOrdered
<1>3. cursor.epoch # epoch' /\ disk.cursor.epoch # epoch'
      /\ cursor.epoch <= epoch' /\ disk.cursor.epoch <= epoch'
  BY <1>1 DEF CInv, CursorFits
<1>4. CursorFits' /\ TrackedFit'
  BY <1>1, <1>3 DEF CursorFits, TrackedFit
<1>5. BatchFits' /\ PollFits'
  <2>1. Polling' => upTo.epoch # epoch' /\ upTo.epoch <= epoch' /\ cursor.epoch <= upTo.epoch
                    /\ cursor.rid <= Parsed
    BY <1>1 DEF CInv, BatchFits, Polling
  <2> QED BY <1>1, <2>1 DEF BatchFits, PollFits, Counts, Parsed
<1>6. Written'
  BY <1>1 DEF CInv, Written
<1> QED BY <1>2, <1>4, <1>5, <1>6 DEF CInv

LEMMA MachineFits == AuditAssumption /\ Inv /\ CInv /\ Machine => CInv'
<1> SUFFICES ASSUME AuditAssumption, Inv, CInv, Machine PROVE CInv'
  OBVIOUS
<1>1. CASE \E p \in Proc : Spawn(p) \/ Exit(p)
  <2>1. PICK r \in LogRecord : log' = Append(log, r)
    BY <1>1 DEF Spawn, Exit, Log, LogRecord
  <2>2. UNCHANGED <<epoch, pc, memory, disk, spool, known, excuses>>
    BY <1>1 DEF Spawn, Exit, MachineFrame, excuses
  <2>3. Len(log) <= Len(log)' /\ \A i \in 1..Len(log) : log'[i] = log[i]
    BY <2>1, NewRecord, Numbers
  <2>4. LogOrdered'
    BY <1>1, SpawnOrdered, ExitOrdered
  <2> QED BY <2>2, <2>3, <2>4, GrowingLog DEF CInv
<1> QED BY <1>1, ClearLogFits DEF Machine
-----------------------------------------------------------------------------
(* The collector's steps: the log stays, excuses and the spool only grow.    *)

CollectorFrame ==
    UNCHANGED machine /\ forgotten \subseteq forgotten' /\ orphaned \subseteq orphaned'
    /\ spool \subseteq spool'

LEMMA StillOrdered == LogOrdered /\ CollectorFrame => LogOrdered'
  BY DEF LogOrdered, CollectorFrame, machine, BornRight

\* What was said of a position remains true ...
LEMMA StillFits ==
    ASSUME Inv, CInv, CollectorFrame, NEW c \in {cursor, disk.cursor}
    PROVE  /\ c.epoch <= epoch'
           /\ c.epoch = epoch' => c.rid <= Len(log') /\ Covers(log', Excuse', spool', c.rid)
<1>1. log' = log /\ epoch' = epoch /\ Excuse \subseteq Excuse' /\ spool \subseteq spool'
  BY DEF CollectorFrame, machine, Excuse
<1>2. c.epoch <= epoch /\ (c.epoch = epoch => c.rid <= Len(log) /\ Covers(log, Excuse, spool, c.rid))
  BY DEF CInv, CursorFits
<1> QED BY <1>1, <1>2, CoversStays, Numbers

\* ... and of the tracked processes on disk.
LEMMA DiskStillFits ==
    ASSUME Inv, CInv, CollectorFrame
    PROVE  disk.cursor.epoch = epoch' =>
              Follows(log', Excuse', TrackedProcs(disk.tracked), disk.cursor.rid)
<1>1. log' = log /\ epoch' = epoch /\ Excuse \subseteq Excuse'
  BY DEF CollectorFrame, machine, Excuse
<1>2. disk.cursor.epoch = epoch =>
          Follows(log, Excuse, TrackedProcs(disk.tracked), disk.cursor.rid)
  BY DEF CInv, TrackedFit
<1> QED BY <1>1, <1>2, FollowsStays, Numbers

\* Steps after which no poll is on, with positions and tracked processes that fit.
LEMMA IdleFits ==
    ASSUME Inv, CInv, CollectorFrame, pc' \in {"down", "idle"},
           disk' = disk \/ disk' = [cursor |-> cursor', tracked |-> tracked'],
           cursor'.epoch <= epoch,
           cursor'.epoch = epoch => /\ cursor'.rid <= Len(log)
                                    /\ Covers(log, Excuse', spool', cursor'.rid),
           cursor'.epoch = epoch /\ (pc' = "idle" \/ disk' # disk) =>
              Follows(log, Excuse', TrackedProcs(tracked'), cursor'.rid)
    PROVE  CInv'
<1>1. log' = log /\ epoch' = epoch
  BY DEF CollectorFrame, machine
<1>2. LogOrdered'
  BY StillOrdered DEF CInv
<1>3. CursorFits'
  BY <1>1, StillFits DEF CursorFits
<1>4. TrackedFit'
  BY <1>1, DiskStillFits DEF TrackedFit
<1>5. BatchFits' /\ PollFits' /\ Written'
  BY DEF BatchFits, PollFits, Polling, Written
<1> QED BY <1>2, <1>3, <1>4, <1>5 DEF CInv

LEMMA StartFits == Inv /\ CInv /\ Start => CInv'
<1> SUFFICES ASSUME Inv, CInv, Start PROVE CInv'
  OBVIOUS
<1>1. CollectorFrame /\ Excuse' = Excuse /\ spool' = spool
  BY DEF Start, CollectorFrame, excuses, Excuse
<1>2. cursor' = disk.cursor /\ tracked' = disk.tracked /\ disk' = disk /\ pc' = "idle"
  BY DEF Start
<1>3. /\ cursor'.epoch <= epoch
      /\ cursor'.epoch = epoch => /\ cursor'.rid <= Len(log)
                                  /\ Covers(log, Excuse, spool, cursor'.rid)
                                  /\ Follows(log, Excuse, TrackedProcs(tracked'), cursor'.rid)
  BY <1>2 DEF CInv, CursorFits, TrackedFit
<1> QED BY <1>1, <1>2, <1>3, IdleFits

LEMMA CrashFits == Inv /\ CInv /\ Crash => CInv'
<1> SUFFICES ASSUME Inv, CInv, Crash PROVE CInv'
  OBVIOUS
<1>1. CollectorFrame
  BY DEF Crash, CollectorFrame, excuses
<1>2. cursor'.epoch = 0 /\ disk' = disk /\ pc' = "down"
  BY DEF Crash, Start0
<1>3. cursor'.epoch <= epoch /\ cursor'.epoch # epoch
  BY <1>2, Numbers
<1> QED BY <1>1, <1>2, <1>3, IdleFits

LEMMA QueryNothingFits == Inv /\ CInv /\ QueryNothing => CInv'
<1> SUFFICES ASSUME Inv, CInv, QueryNothing PROVE CInv'
  OBVIOUS
<1>1. CollectorFrame /\ pc' = "idle"
  BY DEF QueryNothing, CollectorFrame, excuses
<1>2. cursor'.rid = 0 /\ cursor'.epoch = epoch /\ tracked' = <<>>
  BY DEF QueryNothing
<1>3. disk' = disk \/ disk' = [cursor |-> cursor', tracked |-> tracked']
  BY <1>2 DEF QueryNothing, SaveCursor
<1>4. /\ cursor'.epoch <= epoch /\ cursor'.rid <= Len(log)
      /\ Covers(log, Excuse', spool', cursor'.rid)
      /\ Follows(log, Excuse', TrackedProcs(tracked'), cursor'.rid)
  BY <1>2, NothingYet, Numbers
<1> QED BY <1>1, <1>3, <1>4, IdleFits

LEMMA QueryUnreadableFits == Inv /\ CInv /\ QueryUnreadable => CInv'
<1> SUFFICES ASSUME Inv, CInv, QueryUnreadable PROVE CInv'
  OBVIOUS
<1>1. CollectorFrame /\ Excuse' = Excuse /\ spool' = spool /\ pc = "idle" /\ pc' = "idle"
  BY DEF QueryUnreadable, CollectorFrame, excuses, Excuse
<1>2. /\ cursor' = cursor /\ tracked' = tracked
      /\ disk' = disk \/ disk' = [cursor |-> cursor', tracked |-> tracked']
  BY DEF QueryUnreadable, memory, SaveCursor
<1>3. /\ cursor'.epoch <= epoch
      /\ cursor'.epoch = epoch => /\ cursor'.rid <= Len(log)
                                  /\ Covers(log, Excuse, spool, cursor'.rid)
                                  /\ Follows(log, Excuse, TrackedProcs(tracked'), cursor'.rid)
  BY <1>1, <1>2 DEF CInv, CursorFits, TrackedFit
<1> QED BY <1>1, <1>2, <1>3, IdleFits
-----------------------------------------------------------------------------
(* A poll, record by record.                                                 *)

\* Steps that leave both cursors alone, with the poll going on.
LEMMA PollingFits ==
    ASSUME Inv, CInv, CollectorFrame, pc' # "idle", cursor' = cursor, disk' = disk,
           BatchFits', PollFits', Written'
    PROVE  CInv'
<1>1. LogOrdered'
  BY StillOrdered DEF CInv
<1>2. CursorFits'
  BY StillFits DEF CursorFits
<1>3. TrackedFit'
  BY DiskStillFits DEF TrackedFit
<1> QED BY <1>1, <1>2, <1>3 DEF CInv

LEMMA QueryFits == Inv /\ CInv /\ Query => CInv'
<1> SUFFICES ASSUME Inv, CInv, Query PROVE CInv'
  OBVIOUS
<1> DEFINE n == QueryEnd - cursor.rid
<1> USE Numbers
<1>1. /\ CollectorFrame /\ Excuse' = Excuse /\ spool' = spool /\ log' = log /\ epoch' = epoch
      /\ cursor' = cursor /\ tracked' = tracked /\ disk' = disk
      /\ pc = "idle" /\ pc' = "parse"
  BY DEF Query, CollectorFrame, machine, excuses, Excuse
<1>2. n \in Nat /\ QueryEnd \in Nat /\ QueryEnd <= Len(log)
  <2>1. MaxPerPoll \in Nat \ {0}
    BY AuditAssumption DEF AuditAssumption
  <2> QED BY <2>1, SMTT(30) DEF Query, QueryEnd
<1>3. /\ Len(batch') = n
      /\ \A i \in 1..n : /\ batch'[i].eid = log[cursor.rid + i].eid
                         /\ batch'[i].proc = log[cursor.rid + i].proc
  <2>1. DOMAIN batch' = 1..n
    BY DEF Query
  <2>2. batch' \in Seq(Record)
    BY QueryInv, AuditAssumption DEF Inv, TypeOK
  <2>3. Len(batch') = n
    BY <1>2, <2>1, <2>2, LenProperties
  <2> QED BY <2>3 DEF Query
<1>4. upTo'.rid = QueryEnd /\ upTo'.epoch = epoch /\ out' = {} /\ known' = TrackedProcs(tracked)
  BY DEF Query
<1>5. Parsed' = cursor.rid
  BY <1>2, <1>3, <1>4 DEF Parsed
<1>6. cursor.epoch <= epoch
  BY DEF CInv, CursorFits
<1>7. BatchFits'
  BY <1>1, <1>2, <1>3, <1>4, <1>5, <1>6 DEF BatchFits
<1>8. PollFits'
  <2> SUFFICES ASSUME cursor.rid = 0 \/ cursor.epoch = epoch
               PROVE  /\ Follows(log, Excuse, TrackedProcs(tracked), cursor.rid)
                      /\ Covers(log, Excuse, spool, cursor.rid)
    BY <1>1, <1>4, <1>5 DEF PollFits, Counts
  <2>1. CASE cursor.rid = 0
    BY <2>1, NothingYet
  <2>2. CASE cursor.epoch = epoch
    BY <1>1, <2>2 DEF CInv, CursorFits, TrackedFit
  <2> QED BY <2>1, <2>2
<1>9. Written'
  BY <1>1 DEF Written
<1> QED BY <1>1, <1>7, <1>8, <1>9, PollingFits

\* The record at hand is the one behind those parsed.
LEMMA ParseAdvances ==
    ASSUME Inv, CInv, pc = "parse", ParseFrame
    PROVE  /\ Parsed' = Parsed + 1 /\ Parsed \in Nat
           /\ upTo.epoch = epoch =>
                 /\ Parsed + 1 \in 1..Len(log)
                 /\ log[Parsed + 1].eid = Head(batch).eid
                 /\ log[Parsed + 1].proc = Head(batch).proc
           /\ BatchFits' /\ Written'
           /\ Polling /\ pc' # "idle" /\ Counts' = Counts
           /\ UNCHANGED <<machine, cursor, upTo, disk, spool, known, orphaned>>
<1> USE Numbers
<1>1. UNCHANGED <<log, epoch, machine, cursor, upTo, disk, spool, known, orphaned>>
  BY DEF ParseFrame, machine
<1>2. batch \in Seq(Record) /\ batch # <<>> /\ batch' = Tail(batch) /\ pc' \in {"write", "parse"}
  BY DEF Inv, TypeOK, ParseFrame
<1>3. /\ Len(batch) \in Nat \ {0} /\ Head(batch) = batch[1]
      /\ Len(Tail(batch)) = Len(batch) - 1
      /\ \A i \in 1..(Len(batch) - 1) : Tail(batch)[i] = batch[i + 1]
  BY <1>2, EmptySeq, HeadTailProperties
<1>4. Parsed' = Parsed + 1
  BY <1>1, <1>2, <1>3 DEF Parsed
<1>5. /\ cursor.epoch <= upTo.epoch /\ upTo.epoch <= epoch /\ cursor.rid <= Parsed
      /\ upTo.epoch = epoch =>
            /\ upTo.rid <= Len(log)
            /\ \A i \in 1..Len(batch) :
                  batch[i].eid = log[Parsed + i].eid /\ batch[i].proc = log[Parsed + i].proc
  BY DEF CInv, BatchFits, Polling
<1>6. upTo.epoch = epoch => Parsed + 1 \in 1..Len(log)
  BY <1>3, <1>5 DEF Parsed
<1>7. upTo.epoch = epoch => log[Parsed + 1].eid = Head(batch).eid
                            /\ log[Parsed + 1].proc = Head(batch).proc
  BY <1>3, <1>5
<1>8. BatchFits'
  <2>1. ASSUME upTo.epoch = epoch, NEW i \in 1..Len(batch')
        PROVE  /\ batch'[i].eid = log[Parsed + 1 + i].eid
               /\ batch'[i].proc = log[Parsed + 1 + i].proc
    <3>1. batch'[i] = batch[i + 1] /\ i + 1 \in 1..Len(batch) /\ Parsed + 1 + i = Parsed + (i + 1)
      BY <1>2, <1>3, SMTT(30)
    <3> QED BY <1>5, <2>1, <3>1
  <2>2. cursor.rid <= Parsed + 1
    BY <1>5
  <2> QED BY <1>1, <1>4, <1>5, <2>1, <2>2 DEF BatchFits
<1>9. Written' /\ Polling /\ Counts' = Counts /\ pc' # "idle"
  BY <1>1, <1>2 DEF Written, Polling, Counts
<1>10. Parsed \in Nat
  BY <1>5
<1> QED BY <1>1, <1>4, <1>6, <1>7, <1>8, <1>9, <1>10

\* What the next record adds to what the log says.
LEMMA OneRecordMore ==
    ASSUME NEW lg, NEW k \in Nat, NEW p
    PROVE  /\ CreatedIn(lg, p, k + 1)
                => CreatedIn(lg, p, k) \/ (lg[k + 1].eid = 1 /\ lg[k + 1].proc = p)
           /\ ~EndedIn(lg, p, k + 1)
                => ~EndedIn(lg, p, k) /\ ~(lg[k + 1].eid = 5 /\ lg[k + 1].proc = p)
  BY DEF CreatedIn, EndedIn

LEMMA RecordFollowed ==
    ASSUME NEW lg, NEW why, NEW procs, NEW procs2, NEW k \in Nat, Follows(lg, why, procs, k),
           \A p \in procs : p \in procs2 \/ (lg[k + 1].eid = 5 /\ lg[k + 1].proc = p),
           lg[k + 1].eid = 1 /\ SessionOf[lg[k + 1].proc] # NoProc
              => lg[k + 1].proc \in procs2 \/ Excused(lg[k + 1].proc, why)
    PROVE  Follows(lg, why, procs2, k + 1)
<1> SUFFICES ASSUME NEW p \in Proc, SessionOf[p] # NoProc, CreatedIn(lg, p, k + 1),
                    ~EndedIn(lg, p, k + 1)
             PROVE  p \in procs2 \/ Excused(p, why)
  BY DEF Follows
<1>1. CASE CreatedIn(lg, p, k)
  BY <1>1, OneRecordMore DEF Follows
<1>2. CASE lg[k + 1].eid = 1 /\ lg[k + 1].proc = p
  BY <1>2
<1> QED BY <1>1, <1>2, OneRecordMore

LEMMA RecordCovered ==
    ASSUME NEW lg, NEW why, NEW events, NEW events2, NEW k \in Nat, Covers(lg, why, events, k),
           events \subseteq events2,
           lg[k + 1].eid = 1 /\ SessionOf[lg[k + 1].proc] # NoProc
              => (\E e \in events2 : e.proc = lg[k + 1].proc) \/ Excused(lg[k + 1].proc, why)
    PROVE  Covers(lg, why, events2, k + 1)
<1> SUFFICES ASSUME NEW p \in Proc, SessionOf[p] # NoProc, CreatedIn(lg, p, k + 1)
             PROVE  (\E e \in events2 : e.proc = p) \/ Excused(p, why)
  BY DEF Covers
<1>1. CASE CreatedIn(lg, p, k)
  BY <1>1 DEF Covers
<1>2. CASE lg[k + 1].eid = 1 /\ lg[k + 1].proc = p
  BY <1>2
<1> QED BY <1>1, <1>2, OneRecordMore

LEMMA ParseTerminateFits == Inv /\ CInv /\ ParseTerminate => CInv'
<1> SUFFICES ASSUME Inv, CInv, ParseTerminate PROVE CInv'
  OBVIOUS
<1> DEFINE p == Head(batch).proc
           k == Parsed
<1>1. pc = "parse" /\ ParseFrame /\ Head(batch).eid = 5
      /\ tracked' = Without(tracked, p) /\ UNCHANGED <<out, forgotten>>
  BY DEF ParseTerminate
<1>2. /\ Parsed' = k + 1 /\ k \in Nat /\ BatchFits' /\ Written' /\ Polling /\ pc' # "idle"
      /\ Counts' = Counts
      /\ upTo.epoch = epoch => log[k + 1].eid = 5 /\ log[k + 1].proc = p
      /\ UNCHANGED <<machine, cursor, upTo, disk, spool, known, orphaned>>
  BY <1>1, ParseAdvances
<1>3. CollectorFrame /\ Excuse' = Excuse /\ log' = log
  BY <1>1, <1>2 DEF CollectorFrame, Excuse, machine
<1>4. PollFits'
  <2> SUFFICES ASSUME Counts
               PROVE  /\ Follows(log, Excuse, TrackedProcs(Without(tracked, p)), k + 1)
                      /\ Follows(log, Excuse, known, cursor.rid)
                      /\ Covers(log, Excuse, spool \cup out, k + 1)
    BY <1>1, <1>2, <1>3 DEF PollFits
  <2>1. /\ Follows(log, Excuse, TrackedProcs(tracked), k)
        /\ Follows(log, Excuse, known, cursor.rid)
        /\ Covers(log, Excuse, spool \cup out, k)
    BY <1>2 DEF CInv, PollFits
  <2>2. log[k + 1].eid = 5 /\ log[k + 1].proc = p
    BY <1>2 DEF Counts
  <2>3. tracked \in Seq(Pair)
    BY DEF Inv, TypeOK
  <2>4. Follows(log, Excuse, TrackedProcs(Without(tracked, p)), k + 1)
    BY <1>2, <2>1, <2>2, <2>3, WithoutKeeps, RecordFollowed
  <2>5. Covers(log, Excuse, spool \cup out, k + 1)
    BY <1>2, <2>1, <2>2, RecordCovered
  <2> QED BY <2>1, <2>4, <2>5
<1> QED BY <1>2, <1>3, <1>4, PollingFits

\* A process of a Claude tree that is taken for a stranger is excused: its parent is
\* not tracked.
LEMMA StrangerExcused ==
    ASSUME AuditAssumption, LineageAssumption, Inv, CInv, NEW k \in Nat, k + 1 \in 1..Len(log),
           Follows(log, Excuse, TrackedProcs(tracked), k),
           log[k + 1].eid = 1, SessionFor(log[k + 1].proc) = NoProc,
           SessionOf[log[k + 1].proc] # NoProc
    PROVE  Excused(log[k + 1].proc, Excuse)
<1> DEFINE p == log[k + 1].proc
           q == Parent[p]
<1>1. log[k + 1] \in LogRecord
  <2>1. log \in Seq(LogRecord)
    BY DEF Inv, TypeOK, LogRecord
  <2> QED BY <2>1, ElementOfSeq
<1>2. p \in Proc
  BY <1>1 DEF LogRecord
<1>3. p \notin Denied /\ p \notin Root
  BY <1>2 DEF AuditAssumption, SessionFor
<1>4. q # NoProc /\ q \in Proc /\ SessionOf[q] # NoProc
  BY <1>2, <1>3 DEF AuditAssumption
<1>5. q \notin TrackedProcs(tracked)
  <2> SUFFICES ASSUME q \in TrackedProcs(tracked) PROVE FALSE
    OBVIOUS
  <2>1. tracked[IndexOf(tracked, q)] \in Pair
    BY IndexType, ElementOfSeq DEF Inv, TypeOK
  <2>2. SessionFor(p) = tracked[IndexOf(tracked, q)].sid
    BY <1>3 DEF SessionFor
  <2> QED BY <2>1, <2>2 DEF Pair, AuditAssumption
<1>6. BornRight(log, k + 1, forgotten)
  BY DEF CInv, LogOrdered
<1>7. /\ q \in forgotten \/ CreatedIn(log, q, k)
      /\ ~EndedIn(log, q, k)
  <2>1. k + 1 - 1 = k
    OBVIOUS
  <2> QED BY <1>4, <1>6, <2>1 DEF BornRight
<1>8. CASE q \in forgotten
  <2>1. q \in Excuse
    BY <1>8 DEF Excuse
  <2>2. Excused(q, Excuse)
    BY <1>4, <2>1, SelfExcused
  <2> QED BY <1>2, <1>4, <2>2, ParentExcused
<1>9. CASE CreatedIn(log, q, k) /\ ~EndedIn(log, q, k)
  <2>1. Excused(q, Excuse)
    BY <1>4, <1>5, <1>9 DEF Follows
  <2> QED BY <1>2, <1>4, <2>1, ParentExcused
<1> QED BY <1>7, <1>8, <1>9

LEMMA ParseCreateFits ==
    AuditAssumption /\ LineageAssumption /\ Inv /\ CInv /\ ParseCreate => CInv'
<1> SUFFICES ASSUME AuditAssumption, LineageAssumption, Inv, CInv, ParseCreate PROVE CInv'
  OBVIOUS
<1> DEFINE p == Head(batch).proc
           sid == SessionFor(p)
           all == Insert(tracked, p, sid)
           k == Parsed
<1>1. pc = "parse" /\ ParseFrame /\ Head(batch).eid = 1
  BY DEF ParseCreate
<1>2. /\ Parsed' = k + 1 /\ k \in Nat /\ BatchFits' /\ Written' /\ Polling /\ pc' # "idle"
      /\ Counts' = Counts
      /\ upTo.epoch = epoch => k + 1 \in 1..Len(log) /\ log[k + 1].eid = 1 /\ log[k + 1].proc = p
      /\ UNCHANGED <<machine, cursor, upTo, disk, spool, known, orphaned>>
  BY <1>1, ParseAdvances
<1>3. forgotten \subseteq forgotten' /\ out \subseteq out'
  BY DEF ParseCreate
<1>4. CollectorFrame /\ Excuse \subseteq Excuse' /\ log' = log
  BY <1>2, <1>3 DEF CollectorFrame, Excuse, machine
<1>5. PollFits'
  <2> SUFFICES ASSUME Counts
               PROVE  /\ Follows(log, Excuse', TrackedProcs(tracked'), k + 1)
                      /\ Follows(log, Excuse', known, cursor.rid)
                      /\ Covers(log, Excuse', spool \cup out', k + 1)
    BY <1>2, <1>4 DEF PollFits
  <2>1. /\ Follows(log, Excuse, TrackedProcs(tracked), k)
        /\ Follows(log, Excuse, known, cursor.rid)
        /\ Covers(log, Excuse, spool \cup out, k)
    BY <1>2 DEF CInv, PollFits
  <2>2. k + 1 \in 1..Len(log) /\ log[k + 1].eid = 1 /\ log[k + 1].proc = p
    BY <1>2 DEF Counts
  <2>3. Follows(log, Excuse', known, cursor.rid)
    BY <1>4, <2>1, FollowsStays, Numbers
  <2>4. CASE sid = NoProc
    <3>1. UNCHANGED <<tracked, out, forgotten>>
      BY <2>4 DEF ParseCreate
    <3>2. SessionOf[p] # NoProc => Excused(p, Excuse)
      BY <1>2, <2>1, <2>2, <2>4, StrangerExcused
    <3>3. Follows(log, Excuse, TrackedProcs(tracked), k + 1)
      BY <1>2, <2>1, <2>2, <3>2, RecordFollowed
    <3>4. Covers(log, Excuse, spool \cup out, k + 1)
      BY <1>2, <2>1, <2>2, <3>2, RecordCovered
    <3>5. Excuse' = Excuse
      BY <1>2, <3>1 DEF Excuse
    <3> QED BY <2>3, <3>1, <3>3, <3>4, <3>5
  <2>5. CASE sid # NoProc
    <3>1. /\ tracked' = Evict(all)
          /\ forgotten' = forgotten \cup (TrackedProcs(all) \ TrackedProcs(tracked'))
          /\ \E e \in out' : e.proc = p
      <4>1. /\ tracked' = Evict(all)
            /\ forgotten' = forgotten \cup (TrackedProcs(all) \ TrackedProcs(tracked'))
            /\ out' = out \cup {[rid |-> Head(batch).rid, epoch |-> upTo.epoch,
                                 proc |-> p, sid |-> sid]}
        BY <2>5 DEF ParseCreate
      <4> DEFINE new == [rid |-> Head(batch).rid, epoch |-> upTo.epoch, proc |-> p, sid |-> sid]
      <4> HIDE DEF p, sid, all
      <4>2. new.proc = p /\ new \in out'
        BY <4>1
      <4>3. \E e \in out' : e.proc = p
        BY <4>2
      <4> QED BY <4>1, <4>3
    <3>2. p \in Proc /\ tracked \in Seq(GoodPair) /\ tracked \in Seq(Pair)
      BY <1>1, ParseFrameInv DEF Inv, TypeOK, Record
    <3>3. TrackedProcs(tracked) \cup {p} \subseteq TrackedProcs(all)
      BY <3>2, InsertKeeps
    <3>4. TrackedProcs(all) \subseteq Proc
      <4>1. sid = SessionOf[p] /\ SessionOf[p] \in Proc
        BY <2>5, <3>2, SessionForFiled
      <4>2. all \in Seq(GoodPair)
        BY <3>2, <4>1, InsertGood
      <4>3. \A i \in 1..Len(all) : all[i] \in GoodPair
        BY <4>2, ElementOfSeq
      <4> QED BY <4>3 DEF TrackedProcs, GoodPair, Pair
    <3>5. Follows(log, Excuse, TrackedProcs(all), k + 1)
      BY <1>2, <2>1, <2>2, <3>3, RecordFollowed
    <3>6. \A q \in TrackedProcs(all) : q \in TrackedProcs(tracked') \/ Excused(q, Excuse')
      <4>1. ASSUME NEW q \in TrackedProcs(all), q \notin TrackedProcs(tracked')
            PROVE  Excused(q, Excuse')
        <5>1. q \in Proc /\ q \in Excuse'
          BY <3>1, <3>4, <4>1 DEF Excuse
        <5> QED BY <5>1, SelfExcused
      <4> QED BY <4>1
    <3>7. Follows(log, Excuse', TrackedProcs(tracked'), k + 1)
      BY <1>2, <1>4, <3>5, <3>6, FollowsStays
    <3>8. Covers(log, Excuse, spool \cup out', k + 1)
      BY <1>2, <1>3, <2>1, <2>2, <3>1, RecordCovered
    <3>9. Covers(log, Excuse', spool \cup out', k + 1)
      BY <1>2, <1>4, <3>8, CoversStays
    <3> QED BY <2>3, <3>7, <3>9
  <2> QED BY <2>4, <2>5
<1> QED BY <1>2, <1>4, <1>5, PollingFits

LEMMA WriteSpoolFits == Inv /\ CInv /\ WriteSpool => CInv'
<1> SUFFICES ASSUME Inv, CInv, WriteSpool PROVE CInv'
  OBVIOUS
<1>1. /\ UNCHANGED <<machine, log, epoch, cursor, tracked, batch, upTo, out, disk, known, Excuse>>
      /\ spool' = spool \cup out /\ pc = "write" /\ pc' = "save"
      /\ CollectorFrame
  BY DEF WriteSpool, memory, machine, excuses, Excuse, CollectorFrame
<1>2. BatchFits' /\ Written'
  BY <1>1 DEF CInv, BatchFits, Written, Polling, Parsed
<1>3. PollFits'
  <2>1. spool' \cup out' = spool \cup out /\ Polling /\ Counts' = Counts /\ Parsed' = Parsed
    BY <1>1 DEF Polling, Counts, Parsed
  <2> QED BY <1>1, <2>1 DEF CInv, PollFits
<1> QED BY <1>1, <1>2, <1>3, PollingFits

\* The cursor stays, and what was tracked when the poll began is tracked or excused.
LEMMA WriteFailsFits == LineageAssumption /\ Inv /\ CInv /\ WriteFails => CInv'
<1> SUFFICES ASSUME LineageAssumption, Inv, CInv, WriteFails PROVE CInv'
  OBVIOUS
<1> USE Numbers
<1>1. /\ UNCHANGED <<machine, cursor, tracked, disk, forgotten>>
      /\ orphaned' = orphaned \cup (known \ TrackedProcs(tracked))
      /\ spool \subseteq spool' /\ pc = "write" /\ pc' = "idle"
  BY DEF WriteFails, PollOver
<1>2. CollectorFrame /\ Excuse \subseteq Excuse'
  BY <1>1 DEF CollectorFrame, Excuse
<1>3. cursor.epoch <= epoch
      /\ (cursor.epoch = epoch => cursor.rid <= Len(log) /\ Covers(log, Excuse, spool, cursor.rid))
  BY DEF CInv, CursorFits
<1>4. cursor.epoch = epoch => Covers(log, Excuse', spool', cursor.rid)
  BY <1>1, <1>2, <1>3, CoversStays
<1>5. cursor.epoch = epoch => Follows(log, Excuse', TrackedProcs(tracked), cursor.rid)
  <2> SUFFICES ASSUME cursor.epoch = epoch
               PROVE  Follows(log, Excuse', TrackedProcs(tracked), cursor.rid)
    OBVIOUS
  <2>1. Polling /\ Counts
    BY <1>1 DEF CInv, BatchFits, Polling, Counts
  <2>2. Follows(log, Excuse, known, cursor.rid) /\ known \subseteq Proc
    BY <2>1 DEF CInv, PollFits, Inv, TypeOK
  <2>3. \A q \in known : q \in TrackedProcs(tracked) \/ Excused(q, Excuse')
    <3> SUFFICES ASSUME NEW q \in known, q \notin TrackedProcs(tracked)
                 PROVE  Excused(q, Excuse')
      OBVIOUS
    <3>1. q \in Excuse'
      BY <1>1 DEF Excuse
    <3> QED BY <2>2, <3>1, SelfExcused
  <2> QED BY <1>2, <2>2, <2>3, FollowsStays
<1> QED BY <1>1, <1>2, <1>3, <1>4, <1>5, IdleFits

LEMMA SaveFits == Inv /\ CInv /\ Save => CInv'
<1> SUFFICES ASSUME Inv, CInv, Save PROVE CInv'
  OBVIOUS
<1> USE Numbers
<1>1. /\ CollectorFrame /\ Excuse' = Excuse /\ spool' = spool /\ tracked' = tracked
      /\ pc = "save" /\ pc' = "idle" /\ Polling
      /\ cursor' = IF upTo.rid > cursor.rid THEN Advanced ELSE cursor
      /\ disk' = disk \/ disk' = [cursor |-> cursor', tracked |-> tracked']
  BY DEF Save, PollOver, SaveCursor, CollectorFrame, excuses, Excuse, Polling
<1>2. Parsed = upTo.rid
  <2>1. batch = <<>>
    BY <1>1 DEF Inv, TypeOK
  <2>2. Len(batch) = 0
    BY <2>1, EmptySeq
  <2> QED BY <2>2 DEF Parsed
<1>3. /\ cursor.epoch <= upTo.epoch /\ upTo.epoch <= epoch /\ cursor.rid <= upTo.rid
      /\ upTo.epoch = epoch => upTo.rid <= Len(log)
  BY <1>1, <1>2 DEF CInv, BatchFits
<1>4. Counts => /\ Follows(log, Excuse, TrackedProcs(tracked), upTo.rid)
                /\ Covers(log, Excuse, spool, upTo.rid)
  <2>1. spool \cup out = spool
    BY <1>1 DEF CInv, Written
  <2> QED BY <1>1, <1>2, <2>1 DEF CInv, PollFits
<1>5. /\ cursor'.epoch <= epoch
      /\ cursor'.epoch = epoch => Counts /\ cursor'.rid = upTo.rid
  <2>1. CASE upTo.rid > cursor.rid
    BY <1>1, <1>3, <2>1 DEF Advanced, Counts
  <2>2. CASE ~(upTo.rid > cursor.rid)
    BY <1>1, <1>3, <2>2 DEF Counts
  <2> QED BY <2>1, <2>2
<1>6. cursor'.epoch = epoch => /\ cursor'.rid <= Len(log)
                               /\ Covers(log, Excuse, spool, cursor'.rid)
                               /\ Follows(log, Excuse, TrackedProcs(tracked), cursor'.rid)
  BY <1>3, <1>4, <1>5 DEF Counts
<1> QED BY <1>1, <1>5, <1>6, IdleFits
-----------------------------------------------------------------------------
LEMMA InitFitting == Init => CInv
<1> SUFFICES ASSUME Init PROVE CInv
  OBVIOUS
<1>1. Len(log) = 0 /\ epoch = 1 /\ pc = "down" /\ cursor.epoch = 0 /\ disk.cursor.epoch = 0
      /\ \A p \in Proc : status[p] = "new"
  BY EmptySeq DEF Init, Start0
<1>2. LogOrdered
  BY <1>1 DEF LogOrdered, EndedIn
<1> QED BY <1>1, <1>2 DEF CInv, CursorFits, TrackedFit, BatchFits, PollFits, Polling, Written

LEMMA StutterFits == CInv /\ UNCHANGED vars => CInv'
  BY DEF CInv, LogOrdered, CursorFits, TrackedFit, BatchFits, PollFits, Polling, Counts, Parsed,
     Written, Excuse, vars, machine, memory, excuses, counters

LEMMA NextFits ==
    AuditAssumption /\ LineageAssumption /\ Inv /\ CInv /\ [Next]_vars => CInv'
  BY MachineFits, StartFits, CrashFits, QueryFits, QueryNothingFits, QueryUnreadableFits,
     ParseTerminateFits, ParseCreateFits, WriteSpoolFits, WriteFailsFits, SaveFits, StutterFits
     DEF Next, Poll

\* A cursor that covers what it has left behind has missed nothing.
LEMMA CoveredNotMissed == Inv /\ CursorFits => NothingMissed
<1> SUFFICES ASSUME Inv, CursorFits, NEW c \in {cursor, disk.cursor},
                    NEW i \in 1..Len(log), c.epoch = epoch, i <= c.rid, log[i].eid = 1,
                    SessionOf[log[i].proc] # NoProc, ~Excused(log[i].proc, Excuse)
             PROVE  Recorded(log[i].proc)
  BY DEF NothingMissed, MissedBy, Excuse
<1>1. log[i] \in LogRecord
  BY ElementOfSeq DEF Inv, TypeOK, LogRecord
<1>2. log[i].proc \in Proc /\ c.rid \in Nat
  BY <1>1, Numbers DEF LogRecord
<1>3. CreatedIn(log, log[i].proc, c.rid)
  BY <1>2, Numbers, SMTT(30) DEF CreatedIn
<1>4. Covers(log, Excuse, spool, c.rid)
  BY DEF CursorFits
<1> QED BY <1>2, <1>3, <1>4 DEF Covers, Recorded

\* Through crashes, failed writes and saves, unreadable records, evictions and cleared
\* logs, the cursor never passes over a process of a Claude tree that is not excused.
THEOREM NothingIsMissed == Spec => []NothingMissed
<1>1. AuditAssumption /\ LineageAssumption
  BY AuditAssumption, LineageAssumption
<1>2. Inv /\ CInv => NothingMissed
  BY CoveredNotMissed DEF CInv
<1> QED BY <1>1, <1>2, InitInv, NextInv, InitFitting, NextFits, PTL DEF Spec
=============================================================================
