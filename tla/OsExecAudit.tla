---------------------------- MODULE OsExecAudit -----------------------------
(***************************************************************************)
(* The audit of the programs Claude starts (collector/periscribe/          *)
(* audit_win.py).  Sysmon logs the creation and the end of every process;  *)
(* WinExecAudit.poll, called from the collector's loop, reads the records  *)
(* after its cursor, follows the process tree below each Claude process    *)
(* and appends one line per process of that tree to a spool file, which    *)
(* the collector then sends like any transcript.                           *)
(*                                                                         *)
(* One poll is   idle -> parse (record by record) -> write -> save -> idle *)
(* and the process may die between any two of these steps.                 *)
(***************************************************************************)
EXTENDS Integers, Sequences, FiniteSets

CONSTANTS
    Proc,           \* the processes that come and go on the machine
    Parent,         \* the process that starts each, or NoProc
    Root,           \* the processes that match root_patterns: Claude itself
    Denied,         \* the processes whose image is in deny_images
    SessionOf,      \* the Claude process a process is attributed to, or NoProc
    NoProc,
    MaxPerPoll,     \* max_per_poll
    MaxTracked,     \* _MAX_TRACKED
    Faults,         \* which faults may happen
    MaxRecords,     \* bound: processes that start or end
    MaxCrash,       \* bound: deaths of the collector process
    MaxClear        \* bound: times the event log is cleared

FaultKinds == {"xml", "spool", "save"}

\* SessionOf is what _map_create is after: a Claude process is a session of its own,
\* its descendants belong to it, and a denied image cuts the tree.
ASSUME AuditAssumption ==
    /\ Parent \in [Proc -> Proc \cup {NoProc}] /\ NoProc \notin Proc
    /\ Root \subseteq Proc /\ Denied \subseteq Proc
    /\ SessionOf \in [Proc -> Proc \cup {NoProc}]
    /\ \A p \in Proc :
          SessionOf[p] = IF p \in Denied THEN NoProc
                         ELSE IF p \in Root THEN p
                         ELSE IF Parent[p] = NoProc THEN NoProc
                         ELSE SessionOf[Parent[p]]
    /\ MaxPerPoll \in Nat \ {0} /\ MaxTracked \in Nat \ {0}
    /\ Faults \subseteq FaultKinds
    /\ MaxRecords \in Nat /\ MaxCrash \in Nat /\ MaxClear \in Nat

VARIABLES
    status,         \* each process: "new", "running" or "gone"
    log,            \* the records of the event log; record i has RecordID i
    epoch,          \* how often the log was begun anew (the code cannot see it)
    pc,             \* "down", "idle", "parse", "write" or "save"
    cursor,         \* _cursor, with the epoch it speaks about (0: of several)
    tracked,        \* _tracked, in insertion order
    batch,          \* records read and not yet parsed
    upTo,           \* the last record read
    out,            \* events of this poll
    disk,           \* sysmon_cursor.json: [cursor, tracked]
    spool,          \* the events appended to the spool file
    known,          \* history: the processes tracked when this poll began
    forgotten,      \* history: processes evicted, or whose records were cleared
    orphaned,       \* history: processes that ended in a batch that was not written
    crashes, clears \* the bounds' counters

machine == <<status, log, epoch>>
memory == <<cursor, tracked, batch, upTo, out>>
excuses == <<forgotten, orphaned>>
counters == <<crashes, clears>>
vars == <<machine, pc, memory, disk, spool, known, excuses, counters>>
-----------------------------------------------------------------------------
Position == [rid : Nat, epoch : Nat]
Event == [rid : Nat \ {0}, epoch : Nat \ {0}, proc : Proc, sid : Proc]
Record == [rid : Nat \ {0}, eid : {1, 5}, proc : Proc]
Start0 == [rid |-> 0, epoch |-> 0]

\* A dict of Python: pairs in the order of their first insertion.
TrackedProcs(tr) == {tr[i].proc : i \in 1..Len(tr)}
IndexOf(tr, p) == CHOOSE i \in 1..Len(tr) : tr[i].proc = p
Without(tr, p) ==
    IF p \notin TrackedProcs(tr) THEN tr
    ELSE SubSeq(tr, 1, IndexOf(tr, p) - 1) \o SubSeq(tr, IndexOf(tr, p) + 1, Len(tr))

Init ==
    /\ status = [p \in Proc |-> "new"]
    /\ log = <<>> /\ epoch = 1
    /\ pc = "down"
    /\ cursor = Start0 /\ tracked = <<>>
    /\ batch = <<>> /\ upTo = Start0 /\ out = {}
    /\ disk = [cursor |-> Start0, tracked |-> <<>>]
    /\ spool = {} /\ known = {} /\ forgotten = {} /\ orphaned = {}
    /\ crashes = 0 /\ clears = 0
-----------------------------------------------------------------------------
(* The machine: processes start and end, and Sysmon logs it.                 *)

Log(eid, p) ==
    /\ Cardinality({q \in Proc : status[q] # "new"})
         + Cardinality({q \in Proc : status[q] = "gone"}) < MaxRecords
    /\ log' = Append(log, [eid |-> eid, proc |-> p])
MachineFrame == UNCHANGED <<pc, memory, disk, spool, known, orphaned, crashes>>

Spawn(p) ==
    /\ status[p] = "new"
    /\ Parent[p] # NoProc => status[Parent[p]] = "running"
    /\ status' = [status EXCEPT ![p] = "running"]
    /\ Log(1, p)
    /\ UNCHANGED <<epoch, forgotten, clears>>
    /\ MachineFrame

Exit(p) ==
    /\ status[p] = "running"
    /\ status' = [status EXCEPT ![p] = "gone"]
    /\ Log(5, p)
    /\ UNCHANGED <<epoch, forgotten, clears>>
    /\ MachineFrame

\* The log is cleared and numbered from 1 again, with the records nobody read.
ClearLog ==
    /\ clears < MaxClear
    /\ clears' = clears + 1
    /\ log' = <<>>
    /\ epoch' = epoch + 1
    /\ forgotten' = forgotten \cup {p \in Proc : status[p] # "new"}
    /\ UNCHANGED status
    /\ MachineFrame
-----------------------------------------------------------------------------
(* The collector process.                                                    *)

\* _load_cursor: the cursor and the tracked processes are saved together.
Start ==
    /\ pc = "down"
    /\ pc' = "idle"
    /\ cursor' = disk.cursor /\ tracked' = disk.tracked
    /\ UNCHANGED <<machine, batch, upTo, out, disk, spool, known, excuses, counters>>

Crash ==
    /\ pc # "down"
    /\ crashes < MaxCrash
    /\ crashes' = crashes + 1
    /\ pc' = "down"
    /\ cursor' = Start0 /\ tracked' = <<>>
    /\ batch' = <<>> /\ upTo' = Start0 /\ out' = {} /\ known' = {}
    /\ UNCHANGED <<machine, disk, spool, excuses, clears>>

\* (Mutant.) Only the record number is saved.
SaveNumberOnly(c, tr) ==
    disk' \in {[cursor |-> c, tracked |-> <<>>]}
              \cup (IF "save" \in Faults THEN {disk} ELSE {})

\* _save_cursor: atomic, and a failure is only logged.
SaveCursor(c, tr) ==
    disk' \in {[cursor |-> c, tracked |-> tr]}
              \cup (IF "save" \in Faults THEN {disk} ELSE {})

\* _query: the oldest records after the cursor, at most MaxPerPoll of them.
QueryEnd == IF cursor.rid + MaxPerPoll < Len(log) THEN cursor.rid + MaxPerPoll ELSE Len(log)

Query ==
    /\ pc = "idle"
    /\ cursor.rid < Len(log)
    /\ batch' = [i \in 1..(QueryEnd - cursor.rid) |->
                   [rid |-> cursor.rid + i, eid |-> log[cursor.rid + i].eid,
                    proc |-> log[cursor.rid + i].proc]]
    /\ upTo' = [rid |-> QueryEnd, epoch |-> epoch]
    /\ out' = {}
    /\ known' = TrackedProcs(tracked)
    /\ pc' = "parse"
    /\ UNCHANGED <<machine, cursor, tracked, disk, spool, excuses, counters>>

\* (Mutant.) Only an empty log is taken for a new one.
EmptyLog == Len(log) = 0 /\ Len(log) < cursor.rid

\* _maybe_reset_cursor, when nothing came back: a newest record older than the
\* cursor means that the log was begun anew.
LogReset == Len(log) > 0 /\ Len(log) < cursor.rid

QueryNothing ==
    /\ pc = "idle"
    /\ LogReset
    /\ cursor' = [rid |-> 0, epoch |-> epoch]
    /\ tracked' = <<>>
    /\ SaveCursor(cursor', <<>>)
    /\ UNCHANGED <<machine, pc, batch, upTo, out, spool, known, excuses, counters>>

\* Records that do not parse as XML yield no event and no record number: the cursor
\* stays, and is saved with the tracked processes as they are.
QueryUnreadable ==
    /\ "xml" \in Faults
    /\ pc = "idle"
    /\ cursor.rid < Len(log)
    /\ SaveCursor(cursor, tracked)
    /\ UNCHANGED <<machine, pc, memory, spool, known, excuses, counters>>
-----------------------------------------------------------------------------
(* parse_events, in the order of the record numbers.                         *)

\* (Mutant.) The loop over the records ends after the first.
FirstRecordOnly ==
    /\ batch' = Tail(batch)
    /\ pc' = "write"
    /\ UNCHANGED <<machine, cursor, upTo, disk, spool, known, orphaned, counters>>

ParseFrame ==
    /\ batch' = Tail(batch)
    /\ pc' = IF Tail(batch) = <<>> THEN "write" ELSE "parse"
    /\ UNCHANGED <<machine, cursor, upTo, disk, spool, known, orphaned, counters>>

ParseTerminate ==
    /\ pc = "parse"
    /\ Head(batch).eid = 5
    /\ tracked' = Without(tracked, Head(batch).proc)
    /\ UNCHANGED <<out, forgotten>>
    /\ ParseFrame

\* (Mutant.) A child is filed under its parent, not under its parent's session.
ParentForSession(p) ==
    IF p \in Denied THEN NoProc
    ELSE IF p \in Root THEN p
    ELSE IF Parent[p] \in TrackedProcs(tracked) THEN Parent[p]
    ELSE NoProc

\* The session of a created process: its own, its parent's, or none.
SessionFor(p) ==
    IF p \in Denied THEN NoProc
    ELSE IF p \in Root THEN p
    ELSE IF Parent[p] \in TrackedProcs(tracked) THEN tracked[IndexOf(tracked, Parent[p])].sid
    ELSE NoProc

\* _tracked[guid] = sid; beyond the limit the oldest entries go.
Insert(tr, p, sid) ==
    IF p \in TrackedProcs(tr) THEN [tr EXCEPT ![IndexOf(tr, p)].sid = sid]
                              ELSE Append(tr, [proc |-> p, sid |-> sid])
Evict(tr) == IF Len(tr) > MaxTracked THEN SubSeq(tr, Len(tr) - MaxTracked + 1, Len(tr)) ELSE tr

ParseCreate ==
    /\ pc = "parse"
    /\ Head(batch).eid = 1
    /\ LET p == Head(batch).proc
           sid == SessionFor(p)
           all == Insert(tracked, p, sid)
       IN IF sid = NoProc
            THEN UNCHANGED <<tracked, out, forgotten>>
            ELSE /\ tracked' = Evict(all)
                 /\ forgotten' = forgotten \cup (TrackedProcs(all) \ TrackedProcs(tracked'))
                 /\ out' = out \cup {[rid |-> Head(batch).rid, epoch |-> upTo.epoch,
                                      proc |-> p, sid |-> sid]}
    /\ ParseFrame
-----------------------------------------------------------------------------
\* The events are appended and synced; then, and only then, the cursor may move.
WriteSpool ==
    /\ pc = "write"
    /\ spool' = spool \cup out
    /\ pc' = "save"
    /\ UNCHANGED <<machine, memory, disk, known, excuses, counters>>

\* What a poll keeps in local variables is gone with it.
PollOver ==
    /\ pc' = "idle"
    /\ upTo' = Start0 /\ out' = {} /\ known' = {}

\* The write fails, perhaps half way.  The cursor stays for the next poll to retry,
\* but what the batch did to the tracked processes stays too.
WriteFails ==
    /\ "spool" \in Faults
    /\ pc = "write"
    /\ out # {}
    /\ \E n \in 0..upTo.rid : spool' = spool \cup {e \in out : e.rid <= n}
    /\ orphaned' = orphaned \cup (known \ TrackedProcs(tracked))
    /\ PollOver
    /\ UNCHANGED <<machine, cursor, tracked, batch, disk, forgotten, counters>>

\* (Mutant.) The cursor moves one record too far.
AdvancedTooFar ==
    [rid |-> upTo.rid + 1,
     epoch |-> IF cursor.rid = 0 \/ cursor.epoch = upTo.epoch THEN upTo.epoch ELSE 0]

\* The epoch of a cursor that jumps over records of another log is lost.
Advanced ==
    [rid |-> upTo.rid,
     epoch |-> IF cursor.rid = 0 \/ cursor.epoch = upTo.epoch THEN upTo.epoch ELSE 0]

Save ==
    /\ pc = "save"
    /\ cursor' = IF upTo.rid > cursor.rid THEN Advanced ELSE cursor
    /\ SaveCursor(cursor', tracked)
    /\ PollOver
    /\ UNCHANGED <<machine, tracked, batch, spool, excuses, counters>>
-----------------------------------------------------------------------------
Machine == (\E p \in Proc : Spawn(p) \/ Exit(p)) \/ ClearLog

Poll == Query \/ QueryNothing \/ QueryUnreadable \/ ParseTerminate \/ ParseCreate
        \/ WriteSpool \/ WriteFails \/ Save

Next == Machine \/ Start \/ Crash \/ Poll

Spec == Init /\ [][Next]_vars

\* The collector is restarted and polls again and again; a poll that fails (a query
\* that returns nothing is a stutter here) succeeds in the end.
Fairness == WF_vars(Start) /\ WF_vars(Poll) /\ SF_vars(WriteSpool)
FairSpec == Spec /\ Fairness
-----------------------------------------------------------------------------
(* What must hold.                                                           *)

Pair == [proc : Proc, sid : Proc]

\* Every variable has its type, and a batch is there exactly while it is parsed.
TypeOK ==
    /\ status \in [Proc -> {"new", "running", "gone"}]
    /\ log \in Seq([eid : {1, 5}, proc : Proc])
    /\ epoch \in Nat \ {0}
    /\ pc \in {"down", "idle", "parse", "write", "save"}
    /\ cursor \in Position
    /\ tracked \in Seq(Pair)
    /\ batch \in Seq(Record)
    /\ batch # <<>> <=> pc = "parse"
    /\ upTo \in Position
    /\ pc \in {"parse", "write", "save"} => upTo.rid # 0 /\ upTo.epoch # 0
    /\ out \in SUBSET Event
    /\ disk \in [cursor : Position, tracked : Seq(Pair)]
    /\ spool \in SUBSET Event
    /\ known \in SUBSET Proc /\ forgotten \in SUBSET Proc /\ orphaned \in SUBSET Proc
    /\ crashes \in Nat /\ clears \in Nat

\* Only what Claude starts is recorded, and under the Claude process that started
\* it, however the polls cut the log and whatever is replayed after a crash.
OnlyClaudeTree == \A e \in spool : e.sid = SessionOf[e.proc]

\* The process and its ancestors.
Lineage[p \in Proc] == IF Parent[p] = NoProc THEN {p} ELSE {p} \cup Lineage[Parent[p]]

\* No process is its own ancestor, and the recursion ends.
ASSUME LineageAssumption ==
    \A p \in Proc : Lineage[p] = IF Parent[p] = NoProc THEN {p} ELSE {p} \cup Lineage[Parent[p]]

Recorded(p) == \E e \in spool : e.proc = p
Excused(p, why) == Lineage[p] \cap why # {}

\* The log positions a cursor has left behind without the excuse of why.
MissedBy(c, why) ==
    {i \in 1..Len(log) : /\ c.epoch = epoch /\ i <= c.rid
                         /\ log[i].eid = 1
                         /\ SessionOf[log[i].proc] # NoProc
                         /\ ~Recorded(log[i].proc)
                         /\ ~Excused(log[i].proc, why)}

\* No process of a Claude tree is passed over: once the cursor, in memory or on disk,
\* is beyond the record of its creation, it is in the spool, unless an ancestor was
\* forgotten: too many processes ran, the log was cleared, or the ancestor ended in a
\* batch that could not be written.
NothingMissed == \A c \in {cursor, disk.cursor} : MissedBy(c, forgotten \cup orphaned) = {}

\* As long as the log is not cleared, each process of a Claude tree ends up in the
\* spool, through crashes, failed queries and failed writes.
AuditComplete ==
    \A p \in Proc : status[p] # "new" /\ SessionOf[p] # NoProc
                       ~> Recorded(p) \/ Excused(p, forgotten \cup orphaned) \/ epoch > 1

\* A log begun anew is noticed, unless it outgrows the cursor first.
CursorBeyondLog == Len(log) > 0 /\ Len(log) < cursor.rid
ResetNoticed == CursorBeyondLog /\ pc = "idle" ~> ~CursorBeyondLog
=============================================================================
