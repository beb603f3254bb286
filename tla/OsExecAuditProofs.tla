------------------------- MODULE OsExecAuditProofs --------------------------
(***************************************************************************)
(* What holds of OsExecAudit for every process tree, every set of Claude   *)
(* processes and denied images, every limit and every fault.               *)
(***************************************************************************)
EXTENDS OsExecAudit, SequenceTheorems, TLAPS

LogRecord == [eid : {1, 5}, proc : Proc]
\* A process with the session it belongs to.
Filed(x) == x.sid = SessionOf[x.proc]
GoodPair == {x \in Pair : Filed(x)}
GoodEvent == {e \in Event : Filed(e)}
-----------------------------------------------------------------------------
(* The tracked processes.                                                    *)

LEMMA IndexType ==
    ASSUME NEW tr \in Seq(Pair), NEW p \in TrackedProcs(tr)
    PROVE  IndexOf(tr, p) \in 1..Len(tr) /\ tr[IndexOf(tr, p)].proc = p
  BY DEF IndexOf, TrackedProcs

LEMMA GoodIsPair ==
    ASSUME NEW tr \in Seq(GoodPair)
    PROVE  tr \in Seq(Pair)
<1>1. GoodPair \subseteq Pair
  BY DEF GoodPair
<1> QED BY <1>1, SeqMonotonic

\* A piece of a well filed list is well filed.
LEMMA PieceGood ==
    ASSUME NEW tr \in Seq(GoodPair), NEW m \in Nat \ {0}, NEW n \in Nat, n <= Len(tr)
    PROVE  SubSeq(tr, m, n) \in Seq(GoodPair)
<1>1. \A i \in m..n : tr[i] \in GoodPair
  BY ElementOfSeq, LenProperties
<1> QED BY <1>1, SubSeqProperties

\* Taking a process that ended out of the list (dict.pop) leaves it well filed.
LEMMA WithoutGood ==
    ASSUME NEW tr \in Seq(GoodPair), NEW p
    PROVE  Without(tr, p) \in Seq(GoodPair)
<1>1. CASE p \notin TrackedProcs(tr)
  BY <1>1 DEF Without
<1>2. CASE p \in TrackedProcs(tr)
  <2>1. IndexOf(tr, p) \in 1..Len(tr) /\ Len(tr) \in Nat
    BY <1>2, IndexType, GoodIsPair, LenProperties
  <2>2. SubSeq(tr, 1, IndexOf(tr, p) - 1) \in Seq(GoodPair)
    BY <2>1, PieceGood
  <2>3. SubSeq(tr, IndexOf(tr, p) + 1, Len(tr)) \in Seq(GoodPair)
    BY <2>1, PieceGood
  <2> QED BY <1>2, <2>2, <2>3, ConcatProperties DEF Without
<1> QED BY <1>1, <1>2

\* So does entering a process under its own session ...
LEMMA InsertGood ==
    ASSUME NEW tr \in Seq(GoodPair), NEW p \in Proc, SessionOf[p] \in Proc
    PROVE  Insert(tr, p, SessionOf[p]) \in Seq(GoodPair)
<1> DEFINE new == [proc |-> p, sid |-> SessionOf[p]]
<1>1. new \in GoodPair
  BY DEF GoodPair, Pair, Filed
<1>2. CASE p \notin TrackedProcs(tr)
  BY <1>1, <1>2, AppendProperties DEF Insert
<1>3. CASE p \in TrackedProcs(tr)
  <2> DEFINE i == IndexOf(tr, p)
  <2>1. i \in 1..Len(tr) /\ tr[i].proc = p
    BY <1>3, IndexType, GoodIsPair
  <2>2. tr[i] \in Pair
    BY <2>1, ElementOfSeq, GoodIsPair
  <2>3. [tr[i] EXCEPT !.sid = SessionOf[p]] = new
    BY <2>1, <2>2 DEF Pair
  <2>4. [tr EXCEPT ![i].sid = SessionOf[p]] = [tr EXCEPT ![i] = new]
    BY <2>3, Zenon
  <2>5. [tr EXCEPT ![i] = new] \in Seq(GoodPair)
    BY <1>1, <2>1, ExceptSeq
  <2> QED BY <1>3, <2>4, <2>5 DEF Insert
<1> QED BY <1>2, <1>3

\* ... and dropping the oldest entries.
LEMMA EvictGood ==
    ASSUME NEW tr \in Seq(GoodPair), MaxTracked \in Nat \ {0}
    PROVE  Evict(tr) \in Seq(GoodPair)
<1>1. CASE Len(tr) > MaxTracked
  <2>1. Len(tr) \in Nat /\ Len(tr) - MaxTracked + 1 \in Nat \ {0}
    BY <1>1, LenProperties
  <2> QED BY <1>1, <2>1, PieceGood DEF Evict
<1>2. CASE ~(Len(tr) > MaxTracked)
  BY <1>2 DEF Evict
<1> QED BY <1>1, <1>2

\* _map_create never files a process under another session than its own.
LEMMA SessionForFiled ==
    ASSUME AuditAssumption, tracked \in Seq(GoodPair), NEW p \in Proc, SessionFor(p) # NoProc
    PROVE  SessionFor(p) = SessionOf[p] /\ SessionOf[p] \in Proc
<1>1. p \notin Denied
  BY DEF SessionFor
<1>2. CASE p \in Root
  BY <1>1, <1>2 DEF SessionFor, AuditAssumption
<1>3. CASE p \notin Root
  <2> DEFINE parent == Parent[p]
             i == IndexOf(tracked, parent)
  <2>1. parent \in TrackedProcs(tracked) /\ SessionFor(p) = tracked[i].sid
    BY <1>1, <1>3 DEF SessionFor
  <2>2. i \in 1..Len(tracked) /\ tracked[i].proc = parent
    BY <2>1, IndexType, GoodIsPair
  <2>3. tracked[i] \in GoodPair
    BY <2>2, ElementOfSeq
  <2>4. tracked[i].sid = SessionOf[parent] /\ parent \in Proc /\ tracked[i].sid \in Proc
    BY <2>2, <2>3 DEF GoodPair, Pair, Filed
  <2>5. SessionOf[p] = SessionOf[parent]
    BY <1>1, <1>3, <2>4 DEF AuditAssumption
  <2> QED BY <2>1, <2>4, <2>5
<1> QED BY <1>2, <1>3
-----------------------------------------------------------------------------
(* The inductive invariant: besides its type, whatever is tracked, about to  *)
(* be written, written, or restored after a crash is filed under the session *)
(* it belongs to.                                                            *)

Inv == /\ TypeOK
       /\ tracked \in Seq(GoodPair) /\ disk.tracked \in Seq(GoodPair)
       /\ out \in SUBSET GoodEvent /\ spool \in SUBSET GoodEvent

LEMMA InitInv == Init => Inv
<1> SUFFICES ASSUME Init PROVE Inv
  OBVIOUS
<1>1. /\ <<>> \in Seq(LogRecord) /\ <<>> \in Seq(Pair) /\ <<>> \in Seq(Record)
      /\ <<>> \in Seq(GoodPair)
  BY EmptySeq
<1>2. Start0 \in Position
  BY DEF Start0, Position
<1>3. TypeOK
  BY <1>1, <1>2 DEF Init, TypeOK, LogRecord
<1> QED BY <1>1, <1>3 DEF Init, Inv
-----------------------------------------------------------------------------
(* Every step preserves it.                                                  *)

\* Saving the cursor stores a position and a list of tracked processes.
LEMMA SaveCursorInv ==
    ASSUME disk \in [cursor : Position, tracked : Seq(Pair)], disk.tracked \in Seq(GoodPair),
           NEW c \in Position, NEW tr \in Seq(GoodPair), SaveCursor(c, tr)
    PROVE  disk' \in [cursor : Position, tracked : Seq(Pair)] /\ disk'.tracked \in Seq(GoodPair)
<1>1. disk' = [cursor |-> c, tracked |-> tr] \/ disk' = disk
  BY DEF SaveCursor
<1> QED BY <1>1, GoodIsPair

LEMMA MachineInv == AuditAssumption /\ Inv /\ Machine => Inv'
<1> SUFFICES ASSUME AuditAssumption, Inv, Machine PROVE Inv'
  OBVIOUS
<1> USE DEF LogRecord
<1>1. CASE \E p \in Proc : Spawn(p) \/ Exit(p)
  <2>1. PICK p \in Proc : Spawn(p) \/ Exit(p)
    BY <1>1
  <2>2. log \in Seq(LogRecord) /\ status \in [Proc -> {"new", "running", "gone"}]
    BY DEF Inv, TypeOK
  <2>3. log' \in Seq(LogRecord)
    <3>1. PICK r \in LogRecord : log' = Append(log, r)
      BY <2>1 DEF Spawn, Exit, Log
    <3> QED BY <2>2, <3>1, AppendProperties
  <2>4. status' \in [Proc -> {"new", "running", "gone"}]
    BY <2>1, <2>2 DEF Spawn, Exit
  <2>5. UNCHANGED <<epoch, pc, memory, disk, spool, known, excuses, counters>>
    BY <2>1 DEF Spawn, Exit, MachineFrame, excuses, counters
  <2> QED BY <2>3, <2>4, <2>5 DEF Inv, TypeOK, memory, excuses, counters
<1>2. CASE ClearLog
  <2>1. log' \in Seq(LogRecord)
    BY <1>2, EmptySeq DEF ClearLog
  <2>2. UNCHANGED <<status, pc, memory, disk, spool, known, orphaned, crashes>>
    BY <1>2 DEF ClearLog, MachineFrame
  <2>3. epoch' \in Nat \ {0} /\ clears' \in Nat /\ forgotten' \in SUBSET Proc
    BY <1>2 DEF ClearLog, Inv, TypeOK
  <2> QED BY <2>1, <2>2, <2>3 DEF Inv, TypeOK, memory
<1> QED BY <1>1, <1>2 DEF Machine

LEMMA StartInv == Inv /\ Start => Inv'
<1> SUFFICES ASSUME Inv, Start PROVE Inv'
  OBVIOUS
<1>1. disk.cursor \in Position /\ disk.tracked \in Seq(Pair)
  BY DEF Inv, TypeOK
<1> QED BY <1>1 DEF Inv, TypeOK, Start, machine, excuses, counters

LEMMA CrashInv == Inv /\ Crash => Inv'
<1> SUFFICES ASSUME Inv, Crash PROVE Inv'
  OBVIOUS
<1>1. <<>> \in Seq(Pair) /\ <<>> \in Seq(Record) /\ <<>> \in Seq(GoodPair)
  BY EmptySeq
<1>2. Start0 \in Position
  BY DEF Start0, Position
<1> QED BY <1>1, <1>2 DEF Inv, TypeOK, Crash, machine, excuses

LEMMA QueryInv == AuditAssumption /\ Inv /\ Query => Inv'
<1> SUFFICES ASSUME AuditAssumption, Inv, Query PROVE Inv'
  OBVIOUS
<1> DEFINE n == QueryEnd - cursor.rid
<1>1. /\ Len(log) \in Nat /\ cursor.rid \in Nat /\ cursor.rid < Len(log)
      /\ MaxPerPoll \in Nat \ {0}
  BY LenProperties DEF Inv, TypeOK, Position, Query, AuditAssumption
<1>2. n \in Nat \ {0} /\ QueryEnd \in Nat \ {0} /\ QueryEnd <= Len(log)
  BY <1>1 DEF QueryEnd
<1>3. \A i \in 1..n : log[cursor.rid + i] \in LogRecord
  <2> TAKE i \in 1..n
  <2>1. cursor.rid + i \in 1..Len(log)
    BY <1>1, <1>2
  <2>2. log \in Seq(LogRecord)
    BY DEF Inv, TypeOK, LogRecord
  <2> QED BY <2>1, <2>2, ElementOfSeq
<1>4. batch' \in [1..n -> Record]
  BY <1>1, <1>2, <1>3 DEF Query, Record, LogRecord
<1>5. batch' \in Seq(Record)
  BY <1>2, <1>4, SeqDef
<1>6. batch' # <<>>
  BY <1>2, <1>4
<1>7. upTo' \in Position /\ upTo'.rid # 0 /\ upTo'.epoch # 0
  BY <1>2 DEF Query, Position, Inv, TypeOK
<1>8. known' \in SUBSET Proc
  <2>1. \A i \in 1..Len(tracked) : tracked[i] \in Pair
    BY ElementOfSeq DEF Inv, TypeOK
  <2> QED BY <2>1 DEF Query, TrackedProcs, Pair
<1>9. pc' = "parse" /\ out' = {}
  BY DEF Query
<1>10. UNCHANGED <<machine, cursor, tracked, disk, spool, excuses, counters>>
  BY DEF Query
<1> QED BY <1>5, <1>6, <1>7, <1>8, <1>9, <1>10 DEF Inv, TypeOK, machine, excuses, counters

LEMMA QueryNothingInv == Inv /\ QueryNothing => Inv'
<1> SUFFICES ASSUME Inv, QueryNothing PROVE Inv'
  OBVIOUS
<1>1. <<>> \in Seq(Pair) /\ <<>> \in Seq(GoodPair)
  BY EmptySeq
<1>2. cursor' \in Position /\ tracked' = <<>>
  BY DEF QueryNothing, Position, Inv, TypeOK
<1>3. disk' \in [cursor : Position, tracked : Seq(Pair)] /\ disk'.tracked \in Seq(GoodPair)
  BY <1>1, <1>2, SaveCursorInv DEF QueryNothing, Inv, TypeOK
<1>4. UNCHANGED <<machine, pc, batch, upTo, out, spool, known, excuses, counters>>
  BY DEF QueryNothing
<1> QED BY <1>1, <1>2, <1>3, <1>4 DEF Inv, TypeOK, machine, excuses, counters

LEMMA QueryUnreadableInv == Inv /\ QueryUnreadable => Inv'
<1> SUFFICES ASSUME Inv, QueryUnreadable PROVE Inv'
  OBVIOUS
<1>1. disk' \in [cursor : Position, tracked : Seq(Pair)] /\ disk'.tracked \in Seq(GoodPair)
  BY SaveCursorInv DEF QueryUnreadable, Inv, TypeOK
<1>2. UNCHANGED <<machine, pc, memory, spool, known, excuses, counters>>
  BY DEF QueryUnreadable
<1> QED BY <1>1, <1>2 DEF Inv, TypeOK, machine, memory, excuses, counters

\* The record at hand, and what is left after it.
LEMMA ParseFrameInv ==
    ASSUME Inv, pc = "parse", ParseFrame
    PROVE  /\ Head(batch) \in Record
           /\ batch' \in Seq(Record)
           /\ batch' # <<>> <=> pc' = "parse"
           /\ pc' \in {"parse", "write"}
           /\ UNCHANGED <<machine, cursor, upTo, disk, spool, known, orphaned, counters>>
<1>1. batch \in Seq(Record) /\ batch # <<>>
  BY DEF Inv, TypeOK
<1>2. Head(batch) \in Record /\ Tail(batch) \in Seq(Record)
  BY <1>1, HeadTailProperties
<1> QED BY <1>2 DEF ParseFrame

LEMMA ParseTerminateInv == Inv /\ ParseTerminate => Inv'
<1> SUFFICES ASSUME Inv, ParseTerminate PROVE Inv'
  OBVIOUS
<1>1. pc = "parse" /\ ParseFrame /\ UNCHANGED <<out, forgotten>>
  BY DEF ParseTerminate
<1>2. tracked' \in Seq(GoodPair) /\ tracked' \in Seq(Pair)
  BY WithoutGood, GoodIsPair DEF ParseTerminate, Inv
<1> QED BY <1>1, <1>2, ParseFrameInv DEF Inv, TypeOK, machine, counters

LEMMA ParseCreateInv == AuditAssumption /\ Inv /\ ParseCreate => Inv'
<1> SUFFICES ASSUME AuditAssumption, Inv, ParseCreate PROVE Inv'
  OBVIOUS
<1> DEFINE p == Head(batch).proc
           sid == SessionFor(p)
           all == Insert(tracked, p, sid)
           event == [rid |-> Head(batch).rid, epoch |-> upTo.epoch, proc |-> p, sid |-> sid]
<1>1. pc = "parse" /\ ParseFrame
  BY DEF ParseCreate
<1>2. Head(batch) \in Record /\ p \in Proc
  BY <1>1, ParseFrameInv DEF Record
<1>3. CASE sid = NoProc
  <2>1. UNCHANGED <<tracked, out, forgotten>>
    BY <1>3 DEF ParseCreate
  <2> QED BY <1>1, <2>1, ParseFrameInv DEF Inv, TypeOK, machine, counters
<1>4. CASE sid # NoProc
  <2>1. sid = SessionOf[p] /\ sid \in Proc
    BY <1>2, <1>4, SessionForFiled DEF Inv
  <2>2. all \in Seq(GoodPair)
    BY <1>2, <2>1, InsertGood DEF Inv
  <2>3. tracked' = Evict(all)
    BY <1>4 DEF ParseCreate
  <2>4. tracked' \in Seq(GoodPair) /\ tracked' \in Seq(Pair)
    BY <2>2, <2>3, EvictGood, GoodIsPair DEF AuditAssumption
  <2>5. event \in GoodEvent
    BY <1>1, <1>2, <2>1 DEF GoodEvent, Event, Filed, Record, Inv, TypeOK, Position
  <2>6. out' = out \cup {event}
    BY <1>4 DEF ParseCreate
  <2>7. out' \in SUBSET GoodEvent /\ out' \in SUBSET Event
    BY <2>5, <2>6 DEF Inv, GoodEvent
  <2>8. forgotten' \in SUBSET Proc
    <3>1. \A i \in 1..Len(all) : all[i] \in GoodPair
      BY <2>2, ElementOfSeq
    <3>2. TrackedProcs(all) \in SUBSET Proc
      BY <3>1 DEF TrackedProcs, GoodPair, Pair
    <3>3. forgotten' = forgotten \cup (TrackedProcs(all) \ TrackedProcs(tracked'))
      BY <1>4 DEF ParseCreate
    <3> QED BY <3>2, <3>3 DEF Inv, TypeOK
  <2> QED BY <1>1, <2>4, <2>7, <2>8, ParseFrameInv DEF Inv, TypeOK, machine, counters
<1> QED BY <1>3, <1>4

LEMMA WriteSpoolInv == Inv /\ WriteSpool => Inv'
  BY DEF Inv, TypeOK, WriteSpool, machine, memory, excuses, counters

LEMMA WriteFailsInv == Inv /\ WriteFails => Inv'
<1> SUFFICES ASSUME Inv, WriteFails PROVE Inv'
  OBVIOUS
<1>1. spool' \in SUBSET GoodEvent /\ spool' \in SUBSET Event
  BY DEF WriteFails, Inv, GoodEvent
<1>2. orphaned' \in SUBSET Proc
  BY DEF WriteFails, Inv, TypeOK
<1>3. pc = "write" /\ pc' = "idle" /\ upTo' \in Position /\ out' = {} /\ known' = {}
  BY DEF WriteFails, PollOver, Start0, Position
<1>4. UNCHANGED <<machine, cursor, tracked, batch, disk, forgotten, counters>>
  BY DEF WriteFails
<1> QED BY <1>1, <1>2, <1>3, <1>4 DEF Inv, TypeOK, machine, counters

LEMMA SaveInv == Inv /\ Save => Inv'
<1> SUFFICES ASSUME Inv, Save PROVE Inv'
  OBVIOUS
<1>1. Advanced \in Position
  BY DEF Advanced, Position, Inv, TypeOK
<1>2. cursor' \in Position
  BY <1>1 DEF Save, Inv, TypeOK
<1>3. disk' \in [cursor : Position, tracked : Seq(Pair)] /\ disk'.tracked \in Seq(GoodPair)
  BY <1>2, SaveCursorInv DEF Save, Inv, TypeOK
<1>4. pc = "save" /\ pc' = "idle" /\ upTo' \in Position /\ out' = {} /\ known' = {}
  BY DEF Save, PollOver, Start0, Position
<1>5. UNCHANGED <<machine, tracked, batch, spool, excuses, counters>>
  BY DEF Save
<1> QED BY <1>2, <1>3, <1>4, <1>5 DEF Inv, TypeOK, machine, excuses, counters

LEMMA StutterInv == Inv /\ UNCHANGED vars => Inv'
  BY DEF Inv, TypeOK, vars, machine, memory, excuses, counters

LEMMA NextInv == AuditAssumption /\ Inv /\ [Next]_vars => Inv'
  BY MachineInv, StartInv, CrashInv, QueryInv, QueryNothingInv, QueryUnreadableInv,
     ParseTerminateInv, ParseCreateInv, WriteSpoolInv, WriteFailsInv, SaveInv, StutterInv
     DEF Next, Poll

LEMMA AlwaysInv == Spec => []Inv
<1>1. AuditAssumption
  BY AuditAssumption
<1> QED BY <1>1, InitInv, NextInv, PTL DEF Spec
-----------------------------------------------------------------------------
\* Type correctness.
THEOREM AuditTyped == Spec => []TypeOK
<1>1. Inv => TypeOK
  BY DEF Inv
<1> QED BY <1>1, AlwaysInv, PTL

\* Whatever the order of polls, crashes, failed writes, cleared logs and evictions,
\* nothing outside the tree of a Claude process is recorded, and everything is
\* recorded under the Claude process it descends from.
THEOREM OnlyClaudeTreeRecorded == Spec => []OnlyClaudeTree
<1>1. Inv => OnlyClaudeTree
  BY DEF Inv, OnlyClaudeTree, GoodEvent, Filed
<1> QED BY <1>1, AlwaysInv, PTL
=============================================================================
