----------------------- MODULE StoreAndForwardProofs ------------------------
(***************************************************************************)
(* The collector implements StoreAndForward, for every set of files and    *)
(* sessions, every batch size and every combination of faults.             *)
(***************************************************************************)
EXTENDS CollectorProofs

\* The abstract rows are the lines that can be written: a file is never longer, and
\* its contents are numbered from 1.
FilesFit ==
    \A f \in File : /\ fs[f].size <= 2 * MaxLines
                    /\ fs[f].ino # 0 \/ fs[f].size # 0 => fs[f].gen # 0

\* What a job is about to send are such lines.
JobFits ==
    pc = "emit" => /\ job.gen \in 1..MaxGen
                   /\ job.next # 0
                   /\ job.last <= MaxLines

RowsAreLines == stored \cup dropped \cup skipped \subseteq Line

RInv == IInv /\ FilesFit /\ JobFits /\ RowsAreLines
-----------------------------------------------------------------------------
LEMMA InitFits == Init => FilesFit /\ JobFits /\ RowsAreLines
<1>1. 0 <= 2 * MaxLines
  BY CollectorAssumption
<1> QED BY <1>1 DEF Init, FilesFit, JobFits, RowsAreLines

\* The writers fill what there is room for.
LEMMA WriterFits == TypeOK /\ FilesFit /\ Writer => FilesFit'
<1> SUFFICES ASSUME TypeOK, FilesFit, NEW f \in File,
                    Create(f) \/ AppendHalf(f) \/ Remove(f) \/ Truncate(f),
                    NEW g \in File
             PROVE  /\ fs'[g].size <= 2 * MaxLines
                    /\ fs'[g].ino # 0 \/ fs'[g].size # 0 => fs'[g].gen # 0
  BY DEF Writer, FilesFit
<1>1. /\ fs \in [File -> FileRec] /\ fs[f] \in FileRec /\ fs[g] \in FileRec
      /\ MaxLines \in Nat /\ MaxGen \in Nat
      /\ fs[f].size \in Nat /\ fs[f].gen \in Nat /\ fs[g].size \in Nat /\ fs[g].gen \in Nat
  BY CollectorAssumption DEF TypeOK, FileRec
<1>2. /\ fs[g].size <= 2 * MaxLines
      /\ fs[g].ino # 0 \/ fs[g].size # 0 => fs[g].gen # 0
  BY DEF FilesFit
<1>3. CASE g # f
  <2>1. fs'[g] = fs[g]
    BY <1>1, <1>3 DEF Create, AppendHalf, Remove, Truncate
  <2> QED BY <1>2, <2>1
<1>4. CASE g = f
  <2>1. CASE Create(f)
    BY <1>1, <1>4, <2>1 DEF Create
  <2>2. CASE AppendHalf(f)
    BY <1>1, <1>2, <1>4, <2>2 DEF AppendHalf, FileRec
  <2>3. CASE Remove(f)
    BY <1>1, <1>4, <2>3 DEF Remove, FileRec
  <2>4. CASE Truncate(f)
    BY <1>1, <1>4, <2>4 DEF Truncate, FileRec
  <2> QED BY <2>1, <2>2, <2>3, <2>4
<1> QED BY <1>3, <1>4

\* A deletion leaves files that are gone and empty.
LEMMA ApplyFits ==
    ASSUME TypeOK, FilesFit, NEW s \in Session, ApplyDelete(s) \/ ApplyError(s)
    PROVE  FilesFit'
<1> SUFFICES ASSUME fs' # fs PROVE FilesFit'
  BY DEF FilesFit
<1>1. PICK files :
        fs' = [g \in File |-> IF g \in files THEN [fs[g] EXCEPT !.ino = 0, !.size = 0]
                                             ELSE fs[g]]
  BY DEF ApplyDelete, ApplyError
<1>2. MaxLines \in Nat /\ fs \in [File -> FileRec]
  BY CollectorAssumption DEF TypeOK, FileRec
<1> SUFFICES ASSUME NEW g \in File
             PROVE  /\ fs'[g].size <= 2 * MaxLines
                    /\ fs'[g].ino # 0 \/ fs'[g].size # 0 => fs'[g].gen # 0
  BY DEF FilesFit
<1>3. CASE g \in files
  <2>1. fs'[g] = [fs[g] EXCEPT !.ino = 0, !.size = 0]
    BY <1>1, <1>3
  <2> QED BY <1>2, <2>1 DEF FileRec
<1>4. CASE g \notin files
  BY <1>1, <1>4 DEF FilesFit
<1> QED BY <1>3, <1>4

\* Only writers and deletions change a file.
LEMMA NextFilesFit == TypeOK /\ FilesFit /\ [Next]_vars => FilesFit'
<1> SUFFICES ASSUME TypeOK, FilesFit, [Next]_vars PROVE FilesFit'
  OBVIOUS
<1>1. CASE UNCHANGED fs
  BY <1>1 DEF FilesFit
<1>2. CASE Writer
  BY <1>2, WriterFits
<1>3. CASE Admin \/ Crash \/ UNCHANGED vars
  <2>1. UNCHANGED fs
    BY <1>3 DEF Admin, SetupKey, SetRevoked, RequestBackfill, PurgeSession, AdminFrame,
       Crash, vars
  <2> QED BY <1>1, <2>1
<1>4. CASE \E s \in Session : ApplyDelete(s) \/ ApplyError(s)
  BY <1>4, ApplyFits
<1>5. CASE CollectorStep
  <2>1. UNCHANGED fs \/ \E s \in Session : ApplyDelete(s) \/ ApplyError(s)
    BY <1>5 DEF CollectorStep, Start, NoHeartbeat, Heartbeat, HeartbeatRefused, EmitRefused,
       AuthError, StatFile, ReadFile, EmitOk, EmitDataError, EmitFail, Commit, ApplyBackfill,
       EndIteration
  <2> QED BY <1>1, <1>4, <2>1
<1> QED BY <1>2, <1>3, <1>5 DEF Next

LEMMA NextJobFits == TypeOK /\ FilesFit /\ JobFits /\ [Next]_vars => JobFits'
<1> SUFFICES ASSUME TypeOK, FilesFit, JobFits, [Next]_vars, pc' = "emit"
             PROVE  job'.gen \in 1..MaxGen /\ job'.next # 0 /\ job'.last <= MaxLines
  BY DEF JobFits
<1>1. CASE UNCHANGED <<pc, job>>
  BY <1>1 DEF JobFits
<1>2. CASE Writer \/ Admin \/ Crash \/ UNCHANGED vars
  <2>1. UNCHANGED <<pc, job>>
    BY <1>2 DEF Writer, Create, AppendHalf, Remove, Truncate, WriterFrame, Admin, SetupKey,
       SetRevoked, RequestBackfill, PurgeSession, AdminFrame, Crash, Die, vars, loop
  <2> QED BY <1>1, <2>1
<1>3. CASE ReadFile
  <2> DEFINE f == job.file
             t == tailers[f]
             off == NewOffset(t, fs[f])
  <2>1. /\ pc = "read" /\ off # t.offset
        /\ job' = [job EXCEPT !.gen = fs[f].gen, !.off = off,
                              !.next = FirstLine(t.offset), !.last = LastLine(off)]
    BY <1>3 DEF ReadFile
  <2>2. job \in Job /\ f \in File /\ t \in Entry /\ fs[f] \in FileRec
    BY <2>1, CollectorAssumption DEF TypeOK, Job, FileRec
  <2>3. fs[f].ino # 0 /\ off = LastNewline(fs[f].size) /\ fs[f].size \in Nat
    BY <2>1, <2>2 DEF NewOffset, FileRec
  <2>4. off \in Nat /\ off <= 2 * MaxLines /\ MaxLines \in Nat
    BY <2>2, <2>3, LastNewlineType, CollectorAssumption DEF FilesFit
  <2>5. LastLine(off) <= MaxLines
    BY <2>4 DEF LastLine
  <2>6. FirstLine(t.offset) # 0
    BY <2>2, FirstLineType DEF Entry
  <2>7. fs[f].gen \in 1..MaxGen
    BY <2>2, <2>3 DEF FilesFit, FileRec
  <2> QED BY <2>1, <2>2, <2>5, <2>6, <2>7 DEF Job
<1>4. CASE EmitOk \/ EmitDataError
  <2>1. /\ pc = "emit" /\ job.next \in Nat /\ PieceEnd \in Nat
        /\ job'.gen = job.gen /\ job'.last = job.last
        /\ job'.next \in {job.next, PieceEnd + 1}
    BY <1>4, EmitState, PieceType, AnsweredJob DEF EmitOk, EmitDataError, Posting
  <2> QED BY <2>1 DEF JobFits
<1>5. CASE CollectorStep
  <2>1. ReadFile \/ (EmitOk \/ EmitDataError) \/ UNCHANGED <<pc, job>>
    BY <1>5 DEF CollectorStep, Start, NoHeartbeat, Heartbeat, HoldOrScan, HeartbeatRefused,
       EmitRefused, AuthError, Die, StatFile, EmitFail, Commit, ApplyBackfill, ApplyDelete,
       ApplyError, ApplyFrame, EndIteration
  <2> QED BY <1>1, <1>3, <1>4, <2>1
<1> QED BY <1>2, <1>5 DEF Next
-----------------------------------------------------------------------------
(* Which steps touch the rows.                                               *)

\* A position taken at the end of a file passes over lines of that file.
LEMMA SkippedFits ==
    ASSUME TypeOK, FilesFit, NEW f \in File, AtEnd(f)
    PROVE  Behind(f, EnsureTailer(f)) \subseteq Line
<1> DEFINE n == InitialOffset(fs[f].size, Backfill)
<1>1. /\ fs[f].size \in Nat /\ fs[f].gen \in 0..MaxGen /\ MaxLines \in Nat /\ MaxGen \in Nat
      /\ Backfill \in Nat
  BY CollectorAssumption DEF TypeOK
<1>2. fs[f].size <= 2 * MaxLines /\ (fs[f].size # 0 => fs[f].gen # 0)
  BY DEF FilesFit
<1>3. EnsureTailer(f) = [offset |-> n, ino |-> fs[f].ino, gen |-> fs[f].gen]
  BY DEF AtEnd, EnsureTailer
<1>4. n \in 0..fs[f].size
  BY <1>1, InitialOffsetType
<1>5. (n + 1) \div 2 <= MaxLines /\ (n + 1) \div 2 \in Nat
  BY <1>1, <1>2, <1>4
<1>6. ASSUME NEW k \in 1..((n + 1) \div 2) PROVE <<f, fs[f].gen, k>> \in Line
  <2>1. n # 0
    BY <1>6
  <2>2. fs[f].gen \in 1..MaxGen
    BY <1>1, <1>2, <1>4, <2>1
  <2>3. k \in 1..MaxLines
    BY <1>1, <1>5
  <2> QED BY <2>2, <2>3 DEF Line
<1> QED BY <1>3, <1>6 DEF Behind

LEMMA PieceFits ==
    ASSUME TypeOK, JobFits, Posting
    PROVE  Piece \subseteq Line
<1>1. /\ job.file \in File /\ job.next \in Nat /\ job.last \in Nat
      /\ job.gen \in 1..MaxGen /\ job.next # 0 /\ job.last <= MaxLines /\ MaxLines \in Nat
      /\ PieceEnd \in Nat /\ PieceEnd <= job.last
  BY EmitState, PieceType, CollectorAssumption DEF JobFits, Posting
<1>2. ASSUME NEW k \in job.next..PieceEnd PROVE k \in 1..MaxLines
  BY <1>1, <1>2
<1> QED BY <1>1, <1>2 DEF Piece, Line

\* The steps that deliver, give up or pass over rows only add lines; offsets.json waits.
Delivering ==
    /\ RowsAreLines'
    /\ stored \subseteq stored' /\ dropped \cup skipped \subseteq dropped' \cup skipped'
    /\ UNCHANGED <<purged, ckDisk>>

LEMMA EmitDelivers ==
    ASSUME TypeOK, JobFits, RowsAreLines, EmitOk \/ EmitDataError \/ EmitFail
    PROVE  Delivering
<1>1. Piece \subseteq Line
  BY PieceFits DEF EmitOk, EmitDataError, EmitFail
<1>2. /\ stored \subseteq stored' /\ stored' \subseteq stored \cup Piece
      /\ dropped \subseteq dropped' /\ dropped' \subseteq dropped \cup Piece
  BY DEF EmitOk, EmitDataError, EmitFail, Store, server, history
<1>3. UNCHANGED <<skipped, purged, ckDisk>>
  BY DEF EmitOk, EmitDataError, EmitFail, disk, history
<1> QED BY <1>1, <1>2, <1>3 DEF Delivering, RowsAreLines

LEMMA StatFileDelivers ==
    ASSUME TypeOK, FilesFit, RowsAreLines, NEW f \in File, StatFile(f)
    PROVE  Delivering
<1>1. UNCHANGED <<stored, dropped, purged, ckDisk>>
  BY DEF StatFile, server, disk
<1>2. skipped \subseteq skipped' /\ skipped' \subseteq skipped \cup Line
  BY SkippedFits DEF StatFile
<1> QED BY <1>1, <1>2 DEF Delivering, RowsAreLines

RowsStay == UNCHANGED <<stored, dropped, skipped, purged>>

\* A purge takes rows away and remembers them as purged.
Withdrawing ==
    /\ stored' \subseteq stored
    /\ purged' = purged \cup (stored \ stored')
    /\ UNCHANGED <<dropped, skipped, ckDisk>>

LEMMA RowSteps ==
    ASSUME TypeOK, FilesFit, JobFits, RowsAreLines, [Next]_vars
    PROVE  Delivering \/ Withdrawing \/ RowsStay
<1>1. CASE Writer \/ Crash \/ UNCHANGED vars
  BY <1>1 DEF RowsStay, Writer, Create, AppendHalf, Remove, Truncate, WriterFrame, Crash, vars,
     server, history
<1>2. CASE \E s \in Session : PurgeSession(s)
  <2>1. PICK s \in Session : PurgeSession(s)
    BY <1>2
  <2>2. stored \cap LinesOf(s) = stored \ stored'
    BY <2>1 DEF PurgeSession
  <2> QED BY <2>1, <2>2 DEF Withdrawing, PurgeSession, AdminFrame, disk
<1>3. CASE Admin /\ ~\E s \in Session : PurgeSession(s)
  BY <1>3 DEF RowsStay, Admin, SetupKey, SetRevoked, RequestBackfill, AdminFrame, history
<1>4. CASE EmitOk \/ EmitDataError \/ EmitFail
  BY <1>4, EmitDelivers
<1>5. CASE \E f \in File : StatFile(f)
  BY <1>5, StatFileDelivers
<1>6. CASE CollectorStep
  <2>1. (EmitOk \/ EmitDataError \/ EmitFail) \/ (\E f \in File : StatFile(f)) \/ RowsStay
    BY <1>6 DEF RowsStay, CollectorStep, Start, NoHeartbeat, Heartbeat, HeartbeatRefused,
       EmitRefused, AuthError, ReadFile, Commit, ApplyBackfill, ApplyDelete, ApplyError,
       ApplyFrame, EndIteration, server, history
  <2> QED BY <1>4, <1>5, <2>1
<1> QED BY <1>1, <1>2, <1>3, <1>6 DEF Next

LEMMA NextRowsAreLines ==
    TypeOK /\ FilesFit /\ JobFits /\ RowsAreLines /\ [Next]_vars => RowsAreLines'
<1> SUFFICES ASSUME TypeOK, FilesFit, JobFits, RowsAreLines, [Next]_vars PROVE RowsAreLines'
  OBVIOUS
<1> QED BY RowSteps DEF Delivering, Withdrawing, RowsStay, RowsAreLines

LEMMA NextRInv == RInv /\ [Next]_vars => RInv'
  BY NextTyped, NextVouched, NextFilesFit, NextJobFits, NextRowsAreLines DEF RInv, IInv
-----------------------------------------------------------------------------
(* The refinement.                                                           *)

\* What a restart would not send is accounted for after a step: this is what an offset vouches
\* for, less the offsets that speak of two contents.
LEMMA DurableAccounted == OffsetsVouched' => Durable' \subseteq Accounted'
<1> SUFFICES ASSUME OffsetsVouched', NEW f \in File, ckDisk'[f] # NoEntry,
                    NEW l \in Behind(f, ckDisk'[f]) \cap Line
             PROVE  l \in Accounted'
  BY DEF Durable, Behind, Line
<1>1. ckDisk'[f].gen # 0
  BY CollectorAssumption DEF Behind, Line
<1> QED BY <1>1 DEF OffsetsVouched, Vouched, Behind

LEMMA InitImplements == Init => SF!Init
  BY DEF Init, Nothing, Durable, SF!Init

LEMMA StepImplements == RInv /\ OffsetsVouched' /\ [Next]_vars => [SF!Next]_(SF!vars)
<1> SUFFICES ASSUME RInv, OffsetsVouched', [Next]_vars PROVE [SF!Next]_(SF!vars)
  OBVIOUS
<1>1. CASE Delivering
  <2>1. Durable' = Durable
    BY <1>1 DEF Delivering, Durable, Behind, Line
  <2> QED BY <1>1, <2>1 DEF Delivering, RowsAreLines, SF!Next, SF!Deliver
<1>2. CASE Withdrawing
  <2>1. Durable' = Durable
    BY <1>2 DEF Withdrawing, Durable, Behind, Line
  <2> QED BY <1>2, <2>1 DEF Withdrawing, SF!Next, SF!Withdraw
<1>3. CASE RowsStay
  <2>1. Durable' \subseteq Accounted'
    BY DurableAccounted
  <2>2. Durable' \subseteq stored \cup (dropped \cup skipped) \cup purged
    BY <1>3, <2>1 DEF RowsStay, Accounted
  <2> QED BY <1>3, <2>2 DEF RowsStay, SF!Next, SF!Acknowledge
<1> QED BY <1>1, <1>2, <1>3, RowSteps DEF RInv, IInv

\* The polling loop, with its files, batches, retries, crashes and purges, does what
\* StoreAndForward says: a line counts as done only in a step of its own, after it
\* has reached the server or was given up, and only a purge takes a row back.
THEOREM ImplementsStoreAndForward == Spec => StoresAndForwards
<1>1. Init => RInv
  BY InitTyped, InitVouched, InitFits DEF RInv, IInv
<1>2. RInv => OffsetsVouched
  BY DEF RInv, IInv
<1> QED BY <1>1, <1>2, NextRInv, InitImplements, StepImplements,
           PTL DEF Spec, StoresAndForwards, SF!Spec
=============================================================================
