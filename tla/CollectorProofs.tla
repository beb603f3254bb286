-------------------------- MODULE CollectorProofs ---------------------------
(***************************************************************************)
(* What holds of Collector for every set of files and sessions, every      *)
(* batch size, every bound and every combination of faults.                *)
(***************************************************************************)
EXTENDS Collector, TLAPS

FileRec == [size : Nat, ino : Nat, gen : 0..MaxGen]
-----------------------------------------------------------------------------
(* The tailer's operators (tailer.py).                                       *)

\* initial_offset returns a position of the file.
LEMMA InitialOffsetType ==
    ASSUME NEW size \in Nat, NEW n \in Nat
    PROVE  InitialOffset(size, n) \in 0..size
<1>1. size \div 2 \in Nat /\ 2 * (size \div 2) <= size
  OBVIOUS
<1> QED BY <1>1 DEF InitialOffset

\* Where read_new_lines stops is a line boundary of the file.
LEMMA LastNewlineType ==
    ASSUME NEW size \in Nat
    PROVE  /\ LastNewline(size) \in 0..size
           /\ LastNewline(size) = 2 * LastLine(LastNewline(size))
  BY DEF LastNewline, LastLine

\* _check_rotation keeps the tailer or starts it over in what is at the path.
LEMMA CheckRotationType ==
    ASSUME NEW t \in Entry, NEW file \in FileRec, MaxGen \in Nat
    PROVE  CheckRotation(t, file) \in Entry
  BY DEF CheckRotation, Entry, FileRec

\* read_new_lines proposes the old offset, or a line boundary beyond it.
LEMMA NewOffsetType ==
    ASSUME NEW t \in Entry, NEW file \in FileRec
    PROVE  /\ NewOffset(t, file) \in Nat
           /\ NewOffset(t, file) # t.offset
                => /\ NewOffset(t, file) > t.offset
                   /\ NewOffset(t, file) = 2 * LastLine(NewOffset(t, file))
<1>1. file.size \in Nat /\ t.offset \in Nat
  BY DEF Entry, FileRec
<1> QED BY <1>1, LastNewlineType DEF NewOffset

\* The lines behind a position and the first line after it leave no gap.
LEMMA FirstLineType ==
    ASSUME NEW offset \in Nat
    PROVE  /\ (offset + 1) \div 2 \in Nat
           /\ FirstLine(offset) \in Nat
           /\ FirstLine(offset) = (offset + 1) \div 2 + 1
           /\ LastLine(offset) \in Nat
  BY DEF FirstLine, LastLine

LEMMA CommittedType ==
    ASSUME NEW t \in Entry, NEW o \in Nat, NEW g \in Nat
    PROVE  Committed(t, o, g) \in Entry
  BY DEF Committed, Entry
-----------------------------------------------------------------------------
(* Type correctness.                                                         *)

LEMMA InitTyped == Init => TypeOK
<1> SUFFICES ASSUME Init PROVE TypeOK
  OBVIOUS
<1>1. 0 \in 0..MaxGen
  BY CollectorAssumption
<1>2. fs \in [File -> [size : Nat, ino : Nat, gen : 0..MaxGen]]
  BY <1>1 DEF Init
<1>3. Nothing \in [File -> Entry \cup {NoEntry}]
  BY DEF Nothing
<1> QED BY <1>2, <1>3 DEF Init, TypeOK

\* _ensure_tailer yields a tailer, whatever the memory holds.
LEMMA EnsureTailerType ==
    ASSUME TypeOK, NEW f \in File
    PROVE  EnsureTailer(f) \in Entry
<1>1. fs[f].size \in Nat /\ fs[f].ino \in Nat /\ fs[f].gen \in Nat
  BY DEF TypeOK
<1>2. InitialOffset(fs[f].size, Backfill) \in Nat
  <2>1. Backfill \in Nat
    BY CollectorAssumption
  <2>2. InitialOffset(fs[f].size, Backfill) \in 0..fs[f].size
    BY <1>1, <2>1, InitialOffsetType
  <2> QED BY <1>1, <2>2
<1>3. tailers[f] \in Entry \cup {NoEntry} /\ ckMem[f] \in Entry \cup {NoEntry}
  BY DEF TypeOK
<1> QED BY <1>1, <1>2, <1>3 DEF EnsureTailer, Entry

LEMMA WriterTyped == TypeOK /\ Writer => TypeOK'
<1> SUFFICES ASSUME TypeOK, NEW f \in File,
                    Create(f) \/ AppendHalf(f) \/ Remove(f) \/ Truncate(f)
             PROVE  TypeOK'
  BY DEF Writer
<1>1. fs[f] \in FileRec /\ MaxGen \in Nat /\ fs \in [File -> FileRec]
  BY CollectorAssumption DEF TypeOK, FileRec
<1>2. fs' \in [File -> FileRec]
  <2>1. CASE Create(f)
    <3>1. [size |-> 0, ino |-> fs[f].gen + 1, gen |-> fs[f].gen + 1] \in FileRec
      BY <1>1, <2>1 DEF Create, FileRec
    <3> QED BY <2>1, <3>1 DEF Create, TypeOK, FileRec
  <2>2. CASE AppendHalf(f)
    BY <1>1, <2>2 DEF AppendHalf, FileRec
  <2>3. CASE Remove(f)
    BY <1>1, <2>3 DEF Remove, FileRec
  <2>4. CASE Truncate(f)
    BY <1>1, <2>4 DEF Truncate, FileRec
  <2> QED BY <2>1, <2>2, <2>3, <2>4
<1>3. WriterFrame /\ truncated' \in SUBSET File
  BY DEF Create, AppendHalf, Remove, Truncate, TypeOK
<1> QED BY <1>2, <1>3 DEF WriterFrame, TypeOK, FileRec, disk, memory, loop, server, history

LEMMA AdminTyped == TypeOK /\ Admin => TypeOK'
<1> USE DEF TypeOK, AdminFrame, disk, memory, loop, history
<1>1. ASSUME TypeOK, SetupKey PROVE TypeOK'
  BY <1>1 DEF SetupKey
<1>2. ASSUME TypeOK, NEW b \in BOOLEAN, SetRevoked(b) PROVE TypeOK'
  BY <1>2 DEF SetRevoked
<1>3. ASSUME TypeOK, NEW s \in Session, RequestBackfill(s) PROVE TypeOK'
  BY <1>3 DEF RequestBackfill
<1>4. ASSUME TypeOK, NEW s \in Session, PurgeSession(s) PROVE TypeOK'
  BY <1>4 DEF PurgeSession
<1> QED BY <1>1, <1>2, <1>3, <1>4 DEF Admin

\* The process variables after a death, whatever they were.
LEMMA DieTyped ==
    ASSUME TypeOK, Die
    PROVE  /\ pc' = "down" /\ job' = NoEntry /\ authFail' \in Nat
           /\ ckMem' \in [File -> Entry \cup {NoEntry}]
           /\ tailers' \in [File -> Entry \cup {NoEntry}]
           /\ firstRun' \in BOOLEAN /\ freshStart' \in BOOLEAN /\ dek' \in BOOLEAN
           /\ catSent' \in BOOLEAN
           /\ left' \in SUBSET File
           /\ gotBf' \in SUBSET Session /\ gotDel' \in SUBSET Session
  BY DEF Die, Nothing

LEMMA CrashTyped == TypeOK /\ Crash => TypeOK'
  BY DieTyped DEF Crash, TypeOK, disk, server

LEMMA StartTyped == TypeOK /\ Start => TypeOK'
<1> SUFFICES ASSUME TypeOK, Start PROVE TypeOK'
  OBVIOUS
<1>1. /\ firstRun' \in BOOLEAN /\ freshStart' \in BOOLEAN /\ dek' \in BOOLEAN
      /\ catSent' \in BOOLEAN /\ authFail' \in Nat
  BY DEF Start, TypeOK
<1>2. /\ ckMem' \in [File -> Entry \cup {NoEntry}]
      /\ tailers' \in [File -> Entry \cup {NoEntry}]
  BY DEF Start, TypeOK, Nothing
<1> QED BY <1>1, <1>2 DEF Start, TypeOK, disk, server, history

\* A 401 while the process runs.
LEMMA AuthErrorTyped == TypeOK /\ AuthError => TypeOK'
<1> SUFFICES ASSUME TypeOK, AuthError PROVE TypeOK'
  OBVIOUS
<1>1. CASE authFail + 1 >= AuthFailMax
  <2>1. Die
    BY <1>1 DEF AuthError
  <2> QED BY <2>1, DieTyped DEF AuthError, TypeOK, disk, server, history
<1>2. CASE ~(authFail + 1 >= AuthFailMax)
  BY <1>2 DEF AuthError, TypeOK, disk, server, history
<1> QED BY <1>1, <1>2

\* Holding or going on to the files: the loop's variables stay typed.
LEMMA HoldOrScanTyped ==
    ASSUME TypeOK, AtTop, NEW hasDek, NEW bf \in SUBSET Session,
           NEW del \in SUBSET Session, HoldOrScan(hasDek, bf, del)
    PROVE  /\ pc' \in {"hold", "scan"} /\ job' = NoEntry
           /\ left' \in SUBSET File
           /\ gotBf' \in SUBSET Session /\ gotDel' \in SUBSET Session
  BY DEF TypeOK, AtTop, HoldOrScan, Discovered

LEMMA NoHeartbeatTyped == TypeOK /\ NoHeartbeat => TypeOK'
<1> SUFFICES ASSUME TypeOK, NoHeartbeat PROVE TypeOK'
  OBVIOUS
<1>1. AtTop /\ HoldOrScan(dek, {}, {})
  BY DEF NoHeartbeat
<1> QED BY <1>1, HoldOrScanTyped DEF NoHeartbeat, TypeOK, disk, memory, server, history

LEMMA HeartbeatTyped == TypeOK /\ Heartbeat => TypeOK'
<1> SUFFICES ASSUME TypeOK, Heartbeat PROVE TypeOK'
  OBVIOUS
<1>1. PICK bf \in SUBSET Session, del \in SUBSET Session, answered \in Answered :
        /\ Pickup(bf, del)
        /\ LET newKey == answered /\ EncRequired /\ ownerKey /\ ~dek IN
           /\ dek' = (dek \/ newKey)
           /\ dekDisk' \in IF ~newKey THEN {dekDisk}
                           ELSE IF "disk" \in Faults THEN BOOLEAN ELSE {TRUE}
        /\ IF answered THEN HoldOrScan(dek', bf, del)
                       ELSE HoldOrScan(dek', {}, {})
  BY DEF Heartbeat
<1>2. AtTop
  BY DEF Heartbeat
<1>3. /\ pc' \in {"hold", "scan"} /\ job' = NoEntry
      /\ left' \in SUBSET File
      /\ gotBf' \in SUBSET Session /\ gotDel' \in SUBSET Session
  BY <1>1, <1>2, HoldOrScanTyped
<1>4. dek' \in BOOLEAN /\ dekDisk' \in BOOLEAN
  BY <1>1, Zenon DEF TypeOK
<1>5. catSent' \in BOOLEAN
  BY Zenon DEF Heartbeat, TypeOK
<1>6. catalog' \in SUBSET Session
  <2>1. {SessionOf[f] : f \in Discovered} \in SUBSET Session
    BY CollectorAssumption DEF Discovered
  <2>2. PICK sent \in SUBSET Session : Upsert(sent)
    BY <2>1 DEF Heartbeat
  <2> QED BY <2>2 DEF Upsert, TypeOK
<1>7. bfReq' \in SUBSET Session /\ delReq' \in SUBSET Session
  BY <1>1 DEF Pickup, TypeOK
<1> QED BY <1>3, <1>4, <1>5, <1>6, <1>7 DEF Heartbeat, TypeOK, history

LEMMA StatFileTyped ==
    ASSUME TypeOK, NEW f \in File, StatFile(f)
    PROVE  TypeOK'
<1> DEFINE t == CheckRotation(EnsureTailer(f), fs[f])
<1>1. fs[f] \in FileRec /\ MaxGen \in Nat
  BY CollectorAssumption DEF TypeOK, FileRec
<1>2. t \in Entry
  BY <1>1, EnsureTailerType, CheckRotationType
<1>3. t # NoEntry
  BY <1>2, CollectorAssumption DEF Entry
<1>4. tailers' = [tailers EXCEPT ![f] = t]
  BY DEF StatFile
<1>5. tailers' \in [File -> Entry \cup {NoEntry}] /\ tailers'[f] = t
  BY <1>2, <1>4 DEF TypeOK
<1>6. job' \in Job /\ job'.file = f /\ pc' = "read" /\ job'.cuts = <<>>
  <2>1. <<>> \in Seq(Nat)
    OBVIOUS
  <2> QED BY <2>1 DEF StatFile, NewJob, Job
<1>7. \A i \in 1..Len(job'.cuts) : job'.cuts[i] <= job'.last
  BY <1>6
<1> QED BY <1>3, <1>5, <1>6, <1>7 DEF StatFile, TypeOK, disk, server

LEMMA ReadFileTyped == TypeOK /\ ReadFile => TypeOK'
<1> SUFFICES ASSUME TypeOK, ReadFile PROVE TypeOK'
  OBVIOUS
<1> DEFINE f == job.file
           t == tailers[f]
           off == NewOffset(t, fs[f])
<1>1. /\ pc = "read" /\ job \in Job /\ f \in File /\ t \in Entry /\ t # NoEntry
      /\ job.cuts = <<>>
  BY DEF ReadFile, TypeOK, Job
<1>2. fs[f] \in FileRec /\ fs[f].gen \in Nat
  BY <1>1, CollectorAssumption DEF TypeOK, FileRec
<1>3. CASE off = t.offset
  <2>1. pc' = "scan" /\ left' = left \ {f} /\ job' = NoEntry
    BY <1>3 DEF ReadFile
  <2> QED BY <2>1 DEF ReadFile, TypeOK, disk, memory, server, history
<1>4. CASE off # t.offset
  <2>1. /\ pc' = "emit" /\ left' = left
        /\ job' = [job EXCEPT !.gen = fs[f].gen, !.off = off,
                              !.next = FirstLine(t.offset), !.last = LastLine(off)]
    BY <1>4 DEF ReadFile
  <2>2. off \in Nat /\ t.offset \in Nat
    BY <1>1, <1>2, NewOffsetType DEF Entry
  <2>3. FirstLine(t.offset) \in Nat /\ LastLine(off) \in Nat
    BY <2>2, FirstLineType
  <2>4. job' \in Job /\ job'.file = f /\ job'.cuts = <<>>
    BY <1>1, <1>2, <2>1, <2>2, <2>3 DEF Job
  <2>5. \A i \in 1..Len(job'.cuts) : job'.cuts[i] <= job'.last
    BY <2>4
  <2> QED BY <1>1, <2>1, <2>4, <2>5 DEF ReadFile, TypeOK, disk, memory, server, history
<1> QED BY <1>3, <1>4

\* In the middle of sending, the job and its tailer are there.
LEMMA EmitState ==
    ASSUME TypeOK, pc = "emit"
    PROVE  /\ job \in Job /\ job.file \in File /\ tailers[job.file] \in Entry
           /\ job.next \in Nat /\ job.last \in Nat /\ job.off \in Nat /\ job.gen \in Nat
  BY DEF TypeOK, Job

LEMMA BatchEndType ==
    ASSUME TypeOK, pc = "emit", job.next <= job.last
    PROVE  BatchEnd \in Nat /\ BatchEnd <= job.last
<1>1. job.next \in Nat /\ job.last \in Nat /\ BatchSize \in Nat \ {0}
  BY EmitState, CollectorAssumption
<1> QED BY <1>1 DEF BatchEnd

\* There is always a next piece, and it ends within the job.
LEMMA PieceType ==
    ASSUME TypeOK, Posting
    PROVE  /\ PieceEnd \in Nat /\ PieceEnd <= job.last
           /\ Pieces \in Seq(Nat) /\ Tail(Pieces) \in Seq(Nat)
           /\ \A i \in 1..Len(Pieces) : Pieces[i] <= job.last
           /\ \A i \in 1..Len(Tail(Pieces)) : Tail(Pieces)[i] <= job.last
<1>1. /\ BatchEnd \in Nat /\ BatchEnd <= job.last
      /\ job.cuts \in Seq(Nat) /\ job.last \in Nat
      /\ \A i \in 1..Len(job.cuts) : job.cuts[i] <= job.last
  BY BatchEndType DEF Posting, TypeOK, Job
<1>2. CASE job.cuts = <<>>
  <2>1. Pieces = <<BatchEnd>>
    BY <1>2 DEF Pieces
  <2>2. <<BatchEnd>> \in Seq(Nat) /\ Tail(<<BatchEnd>>) = <<>> /\ Head(<<BatchEnd>>) = BatchEnd
    BY <1>1
  <2> QED BY <1>1, <2>1, <2>2 DEF PieceEnd
<1>3. CASE job.cuts # <<>>
  <2>1. Pieces = job.cuts
    BY <1>3 DEF Pieces
  <2>2. /\ Tail(job.cuts) \in Seq(Nat) /\ 1 \in 1..Len(job.cuts) /\ Head(job.cuts) = job.cuts[1]
        /\ Len(Tail(job.cuts)) = Len(job.cuts) - 1
        /\ \A i \in 1..Len(Tail(job.cuts)) : Tail(job.cuts)[i] = job.cuts[i + 1]
    BY <1>1, <1>3
  <2>3. \A i \in 1..Len(Tail(job.cuts)) : i + 1 \in 1..Len(job.cuts)
    BY <1>1, <2>2
  <2>4. job.cuts[1] \in Nat
    BY <1>1, <2>2
  <2> QED BY <1>1, <2>1, <2>2, <2>3, <2>4 DEF PieceEnd
<1> QED BY <1>2, <1>3

LEMMA HalfOf == ASSUME NEW d \in Nat \ {0} PROVE (d + 1) \div 2 \in 1..d
  OBVIOUS

\* An answered post leaves the job in its place: the piece is done, its lines stored
\* or dropped, or it has been cut in two.
LEMMA AnsweredJob ==
    ASSUME TypeOK, EmitOk \/ EmitDataError
    PROVE  /\ job' \in Job /\ job'.file = job.file /\ job'.gen = job.gen
           /\ job'.off = job.off /\ job'.last = job.last
           /\ \A i \in 1..Len(job'.cuts) : job'.cuts[i] <= job.last
           /\ \/ job'.next = job.next
              \/ job'.next = PieceEnd + 1 /\ Piece \subseteq stored' \cup dropped'
<1>1. Posting /\ job \in Job /\ job.next \in Nat /\ job.last \in Nat
  BY EmitState DEF EmitOk, EmitDataError, Posting
<1>2. /\ PieceEnd \in Nat /\ PieceEnd <= job.last /\ PieceEnd + 1 \in Nat
      /\ Pieces \in Seq(Nat) /\ Tail(Pieces) \in Seq(Nat)
      /\ \A i \in 1..Len(Pieces) : Pieces[i] <= job.last
      /\ \A i \in 1..Len(Tail(Pieces)) : Tail(Pieces)[i] <= job.last
  BY <1>1, PieceType
<1>3. ASSUME NEW j \in Job, j.file = job.file, j.gen = job.gen, j.off = job.off,
             j.last = job.last, job' = PieceDone(j),
             Piece \subseteq stored' \cup dropped'
      PROVE  /\ job' \in Job /\ job'.file = job.file /\ job'.gen = job.gen
             /\ job'.off = job.off /\ job'.last = job.last
             /\ \A i \in 1..Len(job'.cuts) : job'.cuts[i] <= job.last
             /\ job'.next = PieceEnd + 1 /\ Piece \subseteq stored' \cup dropped'
  <2>1. job' = [j EXCEPT !.next = PieceEnd + 1, !.cuts = Tail(Pieces)]
    BY <1>3 DEF PieceDone
  <2> QED BY <1>2, <1>3, <2>1 DEF Job
<1>4. CASE EmitOk
  <2>1. PICK bf \in SUBSET Session, del \in SUBSET Session, answered \in Answered :
          job' = PieceDone(IF answered THEN [job EXCEPT !.bf = bf, !.del = del] ELSE job)
    BY <1>4 DEF EmitOk
  <2> DEFINE j == IF answered THEN [job EXCEPT !.bf = bf, !.del = del] ELSE job
  <2>2. /\ j \in Job /\ j.file = job.file /\ j.gen = job.gen /\ j.off = job.off
        /\ j.last = job.last
    <3>1. CASE answered
      BY <1>1, <3>1 DEF Job
    <3>2. CASE ~answered
      BY <1>1, <3>2
    <3> QED BY <3>1, <3>2
  <2>3. Piece \subseteq stored'
    BY <1>4 DEF EmitOk, Store
  <2> QED BY <1>3, <2>1, <2>2, <2>3
<1>5. CASE EmitDataError /\ Alone
  BY <1>1, <1>3, <1>5 DEF EmitDataError
<1>6. CASE EmitDataError /\ ~Alone
  <2>1. job' = [job EXCEPT !.cuts = <<Halfway>> \o Pieces]
    BY <1>6 DEF EmitDataError
  <2>2. Halfway \in Nat /\ Halfway <= job.last
    <3>1. PieceEnd > job.next
      BY <1>1, <1>2, <1>6 DEF Alone
    <3>2. PieceEnd - job.next \in Nat \ {0}
      BY <1>1, <1>2, <3>1
    <3>3. (PieceEnd - job.next + 1) \div 2 \in 1..(PieceEnd - job.next)
      BY <3>2, HalfOf
    <3>4. Halfway \in job.next..PieceEnd
      BY <1>1, <1>2, <3>1, <3>3 DEF Halfway
    <3> QED BY <1>1, <1>2, <3>4
  <2>3. <<Halfway>> \in Seq(Nat)
    BY <2>2
  <2>4. <<Halfway>> \o Pieces \in Seq(Nat)
    BY <1>2, <2>3
  <2>5. ASSUME NEW i \in 1..Len(<<Halfway>> \o Pieces)
        PROVE  (<<Halfway>> \o Pieces)[i] <= job.last
    <3>1. CASE i = 1
      BY <1>2, <2>2, <3>1
    <3>2. CASE i # 1
      <4>1. i - 1 \in 1..Len(Pieces) /\ (<<Halfway>> \o Pieces)[i] = Pieces[i - 1]
        BY <1>2, <2>3, <3>2
      <4> QED BY <1>2, <4>1
    <3> QED BY <3>1, <3>2
  <2>6. /\ job' \in Job /\ job'.cuts = <<Halfway>> \o Pieces
        /\ job'.file = job.file /\ job'.gen = job.gen /\ job'.off = job.off
        /\ job'.last = job.last /\ job'.next = job.next
    BY <1>1, <2>1, <2>4 DEF Job
  <2> QED BY <2>5, <2>6
<1> QED BY <1>4, <1>5, <1>6

LEMMA EmitOkTyped == TypeOK /\ EmitOk => TypeOK'
<1> SUFFICES ASSUME TypeOK, EmitOk PROVE TypeOK'
  OBVIOUS
<1>1. /\ job' \in Job /\ job'.file = job.file /\ job'.last = job.last
      /\ \A i \in 1..Len(job'.cuts) : job'.cuts[i] <= job.last
  BY AnsweredJob
<1>2. pc = "emit"
  BY DEF EmitOk, Posting
<1>3. bfReq' \in SUBSET Session /\ delReq' \in SUBSET Session
  BY DEF EmitOk, Pickup, TypeOK
<1> QED BY <1>1, <1>2, <1>3 DEF EmitOk, TypeOK, disk, memory, history

LEMMA EmitDataErrorTyped == TypeOK /\ EmitDataError => TypeOK'
<1> SUFFICES ASSUME TypeOK, EmitDataError PROVE TypeOK'
  OBVIOUS
<1>1. /\ job' \in Job /\ job'.file = job.file /\ job'.last = job.last
      /\ \A i \in 1..Len(job'.cuts) : job'.cuts[i] <= job.last
  BY AnsweredJob
<1>2. pc = "emit"
  BY DEF EmitDataError, Posting
<1> QED BY <1>1, <1>2 DEF EmitDataError, TypeOK, disk, memory, server

LEMMA EmitFailTyped == TypeOK /\ EmitFail => TypeOK'
<1> SUFFICES ASSUME TypeOK, EmitFail PROVE TypeOK'
  OBVIOUS
<1>1. bfReq' \in SUBSET Session /\ delReq' \in SUBSET Session
  BY DEF EmitFail, Pickup, TypeOK
<1> QED BY <1>1 DEF EmitFail, TypeOK, disk, memory, history

LEMMA CommitTyped == TypeOK /\ Commit => TypeOK'
<1> SUFFICES ASSUME TypeOK, Commit PROVE TypeOK'
  OBVIOUS
<1> DEFINE t == Committed(tailers[job.file], job.off, job.gen)
<1>1. pc = "emit" /\ job \in Job /\ t \in Entry
  BY EmitState, CommittedType DEF Commit
<1>2. /\ tailers' = [tailers EXCEPT ![job.file] = t]
      /\ ckMem' = [ckMem EXCEPT ![job.file] = t]
      /\ left' = left \ {job.file}
  BY DEF Commit
<1>3. /\ tailers' \in [File -> Entry \cup {NoEntry}]
      /\ ckMem' \in [File -> Entry \cup {NoEntry}]
  BY <1>1, <1>2 DEF TypeOK
<1>4. ckDisk' \in [File -> Entry \cup {NoEntry}]
  BY <1>3 DEF Commit, TypeOK
<1>5. gotBf' \in SUBSET Session /\ gotDel' \in SUBSET Session
  BY <1>1 DEF Commit, TypeOK, Job
<1> QED BY <1>1, <1>2, <1>3, <1>4, <1>5 DEF Commit, TypeOK, server, history

\* Forgetting positions leaves the others as they are.
LEMMA WithoutType ==
    ASSUME NEW ck \in [File -> Entry \cup {NoEntry}], NEW files
    PROVE  Without(ck, files) \in [File -> Entry \cup {NoEntry}]
  BY DEF Without

LEMMA ForgetTyped ==
    ASSUME TypeOK, NEW files, Forget(files)
    PROVE  /\ ckMem' \in [File -> Entry \cup {NoEntry}]
           /\ ckDisk' \in [File -> Entry \cup {NoEntry}]
           /\ tailers' \in [File -> Entry \cup {NoEntry}]
  BY WithoutType DEF Forget, TypeOK

\* Deleting files leaves the file system well typed.
LEMMA DeletedFilesType ==
    ASSUME TypeOK, NEW gone
    PROVE  [f \in File |-> IF f \in gone THEN [fs[f] EXCEPT !.ino = 0, !.size = 0]
                                         ELSE fs[f]] \in [File -> FileRec]
<1>1. ASSUME NEW f \in File
      PROVE  /\ fs[f] \in FileRec
             /\ [fs[f] EXCEPT !.ino = 0, !.size = 0] \in FileRec
  BY DEF TypeOK, FileRec
<1> QED BY <1>1

LEMMA ApplyBackfillTyped ==
    ASSUME TypeOK, NEW s \in Session, ApplyBackfill(s)
    PROVE  TypeOK'
<1>1. /\ ckMem' \in [File -> Entry \cup {NoEntry}]
      /\ ckDisk' \in [File -> Entry \cup {NoEntry}]
      /\ tailers' \in [File -> Entry \cup {NoEntry}]
  BY ForgetTyped DEF ApplyBackfill
<1> QED BY <1>1 DEF ApplyBackfill, ApplyFrame, TypeOK, server, history

LEMMA ApplyDeleteTyped ==
    ASSUME TypeOK, NEW s \in Session, ApplyDelete(s)
    PROVE  TypeOK'
<1>1. PICK gone \in SUBSET File :
        /\ fs' = [f \in File |-> IF f \in gone THEN [fs[f] EXCEPT !.ino = 0, !.size = 0]
                                               ELSE fs[f]]
        /\ Forget(gone)
  BY DEF ApplyDelete, FilesOf
<1>2. fs' \in [File -> FileRec]
  BY <1>1, DeletedFilesType
<1>3. /\ ckMem' \in [File -> Entry \cup {NoEntry}]
      /\ ckDisk' \in [File -> Entry \cup {NoEntry}]
      /\ tailers' \in [File -> Entry \cup {NoEntry}]
  BY <1>1, ForgetTyped
<1> QED BY <1>2, <1>3 DEF ApplyDelete, ApplyFrame, TypeOK, FileRec, server, history

LEMMA ApplyErrorTyped ==
    ASSUME TypeOK, NEW s \in Session, ApplyError(s)
    PROVE  TypeOK'
<1>1. PICK done \in SUBSET File, f \in File :
        /\ fs' = IF s \in gotBf THEN fs
                 ELSE [g \in File |-> IF g \in done \cup {f}
                                        THEN [fs[g] EXCEPT !.ino = 0, !.size = 0]
                                        ELSE fs[g]]
        /\ ckMem' = Without(ckMem, done \cup {f})
        /\ ckDisk' = IF Without(ckMem, done) = ckMem THEN ckDisk ELSE Without(ckMem, done)
        /\ tailers' = Without(tailers, done)
  BY DEF ApplyError, FilesOf
<1>2. fs' \in [File -> FileRec]
  <2>1. fs \in [File -> FileRec]
    BY DEF TypeOK, FileRec
  <2>2. [g \in File |-> IF g \in done \cup {f}
                          THEN [fs[g] EXCEPT !.ino = 0, !.size = 0]
                          ELSE fs[g]] \in [File -> FileRec]
    BY DeletedFilesType
  <2> QED BY <1>1, <2>1, <2>2
<1>3. /\ ckMem' \in [File -> Entry \cup {NoEntry}]
      /\ ckDisk' \in [File -> Entry \cup {NoEntry}]
      /\ tailers' \in [File -> Entry \cup {NoEntry}]
  BY <1>1, WithoutType DEF TypeOK
<1> QED BY <1>2, <1>3 DEF ApplyError, TypeOK, FileRec, server, history

LEMMA EndIterationTyped == TypeOK /\ EndIteration => TypeOK'
<1> SUFFICES ASSUME TypeOK, EndIteration PROVE TypeOK'
  OBVIOUS
<1>1. pc' = "top" /\ job' = NoEntry /\ firstRun' \in BOOLEAN /\ authFail' \in Nat
  BY DEF EndIteration, TypeOK
<1>2. UNCHANGED <<fs, ckDisk, dekDisk, ckMem, tailers, freshStart, dek, catSent, left,
                  gotBf, gotDel, ownerKey, revoked, bfReq, delReq, catalog, asked, truncated, crashes, cmds>>
  BY DEF EndIteration, disk, server, history
<1> QED BY <1>1, <1>2 DEF TypeOK

LEMMA NextTyped == TypeOK /\ [Next]_vars => TypeOK'
<1> SUFFICES ASSUME TypeOK, [Next]_vars PROVE TypeOK'
  OBVIOUS
<1>1. CASE CollectorStep
  BY <1>1, StartTyped, NoHeartbeatTyped, HeartbeatTyped, AuthErrorTyped, StatFileTyped, ReadFileTyped,
     EmitOkTyped, EmitDataErrorTyped, EmitFailTyped, CommitTyped, ApplyBackfillTyped, ApplyDeleteTyped,
     ApplyErrorTyped, EndIterationTyped
     DEF CollectorStep, HeartbeatRefused, EmitRefused
<1>2. CASE UNCHANGED vars
  BY <1>2 DEF vars, disk, memory, loop, server, history, TypeOK
<1> QED BY <1>1, <1>2, WriterTyped, AdminTyped, CrashTyped DEF Next

\* Every variable of the collector, of the server and of the disk keeps its type,
\* and whenever a file is being sent its job and its tailer exist.
THEOREM TypeCorrect == Spec => []TypeOK
  BY InitTyped, NextTyped, PTL DEF Spec
-----------------------------------------------------------------------------
(* An offset never runs ahead of delivery.                                   *)

\* OffsetsVouched is not inductive: that Commit may move the offset rests on the
\* lines of the job so far being accounted for, and on the job beginning where
\* its tailer stands.
JobVouched ==
    pc = "emit" =>
        /\ job.off = 2 * job.last
        /\ {<<job.file, job.gen, k>> :
               k \in FirstLine(tailers[job.file].offset)..(job.next - 1)} \subseteq Accounted

IInv == TypeOK /\ OffsetsVouched /\ JobVouched

\* No step takes a line out of the account: a purge moves rows, it loses none.
LEMMA AccountGrows == TypeOK /\ [Next]_vars => Accounted \subseteq Accounted'
<1> SUFFICES ASSUME TypeOK, [Next]_vars PROVE Accounted \subseteq Accounted'
  OBVIOUS
<1> USE DEF Accounted
<1>1. CASE Writer
  BY <1>1 DEF Writer, Create, AppendHalf, Remove, Truncate, WriterFrame, server, history
<1>2. CASE Admin
  BY <1>2 DEF Admin, SetupKey, SetRevoked, RequestBackfill, PurgeSession, AdminFrame,
             history
<1>3. CASE Crash
  BY <1>3 DEF Crash, server
<1>4. ASSUME EmitOk \/ EmitDataError \/ EmitFail PROVE Accounted \subseteq Accounted'
  BY <1>4 DEF EmitOk, EmitDataError, EmitFail, Store, server, history
<1>5. CASE CollectorStep
  BY <1>4, <1>5 DEF CollectorStep, Start, NoHeartbeat, Heartbeat, HeartbeatRefused,
     EmitRefused, AuthError, StatFile, ReadFile, Commit, ApplyBackfill, ApplyDelete, ApplyError,
     ApplyFrame, EndIteration, server, history
<1>6. CASE UNCHANGED vars
  BY <1>6 DEF vars, server, history
<1> QED BY <1>1, <1>2, <1>3, <1>5, <1>6 DEF Next

\* What was vouched for stays vouched for.
LEMMA VouchedStays ==
    ASSUME NEW e, NEW f, Vouched(e, f), Accounted \subseteq Accounted'
    PROVE  Vouched(e, f)'
  BY DEF Vouched, Behind

LEMMA NoEntryVouched ==
    ASSUME NEW f PROVE Vouched(NoEntry, f)
  BY DEF Vouched

\* A position at the beginning of a file vouches for nothing yet.
LEMMA StartVouched ==
    ASSUME NEW e, NEW f, e.offset = 0 PROVE Vouched(e, f)
<1>1. 1..((e.offset + 1) \div 2) = {}
  OBVIOUS
<1> QED BY <1>1 DEF Vouched, Behind

LEMMA InitVouched == Init => OffsetsVouched /\ JobVouched
  BY NoEntryVouched DEF Init, OffsetsVouched, JobVouched, Nothing

\* Every step but a read and a commit only keeps, copies or forgets positions.
LEMMA PositionsKept ==
    ASSUME OffsetsVouched, Accounted \subseteq Accounted',
           \A f \in File : {ckDisk'[f], ckMem'[f], tailers'[f]}
                             \subseteq {ckDisk[f], ckMem[f], tailers[f], NoEntry}
    PROVE  OffsetsVouched'
<1> SUFFICES ASSUME NEW f \in File,
                    NEW e \in {ckDisk'[f], ckMem'[f], tailers'[f]}
             PROVE  e # NoEntry /\ e.gen # 0 => Behind(f, e) \subseteq Accounted'
  BY DEF OffsetsVouched, Vouched, Behind
<1>1. e \in {ckDisk[f], ckMem[f], tailers[f], NoEntry}
  OBVIOUS
<1>2. Vouched(e, f)
  BY <1>1, NoEntryVouched DEF OffsetsVouched
<1> QED BY <1>2 DEF Vouched

\* What _ensure_tailer and _check_rotation hand to read_new_lines is vouched for,
\* once the lines passed over on the first run are in the account.
LEMMA ReadTailerVouched ==
    ASSUME IInv, NEW f \in File, StatFile(f), Accounted \subseteq Accounted',
           NEW t, t = CheckRotation(EnsureTailer(f), fs[f])
    PROVE  t # NoEntry /\ t.gen # 0 => Behind(f, t) \subseteq Accounted'
<1> DEFINE e == EnsureTailer(f)
<1>1. Vouched(tailers[f], f) /\ Vouched(ckMem[f], f)
  BY DEF IInv, OffsetsVouched
<1>2. e # NoEntry /\ e.gen # 0 => Behind(f, e) \subseteq Accounted'
  <2>1. CASE tailers[f] # NoEntry
    BY <1>1, <2>1 DEF EnsureTailer, Vouched
  <2>2. CASE tailers[f] = NoEntry /\ ckMem[f] # NoEntry
    BY <1>1, <2>2 DEF EnsureTailer, Vouched
  <2>3. CASE AtEnd(f)
    BY <2>3 DEF StatFile, Accounted
  <2>4. CASE tailers[f] = NoEntry /\ ckMem[f] = NoEntry /\ ~AtEnd(f)
    <3>1. e.offset = 0
      BY <2>4 DEF EnsureTailer
    <3>2. 1..((e.offset + 1) \div 2) = {}
      BY <3>1
    <3> QED BY <3>2 DEF Behind
  <2> QED BY <2>1, <2>2, <2>3, <2>4 DEF AtEnd
<1>3. CASE t = e
  BY <1>2, <1>3
<1>4. CASE t.offset = 0
  <2>1. 1..((t.offset + 1) \div 2) = {}
    BY <1>4
  <2> QED BY <2>1 DEF Behind
<1> QED BY <1>3, <1>4 DEF CheckRotation

LEMMA StatFileVouched ==
    ASSUME IInv, NEW f \in File, StatFile(f), Accounted \subseteq Accounted'
    PROVE  OffsetsVouched' /\ JobVouched'
<1> DEFINE t == CheckRotation(EnsureTailer(f), fs[f])
<1>1. tailers' = [tailers EXCEPT ![f] = t] /\ ckDisk' = ckDisk /\ ckMem' = ckMem
  BY DEF StatFile, disk
<1>2. TypeOK
  BY DEF IInv
<1>3. OffsetsVouched'
  <2> SUFFICES ASSUME NEW g \in File, NEW e \in {ckDisk'[g], ckMem'[g], tailers'[g]}
               PROVE  e # NoEntry /\ e.gen # 0 => Behind(g, e) \subseteq Accounted'
    BY DEF OffsetsVouched, Vouched, Behind
  <2>1. CASE e = t /\ g = f
    BY <2>1, ReadTailerVouched
  <2>2. CASE e \in {ckDisk[g], ckMem[g], tailers[g]}
    BY <2>2 DEF IInv, OffsetsVouched, Vouched
  <2> QED BY <1>1, <1>2, <2>1, <2>2 DEF TypeOK
<1>4. JobVouched'
  BY DEF StatFile, JobVouched
<1> QED BY <1>3, <1>4

LEMMA ReadFileVouched ==
    ASSUME IInv, ReadFile, Accounted \subseteq Accounted'
    PROVE  OffsetsVouched' /\ JobVouched'
<1> DEFINE f == job.file
           t == tailers[f]
           off == NewOffset(t, fs[f])
<1>1. pc = "read" /\ TypeOK /\ tailers' = tailers
  BY DEF ReadFile, IInv, memory
<1>2. OffsetsVouched'
  BY PositionsKept DEF IInv, ReadFile, disk, memory
<1>3. CASE off = t.offset
  <2>1. pc' # "emit"
    BY <1>3 DEF ReadFile
  <2> QED BY <1>2, <2>1 DEF JobVouched
<1>4. CASE off # t.offset
  <2>1. job \in Job /\ f \in File /\ t \in Entry /\ fs[f] \in FileRec
    BY <1>1, CollectorAssumption DEF TypeOK, Job, FileRec
  <2>2. job' = [job EXCEPT !.gen = fs[f].gen, !.off = off,
                           !.next = FirstLine(t.offset), !.last = LastLine(off)]
    BY <1>4 DEF ReadFile
  <2>3. /\ job'.file = f /\ job'.off = off /\ job'.next = FirstLine(t.offset)
        /\ job'.last = LastLine(off)
    BY <2>1, <2>2 DEF Job
  <2>4. off = 2 * LastLine(off)
    BY <1>4, <2>1, NewOffsetType
  <2>5. FirstLine(t.offset) \in Nat
    BY <2>1, FirstLineType DEF Entry
  <2>6. FirstLine(tailers'[job'.file].offset)..(job'.next - 1) = {}
    BY <1>1, <2>3, <2>5
  <2> QED BY <1>2, <2>3, <2>4, <2>6 DEF JobVouched
<1> QED BY <1>3, <1>4

LEMMA AnsweredVouched ==
    ASSUME IInv, EmitOk \/ EmitDataError, Accounted \subseteq Accounted'
    PROVE  OffsetsVouched' /\ JobVouched'
<1>1. OffsetsVouched'
  BY PositionsKept DEF IInv, EmitOk, EmitDataError, disk, memory
<1>2. /\ pc = "emit" /\ pc' = "emit" /\ tailers' = tailers
      /\ TypeOK /\ Posting /\ job.next \in Nat /\ tailers[job.file] \in Entry
  BY EmitState DEF EmitOk, EmitDataError, Posting, IInv, memory
<1>3. /\ job'.file = job.file /\ job'.gen = job.gen /\ job'.off = job.off
      /\ job'.last = job.last
      /\ \/ job'.next = job.next
         \/ job'.next = PieceEnd + 1 /\ Piece \subseteq stored' \cup dropped'
  BY <1>2, AnsweredJob
<1>4. FirstLine(tailers[job.file].offset) \in Nat /\ PieceEnd \in Nat
  BY <1>2, FirstLineType, PieceType DEF Entry
<1>5. ASSUME NEW k \in FirstLine(tailers[job.file].offset)..(job'.next - 1)
      PROVE  <<job.file, job.gen, k>> \in Accounted'
  <2>1. CASE k \in FirstLine(tailers[job.file].offset)..(job.next - 1)
    BY <1>2, <2>1 DEF IInv, JobVouched
  <2>2. CASE job'.next = PieceEnd + 1 /\ k \in job.next..PieceEnd
    <3>1. <<job.file, job.gen, k>> \in Piece /\ Piece \subseteq stored' \cup dropped'
      BY <1>2, <1>3, <1>4, <2>2 DEF Piece
    <3> QED BY <3>1 DEF Accounted
  <2> QED BY <1>2, <1>3, <1>4, <2>1, <2>2
<1>6. job.off = 2 * job.last
  BY <1>2 DEF IInv, JobVouched
<1>7. JobVouched'
  BY <1>2, <1>3, <1>5, <1>6 DEF JobVouched
<1> QED BY <1>1, <1>7

\* The committed position vouches for the lines before the old one and for those
\* the job has sent; one that mixes two contents gets gen = 0.
LEMMA CommitVouched ==
    ASSUME IInv, Commit, Accounted \subseteq Accounted'
    PROVE  OffsetsVouched' /\ JobVouched'
<1> DEFINE f == job.file
           old == tailers[f]
           t == Committed(old, job.off, job.gen)
<1>1. /\ pc = "emit" /\ TypeOK /\ f \in File /\ old \in Entry /\ old # NoEntry
      /\ job.next \in Nat /\ job.last \in Nat /\ job.next > job.last
      /\ job.off = 2 * job.last
  BY EmitState DEF Commit, IInv, JobVouched, TypeOK
<1>2. /\ tailers' = [tailers EXCEPT ![f] = t]
      /\ ckMem' = [ckMem EXCEPT ![f] = t]
      /\ ckDisk' = ckMem' \/ ckDisk' = ckDisk
  BY DEF Commit
<1>3. old.offset \in Nat /\ t.offset = job.off
      /\ (t.gen = 0 \/ (t.gen = job.gen /\ (old.gen = job.gen \/ old.offset = 0)))
  BY <1>1 DEF Committed, Entry
<1>4. FirstLine(old.offset) = (old.offset + 1) \div 2 + 1 /\ (old.offset + 1) \div 2 \in Nat
  BY <1>3, FirstLineType
<1>5. (t.offset + 1) \div 2 = job.last
  BY <1>1, <1>3
<1>6. ASSUME t.gen # 0, NEW k \in 1..((t.offset + 1) \div 2)
      PROVE  <<f, t.gen, k>> \in Accounted
  <2>1. k \in 1..job.last /\ t.gen = job.gen
    BY <1>3, <1>5, <1>6
  <2>2. CASE k \in FirstLine(old.offset)..(job.next - 1)
    BY <1>1, <2>1, <2>2 DEF IInv, JobVouched
  <2>3. CASE k < FirstLine(old.offset)
    <3>1. k \in 1..((old.offset + 1) \div 2)
      BY <1>4, <2>1, <2>3
    <3>2. old.offset # 0
      BY <3>1
    <3>3. <<f, old.gen, k>> \in Behind(f, old)
      BY <3>1 DEF Behind
    <3> QED BY <1>1, <1>3, <1>6, <2>1, <3>2, <3>3 DEF IInv, OffsetsVouched, Vouched
  <2> QED BY <1>1, <1>4, <2>1, <2>2, <2>3
<1>7. OffsetsVouched'
  <2> SUFFICES ASSUME NEW g \in File, NEW e \in {ckDisk'[g], ckMem'[g], tailers'[g]}
               PROVE  e # NoEntry /\ e.gen # 0 => Behind(g, e) \subseteq Accounted'
    BY DEF OffsetsVouched, Vouched, Behind
  <2>1. CASE e = t /\ g = f
    BY <1>6, <2>1 DEF Behind
  <2>2. CASE e \in {ckDisk[g], ckMem[g], tailers[g]}
    BY <2>2 DEF IInv, OffsetsVouched, Vouched
  <2> QED BY <1>1, <1>2, <2>1, <2>2 DEF TypeOK
<1>8. JobVouched'
  BY DEF Commit, JobVouched
<1> QED BY <1>7, <1>8

\* The steps that touch neither the job nor its tailer, or end the sending.
LEMMA QuietVouched ==
    ASSUME IInv, Accounted \subseteq Accounted',
           \A f \in File : {ckDisk'[f], ckMem'[f], tailers'[f]}
                             \subseteq {ckDisk[f], ckMem[f], tailers[f], NoEntry},
           pc' # "emit" \/ UNCHANGED <<pc, job, tailers>>
    PROVE  OffsetsVouched' /\ JobVouched'
<1>1. OffsetsVouched'
  BY PositionsKept DEF IInv
<1>2. JobVouched'
  BY DEF IInv, JobVouched
<1> QED BY <1>1, <1>2

LEMMA CollectorStepVouched ==
    ASSUME IInv, CollectorStep, Accounted \subseteq Accounted'
    PROVE  OffsetsVouched' /\ JobVouched'
<1>1. CASE Start
  BY <1>1, QuietVouched DEF Start, Nothing, disk
<1>2. CASE NoHeartbeat \/ Heartbeat
  <2>1. pc' # "emit"
    BY <1>2 DEF NoHeartbeat, Heartbeat, HoldOrScan
  <2>2. UNCHANGED <<ckDisk, ckMem, tailers>>
    BY <1>2 DEF NoHeartbeat, Heartbeat, disk, memory
  <2> QED BY <2>1, <2>2, QuietVouched
<1>3. CASE HeartbeatRefused \/ EmitRefused
  BY <1>3, QuietVouched
     DEF HeartbeatRefused, EmitRefused, AuthError, Die, Nothing, disk
<1>4. CASE EmitFail
  BY <1>4, QuietVouched DEF EmitFail, disk, memory
<1>5. CASE \E s \in Session : ApplyBackfill(s) \/ ApplyDelete(s)
  <2>1. PICK files : Forget(files)
    BY <1>5 DEF ApplyBackfill, ApplyDelete
  <2>2. pc' # "emit"
    BY <1>5 DEF ApplyBackfill, ApplyDelete, ApplyFrame
  <2> QED BY <2>1, <2>2, QuietVouched DEF Forget, Without
<1>6. CASE \E s \in Session : ApplyError(s)
  <2>1. PICK s \in Session : ApplyError(s)
    BY <1>6
  <2>2. PICK done \in SUBSET (FilesOf(s) \cap Discovered), f \in FilesOf(s) \cap Discovered :
          /\ ckMem' = Without(ckMem, done \cup {f})
          /\ ckDisk' = IF Without(ckMem, done) = ckMem THEN ckDisk
                                                       ELSE Without(ckMem, done)
          /\ tailers' = Without(tailers, done)
    BY <2>1 DEF ApplyError
  <2>3. pc' # "emit"
    BY <2>1 DEF ApplyError
  <2> QED BY <2>2, <2>3, QuietVouched DEF Without
<1>7. CASE EndIteration
  BY <1>7, QuietVouched DEF EndIteration, disk
<1> QED BY <1>1, <1>2, <1>3, <1>4, <1>5, <1>6, <1>7, StatFileVouched, ReadFileVouched,
           AnsweredVouched, CommitVouched DEF CollectorStep

LEMMA NextVouched == IInv /\ [Next]_vars => OffsetsVouched' /\ JobVouched'
<1> SUFFICES ASSUME IInv, [Next]_vars PROVE OffsetsVouched' /\ JobVouched'
  OBVIOUS
<1>1. Accounted \subseteq Accounted'
  BY AccountGrows DEF IInv
<1>2. CASE Writer
  BY <1>1, <1>2, QuietVouched DEF Writer, Create, AppendHalf, Remove, Truncate, WriterFrame,
     disk, memory, loop
<1>3. CASE Admin
  BY <1>1, <1>3, QuietVouched DEF Admin, SetupKey, SetRevoked, RequestBackfill, PurgeSession,
     AdminFrame, disk, memory, loop
<1>4. CASE Crash
  BY <1>1, <1>4, QuietVouched DEF Crash, Die, Nothing, disk
<1>5. CASE CollectorStep
  BY <1>1, <1>5, CollectorStepVouched
<1>6. CASE UNCHANGED vars
  BY <1>1, <1>6, QuietVouched DEF vars, disk, memory, loop
<1> QED BY <1>2, <1>3, <1>4, <1>5, <1>6 DEF Next

\* Whatever the process remembers or offsets.json would make it remember after a
\* crash, each line behind an offset has reached the server or was deliberately
\* left out: the collector's promise of store and forward.
THEOREM OffsetsAlwaysVouched == Spec => []OffsetsVouched
<1>1. Init => IInv
  BY InitTyped, InitVouched DEF IInv
<1>2. IInv /\ [Next]_vars => IInv'
  BY NextTyped, NextVouched DEF IInv
<1>3. IInv => OffsetsVouched
  BY DEF IInv
<1> QED BY <1>1, <1>2, <1>3, PTL DEF Spec
-----------------------------------------------------------------------------
(* Nothing is sent in the clear.                                             *)

\* Beyond the hold lies the key: the files are looked at and posted only with a
\* device key, once one is required.
KeyBeforeScan == EncRequired /\ pc \in {"scan", "read", "emit"} => dek

PInv == TypeOK /\ NoPlaintext /\ KeyBeforeScan

LEMMA InitNoPlaintext == Init => NoPlaintext /\ KeyBeforeScan
  BY DEF Init, NoPlaintext, KeyBeforeScan

LEMMA CollectorStepNoPlaintext ==
    ASSUME PInv, CollectorStep
    PROVE  NoPlaintext' /\ KeyBeforeScan'
<1> USE DEF NoPlaintext, KeyBeforeScan
<1>1. CASE Start
  BY <1>1 DEF PInv, Start, server
<1>2. CASE NoHeartbeat
  <2>1. HoldOrScan(dek, {}, {}) /\ plain' = plain /\ dek' = dek
    BY <1>2 DEF NoHeartbeat, server, memory
  <2> QED BY <2>1 DEF PInv, HoldOrScan
<1>3. CASE Heartbeat
  <2>1. \/ \E bf, del \in SUBSET Session : HoldOrScan(dek', bf, del)
        \/ HoldOrScan(dek', {}, {})
    BY <1>3 DEF Heartbeat
  <2>2. plain' = plain
    BY <1>3 DEF Heartbeat
  <2> QED BY <2>1, <2>2 DEF PInv, HoldOrScan
<1>4. CASE HeartbeatRefused \/ EmitRefused
  BY <1>4 DEF PInv, HeartbeatRefused, EmitRefused, AuthError, Die, server
<1>5. CASE EmitOk \/ EmitDataError \/ EmitFail
  <2>1. pc = "emit" /\ dek' = dek
    BY <1>5 DEF EmitOk, EmitDataError, EmitFail, Posting, memory
  <2>2. EncRequired => dek
    BY <2>1 DEF PInv
  <2>3. plain' = IF dek THEN plain ELSE plain'
    BY <1>5 DEF EmitOk, EmitDataError, EmitFail, Store, server
  <2>4. ~EncRequired \/ (dek /\ plain' = plain /\ dek')
    BY <2>1, <2>2, <2>3
  <2> QED BY <2>4 DEF PInv
<1>6. CASE \E f \in File : StatFile(f)
  BY <1>6 DEF PInv, StatFile, server
<1>7. CASE ReadFile
  BY <1>7 DEF PInv, ReadFile, server, memory
<1>8. CASE Commit \/ EndIteration
  BY <1>8 DEF PInv, Commit, EndIteration, server
<1>9. CASE \E s \in Session : ApplyBackfill(s) \/ ApplyDelete(s) \/ ApplyError(s)
  <2>1. \/ pc' = pc /\ dek' = dek /\ plain' = plain
        \/ pc' = "top" /\ plain' = plain
    BY <1>9 DEF ApplyBackfill, ApplyDelete, ApplyError, ApplyFrame, server
  <2> QED BY <2>1 DEF PInv
<1> QED BY <1>1, <1>2, <1>3, <1>4, <1>5, <1>6, <1>7, <1>8, <1>9 DEF CollectorStep

LEMMA NextNoPlaintext == PInv /\ [Next]_vars => NoPlaintext' /\ KeyBeforeScan'
<1> SUFFICES ASSUME PInv, [Next]_vars PROVE NoPlaintext' /\ KeyBeforeScan'
  OBVIOUS
<1> USE DEF PInv, NoPlaintext, KeyBeforeScan
<1>1. CASE Writer
  BY <1>1 DEF Writer, Create, AppendHalf, Remove, Truncate, WriterFrame,
     server, memory, loop
<1>2. CASE Admin
  BY <1>2 DEF Admin, SetupKey, SetRevoked, RequestBackfill, PurgeSession, AdminFrame,
     memory, loop
<1>3. CASE Crash
  BY <1>3 DEF Crash, Die, server
<1>4. CASE UNCHANGED vars
  BY <1>4 DEF vars, server, memory, loop
<1> QED BY <1>1, <1>2, <1>3, <1>4, CollectorStepNoPlaintext DEF Next

\* With encryption on, no row is ever sent unencrypted: for every interleaving of
\* heartbeats, key set-up, crashes, 401s and holds, and any number of files.
THEOREM NeverPlaintext == Spec => []NoPlaintext
<1>1. Init => PInv
  BY InitTyped, InitNoPlaintext DEF PInv
<1>2. PInv /\ [Next]_vars => PInv'
  BY NextTyped, NextNoPlaintext DEF PInv
<1>3. PInv => NoPlaintext
  BY DEF PInv
<1> QED BY <1>1, <1>2, <1>3, PTL DEF Spec
-----------------------------------------------------------------------------
(* What the sink gives up.                                                   *)

LEMMA NextOnlyPoison == TypeOK /\ OnlyPoisonDropped /\ [Next]_vars => OnlyPoisonDropped'
<1> SUFFICES ASSUME TypeOK, OnlyPoisonDropped, [Next]_vars PROVE OnlyPoisonDropped'
  OBVIOUS
<1>1. CASE EmitDataError
  \* What is given up stood alone: a refused piece of one line holds a bad one.
  <2>1. CASE Alone /\ "http4xx" \notin Faults
    <3>1. Piece \cap Poison # {} /\ dropped' = dropped \cup Piece
      BY <1>1, <2>1 DEF EmitDataError
    <3>2. PieceEnd \in Nat /\ PieceEnd <= job.next /\ job.next \in Nat
      BY <1>1, <2>1, PieceType, EmitState DEF EmitDataError, Posting, Alone
    <3>3. Piece \subseteq {<<job.file, job.gen, job.next>>}
      BY <3>2 DEF Piece
    <3> QED BY <3>1, <3>3 DEF OnlyPoisonDropped
  <2>2. CASE ~Alone
    BY <1>1, <2>2 DEF EmitDataError, OnlyPoisonDropped
  <2> QED BY <2>1, <2>2 DEF OnlyPoisonDropped
<1>2. CASE dropped' = dropped
  BY <1>2 DEF OnlyPoisonDropped
<1>3. CASE Writer \/ Admin \/ Crash \/ UNCHANGED vars
  <2>1. dropped' = dropped
    BY <1>3 DEF Writer, Create, AppendHalf, Remove, Truncate, WriterFrame, Admin, SetupKey,
       SetRevoked, RequestBackfill, PurgeSession, AdminFrame, Crash, vars, history
  <2> QED BY <1>2, <2>1
<1>4. CASE CollectorStep
  <2>1. EmitDataError \/ dropped' = dropped
    BY <1>4 DEF CollectorStep, Start, NoHeartbeat, Heartbeat, HeartbeatRefused, EmitRefused,
       EmitOk, EmitFail,
       AuthError, StatFile, ReadFile, Commit, ApplyBackfill, ApplyDelete, ApplyError,
       ApplyFrame, EndIteration, history
  <2> QED BY <1>1, <1>2, <2>1
<1> QED BY <1>3, <1>4 DEF Next

\* If a 4xx is always about a row it answers, the bisection gives up only rows that
\* the database refuses for good: for every batch size, every set of bad rows and
\* every failure, crash and retry in the middle of it.
THEOREM OnlyPoisonEverDropped == Spec => []OnlyPoisonDropped
<1>1. Init => OnlyPoisonDropped
  BY DEF Init, OnlyPoisonDropped
<1> QED BY <1>1, InitTyped, NextTyped, NextOnlyPoison, PTL DEF Spec
-----------------------------------------------------------------------------
(* Offsets and the contents they speak about.                                *)

\* A position is older than the next content to come, and if it carries the inode
\* of the file at its path, it speaks about the content of that file.
Unmixed(e, f) ==
    e # NoEntry => /\ e.ino <= fs[f].gen
                   /\ fs[f].ino # 0 /\ e.ino = fs[f].ino => e.gen = fs[f].gen

PositionsUnmixed ==
    \A f \in File \ truncated : /\ fs[f].ino \in {0, fs[f].gen}
                                /\ Unmixed(ckDisk[f], f)
                                /\ Unmixed(ckMem[f], f)
                                /\ Unmixed(tailers[f], f)

\* The lines being sent are those of the content their tailer was compared with,
\* unless the path was replaced before it was opened.
JobUnmixed ==
    pc = "emit" /\ job.file \notin truncated
    /\ fs[job.file].ino # 0 /\ tailers[job.file].ino = fs[job.file].ino
        => job.gen = fs[job.file].gen

UInv == TypeOK /\ PositionsUnmixed /\ JobUnmixed

LEMMA InitUnmixed == Init => PositionsUnmixed /\ JobUnmixed
  BY DEF Init, PositionsUnmixed, JobUnmixed, Unmixed, Nothing

\* Steps that replace no file and make no position keep positions unmixed.
LEMMA PositionsStay ==
    ASSUME UInv, truncated' = truncated,
           \A f \in File : fs'[f].gen = fs[f].gen /\ fs'[f].ino \in {fs[f].ino, 0},
           \A f \in File : {ckDisk'[f], ckMem'[f], tailers'[f]}
                             \subseteq {ckDisk[f], ckMem[f], tailers[f], NoEntry}
    PROVE  PositionsUnmixed'
<1> SUFFICES ASSUME NEW f \in File \ truncated'
             PROVE  /\ fs'[f].ino \in {0, fs'[f].gen}
                    /\ \A e \in {ckDisk'[f], ckMem'[f], tailers'[f]} :
                          e # NoEntry =>
                             /\ e.ino <= fs'[f].gen
                             /\ fs'[f].ino # 0 /\ e.ino = fs'[f].ino => e.gen = fs'[f].gen
  BY DEF PositionsUnmixed, Unmixed
<1>1. fs[f].ino \in {0, fs[f].gen}
  BY DEF UInv, PositionsUnmixed
<1>2. \A e \in {ckDisk[f], ckMem[f], tailers[f]} : Unmixed(e, f)
  BY DEF UInv, PositionsUnmixed
<1> QED BY <1>1, <1>2 DEF Unmixed

\* The same, when nothing is being sent or the sending just goes on.
LEMMA QuietUnmixed ==
    ASSUME UInv, truncated' = truncated,
           \A f \in File : fs'[f].gen = fs[f].gen /\ fs'[f].ino \in {fs[f].ino, 0},
           \A f \in File : {ckDisk'[f], ckMem'[f], tailers'[f]}
                             \subseteq {ckDisk[f], ckMem[f], tailers[f], NoEntry},
           \/ pc' # "emit"
           \/ pc = "emit" /\ job'.file = job.file /\ job'.gen = job.gen /\ tailers' = tailers
    PROVE  PositionsUnmixed' /\ JobUnmixed'
<1>1. PositionsUnmixed'
  BY PositionsStay
<1>2. JobUnmixed'
  <2> SUFFICES ASSUME pc' = "emit", job'.file \notin truncated', fs'[job'.file].ino # 0,
                      tailers'[job'.file].ino = fs'[job'.file].ino
               PROVE  job'.gen = fs'[job'.file].gen
    BY DEF JobUnmixed
  <2>1. pc = "emit" /\ job'.file = job.file /\ job'.gen = job.gen /\ tailers' = tailers
    OBVIOUS
  <2>2. job.file \in File
    BY <2>1, EmitState DEF UInv
  <2> QED BY <2>1, <2>2 DEF UInv, JobUnmixed
<1> QED BY <1>1, <1>2

\* What the writers do to a file that a position, or a job, speaks about.
LEMMA WriterUnmixed ==
    ASSUME UInv, Writer
    PROVE  PositionsUnmixed' /\ JobUnmixed'
<1> USE DEF UInv
<1>1. PICK f \in File : Create(f) \/ AppendHalf(f) \/ Remove(f) \/ Truncate(f)
  BY DEF Writer
<1>2. UNCHANGED <<ckDisk, ckMem, tailers, pc, job>>
  BY <1>1 DEF Create, AppendHalf, Remove, Truncate, WriterFrame, disk, memory, loop
<1>3. fs[f] \in FileRec /\ fs \in [File -> FileRec]
  BY DEF TypeOK, FileRec
<1>4. CASE AppendHalf(f) \/ Remove(f)
  <2>1. truncated' = truncated
    BY <1>4 DEF AppendHalf, Remove
  <2>2. \A g \in File : fs'[g].gen = fs[g].gen /\ fs'[g].ino \in {fs[g].ino, 0}
    BY <1>3, <1>4 DEF AppendHalf, Remove, FileRec
  <2>3. \/ pc' # "emit"
        \/ pc = "emit" /\ job'.file = job.file /\ job'.gen = job.gen /\ tailers' = tailers
    BY <1>2
  <2> QED BY <1>2, <2>1, <2>2, <2>3, QuietUnmixed
<1>5. CASE Create(f)
  <2>1. /\ fs' = [fs EXCEPT ![f] = [size |-> 0, ino |-> fs[f].gen + 1, gen |-> fs[f].gen + 1]]
        /\ truncated' = truncated
    BY <1>5 DEF Create
  <2>2. fs[f].gen \in Nat /\ MaxGen \in Nat
    BY <1>3, CollectorAssumption DEF FileRec
  <2>3. fs'[f].ino = fs[f].gen + 1 /\ fs'[f].gen = fs[f].gen + 1
    BY <1>3, <2>1
  <2>4. \A g \in File : g # f => fs'[g] = fs[g]
    BY <1>3, <2>1
  <2>5. ASSUME NEW e \in Entry, e.ino <= fs[f].gen
        PROVE  e.ino <= fs'[f].gen /\ e.ino # fs'[f].ino
    BY <2>2, <2>3, <2>5 DEF Entry
  <2>6. \A g \in File : {ckDisk[g], ckMem[g], tailers[g]} \subseteq Entry \cup {NoEntry}
    BY DEF TypeOK
  <2>7. PositionsUnmixed'
    <3> SUFFICES ASSUME NEW g \in File \ truncated
                 PROVE  /\ fs'[g].ino \in {0, fs'[g].gen}
                        /\ \A e \in {ckDisk[g], ckMem[g], tailers[g]} :
                             e # NoEntry =>
                               /\ e.ino <= fs'[g].gen
                               /\ fs'[g].ino # 0 /\ e.ino = fs'[g].ino => e.gen = fs'[g].gen
      BY <1>2, <2>1 DEF PositionsUnmixed, Unmixed
    <3>1. /\ fs[g].ino \in {0, fs[g].gen}
          /\ \A e \in {ckDisk[g], ckMem[g], tailers[g]} : Unmixed(e, g)
      BY DEF PositionsUnmixed
    <3>2. CASE g # f
      BY <2>4, <3>1, <3>2 DEF Unmixed
    <3>3. CASE g = f
      BY <2>3, <2>5, <2>6, <3>1, <3>3 DEF Unmixed
    <3> QED BY <3>2, <3>3
  <2>8. JobUnmixed'
    <3> SUFFICES ASSUME pc = "emit", job.file \notin truncated, fs'[job.file].ino # 0,
                        tailers[job.file].ino = fs'[job.file].ino
                 PROVE  job.gen = fs'[job.file].gen
      BY <1>2, <2>1 DEF JobUnmixed
    <3>1. job.file \in File /\ tailers[job.file] \in Entry /\ tailers[job.file] # NoEntry
      BY EmitState DEF TypeOK
    <3>2. CASE job.file = f
      BY <2>5, <3>1, <3>2 DEF PositionsUnmixed, Unmixed
    <3>3. CASE job.file # f
      BY <2>4, <3>1, <3>3 DEF JobUnmixed
    <3> QED BY <3>2, <3>3
  <2> QED BY <2>7, <2>8
<1>6. CASE Truncate(f)
  <2>1. truncated' = truncated \cup {f} /\ \A g \in File : g # f => fs'[g] = fs[g]
    BY <1>3, <1>6 DEF Truncate
  <2>2. PositionsUnmixed'
    BY <1>2, <2>1 DEF PositionsUnmixed, Unmixed
  <2>3. pc = "emit" => job.file \in File
    BY EmitState
  <2>4. JobUnmixed'
    BY <1>2, <2>1, <2>3 DEF JobUnmixed
  <2> QED BY <2>2, <2>4
<1> QED BY <1>1, <1>4, <1>5, <1>6

\* The tailer made or reset by a stat speaks about what the stat saw.
LEMMA StatFileUnmixed ==
    ASSUME UInv, NEW f \in File, StatFile(f)
    PROVE  PositionsUnmixed' /\ JobUnmixed'
<1> DEFINE e == EnsureTailer(f)
           t == CheckRotation(e, fs[f])
<1>1. /\ tailers' = [tailers EXCEPT ![f] = t] /\ ckDisk' = ckDisk /\ ckMem' = ckMem
      /\ fs' = fs /\ truncated' = truncated /\ pc' = "read"
  BY DEF StatFile, disk
<1>2. TypeOK /\ fs[f].ino \in Nat /\ fs[f].gen \in Nat
  BY CollectorAssumption DEF UInv, TypeOK
<1>3. ASSUME f \notin truncated PROVE Unmixed(t, f)
  <2>1. /\ fs[f].ino \in {0, fs[f].gen}
        /\ Unmixed(ckMem[f], f) /\ Unmixed(tailers[f], f)
    BY <1>3 DEF UInv, PositionsUnmixed
  <2>2. Unmixed(e, f)
    BY <1>2, <2>1 DEF EnsureTailer, Unmixed
  <2> QED BY <1>2, <2>1, <2>2 DEF CheckRotation, Unmixed
<1>4. PositionsUnmixed'
  <2> SUFFICES ASSUME NEW g \in File \ truncated
               PROVE  /\ fs[g].ino \in {0, fs[g].gen}
                      /\ \A p \in {ckDisk[g], ckMem[g], tailers'[g]} :
                           p # NoEntry =>
                             /\ p.ino <= fs[g].gen
                             /\ fs[g].ino # 0 /\ p.ino = fs[g].ino => p.gen = fs[g].gen
    BY <1>1 DEF PositionsUnmixed, Unmixed
  <2>1. /\ fs[g].ino \in {0, fs[g].gen}
        /\ \A p \in {ckDisk[g], ckMem[g], tailers[g]} : Unmixed(p, g)
    BY DEF UInv, PositionsUnmixed
  <2>2. tailers'[g] = tailers[g] \/ (g = f /\ tailers'[g] = t)
    BY <1>1, <1>2 DEF TypeOK
  <2> QED BY <1>3, <2>1, <2>2 DEF Unmixed
<1>5. JobUnmixed'
  BY <1>1 DEF JobUnmixed
<1> QED BY <1>4, <1>5

LEMMA ReadFileUnmixed ==
    ASSUME UInv, ReadFile
    PROVE  PositionsUnmixed' /\ JobUnmixed'
<1>1. UNCHANGED <<fs, truncated, ckDisk, ckMem, tailers>> /\ pc = "read" /\ job \in Job
  BY DEF ReadFile, disk, memory, history, UInv, TypeOK
<1>2. PositionsUnmixed'
  BY <1>1 DEF UInv, PositionsUnmixed, Unmixed
<1>3. pc' = "emit" => job'.file = job.file /\ job'.gen = fs[job.file].gen
  BY <1>1 DEF ReadFile, Job
<1>4. JobUnmixed'
  BY <1>1, <1>3 DEF JobUnmixed
<1> QED BY <1>2, <1>4

\* What is committed under the inode of the file at the path was read from it.
LEMMA CommitUnmixed ==
    ASSUME UInv, Commit
    PROVE  PositionsUnmixed' /\ JobUnmixed'
<1> DEFINE f == job.file
           t == Committed(tailers[f], job.off, job.gen)
<1>1. /\ tailers' = [tailers EXCEPT ![f] = t]
      /\ ckMem' = [ckMem EXCEPT ![f] = t]
      /\ ckDisk' = ckMem' \/ ckDisk' = ckDisk
      /\ fs' = fs /\ truncated' = truncated /\ pc = "emit" /\ pc' = "scan"
  BY DEF Commit, history
<1>2. TypeOK /\ f \in File /\ tailers[f] \in Entry /\ tailers[f] # NoEntry
  BY <1>1, EmitState DEF UInv, TypeOK
<1>3. ASSUME f \notin truncated PROVE Unmixed(t, f)
  <2>1. Unmixed(tailers[f], f)
    BY <1>2, <1>3 DEF UInv, PositionsUnmixed
  <2>2. t.ino = tailers[f].ino
    BY <1>2 DEF Committed, Entry
  <2>3. t.gen = IF tailers[f].gen = job.gen \/ tailers[f].offset = 0 THEN job.gen ELSE 0
    BY <1>2 DEF Committed, Entry
  <2>4. fs[f].ino # 0 /\ t.ino = fs[f].ino => t.gen = fs[f].gen
    BY <1>1, <1>2, <1>3, <2>1, <2>2, <2>3 DEF UInv, JobUnmixed, Unmixed
  <2> QED BY <1>2, <2>1, <2>2, <2>4 DEF Unmixed
<1>4. PositionsUnmixed'
  <2> SUFFICES ASSUME NEW g \in File \ truncated
               PROVE  /\ fs[g].ino \in {0, fs[g].gen}
                      /\ \A p \in {ckDisk'[g], ckMem'[g], tailers'[g]} :
                           p # NoEntry =>
                             /\ p.ino <= fs[g].gen
                             /\ fs[g].ino # 0 /\ p.ino = fs[g].ino => p.gen = fs[g].gen
    BY <1>1 DEF PositionsUnmixed, Unmixed
  <2>1. /\ fs[g].ino \in {0, fs[g].gen}
        /\ \A p \in {ckDisk[g], ckMem[g], tailers[g]} : Unmixed(p, g)
    BY DEF UInv, PositionsUnmixed
  <2>2. \A p \in {ckDisk'[g], ckMem'[g], tailers'[g]} :
           p \in {ckDisk[g], ckMem[g], tailers[g]} \/ (g = f /\ p = t)
    BY <1>1, <1>2 DEF TypeOK
  <2> QED BY <1>3, <2>1, <2>2 DEF Unmixed
<1>5. JobUnmixed'
  BY <1>1 DEF JobUnmixed
<1> QED BY <1>4, <1>5

LEMMA CollectorStepUnmixed ==
    ASSUME UInv, CollectorStep
    PROVE  PositionsUnmixed' /\ JobUnmixed'
<1>1. CASE Start
  BY <1>1, QuietUnmixed DEF Start, Nothing, disk, history
<1>2. CASE NoHeartbeat \/ Heartbeat
  <2>1. pc' # "emit"
    BY <1>2 DEF NoHeartbeat, Heartbeat, HoldOrScan
  <2>2. UNCHANGED <<fs, ckDisk, ckMem, tailers, truncated>>
    BY <1>2 DEF NoHeartbeat, Heartbeat, disk, memory, history
  <2> QED BY <2>1, <2>2, QuietUnmixed
<1>3. CASE HeartbeatRefused \/ EmitRefused
  BY <1>3, QuietUnmixed
     DEF HeartbeatRefused, EmitRefused, AuthError, Die, Nothing, disk, history
<1>4. CASE EmitOk \/ EmitDataError
  <2>1. job'.file = job.file /\ job'.gen = job.gen /\ pc = "emit"
    BY <1>4, AnsweredJob DEF EmitOk, EmitDataError, Posting, UInv
  <2>2. UNCHANGED <<fs, ckDisk, ckMem, tailers, truncated>>
    BY <1>4 DEF EmitOk, EmitDataError, disk, memory, history
  <2> QED BY <2>1, <2>2, QuietUnmixed
<1>5. CASE EmitFail
  BY <1>5, QuietUnmixed DEF EmitFail, disk, memory, history
<1>6. CASE \E s \in Session : ApplyBackfill(s)
  BY <1>6, QuietUnmixed DEF ApplyBackfill, ApplyFrame, Forget, Without, history
<1>7. CASE \E s \in Session : ApplyDelete(s)
  <2>1. PICK gone \in SUBSET File :
          /\ fs' = [f \in File |-> IF f \in gone THEN [fs[f] EXCEPT !.ino = 0, !.size = 0]
                                                 ELSE fs[f]]
          /\ Forget(gone)
    BY <1>7 DEF ApplyDelete, FilesOf
  <2>2. \A f \in File : fs'[f].gen = fs[f].gen /\ fs'[f].ino \in {fs[f].ino, 0}
    <3>1. fs \in [File -> [size : Nat, ino : Nat, gen : 0 .. MaxGen]]
      BY DEF UInv, TypeOK
    <3> QED BY <2>1, <3>1
  <2>3. pc' # "emit" /\ truncated' = truncated
    BY <1>7 DEF ApplyDelete, ApplyFrame, history
  <2> QED BY <2>1, <2>2, <2>3, QuietUnmixed DEF Forget, Without
<1>8. CASE \E s \in Session : ApplyError(s)
  <2>1. PICK s \in Session : ApplyError(s)
    BY <1>8
  <2>2. PICK done \in SUBSET (FilesOf(s) \cap Discovered), f \in FilesOf(s) \cap Discovered :
          /\ fs' = IF s \in gotBf THEN fs
                   ELSE [g \in File |-> IF g \in done \cup {f}
                                          THEN [fs[g] EXCEPT !.ino = 0, !.size = 0]
                                          ELSE fs[g]]
          /\ ckMem' = Without(ckMem, done \cup {f})
          /\ ckDisk' = IF Without(ckMem, done) = ckMem THEN ckDisk
                                                       ELSE Without(ckMem, done)
          /\ tailers' = Without(tailers, done)
    BY <2>1 DEF ApplyError
  <2>3. \A g \in File : fs'[g].gen = fs[g].gen /\ fs'[g].ino \in {fs[g].ino, 0}
    <3>1. fs \in [File -> [size : Nat, ino : Nat, gen : 0 .. MaxGen]]
      BY DEF UInv, TypeOK
    <3> QED BY <2>2, <3>1
  <2>4. pc' # "emit" /\ truncated' = truncated
    BY <2>1 DEF ApplyError, history
  <2> QED BY <2>2, <2>3, <2>4, QuietUnmixed DEF Without
<1>9. CASE EndIteration
  BY <1>9, QuietUnmixed DEF EndIteration, disk, history
<1> QED BY <1>1, <1>2, <1>3, <1>4, <1>5, <1>6, <1>7, <1>8, <1>9, StatFileUnmixed,
           ReadFileUnmixed, CommitUnmixed DEF CollectorStep

LEMMA NextUnmixed == UInv /\ [Next]_vars => PositionsUnmixed' /\ JobUnmixed'
<1> SUFFICES ASSUME UInv, [Next]_vars PROVE PositionsUnmixed' /\ JobUnmixed'
  OBVIOUS
<1>1. CASE Admin
  <2>1. UNCHANGED <<fs, ckDisk, ckMem, tailers, truncated, pc, job>>
    BY <1>1 DEF Admin, SetupKey, SetRevoked, RequestBackfill, PurgeSession, AdminFrame,
       disk, memory, loop, history
  <2> QED BY <2>1, QuietUnmixed
<1>2. CASE Crash
  BY <1>2, QuietUnmixed DEF Crash, Die, Nothing, disk
<1>3. CASE UNCHANGED vars
  BY <1>3, QuietUnmixed DEF vars, disk, memory, loop, history
<1> QED BY <1>1, <1>2, <1>3, WriterUnmixed, CollectorStepUnmixed DEF Next

\* However often files are removed and replaced, also between the stat and the open
\* of one read, and wherever the process crashes: an offset recorded under the
\* inode that is at the path was measured in the content that is at the path.
THEOREM OffsetsNeverMixed == Spec => []OffsetsUnmixed
<1>1. Init => UInv
  BY InitTyped, InitUnmixed DEF UInv
<1>2. UInv /\ [Next]_vars => UInv'
  BY NextTyped, NextUnmixed DEF UInv
<1>3. UInv => OffsetsUnmixed
  BY DEF UInv, PositionsUnmixed, Unmixed, OffsetsUnmixed
<1> QED BY <1>1, <1>2, <1>3, PTL DEF Spec
=============================================================================
