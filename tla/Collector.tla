----------------------------- MODULE Collector ------------------------------
(***************************************************************************)
(* The store-and-forward core of Periscribe: the collector's polling loop  *)
(* (collector.py, Collector.run) with its tailers, checkpoint and sink,    *)
(* composed with the ingest function it posts to and with the writers of   *)
(* the transcript files, the administrator and the faults around it.       *)
(*                                                                         *)
(* One loop iteration is                                                   *)
(*   top   -> heartbeat, key bootstrap, perhaps hold and begin again       *)
(*   scan  -> for each discovered file: find or make its tailer, stat it   *)
(*   read  -> open it and read the complete lines                          *)
(*   emit  -> post batch after batch, commit, checkpoint                   *)
(*   scan  -> (no file left) apply backfills, then deletions, end          *)
(* with a step of the environment possible between any two of its steps.   *)
(***************************************************************************)
EXTENDS Tailer, FiniteSets, Sequences

CONSTANTS
    File,           \* paths below watch_dir that may hold a *.jsonl file
    Session,        \* session ids
    SessionOf,      \* the session a path belongs to (stem or path part)
    Backfill,       \* config.backfill: lines to send of files older than us
    BatchSize,      \* config.batch_size, one event per line
    EncRequired,    \* config.encrypt with a sink that can encrypt
    AuthFailMax,    \* _auth_fail_max (10 in the code)
    Poison,         \* lines the database refuses with a 4xx whatever happens
    Faults,         \* which faults the environment may produce
    MaxLines,       \* bound: lines of one content
    MaxGen,         \* bound: contents that succeed each other at a path
    MaxCrash,       \* bound: crashes of the collector process
    MaxCmd,         \* bound: administrator commands
    NoEntry         \* no tailer, no checkpoint entry

FaultKinds == {"net", "http4xx", "disk", "truncate"}
Line == File \X (1..MaxGen) \X (1..MaxLines)

ASSUME CollectorAssumption ==
    /\ SessionOf \in [File -> Session]
    /\ Backfill \in Nat
    /\ BatchSize \in Nat \ {0}
    /\ EncRequired \in BOOLEAN
    /\ AuthFailMax \in Nat \ {0}
    /\ Poison \subseteq Line
    /\ Faults \subseteq FaultKinds
    /\ MaxLines \in Nat /\ MaxGen \in Nat /\ MaxCrash \in Nat /\ MaxCmd \in Nat
    /\ NoEntry \notin [offset : Nat, ino : Nat, gen : Nat]

VARIABLES
    \* the machine's disk
    fs,             \* [File -> file] (see Tailer)
    ckDisk,         \* offsets.json
    dekDisk,        \* is the device key in config.json?
    \* the collector process
    pc,             \* "down", "top", "hold", "scan", "read" or "emit"
    ckMem,          \* Checkpoint._state
    tailers,        \* Collector.tailers
    firstRun,       \* run's first_run
    freshStart,     \* Collector.fresh_start
    dek,            \* has the sink a device key?
    authFail,       \* _auth_fail
    catSent,        \* is _last_catalog_sig the signature of the files as they are?
    left,           \* files of this iteration not yet processed
    job,            \* the file being processed
    gotBf, gotDel,  \* backfill_ids and delete_ids of this iteration
    \* the server
    stored,         \* rows of public.events
    plain,          \* those of them that were ever sent unencrypted
    ownerKey,       \* has the owner set a public key up?
    revoked,        \* devices.revoked: ingest answers 401
    bfReq, delReq,  \* pending backfill_requests and delete_requests
    catalog,        \* session_catalog: the sessions the web application lists
    \* history
    skipped,        \* lines passed over by starting at the end of a file
    dropped,        \* lines the sink gave up as poison
    purged,         \* lines removed by the administrator
    asked,          \* sessions whose deletion was asked for
    truncated,      \* files that were ever truncated
    crashes, cmds   \* the bounds' counters

disk == <<ckDisk, dekDisk>>
memory == <<ckMem, tailers, firstRun, freshStart, dek, authFail, catSent>>
loop == <<pc, left, job, gotBf, gotDel>>
server == <<stored, plain, ownerKey, revoked, bfReq, delReq, catalog>>
history == <<skipped, dropped, purged, asked, truncated, crashes, cmds>>
vars == <<fs, disk, memory, loop, server, history>>
-----------------------------------------------------------------------------
Entry == [offset : Nat, ino : Nat, gen : Nat]
Job == [file : File, gen : Nat, next : Nat, last : Nat, off : Nat,
        cuts : Seq(Nat), bf : SUBSET Session, del : SUBSET Session]

Nothing == [f \in File |-> NoEntry]
FilesOf(s) == {f \in File : SessionOf[f] = s}
\* discover(): the paths that hold a file right now.
Discovered == {f \in File : fs[f].ino # 0}
LinesOf(s) == {l \in Line : SessionOf[l[1]] = s}

\* Every line a position of file f vouches for: those that begin before it.
Behind(f, e) == {<<f, e.gen, k>> : k \in 1..((e.offset + 1) \div 2)}
Accounted == stored \cup dropped \cup skipped \cup purged

Init ==
    /\ fs = [f \in File |-> [size |-> 0, ino |-> 0, gen |-> 0]]
    /\ ckDisk = Nothing /\ ckMem = Nothing /\ tailers = Nothing
    /\ dekDisk = FALSE /\ dek = FALSE
    /\ pc = "down" /\ firstRun = TRUE /\ freshStart = TRUE
    /\ authFail = 0 /\ catSent = FALSE /\ left = {} /\ job = NoEntry
    /\ gotBf = {} /\ gotDel = {}
    /\ stored = {} /\ plain = {} /\ skipped = {} /\ dropped = {} /\ purged = {}
    /\ ownerKey = FALSE /\ revoked = FALSE
    /\ bfReq = {} /\ delReq = {} /\ catalog = {} /\ asked = {} /\ truncated = {}
    /\ crashes = 0 /\ cmds = 0
-----------------------------------------------------------------------------
(* The writers of the transcripts: Claude Code and the other spools.  What    *)
(* they do shows in the size or the time of a file, and so in the signature.  *)

WriterFrame ==
    /\ catSent' = FALSE
    /\ UNCHANGED <<disk, ckMem, tailers, firstRun, freshStart, dek, authFail, loop, server,
                   skipped, dropped, purged, asked, crashes, cmds>>

Create(f) ==
    /\ fs[f].ino = 0
    /\ fs[f].gen < MaxGen
    /\ fs' = [fs EXCEPT ![f] = [size |-> 0, ino |-> @.gen + 1, gen |-> @.gen + 1]]
    /\ truncated' = truncated
    /\ WriterFrame

\* Half a line at a time: the collector may look in between.
AppendHalf(f) ==
    /\ fs[f].ino # 0
    /\ fs[f].size < 2 * MaxLines
    /\ fs' = [fs EXCEPT ![f].size = @ + 1]
    /\ truncated' = truncated
    /\ WriterFrame

Remove(f) ==
    /\ fs[f].ino # 0
    /\ fs' = [fs EXCEPT ![f].ino = 0, ![f].size = 0]
    /\ truncated' = truncated
    /\ WriterFrame

\* Or a replacement that gets its predecessor's inode number.
Truncate(f) ==
    /\ "truncate" \in Faults
    /\ fs[f].ino # 0
    /\ fs[f].gen < MaxGen
    /\ fs' = [fs EXCEPT ![f].size = 0, ![f].gen = @ + 1]
    /\ truncated' = truncated \cup {f}
    /\ WriterFrame
-----------------------------------------------------------------------------
(* The administrator, through the web application and its SQL functions.     *)

AdminFrame ==
    /\ cmds < MaxCmd
    /\ cmds' = cmds + 1
    /\ UNCHANGED <<fs, disk, memory, loop, plain, skipped, dropped, truncated, crashes>>

SetupKey ==
    /\ ~ownerKey
    /\ ownerKey' = TRUE
    /\ UNCHANGED <<fs, disk, memory, loop, stored, plain, revoked, bfReq, delReq,
                   catalog, history>>

SetRevoked(b) ==
    /\ AdminFrame
    /\ revoked # b
    /\ revoked' = b
    /\ UNCHANGED <<stored, ownerKey, bfReq, delReq, catalog, purged, asked>>

\* The web application offers a session that has rows or is in the catalog.
Listed(s) == s \in catalog \/ stored \cap LinesOf(s) # {}

RequestBackfill(s) ==
    /\ AdminFrame
    /\ Listed(s)
    /\ s \notin bfReq
    /\ bfReq' = bfReq \cup {s}
    /\ UNCHANGED <<stored, ownerKey, revoked, delReq, catalog, purged, asked>>

\* purge_session: queue the local deletion; delete the rows, the catalog entry and
\* the backfill requests.
PurgeSession(s) ==
    /\ AdminFrame
    /\ Listed(s)
    /\ delReq' = delReq \cup {s}
    /\ asked' = asked \cup {s}
    /\ purged' = purged \cup (stored \cap LinesOf(s))
    /\ stored' = stored \ LinesOf(s)
    /\ catalog' = catalog \ {s}
    /\ bfReq' = bfReq \ {s}
    /\ UNCHANGED <<ownerKey, revoked>>
-----------------------------------------------------------------------------
(* The collector process comes and goes.                                     *)

Start ==
    /\ pc = "down"
    /\ pc' = "top"
    /\ ckMem' = ckDisk
    /\ freshStart' = (ckDisk = Nothing)
    /\ firstRun' = TRUE
    /\ tailers' = Nothing
    /\ dek' = dekDisk
    /\ authFail' = 0 /\ catSent' = FALSE
    /\ UNCHANGED <<fs, disk, left, job, gotBf, gotDel, server, history>>

\* What a dead process leaves behind is on disk.
Die ==
    /\ pc' = "down"
    /\ ckMem' = Nothing /\ tailers' = Nothing
    /\ firstRun' = TRUE /\ freshStart' = TRUE
    /\ dek' = FALSE /\ authFail' = 0 /\ catSent' = FALSE
    /\ left' = {} /\ job' = NoEntry /\ gotBf' = {} /\ gotDel' = {}

Crash ==
    /\ pc # "down"
    /\ crashes < MaxCrash
    /\ crashes' = crashes + 1
    /\ Die
    /\ UNCHANGED <<fs, disk, server, skipped, dropped, purged, asked, truncated, cmds>>

\* The handler of SinkAuthError: count it, give the iteration up, and stop for
\* good at the limit (the back-off is a delay and does not show here).
AuthError ==
    /\ revoked
    /\ IF authFail + 1 >= AuthFailMax
         THEN Die
         ELSE /\ authFail' = authFail + 1
              /\ pc' = "top"
              /\ left' = {} /\ job' = NoEntry /\ gotBf' = {} /\ gotDel' = {}
              /\ UNCHANGED <<ckMem, tailers, firstRun, freshStart, dek, catSent>>
    /\ UNCHANGED <<fs, disk, server, history>>
-----------------------------------------------------------------------------
(* ingest, up to the answer.  A request may hand over the pending backfills  *)
(* and deletions, and marks them done before it answers; a fault may cut it  *)
(* short before either, keep the mark from being set, or lose the answer.    *)
(* A heartbeat carries the session catalog before that, if it has changed.   *)

Upsert(sessions) ==
    catalog' \in (IF "net" \in Faults THEN {catalog, catalog \cup sessions}
                                     ELSE {catalog \cup sessions})

Pickup(bf, del) ==
    /\ bf \in (IF "net" \in Faults THEN {{}, bfReq} ELSE {bfReq})
    /\ del \in (IF "net" \in Faults THEN {{}, delReq} ELSE {delReq})
    /\ bfReq' \in (IF "net" \in Faults THEN {bfReq, bfReq \ bf} ELSE {bfReq \ bf})
    /\ delReq' \in (IF "net" \in Faults THEN {delReq, delReq \ del} ELSE {delReq \ del})

\* Does the answer reach the collector?  (An unreadable body is taken for {}.)
Answered == IF "net" \in Faults THEN BOOLEAN ELSE {TRUE}
-----------------------------------------------------------------------------
(* The top of an iteration.                                                  *)

\* (Mutant.) The missing key is noticed by nobody.
NeverHold(hasDek, bf, del) ==
    /\ pc' = "scan"
    /\ left' = Discovered
    /\ gotBf' = bf /\ gotDel' = del
    /\ job' = job

\* Hold while a key is required and missing: nothing is sent, and whatever the
\* heartbeat brought is forgotten.  Otherwise go on to the files there are now.
HoldOrScan(hasDek, bf, del) ==
    IF EncRequired /\ ~hasDek
      THEN pc' = "hold" /\ UNCHANGED <<left, job, gotBf, gotDel>>
      ELSE /\ pc' = "scan"
           /\ left' = Discovered
           /\ gotBf' = bf /\ gotDel' = del
           /\ job' = job

\* (Mutant.) A second loop is started beside the first.
AnyTime == pc # "down"

\* Asleep after an iteration, a hold included, the loop begins the next one.
AtTop == pc \in {"top", "hold"}

\* The heartbeat interval has not elapsed, or the heartbeat failed on the way.
NoHeartbeat ==
    /\ AtTop
    /\ HoldOrScan(dek, {}, {})
    /\ UNCHANGED <<fs, disk, memory, server, history>>

\* beat, with the catalog if its signature is not the last one that got through (an
\* unreadable answer counts, and so do rows that failed), then _handle_enc: the
\* owner's public key makes the collector generate and persist a device key if it
\* has none.
Heartbeat ==
    /\ AtTop
    /\ ~revoked
    /\ \E bf, del \in SUBSET Session, answered \in Answered :
         /\ Upsert(IF catSent THEN {} ELSE {SessionOf[f] : f \in Discovered})
         /\ Pickup(bf, del)
         /\ catSent' \in IF answered THEN {TRUE} ELSE {catSent, TRUE}
         /\ LET newKey == answered /\ EncRequired /\ ownerKey /\ ~dek IN
            /\ dek' = (dek \/ newKey)
            /\ dekDisk' \in IF ~newKey THEN {dekDisk}
                            ELSE IF "disk" \in Faults THEN BOOLEAN ELSE {TRUE}
         /\ IF answered THEN HoldOrScan(dek', bf, del)
                        ELSE HoldOrScan(dek', {}, {})
    /\ UNCHANGED <<fs, ckDisk, ckMem, tailers, firstRun, freshStart, authFail,
                   stored, plain, ownerKey, revoked, history>>

HeartbeatRefused == AtTop /\ AuthError
-----------------------------------------------------------------------------
(* One file.                                                                 *)

\* _ensure_tailer: the one there is, else the checkpoint's, else the end of the
\* file on this machine's first run, else its beginning.
AtEnd(f) == tailers[f] = NoEntry /\ ckMem[f] = NoEntry /\ firstRun /\ freshStart
EnsureTailer(f) ==
    IF tailers[f] # NoEntry THEN tailers[f]
    ELSE IF ckMem[f] # NoEntry THEN ckMem[f]
    ELSE [offset |-> IF AtEnd(f) THEN InitialOffset(fs[f].size, Backfill) ELSE 0,
          ino |-> fs[f].ino, gen |-> fs[f].gen]

NewJob(f) == [file |-> f, gen |-> 0, off |-> 0, next |-> 1, last |-> 0,
              cuts |-> <<>>, bf |-> {}, del |-> {}]

\* The tailer is found or made, and the path is compared with it.
StatFile(f) ==
    /\ pc = "scan"
    /\ f \in left
    /\ LET opened == EnsureTailer(f) IN
       /\ tailers' = [tailers EXCEPT ![f] = CheckRotation(opened, fs[f])]
       /\ skipped' = IF AtEnd(f) THEN skipped \cup Behind(f, opened) ELSE skipped
    /\ pc' = "read"
    /\ job' = NewJob(f)
    /\ UNCHANGED <<fs, disk, ckMem, firstRun, freshStart, dek, authFail, catSent, left,
                   gotBf, gotDel, server, dropped, purged, asked, truncated, crashes, cmds>>

\* The path is opened, perhaps no longer the file that was compared, and read to
\* its last newline; with nothing to read the file is done for this iteration.
ReadFile ==
    /\ pc = "read"
    /\ LET f == job.file
           t == tailers[f]
           off == NewOffset(t, fs[f])
       IN IF off = t.offset
            THEN pc' = "scan" /\ left' = left \ {f} /\ job' = NoEntry
            ELSE /\ pc' = "emit"
                 /\ job' = [job EXCEPT !.gen = fs[f].gen, !.off = off,
                                       !.next = FirstLine(t.offset), !.last = LastLine(off)]
                 /\ left' = left
    /\ UNCHANGED <<fs, disk, memory, gotBf, gotDel, server, history>>

BatchEnd == IF job.next + BatchSize - 1 < job.last THEN job.next + BatchSize - 1
                                                   ELSE job.last

\* What emit has on its call stack: the last lines of the pieces still to post, a
\* new batch being one piece.  The next post carries the lines of the first one.
Pieces == IF job.cuts = <<>> THEN <<BatchEnd>> ELSE job.cuts
PieceEnd == Head(Pieces)
Piece == {<<job.file, job.gen, k>> : k \in job.next..PieceEnd}

\* (Mutant.) Off by one: a piece of two rows is no longer cut.
UpToTwo == PieceEnd <= job.next + 1

\* len(rows) <= 1: there is nothing left to cut.
Alone == PieceEnd <= job.next

Halfway == job.next + (PieceEnd - job.next + 1) \div 2 - 1

Posting ==
    /\ pc = "emit"
    /\ job.next <= job.last
    /\ ~revoked

PieceDone(j) == [j EXCEPT !.next = PieceEnd + 1, !.cuts = Tail(Pieces)]

\* ingest stores the rows of a post in one statement: all of them or none.
Store ==
    /\ Piece \cap Poison = {}
    /\ stored' = stored \cup Piece
    /\ plain' = IF dek THEN plain ELSE plain \cup Piece

\* A post is through.  Each answer with content replaces the one before it
\* (r2 or r1, last_resp), and with it the commands that one carried.
EmitOk ==
    /\ Posting
    /\ Store
    /\ \E bf, del \in SUBSET Session, answered \in Answered :
         /\ Pickup(bf, del)
         /\ job' = PieceDone(IF answered THEN [job EXCEPT !.bf = bf, !.del = del] ELSE job)
    /\ UNCHANGED <<fs, disk, memory, pc, left, gotBf, gotDel, ownerKey, revoked, catalog,
                   history>>

\* SinkDataError: the server refused the post and did nothing else.  Its rows are
\* cut in two halves to be posted one after the other; a row refused by itself is
\* given up.
EmitDataError ==
    /\ Posting
    /\ Piece \cap Poison # {} \/ "http4xx" \in Faults
    /\ IF Alone
         THEN /\ job' = PieceDone(job)
              /\ dropped' = dropped \cup Piece
         ELSE /\ job' = [job EXCEPT !.cuts = <<Halfway>> \o Pieces]
              /\ dropped' = dropped
    /\ UNCHANGED <<fs, disk, memory, pc, left, gotBf, gotDel, server,
                   skipped, purged, asked, truncated, crashes, cmds>>

\* SinkError: the post may have gone through all the same.  The offset stays, the
\* answers so far are lost with the call, the loop goes on.
EmitFail ==
    /\ "net" \in Faults
    /\ Posting
    /\ \/ UNCHANGED <<stored, plain, bfReq, delReq>>
       \/ /\ Store
          /\ \E bf, del \in SUBSET Session : Pickup(bf, del)
    /\ pc' = "scan"
    /\ left' = left \ {job.file}
    /\ job' = NoEntry
    /\ UNCHANGED <<fs, disk, memory, gotBf, gotDel, ownerKey, revoked, catalog, history>>

EmitRefused == pc = "emit" /\ job.next <= job.last /\ AuthError

\* Only now does the offset move: in the tailer, then in the checkpoint.  When
\* the checkpoint cannot be flushed the exception also loses the answer.
Commit ==
    /\ pc = "emit"
    /\ job.next > job.last
    /\ LET f == job.file
           t == Committed(tailers[f], job.off, job.gen)
       IN /\ tailers' = [tailers EXCEPT ![f] = t]
          /\ ckMem' = [ckMem EXCEPT ![f] = t]
          /\ left' = left \ {f}
    /\ \/ /\ ckDisk' = ckMem'
          /\ gotBf' = gotBf \cup job.bf
          /\ gotDel' = gotDel \cup job.del
       \/ /\ "disk" \in Faults
          /\ UNCHANGED <<ckDisk, gotBf, gotDel>>
    /\ pc' = "scan"
    /\ job' = NoEntry
    /\ UNCHANGED <<fs, dekDisk, firstRun, freshStart, dek, authFail, catSent, server, history>>
-----------------------------------------------------------------------------
(* The end of an iteration: what the server asked for.                       *)

Without(ck, files) == [f \in File |-> IF f \in files THEN NoEntry ELSE ck[f]]

\* (Mutant.) The positions are forgotten, the tailers are not.
ForgetCheckpoint(files) ==
    /\ ckMem' = Without(ckMem, files)
    /\ ckDisk' = IF ckMem' = ckMem THEN ckDisk ELSE ckMem'
    /\ tailers' = tailers

\* Forget the files' positions, so that the next poll reads them from 0.
Forget(files) ==
    /\ ckMem' = Without(ckMem, files)
    /\ ckDisk' = IF ckMem' = ckMem THEN ckDisk ELSE ckMem'
    /\ tailers' = Without(tailers, files)

ApplyFrame == UNCHANGED <<dekDisk, firstRun, freshStart, dek, authFail, pc, left, job,
                          server, history>>

ApplyBackfill(s) ==
    /\ pc = "scan" /\ left = {}
    /\ s \in gotBf
    /\ Forget(FilesOf(s) \cap Discovered)
    /\ gotBf' = gotBf \ {s}
    /\ UNCHANGED <<fs, catSent, gotDel>>
    /\ ApplyFrame

\* Files whose unlink fails keep their positions and their tailers.
ApplyDelete(s) ==
    /\ pc = "scan" /\ left = {} /\ gotBf = {}
    /\ s \in gotDel
    /\ \E kept \in SUBSET (FilesOf(s) \cap Discovered) :
         LET gone == (FilesOf(s) \cap Discovered) \ kept IN
         /\ kept # {} => "disk" \in Faults
         /\ fs' = [f \in File |-> IF f \in gone THEN [fs[f] EXCEPT !.ino = 0, !.size = 0]
                                                ELSE fs[f]]
         /\ catSent' = (catSent /\ gone = {})
         /\ Forget(gone)
    /\ gotDel' = gotDel \ {s}
    /\ UNCHANGED gotBf
    /\ ApplyFrame

\* A flush fails while positions are being forgotten: the exception leaves the
\* iteration at once, before it has counted as the first one.
ApplyError(s) ==
    /\ "disk" \in Faults
    /\ pc = "scan" /\ left = {}
    /\ s \in gotBf \/ (gotBf = {} /\ s \in gotDel)
    /\ \E done \in SUBSET (FilesOf(s) \cap Discovered),
          f \in FilesOf(s) \cap Discovered :
         /\ f \notin done
         /\ ckMem[f] # NoEntry
         /\ fs' = IF s \in gotBf THEN fs
                  ELSE [g \in File |-> IF g \in done \cup {f}
                                         THEN [fs[g] EXCEPT !.ino = 0, !.size = 0]
                                         ELSE fs[g]]
         /\ catSent' = (catSent /\ s \in gotBf)
         /\ ckMem' = Without(ckMem, done \cup {f})
         /\ ckDisk' = IF Without(ckMem, done) = ckMem THEN ckDisk ELSE Without(ckMem, done)
         /\ tailers' = Without(tailers, done)
    /\ pc' = "top"
    /\ gotBf' = {} /\ gotDel' = {}
    /\ UNCHANGED <<dekDisk, firstRun, freshStart, dek, authFail, left, job, server,
                   history>>

EndIteration ==
    /\ pc = "scan" /\ left = {} /\ gotBf = {} /\ gotDel = {}
    /\ pc' = "top"
    /\ firstRun' = FALSE
    /\ authFail' = 0
    /\ UNCHANGED <<fs, disk, ckMem, tailers, freshStart, dek, catSent, left, job, gotBf,
                   gotDel, server, history>>
-----------------------------------------------------------------------------
Writer == \E f \in File : Create(f) \/ AppendHalf(f) \/ Remove(f) \/ Truncate(f)

Admin ==
    \/ SetupKey
    \/ \E b \in BOOLEAN : SetRevoked(b)
    \/ \E s \in Session : RequestBackfill(s) \/ PurgeSession(s)

CollectorStep ==
    \/ Start
    \/ NoHeartbeat \/ Heartbeat \/ HeartbeatRefused
    \/ \E f \in File : StatFile(f)
    \/ ReadFile
    \/ EmitOk \/ EmitDataError \/ EmitFail \/ EmitRefused \/ Commit
    \/ \E s \in Session : ApplyBackfill(s) \/ ApplyDelete(s) \/ ApplyError(s)
    \/ EndIteration

Next == Writer \/ Admin \/ Crash \/ CollectorStep

Spec == Init /\ [][Next]_vars

\* The process is restarted (autostart at logon) and its loop keeps running;
\* a heartbeat that is tried again and again is answered in the end, and so is
\* the post of the same lines.  Writers, the administrator, crashes and
\* faults owe nothing.
EmitAnswered(f, k, n) ==
    /\ pc = "emit" /\ job.file = f /\ job.next = k /\ PieceEnd = n
    /\ EmitOk \/ EmitDataError
HeartbeatWithKey == Heartbeat /\ dek'

Fairness ==
    /\ WF_vars(CollectorStep)
    /\ SF_vars(HeartbeatWithKey)
    /\ \A f \in File : \A k, n \in 1..MaxLines : SF_vars(EmitAnswered(f, k, n))

FairSpec == Spec /\ Fairness
-----------------------------------------------------------------------------
(* What must hold.                                                           *)

\* Every variable has its type, and the loop's variables agree on where it is.
TypeOK ==
    /\ fs \in [File -> [size : Nat, ino : Nat, gen : 0..MaxGen]]
    /\ ckDisk \in [File -> Entry \cup {NoEntry}]
    /\ ckMem \in [File -> Entry \cup {NoEntry}]
    /\ tailers \in [File -> Entry \cup {NoEntry}]
    /\ dekDisk \in BOOLEAN /\ dek \in BOOLEAN
    /\ pc \in {"down", "top", "hold", "scan", "read", "emit"}
    /\ firstRun \in BOOLEAN /\ freshStart \in BOOLEAN
    /\ authFail \in Nat /\ catSent \in BOOLEAN
    /\ left \in SUBSET File
    /\ IF pc \in {"read", "emit"}
         THEN /\ job \in Job /\ tailers[job.file] # NoEntry
              /\ \A i \in 1..Len(job.cuts) : job.cuts[i] <= job.last
              /\ pc = "read" => job.cuts = <<>>
         ELSE job = NoEntry
    /\ gotBf \in SUBSET Session /\ gotDel \in SUBSET Session
    /\ ownerKey \in BOOLEAN /\ revoked \in BOOLEAN
    /\ bfReq \in SUBSET Session /\ delReq \in SUBSET Session /\ catalog \in SUBSET Session
    /\ asked \in SUBSET Session /\ truncated \in SUBSET File
    /\ crashes \in Nat /\ cmds \in Nat

\* An offset never runs ahead of delivery: whatever the process remembers, and
\* whatever offsets.json would make it remember after a crash at this very
\* moment, each line behind the offset is on the server, or was dropped as
\* poison, passed over on the first run, or purged.  (An offset that mixes two
\* contents, gen = 0, vouches for nothing: see OffsetsUnmixed.)
Vouched(e, f) == e # NoEntry /\ e.gen # 0 => Behind(f, e) \subseteq Accounted

OffsetsVouched ==
    \A f \in File : /\ Vouched(ckDisk[f], f)
                    /\ Vouched(ckMem[f], f)
                    /\ Vouched(tailers[f], f)

\* The loop with its crashes, retries, flushes and resets does what StoreAndForward
\* promises: offsets.json moves past a line in a step of its own, after the line
\* has arrived or was given up, and nothing but a purge takes a row back.
Durable ==
    UNION {IF ckDisk[f] = NoEntry THEN {} ELSE Behind(f, ckDisk[f]) \cap Line : f \in File}
SF == INSTANCE StoreAndForward WITH Row <- Line, held <- stored, lost <- dropped \cup skipped,
                                    gone <- purged, done <- Durable
StoresAndForwards == SF!Spec

\* A path replaced between the stat and the open leaves an offset that speaks of
\* two contents.  Unless the file was truncated, it is never taken for a position
\* in what is at the path now: its inode gives it away at the next poll.
OffsetsUnmixed ==
    \A f \in File \ truncated : \A e \in {ckDisk[f], ckMem[f], tailers[f]} :
        e # NoEntry /\ fs[f].ino # 0 /\ e.ino = fs[f].ino => e.gen = fs[f].gen

\* With encryption on, no row ever reaches the server in the clear, whatever the
\* order of key set-up, key loss, crashes and holds.
NoPlaintext == EncRequired => plain = {}

\* While every 4xx is about the row it answers, the sink gives up nothing but what
\* the database refuses for good, however a batch was bisected and retried.
OnlyPoisonDropped == "http4xx" \notin Faults => dropped \subseteq Poison

\* A complete line in a file that stays where it is is eventually accounted for,
\* through crashes, lost requests and answers, refused rows and holds.
Complete(f, g, k) == fs[f].ino # 0 /\ fs[f].gen = g /\ 2 * k <= fs[f].size
Sendable == (EncRequired => ownerKey) /\ ~revoked

LinesDelivered ==
    \A f \in File : \A g \in 1..MaxGen : \A k \in 1..MaxLines :
        Complete(f, g, k) /\ Sendable
            ~> <<f, g, k>> \in Accounted \/ ~Complete(f, g, k) \/ ~Sendable

\* A backfill the collector has in hand makes up for what the first run passed
\* over: every complete line of the session reaches the server, unless the
\* process dies first or the file goes.
BackfillDelivers ==
    \A f \in File : \A g \in 1..MaxGen : \A k \in 1..MaxLines :
        SessionOf[f] \in gotBf /\ pc = "scan" /\ Complete(f, g, k)
            ~> <<f, g, k>> \in stored \cup dropped \cup purged
               \/ pc = "down" \/ ~Complete(f, g, k)
=============================================================================
