# Periscribe: models, checks and proofs

Periscribe collects the transcripts of Claude Code from many machines. A
*collector* process on each machine tails `*.jsonl` files and posts their lines
to a Supabase *edge function* (`ingest`), which writes them to Postgres; a *web
application* shows them live and sends commands (backfill, delete, revoke) back
through the same function. On Windows the collector also audits the programs
Claude starts (Sysmon), and on every machine an optional local *API proxy* logs
and filters the traffic between Claude and the model.

This directory holds TLA+ models of that system, the TLC configurations that
check them on small instances, and TLAPS proofs of what must hold on all of
them. All line numbers are those of `src/` at the modelled commit; `PROJECT.json`
maps every definition of a module to the lines it stands for.

## 1. Inventory

| Part | Source | State | Operations | Hard behaviour |
|---|---|---|---|---|
| Tailer | `collector/periscribe/tailer.py` | offset, inode of one file | `read_new_lines`, `_check_rotation`, `commit`, `initial_offset` | the file is appended to, replaced, truncated or removed between any two system calls; half-written lines |
| Checkpoint | `collector/periscribe/checkpoint.py` | `_state` (path -> offset, inode), `offsets.json` | `load`, `get`, `set`, `reset`, `flush` | a crash between memory and disk; a flush that fails |
| Collector loop | `collector/periscribe/collector.py` | tailers, `first_run`, `fresh_start`, `_auth_fail`, catalog signature | heartbeat, key bootstrap, hold, scan, read, emit, commit, apply backfills and deletions | order of the steps against crashes, lost answers, commands, holds |
| Sink | `collector/periscribe/sink.py` | device key | `emit` (batches, bisection on 4xx), `beat` | a post stored whose answer is lost; a poisonous row; 401 |
| ingest | `supabase/functions/ingest/index.ts` | none of its own | authenticate, install/uninstall, upsert events, hand over commands and mark them done, heartbeat | several statements without a transaction; answers that never arrive |
| Database | `supabase/schema.sql` | events, devices, session_catalog, backfill_requests, delete_requests | `purge_session(s)`, `revoke`, upsert by event id | commands racing with posts |
| OS exec audit | `collector/periscribe/audit_win.py` | cursor, tracked processes, spool file, cursor file | query, `parse_events`, append, save | crash or failure between the four; a cleared event log; a bounded process table |
| Parser and event ids | `collector/periscribe/parser.py` | tool-name table per file | `parse_line`, `_event_id` | replays must give the same ids |
| Configuration | `collector/periscribe/config.py` | config.json | load, `persist_dek` | written in place |
| Proxy routing | `collector/periscribe/proxyguard.py`, `__main__.py` | Claude's settings.json, saved gateway, lock file | enable, disable, uninstall, make the CA resident | several processes, the user and Claude edit one file, written in place; a lock that times out; a proxy that dies while traffic is routed to it |
| API proxy | `apiproxy.py`, `proxypolicy.py`, `apilog.py`, `proxyserver.py` | one request at a time per connection; API log | filter, gate, relay, log | streaming; a failure half way; errors that let everything through |
| Device lifecycle | `__main__.py`, `ingest/index.ts`, `schema.sql` | tokens, GUID, revocation, device keys | install, reinstall, uninstall, revoke, restore, single-instance lock | requests that overlap; read-modify-write of the key list |
| Web feed | `web/app.js` | event store, paging cursor, `lastRecv`, subscription | load, load more, catch up, realtime upsert, purge in chunks | answers of overlapping requests out of order |
| Cryptography, certificates | `crypto.py`, `proxycert.py` | keys | seal, open, issue | primitives: outside the reach of a model checker |
| Container launcher | `collector/periscribe/agent.py` | none | compose a docker command line | plain scripting |
| GUI, layout, packaging | `__main__.py` (panel, set-up), `web/*.css`, `packaging/`, `deploy/` | none that matters here | | rendering and I/O |

How they interact. The collector never listens: every post and heartbeat is a
request to `ingest`, and the answer carries whatever commands are pending
(backfill, delete) plus the owner's public key. The writers of transcripts share
only the file system with the collector; the OS audit and the API proxy hand it
their events by appending to spool files below the watched directory. The web
application and the functions share the database only.

What makes each part correct:

- *Store and forward*: an offset, in memory or on disk, never runs ahead of what
  the server has; complete lines arrive in the end; nothing but refused rows is
  given up; with encryption required nothing leaves in the clear; commands are
  carried out.
- *OS exec audit*: every process below a Claude process is recorded, under the
  right session, and no stranger is; restarts, failures and cleared logs do not
  lose any.
- *Proxy routing*: settings.json keeps the user's settings, the gateway he had is
  never lost and comes back, and OFF takes Claude off the proxy.
- *API proxy*: what the policy forbids is not answered, and not run unless the gate fails open;
  what passes is logged.
- *Device lifecycle*: one machine, one live device row and one accepted token; no
  device key is lost; a revoked machine stores nothing.
- *Web feed*: every event committed is shown once, in order, whichever answers
  race.

`PROJECT.json` lists the hazards, each at its line, with the properties
that would catch it or the reason why none does yet.

## 2. Modules

| Module | Models | Lines of source |
|---|---|---|
| `Tailer` | the arithmetic of one file: rotation, complete lines, start offset, commit | `tailer.py` |
| `Collector` | loop, checkpoint, sink, `ingest` as the collector meets it, and the writers, administrator and faults around them; EXTENDS `Tailer` | `collector.py`, `sink.py`, `ingest/index.ts`, `schema.sql` |
| `CollectorProofs` | theorems about `Collector` | |
| `CollectorClaims` | what the documentation says of `Collector`, with the history variables needed to say it | |
| `StoreAndForward` | the abstract promise of the collector: what is done with has arrived | |
| `StoreAndForwardProofs` | that `Collector` implements it; EXTENDS `CollectorProofs` | |
| `OsExecAudit` | `WinExecAudit.poll` with the machine, the event log and the spool | `audit_win.py` |
| `OsExecAuditProofs`, `NothingMissedProofs` | theorems about `OsExecAudit` | |
| `ProxyRouting` | who decides where Claude sends its requests: the proxy commands, the panel, the user, the server, the lock | `proxyguard.py`, `__main__.py`, `proxyserver.py` |
| `ProxyRoutingProofs` | theorems about `ProxyRouting` | |
| `Parser` | `parse_line` and what it needs, as operators: masking, event ids, pass-through | `parser.py` |
| `ApiProxy` | the requests of one conversation through policy, upstream, relay or gate, and log, with both logs of the session; EXTENDS `Parser` | `apiproxy.py`, `proxypolicy.py`, `apilog.py` |
| `ApiProxyProofs` | theorems about `ApiProxy` and its parser | |
| `DeviceLifecycle` | tokens, device rows, key generations: installs, revocation, uninstalling, deletion, `ingest` statement by statement | `ingest/index.ts`, `__main__.py`, `config.py`, `sink.py`, `collector.py`, `app.js` |
| `DeviceLifecycleProofs` | theorems about `DeviceLifecycle` | |
| `WebFeed` | the panel's feed: pages, Realtime inserts, catch-up, change of filter | `app.js` |
| `WebFeedProofs` | theorems about `WebFeed` | |
| `MCCollector`, `MCOsExecAudit`, `MCProxyRouting`, `MCApiProxy`, `MCDeviceLifecycle`, `MCWebFeed` | instances for TLC (a process tree, a poisonous row, ...) | |

### Tailer and Collector

The bytes of a file are abstracted to *half lines*: a file of odd size ends in
the middle of a line. That is all a tailer tells apart, for it only looks for
the last newline. `gen` numbers the contents that follow each other at a path
and is invisible to the code; it lets an invariant say *which* content an offset
speaks of. `ino` changes when the file is replaced and not when it is truncated,
which also covers the reuse of an inode number.

One iteration of `Collector.run` is `top -> scan -> read -> emit -> scan ...`,
and any step of the environment may come between two of its steps:

- `Heartbeat`, `NoHeartbeat`, `HeartbeatRefused`: `_maybe_heartbeat`, the device
  key bootstrap, then `HoldOrScan` (hold, or list the files). A hold discards
  what the heartbeat brought, as the `continue` of the code does.
- `StatFile`: `_ensure_tailer` and `_check_rotation`. `ReadFile`: open and read,
  a separate step because the path may be replaced between the stat and the open.
- `EmitOk`, `EmitDataError`, `EmitFail`, `EmitRefused`: one post of `emit`, by its answer.
  A post is stored whole or not at all, and one with a poisonous row never is. After a 4xx
  (`EmitDataError`) the rows are cut in two halves (`Halfway`) that are posted one after
  the other, and a row refused by itself (`Alone`) is given up: `job.cuts` is the stack of
  the recursion in `sink.py:131-143`, `Pieces` what of the batch is still to be posted. After a
  `SinkError` (`EmitFail`) the post may have been stored all the same, and the whole file is
  left to the next iteration. Each post that is stored runs `Pickup`, the part of `ingest` that
  hands commands over and marks them done; of the answers of one batch the last counts.
- `Commit`: `tailer.commit`, `checkpoint.set` and `flush`, where the flush may
  fail and the exception loses the commands collected so far.
- `ApplyBackfill`, `ApplyDelete`, `ApplyError`, `EndIteration`: the end of an
  iteration.
- `Crash` is possible at every `pc`; `Start` reads `offsets.json` and config.json.

`Faults` selects what may go wrong: `net` (requests and answers lost, the
function cut short at any point), `http4xx` (4xx answers that are no verdict on
the rows), `disk` (flush, unlink and config writes fail), `truncate`.

What is abstracted: a line is one event (a line that yields several is stored or
refused block by block; event ids make replays harmless either way, and that is
why the server is a *set*); sub-agent files that are left out of the catalog;
status.json, logs and autostart; delays and back-off, which are a step like any other.

`StoreAndForward` knows rows, and of each whether the server holds it, whether it
was given up or withdrawn, and whether a restart at this moment would send it
(`done`). It allows three steps: rows arrive (or are given up), rows are withdrawn,
and rows become done that have arrived, were given up or withdrawn before. That is
all a reader of the database may rely on, and it says nothing of offsets, inodes,
batches or files. `Collector` implements it under the mapping at the end of the
module: `held` is `stored`, `lost` is `dropped` and `skipped`, `gone` is `purged`,
and `done` is `Durable`, the lines in front of the offset on disk.

### OsExecAudit

The event log is a sequence (record *i* has RecordID *i*), `epoch` counts how
often it was begun anew and is invisible to the code. A poll is
`idle -> parse -> write -> save -> idle`: `Query` (`_query`),
`ParseCreate`/`ParseTerminate` (one record of `parse_events` each), `WriteSpool`/
`WriteFails` (the append), `Save` (cursor and tracked processes, in one file).
`QueryNothing` is `_maybe_reset_cursor`, `QueryUnreadable` a batch that is no
XML. What a poll has in local variables ends with it (`PollOver`), and what it did to the
tracked processes does not. A process of `Proc` stands for a process GUID, so it is created once.
`forgotten` and `orphaned` remember which processes the code gave up for a
documented reason (table full, log cleared) or lost through the defect described
below; the properties excuse exactly their descendants.

### ProxyRouting

`file` is settings.json as far as the commands care (the base URL, the resident
CA, and whether the user's other settings are there), `orig` the saved gateway,
`intent` config.api_log_enabled. Command lines and panels are processes
(`Actor`); each runs one command at a time:
`idle -> probe -> lock -> read -> orig -> truncate -> fill -> unlock -> idle`,
and anybody may take a step between two of them.

- `BeginOn`/`Probe`, `BeginOff`, `BeginResident`: `_proxy_enable` up to the health
  probe, `_proxy_disable` and uninstall, `_ensure_ca_resident`.
- `Acquire`, `GiveUp`, `Break`, `Release`: `settings_lock`. It waits two seconds and
  then goes on without the lock, and removes a lock older than ten; an actor that
  is slow (`slow`) or dead makes both happen, and `Release` may remove a lock that
  another has made since.
- `Read`, `EditOrig`, `Truncate`/`Fill`, `WriteFails`: the body of
  `route_to_proxy`, `strip_proxy_env` and `merge_settings_env`. The saved gateway is
  written (ON) or removed (OFF) before settings.json, and settings.json is written in
  place: what is read in between is `Torn` and counts as empty. So does a file that is whole
  but cannot be opened or parsed (the fault `read`): settings.json (`Content`, `proxyguard.py:137-138`)
  and the saved gateway (`Saved`, `165-171`), which OFF then removes all the same.
- `Crash` at every `pc`; `UserEdit` takes no lock; `ServerStart`/`ServerStop`.

Nothing can be kept once two edits overlap, a process dies or a write fails
between the change of the saved gateway and the end of the write, ON or the panel cannot read
settings.json and writes back what it took for it, or OFF cannot read the saved gateway. (The comment of
`settings_lock`, proxyguard.py:91-92, takes an overlap for harmless, but
who reads while another writes reads an empty file and writes that back.) The
history variable `mishap` is set by exactly these steps, and `GatewayKept` and `SettingsKept` are
claimed for the states without it. `OffMeansOff` is claimed with or without: `misled` has the processes it
is not claimed of, those that could not read settings.json or had another fill the file after they
went in. Everything else the lock meets is not excused:
dead locks, broken locks and going on without one, as long as nobody else is
inside. After a mishap no command and no edit begins, except under the
kind `aftermath`, which TLC is spared and the proofs include.

Abstracted: an edit by the user is atomic; the proxy's address is one value `ours`
(a server on another host, which `is_our_proxy_url` does not recognise, is left
out, and so is a user's own gateway on localhost, which the code says it takes for
the proxy); the times of the lock are `WaitOver`.

### Parser and ApiProxy

`Parser` turns a line into events. A block is a record with a kind and a value;
regular expressions are sets of values (`Secret`, and `SecretAtEnd` for those whose
replacement swallows the quote behind them and so breaks the JSON around it). The
options of the configuration are quantified over in the properties.

`ApiProxy` has Claude's conversation, the policy file, the routing switch, and the
threads of the server. Claude sends the whole conversation with each request and may
give a request up (`Esc`) and send the next while the old thread runs on:
`request -> refuse | upstream -> relay | gate -> log`.

- `HandleRequest` loads the policy (`LoadPolicy`: what cannot be read counts as no
  policy, and so does an exception while it is applied, `apiproxy.py:162`) and decides on the
  blocks behind the last answer; `Refuse` answers itself; `UpstreamAnswers`, `UpstreamFails`.
- `RelayEnds`, `RelayBreaks`, `BreaksDirty`: a streamed answer arrives, breaks off with
  nothing kept, or breaks off with part of it kept by Claude. `Gate`: the answer is
  buffered, the calls the policy names are taken out of it. It fails open: when the buffer
  cannot be parsed (`unread`, `apiproxy.py:315`) or its calls cannot be matched (`unmatched`, `321`), the
  answer goes to Claude as it came, and an unread one is not logged.
- `Log` appends to the spool; an append that fails may leave half a line, which spoils
  the first line of the next (`torn`, `Whole`). `Crash` ends all threads.
- `Toggle`, `EditPolicy`, `Direct`: the user switches the proxy, the policy changes
  under a running request, an answer comes past the proxy.

Abstracted or left out: compaction of the conversation, answers that are not streamed,
texts that are blank, the session id when the client sends none, TLS and the sockets, and the
copy of the request that goes upstream, with its masked texts and the appended system prompt: nothing
the system keeps depends on it, and what a policy masks in it is a matter of that one function
(section 5 names the parts it does not mask). `Crash` loses what the threads had not logged yet (`lost`).

### DeviceLifecycle

`rows` is the devices table, named by the token each row was issued with; `req` are the
requests in `ingest`, each with what it carries and what the function has read so far,
for the function decides on what it read first and writes at its end:
`lookup -> continuity -> drop -> put | bind -> serve -> record`. `config` is config.json,
`coll` the collector that holds the mutex, `leaving` the uninstaller. `Beat` and `Post` send,
`Answered`, `Refused` and `TimeOut` are the three ways a request ends for the collector;
`Install`, `EditConfig`, `Leave`/`Left` are what happens on the machine, and `Revoke`, `Restore`,
`Purge` and `SetOwnerKey` what the administrator does (app.js shows a button for each only
where the guard says so).

Nothing can be claimed after what the code is known not to survive, and the history
variable `mishap` marks exactly that: two requests of different lives of the machine that
overlap, a deletion while a request for that row is served, a `PUT` of the new token that is
lost after the new row has gone, a continuity look-up that fails, a key that could not
be written to config.json, and the binding of a row while another, which never was bound, has
events (`Strays`). Keys that an install, an uninstall or half a config.json removes before the
`PATCH` that records them has once succeeded (nobody looks at its result, `index.ts:141-145`) are
in `dropped`. The two properties about revocation are claimed with mishaps and for requests
that run on after it, too; `early` marks a request that had looked at the row before.

Abstracted or left out: writers of config.json do not overlap; a collector without
encryption; one machine of one owner; the Run value of the registry; generations of keys,
31 random bits in the code, are distinct numbers; tokens are all issued at the beginning,
and an install uses one that still has a row; removing the Run value, ending the processes
and deleting the data are one step (`Left`).

### WebFeed

A row is a number, in the order (received_at, event_id) that paging uses; `At` gives
received_at, which the rows of one post share. The script is single-threaded, so what
happens between two awaits is one step; a request is sent, read by the database
(`Serve`), and answered (`PageArrives`, `CatchUpArrives`, `QueryFails`) in three steps, and anything
may come in between: other requests, commits, inserts over the channel, a change of the
filter. A transaction may commit behind one that began after it (`MaxOverlap`). The channel
breaks (`ChannelBreaks`), or loses an insert while it looks alive (`InsertLost`).

`lost` has the rows the channel did not bring since the first page was read, `gone` those of
them that `lastRecv` has passed, and `mixed` says that an answer to an earlier load was applied.
Left out: logging in, decryption (rows that cannot be decrypted are in the store all the
same), the filters applied in the browser, deleted rows, the list of devices.

## 3. Runs

| Run | Question | Instance | Result |
|---|---|---|---|
| `collector_safety` | the five invariants with requests and answers lost, a truncated or replaced file, a disk that fails, a crash, a command | 1 file, 2 lines, 2 contents, batches of 2, backfill 1, second line poisonous, encryption required, `net`, `truncate`, `disk`, 1 crash or 1 command | 1.0 million states, no error |
| `collector_delivery` | does the loop implement `StoreAndForward`; delivery and backfill, under `FairSpec` | 1 file, 2 lines, batches of 2, second line poisonous, `net`, 1 crash, 1 command | 47 thousand states, no error |
| `claim_past` | is the past of a file left unsent unless asked for? | 2 files, 1 line, 1 crash | violated |
| `claim_hold` | does a hold lose nothing? | 1 file, no fault | violated |
| `claim_deletion` | is a queued deletion carried out? | 1 file, no fault | violated |
| `os_exec` | who is recorded and under whom; is anyone missed; does every process end up in the spool; is a cleared log noticed | 6 processes (Claude, a tool, its helper, a second Claude below the first, a denied console and a pager below it), at most 4 of which start or end, 2 per poll, 1 tracked, 1 crash, 1 clear, `xml`, `spool`; under `FairSpec` | 238 thousand states, no error |
| `claim_audit_retry` | is a failed write retried idempotently? | 2 processes, `spool` | violated |
| `proxy_routing` | do the gateway and the other settings survive, and does OFF work, with everybody editing | a command line and a panel, 2 gateways, `slow`, `disk`, `read`, 2 edits, 1 crash | 3.6 million states, no error |
| `claim_gateway` | does OFF restore what the user had before ON? | a command line, 2 edits, no fault | violated |
| `api_proxy` | what is refused, gated and logged, and do the two logs of a session agree | 2 threads, 2 prompts (one blocked, one masked in the logs), 2 answers (one with two tool calls, one of them forbidden), 2 policies, conversations of 3 messages, 1 toggle, 1 edit of the policy, 2 faults | 760 thousand states, no error |
| `device_lifecycle` | are keys, rows, tokens and revocations kept, whatever overlaps | 2 tokens, 2 requests at a time, 2 generations, 2 acts of the administrator, 1 fault of `net`, `disk`, `die` | 2.0 million states, no error |
| `web_feed` | has the feed a hole | 4 rows in 3 posts, 1 there before, pages of 2, catch-ups of 3, 2 filters, 2 loads at a time, 1 overlap, 1 change, 1 error, 2 drops | 2.0 million states, no error |

Why the bounds are enough. Files do not share state in the collector except
through the checkpoint file (any entry at all turns `fresh_start` off) and the
commands, which name sessions: `claim_past` has two files
for that, and one file exercises the rest; two files, and the fault `http4xx`, are covered
by the theorems of section 4. Two lines are the least with a batch
boundary, a poisonous row beside a good one, and a line in front of and one
behind the start offset. Two contents make one replacement or one truncation.
One crash reaches every pair (memory at the crash, disk it leaves), and the
invariants speak of both. In `collector_safety` a behaviour has a crash or a command, not both
(the constraint `OneInterruption`); `collector_delivery` has both, with the faults of the
network, and the theorems have any number of each. In the audit, a chain of three lets a
parent be evicted, ended or forgotten before its child appears; two records per
poll cut the log between parent and child and leave batches with both. A second Claude is the
least that leaves a wrong session to file under, and the denied console (`console`) with a process below it
has two that must not be recorded at all; a table of one process evicts as soon as a second
is tracked. Any four starts and ends of the six may happen (`MaxRecords`). A cursor file that is
not saved (`save`) multiplies the states; it is left to the theorems `OnlyClaudeTreeRecorded` and
`NothingIsMissed`.

In the routing, two actors are the least that
compete for the lock, one dead process the least that leaves it behind, and two
gateways with two edits let a saved gateway be older than the user's choice;
commands are not bounded, nor are failures to read. In the proxy, two threads are a request given up and the
one after it; three messages are a prompt, an answer, and the next prompt or tool result, so
that a history lies before the new input, and a fault and another leave a torn line and
an append after it. In the life of a device, two tokens are a re-install, two requests
at a time one the collector has given up and its successor, two generations a key
and the one after it; two acts of the administrator revoke and restore. In the feed,
the post of two rows is split by a page and by a lost insert, and two loads on their way are
one that is out of date and the present one. (That a catch-up brings only so many rows
does not bite with four; five rows, where it does, took 10 million states and no
error, four minutes, and are not among the runs.)

Deadlock is checked in the collector, routing and feed runs: the loop, the server and the
commands, and the timer of the feed, can always go on. It is off in the audit run, where an
audit with nothing to read polls without a change and
the machine may have no process left to start, in `api_proxy`, where the conversation has an
end, and in `device_lifecycle`, where the last token may be deleted and nothing but requests
goes on after a mishap. The symmetry of gateways, threads, tokens and requests is used only where no
liveness is checked.

### Properties

- `OffsetsVouched`: each line behind an offset in `ckDisk`, `ckMem` or a tailer is
  stored, or was dropped as poison, passed over by a start at the end, or purged.
  It is the crash-safety of the collector: a crash at any moment loses nothing.
- `OffsetsUnmixed`: the stat and the open of one iteration may see two different
  files. The offset that results is never taken for a position in the new one,
  because the inode kept is that of the old one. Truncated files are excepted:
  there the code has no way to notice (hazard at `tailer.py:54`).
- `NoPlaintext`: with encryption required no row is posted before there is a device key.
- `OnlyPoisonDropped`: the halving finds the poisonous rows and gives up no other, with crashes,
  lost answers, commands and replacements in the middle of it. (With `http4xx` any row may be refused,
  and nothing is claimed.)
- `StoresAndForwards`: every step of the loop, the server and the machine is a step of
  `StoreAndForward` or changes nothing it sees. Unlike `OffsetsVouched` it speaks of
  steps: offsets.json never passes a line in the same step that stores it, and
  nothing that is stored leaves the server but by a purge.
- `LinesDelivered`, `BackfillDelivers`: liveness.
- `OnlyClaudeTree`, `NothingMissed`, `AuditComplete`, `ResetNoticed`: the audit.
- `GatewayKept` (until a mishap): the gateway the user chose last is in settings.json, saved, or in the
  hands of the process about to write it back, however ON, OFF, uninstall, the panel and
  his own edits follow each other.
- `SettingsKept` (until a mishap): settings.json is whole unless somebody is writing it, and the
  other settings are in it.
- `OffMeansOff`: when OFF or uninstall lets go, Claude is not routed to the proxy, whatever mishaps
  there were, unless the command is `misled`.
- `OffStaysOff`, `LogComplete`: the API log tells nothing that was typed and answered while
  the proxy was off, and all of every exchange that went through it, what earlier
  requests that failed had brought included. Not told is the answer that broke off, with what it
  answered (`apiproxy.py:231`), and the answer the gate could not read.
- `RefusesTheNew`: a request is refused exactly for what is new in it.
- `GateHolds`: a tool call that the policy of the request forbids is run only when the gate failed open;
  one that is logged as blocked was not run in any case.
- `IdsTellApart`: the transcript and the API log of a session meet in one table keyed by
  event id: two rows of the same id have the same kind, value and call. They agree on the
  mark `blocked` as well, prompts excepted: the id of a prompt is a hash of its text, and one that was refused
  and later let through is one row, with the mark of the first (`apilog.py:152-161`).
- `RunsTold`: a tool call that Claude ran is in both, as it was run or masked, with every
  combination of the parser's options. Each exception is one of the code's own: the
  transcript loses a line that holds this call and that masking makes unreadable, and the spool an answer
  the gate could not read and what was in an append that failed or a thread that died.
- `KeyKept` (until a mishap): the key of every stored event is with its device row, or on its way
  there, unless an install, an uninstall or half a config.json removed it before it was recorded (`dropped`).
- `EventsHaveDevice`, `TokenKnown` (until a mishap): a re-install orphans neither the events nor the machine.
- `RevocationKept`: the row bound to the machine, once revoked, stays, and stays revoked, but for an act of the
  administrator or a request that had looked at the row before. It is not claimed of a row the
  uninstaller has marked gone, nor of one that was never bound (section 5).
- `RevokedStoresNothing`: such a row gets no events but from requests that had looked at it before.
- `NoHole`: down to the paging cursor the feed has every row of the filter; a row the channel
  lost is there as soon as `lastRecv` has passed it. What is excepted is what the code
  does not keep: an answer to an earlier load mixed into the present one, and a lost row that
  an insert, or a catch-up under another filter, passes first.

### Fairness

`Collector`: weak fairness of the collector's own steps (autostart restarts the
process at logon, and the loop has no blocking wait without a timeout); strong
fairness of a heartbeat that brings or keeps a key, and of the post of one and
the same batch (`EmitAnswered(f, k, n)`), i.e. a request tried again and again is
answered in the end. The loop retries both without limit; without the assumption
a network that is down for good refutes any delivery. `OsExecAudit`: weak
fairness of `Start` and `Poll`, strong fairness of `WriteSpool`. The other modules have no
liveness property and no fairness. No fairness is
assumed of writers, processes, the administrator, crashes or faults.

## 4. Proofs

`tlapm` on the eight modules `*Proofs.tla`
checks everything below, for all values of the constants that satisfy
`CollectorAssumption`, `AuditAssumption`, `LineageAssumption` (no process is its own ancestor,
so that the recursive function `Lineage` is what its definition says),
`RoutingAssumption`, `LifecycleAssumption`, `FeedAssumption` (received_at grows along the order
of the rows) and `ProxyAssumption` (texts, policies and answers are what their types say). TLC evaluates the assumptions on each run. With these theorems
every invariant and every safety property of a passing run is proved.

| Theorem | Property |
|---|---|
| `TypeCorrect` | `Collector`: `TypeOK` |
| `OffsetsAlwaysVouched` | `OffsetsVouched` |
| `OffsetsNeverMixed` | `OffsetsUnmixed` |
| `NeverPlaintext` | `NoPlaintext` |
| `OnlyPoisonEverDropped` | `OnlyPoisonDropped` |
| `ImplementsStoreAndForward` | `StoresAndForwards`: `Collector` implements `StoreAndForward` |
| `AuditTyped` | `OsExecAudit`: `TypeOK` |
| `OnlyClaudeTreeRecorded` | `OnlyClaudeTree` |
| `NothingIsMissed` | `NothingMissed` |
| `RoutingTyped` | `ProxyRouting`: `TypeOK`, that is also: the saved gateway is never the proxy |
| `GatewayIsKept` | `GatewayKept` |
| `SettingsAreKept` | `SettingsKept` |
| `OffIsOff` | `OffMeansOff` |
| `LifecycleTyped` | `DeviceLifecycle`: `TypeOK`, that is also: the two unique indexes of the devices table hold |
| `RevocationIsKept` | `RevocationKept` |
| `RevokedDeviceStoresNothing` | `RevokedStoresNothing` |
| `EventsAlwaysHaveDevice` | `EventsHaveDevice` |
| `KeysAreKept` | `KeyKept` |
| `TokenIsKnown` | `TokenKnown` |
| `FeedTyped` | `WebFeed`: `TypeOK` |
| `FeedHasNoHole` | `NoHole` |
| `ProxyTyped` | `ApiProxy`: `TypeOK` |
| `OffIsNeverTold` | `OffStaysOff` |
| `ExchangesAreTold` | `LogComplete` |
| `NewInputDecides` | `RefusesTheNew` |
| `BlockedCallsDoNotRun` | `GateHolds` |
| `RowsTellApart` | `IdsTellApart` |
| `RunsAreTold` | `RunsTold` |

The arguments:

- `OffsetsVouched` is not inductive. While a batch is being emitted the offset
  has not moved yet; what must be kept is that the lines from the tailer's offset up
  to the next line to post are accounted for, that the job's content is the one
  the file had when it was opened, and that `job.off` lies behind `job.last`
  exactly when the job is complete. `Commit` then moves the offset over lines that
  are all accounted for, or marks it mixed when content and tailer disagree. A purge
  moves lines from `stored` to `purged`, which leaves `Accounted` alone, and all
  other steps only add to it.
- `OffsetsUnmixed` needs that inode numbers grow with the contents: an entry's
  inode is never newer than the file's, and an untruncated file with the inode of
  an entry has the content of that entry. The case to see is `Commit` after a
  replacement between stat and open: the entry keeps the old inode, so the premise
  fails.
- `OnlyPoisonDropped` is about the arithmetic of the halves: a piece ends behind its first row or at it
  (`job.cuts` grows from top to bottom and ends with the end of the batch), so one that is `Alone` is one
  row, and a row refused by itself is poison. Cutting keeps that for both halves.
- `NoPlaintext` needs that beyond the top of an iteration a required key is
  present, which only `HoldOrScan` establishes and only `Die` ends.
- `OnlyClaudeTree` needs that everything tracked, everything in `out`, and everything
  saved on disk is filed under `SessionOf`; a created process then gets its
  session from a parent that has the right one, and a denied process, or one below it, from none.
- `ImplementsStoreAndForward` maps each action to a step of the abstract module or to a
  stutter. Most leave the mapped variables alone. A post only adds to
  `stored` and `dropped`, the first look at a file only to `skipped` (`RowSteps`), and a purge is
  `Withdraw`. What has to be shown of a step that writes offsets.json is that it leaves the
  others alone and that what is then on disk is accounted for: that is `OffsetsVouched` in the
  next state, whose `Accounted` is the union on the right of `Acknowledge`. The invariant adds to
  that of `OffsetsVouched` that files and jobs are no longer than `MaxLines` and that the
  server's rows are lines.
- `NothingMissed` needs the longest invariant (`CInv`). The log tells of a process after its
  parent's creation and before its parent's end, unless that was cleared
  (`LogOrdered`). A cursor that speaks about this log has covered what lies behind it
  (`CursorFits`), and the processes tracked beside it are all that those records leave
  running below a Claude process, or excused (`TrackedFit`). During a poll the batch is the
  log between the record parsed last and the last one read (`BatchFits`); what is tracked
  follows the record parsed last, `known` still follows the cursor, and spool and `out`
  cover what is parsed (`PollFits`). So a process that is taken for a stranger has
  an untracked parent, which is excused, and so is the process (`StrangerExcused`). When
  the write fails, the cursor is the old one again, and what was tracked there and is no longer is
  in `orphaned`. `TrackedFit` cannot be dropped: with a cursor that is right and a table saved
  at another time, the children of whoever is missing in it are passed over.
- `GatewayKept` and `SettingsKept` follow from one invariant, `Inv`, that holds
  of every state without a mishap: one process at a time is inside (`Alone`); what it
  read is still what the file says, and what it will write is what it should
  (`InHand`); and only the proxy ever displaces a gateway, after it has been saved
  (`Undisplaced`). `GatewayKept` is not inductive without the last: `EditOrig` would be
  free to forget a saved gateway that is in nobody's hands. The steps are
  sorted by what they disturb: most leave the files alone and go outside
  (`OutsideKeeps`) or in (`EnterKeeps`), and five change something. A crash during the
  saving may empty the saved gateway, but then `InHand` and `Undisplaced` say that
  settings.json still has the user's. `OffMeansOff` has an invariant of its own, for it is claimed after
  mishaps, too: what an OFF is about to write is not the proxy's address, whatever it read for the
  saved gateway, nor is what one that is not `misled` has left in the file.
- `RevocationKept` and `RevokedStoresNothing` are about steps, and hold with mishaps, too. They need what a
  request has read (`Told`): one that is past its look-up and about a blocked row has read the
  mark, or had read the row before it was blocked (`early`). That includes the row it moves
  its token to (`other`). `RevocationKept` needs in addition that a request about to drop a
  row has found the machine's row (`MoversFound`): the row it drops is then another, and a bound row is not
  dropped unless the administrator deleted one of the two meanwhile.
- `EventsHaveDevice`, `KeyKept` and `TokenKnown` share the invariant `Fits`, which is claimed
  until a mishap (`Kept`). The requests in the function are of one life of the machine (`OneLife`), so they
  carry one token and record one key. Of each, the row it has read is still the one its
  token leads to, or another request is moving that token (`RowRead`), and the keys
  it has read are those of the row it writes back to, but for its own (`KeysRead`): it is why the read-modify-write
  of `dek_keys` loses nothing. Then `TokenAlive`, `EventsPlaced` (a row with events is the bound one, or
  none is bound) and `KeysHeld` (each key in use is in config.json, with the bound row, or
  dropped) are kept by each handler. `EventsPlaced` is what made `Strays` known (section 5): without that
  mishap it is not inductive.
- `NoHole` is not inductive: it says what the feed has, and the answers on their way decide what it
  will have. `HInv` adds that a page read by the database has each row down to its last that is neither in
  the feed nor on the channel and that lastRecv has passed or will have with the page (`PagesFit`), and that
  no row the channel lost, and the catch-up under its filter has left out, is passed by lastRecv through that
  catch-up (`CatchUpsFit`). Most steps are
  `Steady`: they take no row of the filter away, and lose none that lastRecv has passed.
  `Newest` and `Oldest` are sets with a cardinality; that they exist is proved by the least
  counterexample (`NatLessThanWellFounded`), not by induction. The
  proof needs neither `MaxOverlap` nor that a post has fewer rows than a catch-up brings.
- `ApiProxy` is about sequences of sequences. `FlattenSeq` of the community modules is a fold, but
  what is needed of it (it is a sequence of the elements of its parts) follows from
  its recursive equation by the least counterexample. On it rest
  what a request's events are (`RequestEventsAre`) and what is assembled of a stream that ends
  anywhere (`AssembledIs`: each block is one of the message, or one just opened). Conversations
  only grow (`Grown`). The invariant `Inv` has one part for each question:
  `Serving`, that the thread Claude waits for has Claude's conversation, has decided by what is new in
  it and keeps its events (a thread Claude has given up need not); `Refused`; `OnlyOn`, that
  while the proxy is routed what is unanswered was typed with it on, and that the requests not yet
  handled and the events not yet written tell of nothing else; `Complete`, `LogComplete` with
  the threads about to write counted in; and `IdsFit`, that answers on their way have numbers of
  their own (`AnswersFit`), that an event has its id from an answer that is over (`EventsFit`),
  and that what was run was in an answer its policy let through (`RunFits`).
  `RunsTold` follows from `IdsFit` and from what was told of the answer: the call is in the conversation,
  and its event in the spool or lost. `LogComplete` needs `Serving`, because the events of what is new are gathered when the request comes and written
  when its answer is over; `IdsTellApart` needs `OnlyOn`, because the ids of prompts are hashes of their
  contents, and only then do equal ids mean equal rows.

Model-checked only: `LinesDelivered`, `BackfillDelivers`, `AuditComplete` and
`ResetNoticed` (liveness under fairness is out of the prover's reach), and the five claims of
the documentation that TLC refutes. Induction over data by the library's theorems
and recursive operators are out of reach too; the modules that are proved about use neither.

## 5. What the runs found

Five statements of the documentation that the code does not keep (details and
quotations in `PROJECT.json`, "findings"):

1. `claim_past`: after a first run, a file that was passed over at its end and
   has no checkpoint entry is read from 0 by the next start.
2. `claim_hold`: lines written while the collector holds for its key on a fresh
   machine are passed over when the hold ends.
3. `claim_deletion`: a deletion is marked done at hand-over, and a hold or an
   exception in the same iteration loses it.
4. `claim_audit_retry`: a failed append to the spool is retried with a process
   table that has already forgotten the processes that ended in the batch.
5. `claim_gateway`: a gateway the user has given up while Claude was routed to the
   proxy stays saved, and the OFF after the next ON brings it back.

Beside those, reading and modelling brought up the following, which no run is devoted to.

- `collector.py:113` logs `self._audit.session_id`, which
  `WinExecAudit` does not have; the exception is caught and the log says that the
  initialisation failed, although the audit is set up and polled.
- `periscribe uninstall` says (`__main__.py:788`) that the collector will not start at the next
  login; a loop that still runs registers itself again (`collector.py:399`). The
  uninstaller, too, removes the Run value before it ends the processes.
- Setting a token anew as `docs/DEPLOY.md:91` describes it (revoke, then install with a new
  token) is refused (`index.ts:55-56`); revoking, uninstalling and installing again
  revives the machine (`index.ts:78-82`), where `docs/design-flows.md:315` says it stays blocked.
  A token that is revoked before its first use still serves a machine that has a row: only
  that row's mark is looked at.
- `dek_keys` is read at the beginning of a request and written back at its end
  (`index.ts:132-135`): of two requests with different keys that overlap, one key is lost. A request that is
  past its look-up stores events for a row deleted meanwhile. Both are behind
  `mishap`.
- The binding of a row to the machine may fail (`index.ts:68-73`), and its events are stored all the same. When that
  happens to a row each time, another row is bound later, and a re-install with the
  first one's token deletes it (`index.ts:57-59`), its events are left without a device. It takes more faults than the
  bounds of `device_lifecycle` allow and came up in the proof of `EventsHaveDevice`; it is behind `mishap`.
- With half a config.json, `persist_dek` raises an exception that its caller does not expect, and no
  key is ever taken into use (in the model: `config = Torn`).
- A prompt whose answer broke off, and of which Claude keeps the part that came, is never
  logged (`apiproxy.py:231-235`), against the "without omission" of `apilog.py:101`; the same prompt typed twice
  has the same id and is stored once, and so is one refused and later let through. A prompt typed while the proxy was off and not
  answered then is logged with the first request after it is on: it is sent with that request.
- settings.json that is whole but cannot be opened or parsed counts as empty (`proxyguard.py:137-138`): ON then writes
  back `env` only, the user's other settings and his gateway are gone, and OFF finds nothing to undo
  and leaves Claude on the proxy. A saved gateway that cannot be read is removed by the OFF that wanted it (`165-171`, `246-259`).
- The gate lets a forbidden call through when the answer cannot be parsed or matched (`apiproxy.py:315-322`), and a policy that
  raises an exception controls nothing (`162`). Both are deliberate; `GateHolds` and `RefusesTheNew` say so.
- Masking of what goes upstream looks at blocks of type text only (`proxypolicy.py:154-161`): results of tools, their
  inputs and the system prompt go out as they are, although blocking looks at the first of these (`130`).
- A row revoked before it was ever bound is deleted when its token is installed on a machine that has another row,
  and the token is accepted from then on (`index.ts:57-66`).
- `enabled: false` does not switch off `gate_tools` (`apiproxy.py:157`). Of two calls of the same
  tool in a gated answer, the log may mark the wrong one (`apiproxy.py:340-346`).
- Masking a secret that ends a JSON string makes the whole line unreadable, and it is dropped
  (`parser.py:91-95`, `219-220`); a spooled event is kept unmasked instead (`137-141`). Event ids of lines with
  several blocks depend on `store_thinking`.
- `loadHistory` and `loadMore` apply their answers whatever the filter is by then (`app.js:691-733`): a late
  page of the earlier filter moves the cursor of the present one, and rows in between are not
  loaded by "load more". An insert that comes before a catch-up is answered in full moves
  `lastRecv` past the rows still missing (`app.js:620-624`), and no later catch-up asks for
  them, against "catch up on the events missed" (`app.js:737`); so does one after a catch-up
  that failed, or after 2000 rows of a longer gap.

## 6. Plan

Done: `Tailer`, `Collector`, `StoreAndForward` with the refinement, `OsExecAudit`, `ProxyRouting`,
`Parser`, `ApiProxy`, `DeviceLifecycle` and `WebFeed`, checked, and every invariant and safety property
proved. Left, in this order:

1. An abstract specification of the API log (what was asked and answered through the proxy is
   told once), with `ApiProxy` shown to implement it; one of the feed, the same way.
2. `SessionDeletion`: a purge in chunks with timeouts, halving and retry (`app.js:973-988`), with the
   rows it removes from the feed.
3. `initial_offset` against a reference definition over bounded inputs. (The bisection of a refused post and the
   assembly of a streamed answer are proved: `OnlyPoisonEverDropped`, `AssembledIs`.)

## 7. Not modelled

Cryptographic primitives and certificates (a key is present or absent), the
content of transcripts, the web layout and rendering, the GUI panel and setup,
packaging and deployment scripts, the development container and the agent
launcher (`agent.py` composes a docker command line from its arguments, and keeps no state):
pure I/O or computation without a state that the system's correctness
depends on. In the modelled components the following is left out, each for the same
reason: status.json and log rotation, the Run value, statistics and row-level
policies of the database, the table of tool names and token counts of the parser, the
tokens of the panel's login.
