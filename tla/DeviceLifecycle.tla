-------------------------- MODULE DeviceLifecycle ---------------------------
(***************************************************************************)
(* One machine and the device rows that stand for it: the tokens the       *)
(* administrator issues, installs that set a token anew, the keys the      *)
(* collector encrypts with, revocation, uninstalling, deletion.            *)
(* ingest (index.ts) works statement by statement and without a            *)
(* transaction, and a request the collector has given up is served on      *)
(* while the next one is.  What the requests carry otherwise (lines,       *)
(* commands) is the subject of Collector.                                  *)
(***************************************************************************)
EXTENDS Naturals, FiniteSets

CONSTANTS
    Token,          \* the tokens; each was issued with a row of its own
    Slot,           \* the requests the function can serve at a time
    None,
    Torn,           \* what a crash leaves of a file that is being written
    AuthFailMax,    \* collector.py:76
    Faults,         \* subset of {"net", "disk", "die"}
    MaxKid, MaxFault, MaxAdmin    \* bounds

VARIABLES
    rows,       \* the devices table: the row issued with a token, or None
    ownerKey,   \* the owner has set up encryption
    stored,     \* [dev, kid]: events of the row dev, encrypted with generation kid
    req,        \* the requests in the function
    config,     \* config.json: [token, dek], None, or Torn
    coll,       \* the collector that holds the mutex, or None
    leaving,    \* the uninstaller: "no" or "sent"
    \* bounds and history
    kids, faults, admins,
    purged,     \* rows deleted by the administrator
    spent,      \* tokens a row no longer has since another took its place
    dropped,    \* keys an install or uninstall removed before they were recorded, and
                \* those the administrator deleted with a row
    mishap      \* a step the properties do not reach beyond (see Next)

server == <<rows, ownerKey, stored>>
machine == <<config, coll, leaving>>
bounds == <<kids, faults, admins>>
history == <<purged, spent, dropped, mishap>>
vars == <<server, req, machine, bounds, history>>

Kid == 1 .. MaxKid     \* 0: no key
Row == [token : Token, guid : BOOLEAN, revoked : BOOLEAN, gone : BOOLEAN, keys : SUBSET Kid]

NewRow(t) == [token |-> t, guid |-> FALSE, revoked |-> FALSE, gone |-> FALSE, keys |-> {}]
Config == [token : Token \cup {None}, dek : 0 .. MaxKid]
Life == [token : Token, dek : 0 .. MaxKid, wrapped : BOOLEAN, fails : Nat,
         wait : Slot \cup {None}, beaten : BOOLEAN]

ASSUME LifecycleAssumption ==
    /\ None \notin Token \cup Slot \cup Row \cup Config \cup Life /\ Torn \notin Config \cup {None}
    /\ AuthFailMax \in Nat \ {0}
    /\ MaxKid \in Nat /\ MaxFault \in Nat /\ MaxAdmin \in Nat

\* A request: what it carries (token, machine_guid, uninstall, the wrapped key,
\* events under a generation) and what the function has read so far.
FreeReq == [pc |-> "free", token |-> None, guid |-> FALSE, bye |-> FALSE, wrapped |-> 0,
            events |-> 0, dev |-> None, other |-> None, revoked |-> FALSE, keys |-> {},
            enc |-> FALSE, early |-> FALSE]
Pc == {"free", "lookup", "continuity", "drop", "put", "bind", "serve", "record", "ok", "401", "error"}

Fault(f) == f \in Faults /\ faults < MaxFault /\ faults' = faults + 1

Busy == {s \in Slot : req[s].pc \notin {"free", "ok", "401", "error"}}

\* The row dev is gone, or is not.
Exists(r) == r # None /\ rows[r] # None

\* The row bound to this machine: devices_owner_guid_uidx allows one.
Bound == {r \in Token : rows[r] # None /\ rows[r].guid}

-----------------------------------------------------------------------------
(* ingest/index.ts                                                         *)

Goto(s, pc) == req' = [req EXCEPT ![s] = [@ EXCEPT !.pc = pc]]

Waited(s) == coll # None /\ coll.wait = s

\* The answer; nobody waits for it when the client has given up.
Reply(s, status) ==
    req' = [req EXCEPT ![s] = IF Waited(s) THEN [FreeReq EXCEPT !.pc = status, !.enc = req[s].enc]
                              ELSE FreeReq]

\* The row with the token is read.
Authenticate(s) ==
    /\ req[s].pc = "lookup"
    /\ LET mine == {r \in Token : rows[r] # None /\ rows[r].token = req[s].token}
       IN  IF mine = {} THEN Reply(s, "401")
           ELSE LET d == CHOOSE r \in mine : TRUE
                IN  req' = [req EXCEPT ![s] =
                        [@ EXCEPT !.dev = d, !.revoked = rows[d].revoked, !.keys = rows[d].keys,
                                  !.pc = IF req[s].guid THEN "continuity" ELSE "serve"]]
    /\ UNCHANGED <<server, machine, bounds, history>>

\* (Mutant.) A row that is bound already is taken for another's.
FoundAny(s) == Bound
\* (Mutant.) A revoked device comes back with any new token.
BlockedNever(r) == FALSE

\* Another row of the same machine: the token is set anew.
Found(s) == Bound \ {req[s].dev}

\* Blocked by the administrator, and not just uninstalled.
Blocked(r) == rows[r].revoked /\ ~rows[r].gone

Continuity(s) ==
    /\ req[s].pc = "continuity"
    /\ \/ /\ Found(s) # {}
          /\ \E r \in Found(s) :
                IF Blocked(r) THEN Reply(s, "401")
                ELSE req' = [req EXCEPT ![s] = [@ EXCEPT !.pc = "drop", !.other = r, !.guid = FALSE,
                                                         !.keys = rows[r].keys]]
       \/ /\ Found(s) = {}
          /\ req' = [req EXCEPT ![s] = [@ EXCEPT !.pc = IF req[s].dev \in Bound THEN "serve" ELSE "bind",
                                               !.guid = FALSE]]
    /\ UNCHANGED <<server, machine, bounds, history>>

\* The other row cannot be read, and is taken for none.
ContinuityLost(s) ==
    /\ req[s].pc = "continuity" /\ Found(s) # {} /\ Fault("net")
    /\ req' = [req EXCEPT ![s] = [@ EXCEPT !.pc = "bind", !.guid = FALSE]]
    /\ mishap' = TRUE
    /\ UNCHANGED <<server, machine, kids, admins, purged, spent, dropped>>

\* The row of the new token is deleted, revoked or not ...
DropTokenRow(s) ==
    /\ req[s].pc = "drop"
    /\ \/ rows' = [rows EXCEPT ![req[s].dev] = None] /\ UNCHANGED faults
       \/ Fault("net") /\ UNCHANGED rows
    /\ Goto(s, "put")
    /\ UNCHANGED <<ownerKey, stored, machine, kids, admins, history>>

\* (Mutant.) The old row keeps the old token.
PutMarks(r, t) == [rows EXCEPT ![r] = [@ EXCEPT !.gone = FALSE, !.revoked = FALSE]]

Put(r, t) == [rows EXCEPT ![r] = [@ EXCEPT !.token = t, !.gone = FALSE, !.revoked = FALSE]]

\* ... and its token put on the row of the machine.  The statement has no
\* effect when that row is gone, and fails when another row has the token;
\* the function goes on in either case.
PutToken(s) ==
    /\ req[s].pc = "put"
    /\ LET r == req[s].other
           t == req[s].token
       IN  /\ \/ /\ IF Exists(r) /\ \A q \in Token \ {r} : rows[q] = None \/ rows[q].token # t
                    THEN /\ rows' = Put(r, t)
                         /\ spent' = spent \cup ({rows[r].token} \ {t})
                    ELSE UNCHANGED <<rows, spent>>
                 /\ UNCHANGED <<faults, mishap>>
              \/ /\ Fault("net") /\ mishap' = TRUE
                 /\ UNCHANGED <<rows, spent>>
           /\ req' = [req EXCEPT ![s] = [@ EXCEPT !.pc = "serve", !.dev = r, !.revoked = FALSE]]
    /\ UNCHANGED <<ownerKey, stored, machine, kids, admins, purged, dropped>>

\* (Mutant.) The index does not hold.
AnyGuid(r) == Exists(r)

\* The unique index lets the row r have the machine's guid.
MayBind(r) == Exists(r) /\ Bound \subseteq {r}

\* A row that was never bound, its binding having failed each time, has events
\* when another is bound: a re-install with its token would give it up.
Strays(r) == \E e \in stored : Exists(e.dev) /\ e.dev # r

\* The first request of a token binds its row.
Bind(s) ==
    /\ req[s].pc = "bind"
    /\ LET d == req[s].dev
       IN  \/ /\ IF MayBind(d)
                 THEN /\ rows' = [rows EXCEPT ![d].guid = TRUE]
                      /\ mishap' = (mishap \/ Strays(d))
                 ELSE UNCHANGED <<rows, mishap>>
              /\ UNCHANGED faults
           \/ Fault("net") /\ UNCHANGED <<rows, mishap>>
    /\ Goto(s, "serve")
    /\ UNCHANGED <<ownerKey, stored, machine, kids, admins, purged, spent, dropped>>

\* Requests that have looked at the row r before it is revoked do not see it.
Early(r) == [q \in Slot |-> IF req[q].pc # "record" /\ r \in {req[q].dev, req[q].other}
                            THEN [req[q] EXCEPT !.early = TRUE] ELSE req[q]]

\* An uninstaller's request marks the row, revoked or not.
Stamp(s) ==
    /\ req[s].pc = "serve" /\ req[s].bye
    /\ LET d == req[s].dev
       IN  /\ rows' = IF Exists(d) THEN [rows EXCEPT ![d] = [@ EXCEPT !.gone = TRUE, !.revoked = TRUE]] ELSE rows
           /\ req' = [Early(d) EXCEPT ![s] = FreeReq]
    /\ UNCHANGED <<ownerKey, stored, machine, bounds, history>>

\* (Mutant.) A request is served without the check.
AdmitsAll(s) == TRUE

Admits(s) == ~req[s].revoked

\* The owner's key is read and the events are stored.  (The collector looks at
\* the key in the answer to a heartbeat only.)
Serve(s) ==
    /\ req[s].pc = "serve" /\ ~req[s].bye
    /\ IF ~Admits(s) THEN Reply(s, "401") /\ UNCHANGED stored
       ELSE /\ stored' = stored \cup (IF req[s].events = 0 THEN {}
                                      ELSE {[dev |-> req[s].dev, kid |-> req[s].events]})
            /\ req' = [req EXCEPT ![s] = [@ EXCEPT !.pc = "record", !.enc = ownerKey /\ req[s].events = 0,
                                                       !.other = None, !.events = 0,
                                                       !.early = FALSE]]
    /\ UNCHANGED <<rows, ownerKey, machine, bounds, history>>

\* The keys as they were read, and the one the request brings.
Keys(s) == req[s].keys \cup {req[s].wrapped}

\* The row is brought up to date; the guid goes with it, and the index may
\* refuse it all.  Nobody looks at the result.
Record(s) ==
    /\ req[s].pc = "record"
    /\ LET d == req[s].dev
       IN  \/ /\ IF MayBind(d)
                 THEN /\ rows' = [rows EXCEPT ![d] =
                                     [@ EXCEPT !.guid = TRUE,
                                               !.keys = IF req[s].wrapped = 0 THEN rows[d].keys ELSE Keys(s)]]
                      /\ mishap' = (mishap \/ Strays(d))
                 ELSE UNCHANGED <<rows, mishap>>
              /\ UNCHANGED faults
           \/ Fault("net") /\ UNCHANGED <<rows, mishap>>
    /\ Reply(s, "ok")
    /\ UNCHANGED <<ownerKey, stored, machine, kids, admins, purged, spent, dropped>>

\* The function is cut short.
Cut(s) ==
    /\ s \in Busy /\ Fault("net")
    /\ Reply(s, "error")
    /\ mishap' = (mishap \/ req[s].pc = "put")
    /\ UNCHANGED <<server, machine, kids, admins, purged, spent, dropped>>

-----------------------------------------------------------------------------
(* The administrator: app.js and schema.sql.                               *)

Admin == admins < MaxAdmin /\ admins' = admins + 1

SetOwnerKey ==
    /\ ~ownerKey /\ ownerKey' = TRUE
    /\ UNCHANGED <<rows, stored, req, machine, bounds, history>>

Revoke(r) ==
    /\ Exists(r) /\ ~rows[r].revoked /\ ~rows[r].gone /\ Admin
    /\ rows' = [rows EXCEPT ![r].revoked = TRUE]
    /\ req' = Early(r)
    /\ UNCHANGED <<ownerKey, stored, machine, kids, faults, history>>

Restore(r) ==
    /\ Exists(r) /\ rows[r].revoked /\ ~rows[r].gone /\ Admin
    /\ rows' = [rows EXCEPT ![r].revoked = FALSE]
    /\ UNCHANGED <<ownerKey, stored, req, machine, kids, faults, history>>

\* purge_device: the row and its events.
Purge(r) ==
    /\ Exists(r) /\ (rows[r].revoked \/ rows[r].gone) /\ Admin
    /\ rows' = [rows EXCEPT ![r] = None]
    /\ stored' = {e \in stored : e.dev # r}
    /\ purged' = purged \cup {r} /\ spent' = spent \cup {rows[r].token}
    /\ mishap' = (mishap \/ \E s \in Busy : \/ r \in {req[s].dev, req[s].other}
                                            \/ req[s].token = rows[r].token)
    /\ dropped' = dropped \cup rows[r].keys
    /\ UNCHANGED <<ownerKey, req, machine, kids, faults>>

-----------------------------------------------------------------------------
(* The machine.                                                            *)

Recorded(k) == \E r \in Token : rows[r] # None /\ k \in rows[r].keys

\* The generation in config.json goes, recorded or not.
Drops == IF config \in Config /\ config.dek # 0 /\ ~Recorded(config.dek) THEN {config.dek} ELSE {}

\* install: config.json is written anew without the key, and a collector started,
\* which ends at once when one is running (Start).
Install(t) ==
    /\ leaving = "no" /\ t \notin spent \cup purged
    /\ config # [token |-> t, dek |-> 0]
    /\ config' = [token |-> t, dek |-> 0]
    /\ dropped' = dropped \cup Drops
    /\ UNCHANGED <<server, req, coll, leaving, bounds, purged, spent, mishap>>

\* _set_config_keys, _enable_os_exec_in_config: one key is set and the others
\* are kept, if they can be read.  Whoever dies writing leaves half a file.
EditConfig ==
    /\ \/ config = Torn /\ config' = [token |-> None, dek |-> 0] /\ UNCHANGED <<faults, dropped>>
       \/ /\ config \in Config /\ Fault("disk")
          /\ config' = Torn /\ dropped' = dropped \cup Drops
    /\ UNCHANGED <<server, req, coll, leaving, kids, admins, purged, spent, mishap>>

\* cmd_run, at logon, by install or by the panel.  With a collector running,
\* or without a token, the process ends.
Start ==
    /\ coll = None /\ config \in Config /\ config.token # None
    /\ coll' = [token |-> config.token, dek |-> config.dek, wrapped |-> FALSE,
                fails |-> 0, wait |-> None, beaten |-> FALSE]
    /\ UNCHANGED <<server, req, config, leaving, bounds, history>>

\* Requests of two lives of the machine meet in the function: what one has read
\* is not what the other leaves.
Meets(t, k) ==
    \E s \in Busy : req[s].token # t \/ (k # 0 /\ req[s].wrapped \notin {0, k})
                                     \/ (k # 0 /\ req[s].events \notin {0, k})

Send(s, t, guid, bye, wrapped, events) ==
    /\ req[s].pc = "free"
    /\ req' = [req EXCEPT ![s] = [FreeReq EXCEPT !.pc = "lookup", !.token = t, !.guid = guid,
                                    !.bye = bye, !.wrapped = wrapped, !.events = events]]
    /\ mishap' = (mishap \/ Meets(t, IF wrapped # 0 THEN wrapped ELSE events))

\* One iteration begins with a heartbeat.
Beat(s) ==
    /\ coll # None /\ coll.wait = None
    /\ Send(s, coll.token, TRUE, FALSE, IF coll.wrapped THEN coll.dek ELSE 0, 0)
    /\ coll' = [coll EXCEPT !.wait = s, !.beaten = TRUE]
    /\ UNCHANGED <<server, config, leaving, bounds, purged, spent, dropped>>

\* Events are posted, encrypted.
Post(s) ==
    /\ coll # None /\ coll.wait = None /\ coll.beaten /\ coll.dek # 0
    /\ Send(s, coll.token, TRUE, FALSE, IF coll.wrapped THEN coll.dek ELSE 0, coll.dek)
    /\ coll' = [coll EXCEPT !.wait = s]
    /\ UNCHANGED <<server, config, leaving, bounds, purged, spent, dropped>>

\* No answer in time, or no connection.
TimeOut ==
    /\ coll # None /\ coll.wait # None
    /\ IF req[coll.wait].pc = "error" THEN UNCHANGED faults ELSE Fault("net")
    /\ coll' = [coll EXCEPT !.wait = None]
    /\ req' = IF coll.wait \notin Busy THEN [req EXCEPT ![coll.wait] = FreeReq] ELSE req
    /\ UNCHANGED <<server, config, leaving, kids, admins, history>>

\* 401: after AuthFailMax in a row the collector ends.
Refused ==
    /\ coll # None /\ coll.wait # None /\ req[coll.wait].pc = "401"
    /\ coll' = IF coll.fails + 1 = AuthFailMax THEN None
               ELSE [coll EXCEPT !.fails = @ + 1, !.wait = None]
    /\ req' = [req EXCEPT ![coll.wait] = FreeReq]
    /\ UNCHANGED <<server, config, leaving, bounds, history>>

\* (Mutant.) The key is kept in memory only.
PersistNothing(k) == config

\* persist_dek, when config.json can be read.
Persist(k) == IF config \in Config THEN [config EXCEPT !.dek = k] ELSE config

\* _handle_enc: the owner's key makes the collector wrap its key, or generate
\* one, persist it and wrap that.  A write that fails is passed over and may
\* leave half a file, so may a crash; with such a file no key is taken into use.
\* (An answer stands for the whole iteration, which resets fails.)
Answered ==
    /\ coll # None /\ coll.wait # None /\ req[coll.wait].pc = "ok"
    /\ req' = [req EXCEPT ![coll.wait] = FreeReq]
    /\ LET next == [coll EXCEPT !.wait = None, !.fails = 0]
           enc  == req[coll.wait].enc
           same == UNCHANGED <<config, kids, faults, mishap>>
       IN  \/ /\ ~enc \/ (coll.dek = 0 /\ config = Torn)
              /\ coll' = next /\ same
           \/ /\ enc /\ coll.dek # 0
              /\ coll' = [next EXCEPT !.wrapped = TRUE] /\ same
           \/ /\ enc /\ coll.dek = 0 /\ config # Torn /\ kids < MaxKid /\ kids' = kids + 1
              /\ \/ /\ coll' = [next EXCEPT !.dek = kids', !.wrapped = TRUE]
                    /\ \/ config' = Persist(kids') /\ UNCHANGED <<faults, mishap>>
                       \/ Fault("disk") /\ config' \in {config, Torn} /\ mishap' = TRUE
                 \/ /\ Fault("disk") /\ config \in Config
                    /\ coll' = None /\ config' = Torn /\ UNCHANGED mishap
    /\ UNCHANGED <<server, leaving, admins, purged, spent, dropped>>

\* Logging off, a crash, an update of the program.
Die ==
    /\ coll # None /\ Fault("die")
    /\ coll' = None
    /\ req' = IF coll.wait # None /\ coll.wait \notin Busy
              THEN [req EXCEPT ![coll.wait] = FreeReq] ELSE req
    /\ UNCHANGED <<server, config, leaving, kids, admins, history>>

\* The uninstaller: a signal to the server, under the token of config.json, ...
Leave(s) ==
    /\ leaving = "no" /\ config \in Config /\ config.token # None /\ Admin
    /\ leaving' = "sent" /\ Send(s, config.token, FALSE, TRUE, 0, 0)
    /\ UNCHANGED <<server, config, coll, kids, faults, purged, spent, dropped>>

\* ... and after the answer, or ten seconds, the processes and the data go.
Left ==
    /\ leaving = "sent" /\ leaving' = "no"
    /\ IF \E s \in Slot : req[s].bye THEN Fault("net") ELSE UNCHANGED faults
    /\ req' = [s \in Slot |-> IF s \notin Busy THEN FreeReq ELSE req[s]]
    /\ config' = None /\ coll' = None
    /\ dropped' = dropped \cup Drops
    /\ UNCHANGED <<server, kids, admins, purged, spent, mishap>>

-----------------------------------------------------------------------------
Init ==
    /\ rows = [t \in Token |-> NewRow(t)] /\ ownerKey = FALSE /\ stored = {}
    /\ req = [s \in Slot |-> FreeReq]
    /\ config = None /\ coll = None /\ leaving = "no"
    /\ kids = 0 /\ faults = 0 /\ admins = 0
    /\ purged = {} /\ spent = {} /\ dropped = {} /\ mishap = FALSE

\* A mishap is a step that loses what it was to keep: requests of two lives of
\* the machine meet in the function (Send); the row a request is about is deleted
\* (Purge); the repointing of a token fails or is cut off (ContinuityLost, PutToken,
\* Cut); a new key is not persisted (Answered); a row with events was never bound
\* (Strays).  After it the requests in the function go on, and nothing else but
\* a revocation happens.
Next ==
    \/ \E s \in Slot :
          \/ Authenticate(s) \/ Continuity(s) \/ ContinuityLost(s)
          \/ DropTokenRow(s) \/ PutToken(s)
          \/ Bind(s) \/ Stamp(s) \/ Serve(s) \/ Record(s) \/ Cut(s)
    \/ \E t \in Token : Revoke(t)
    \/ /\ ~mishap
       /\ \/ \E s \in Slot : Beat(s) \/ Post(s) \/ Leave(s)
          \/ \E t \in Token : Restore(t) \/ Purge(t) \/ Install(t)
          \/ SetOwnerKey \/ EditConfig \/ Start \/ TimeOut \/ Refused \/ Answered
          \/ Die \/ Left

Spec == Init /\ [][Next]_vars

-----------------------------------------------------------------------------
(* Properties                                                              *)

TypeOK ==
    /\ rows \in [Token -> Row \cup {None}]
    /\ \A q, r \in Token : Exists(q) /\ Exists(r) /\ q # r => rows[q].token # rows[r].token
    /\ Cardinality(Bound) <= 1
    /\ ownerKey \in BOOLEAN /\ stored \subseteq [dev : Token, kid : 1 .. kids]
    /\ \A s \in Slot :
          /\ req[s].pc \in Pc /\ (req[s].pc = "free" => req[s] = FreeReq)
          /\ req[s].wrapped \in {0} \cup 1 .. kids /\ req[s].events \in {0} \cup 1 .. kids
    /\ config \in Config \cup {None, Torn}
    /\ leaving \in {"no", "sent"}
    /\ coll # None =>
          /\ coll.token \in Token /\ coll.dek \in 0 .. kids /\ coll.fails \in 0 .. AuthFailMax - 1
          /\ coll.wait # None => req[coll.wait].pc # "free" /\ ~req[coll.wait].bye
          /\ coll.wrapped => coll.dek # 0

OnMachine == (IF config \in Config THEN {config.dek} ELSE {}) \cup
             (IF coll # None THEN {coll.dek} ELSE {})
OnTheWay == {req[s].wrapped : s \in Busy}

\* The key of every stored event is with its device row, or still on the way there:
\* with the machine, which sends it again with every heartbeat, or with a request
\* that merges it into the keys it had read (index.ts:132-139, collector.py
\* _handle_enc, _wrap).  No repeated, cut-off or given-up request, restart, or
\* move of the token to the machine's row loses it.  The code does lose keys, and
\* they are left out: those of an install, an uninstall or half a config.json that
\* comes before the PATCH has once succeeded, whose result nobody looks at
\* (dropped);  and, with a mishap, one of two keys that are recorded at once, and
\* one that could not be persisted.
KeyKept ==
    ~mishap => \A e \in stored :
        \/ Exists(e.dev) /\ e.kid \in rows[e.dev].keys
        \/ e.kid \in OnMachine \cup OnTheWay \cup dropped
        \/ e.dev \in purged

\* Events have a device row until the administrator deletes it: the row that a
\* re-install gives up is one without events.
EventsHaveDevice == ~mishap => \A e \in stored : Exists(e.dev) \/ e.dev \in purged

\* The token of config.json is known to the server, or being put on the row of
\* the machine, until its row is deleted or another token takes its place.
TokenKnown ==
    ~mishap /\ config \in Config /\ config.token # None =>
        \/ \E r \in Token : rows[r] # None /\ rows[r].token = config.token
        \/ \E s \in Slot : req[s].pc = "put" /\ req[s].token = config.token
        \/ config.token \in spent \cup purged

\* The row of the machine (the one bound to its guid), once the administrator has
\* revoked it, stays, and stays revoked, whatever tokens the machine is installed
\* with: he undoes it himself, or a request does that had looked at the row before,
\* or had, when he deleted another row of the machine (index.ts:54-64).
\* Two ways the code has round a revocation are not in this claim: the uninstaller's
\* request marks a revoked row gone too, and a re-install lifts the mark of such a
\* row (index.ts:63, 78-82);  and a row that was revoked before it was bound is
\* deleted when the machine has another, and its token accepted (index.ts:57-66).
RevocationKept ==
    [][\A r \in Bound :
          rows[r].revoked /\ ~rows[r].gone =>
              \/ rows'[r] # None /\ rows'[r].revoked
              \/ admins' = admins + 1
              \/ \E s \in Slot : req[s].pc = "put" /\ req[s].other = r /\ req[s].early
              \/ \E s \in Slot : req[s].pc = "drop" /\ req[s].dev = r /\ purged # {}]_vars

\* A row the administrator has revoked gets no events but from requests that had
\* looked at it before.
RevokedStoresNothing ==
    [][\A e \in stored' \ stored :
          Exists(e.dev) /\ rows[e.dev].revoked /\ ~rows[e.dev].gone =>
              \E s \in Slot : req[s].pc = "serve" /\ req[s].dev = e.dev /\ req[s].early]_vars
=============================================================================
