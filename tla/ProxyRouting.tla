---------------------------- MODULE ProxyRouting ----------------------------
(***************************************************************************)
(* Who decides where Claude sends its requests (proxyguard.py and the      *)
(* proxy commands of __main__.py).  Claude reads ANTHROPIC_BASE_URL from   *)
(* settings.json.  ON saves the user's own gateway and routes Claude to    *)
(* the local proxy, OFF and uninstall put the gateway back, and the panel  *)
(* makes the proxy's CA resident.  The command line and the panel do this  *)
(* in processes of their own, the user and Claude edit the file as well,   *)
(* and only a lock file keeps the first two apart.                         *)
(*                                                                         *)
(* An edit is  lock -> read -> orig -> truncate -> fill -> unlock          *)
(* with a step of anybody else possible between any two of its steps.      *)
(***************************************************************************)
EXTENDS Naturals

CONSTANTS
    Actor,          \* processes that may run a proxy command
    Panel,          \* those of them that are panels, not command lines
    Gateway,        \* base URLs of the user's own
    Torn,           \* what is in a file that is being written, or half written
    Faults,         \* which faults may happen
    MaxEdit,        \* bound: edits by the user
    MaxCrash        \* bound: deaths of an actor

\* "slow": an actor holds the lock beyond the time others wait for it.
\* "disk": a file cannot be created or written.
\* "read": a file that is there and whole cannot be read (held open by another program,
\* or a slip of the user's own editing for the moment).
\* "aftermath": life goes on after a mishap.  What can be said of it then is little:
\* without this kind, no command and no edit begins after the first mishap.
FaultKinds == {"slow", "disk", "read", "aftermath"}

Url == {"none", "direct", "ours"} \cup Gateway
\* rest: are the user's other settings there?
Settings == [url : Url, ca : BOOLEAN, rest : BOOLEAN]

ASSUME RoutingAssumption ==
    /\ Gateway \cap {"none", "direct", "ours"} = {}
    /\ Actor \cap {"free", "dead"} = {}
    /\ Panel \subseteq Actor
    /\ Torn \notin Settings
    /\ Faults \subseteq FaultKinds
    /\ MaxEdit \in Nat /\ MaxCrash \in Nat

VARIABLES
    up,             \* does the proxy server answer the health probe?
    caFile,         \* is there a ca.pem?
    file,           \* settings.json
    orig,           \* proxy-orig-env.json: the saved gateway, or "none"
    intent,         \* config.api_log_enabled
    lock,           \* settings.lock: "free", who made it, or "dead"
    pc, op,         \* of each actor
    held,           \* has the actor made the lock it works under?
    data,           \* the settings in the actor's hands
    wanted,         \* history: the base URL the user chose last
    mishap,         \* history: an edit was disturbed by another or by a failure
    misled,         \* history: who is inside and was disturbed there after his own write
    edits, crashes  \* the bounds' counters

server == <<up, caFile>>
actors == <<pc, op, held, data>>
history == <<wanted, mishap, misled, edits, crashes>>
vars == <<server, file, orig, intent, lock, actors, history>>
-----------------------------------------------------------------------------
Empty == [url |-> "none", ca |-> FALSE, rest |-> FALSE]

\* _read_settings: what cannot be read or parsed counts as empty.
Content == IF file = Torn THEN {Empty}
           ELSE {file} \cup IF "read" \in Faults THEN {Empty} ELSE {}

\* _read_orig_base_url: what cannot be read counts as not there.
Saved == {orig} \cup IF "read" \in Faults THEN {"none"} ELSE {}

Inside(a) == pc[a] \in {"read", "orig", "truncate", "fill", "unlock"}

Init ==
    /\ up = FALSE /\ caFile = FALSE
    /\ wanted \in Url \ {"ours"}
    /\ file = [url |-> wanted, ca |-> FALSE, rest |-> TRUE]
    /\ orig = "none" /\ intent = FALSE /\ lock = "free"
    /\ pc = [a \in Actor |-> "idle"] /\ op = [a \in Actor |-> "none"]
    /\ held = [a \in Actor |-> FALSE] /\ data = [a \in Actor |-> Empty]
    /\ mishap = FALSE /\ misled = {} /\ edits = 0 /\ crashes = 0
-----------------------------------------------------------------------------
(* The server is a program of its own, started and closed by the user.       *)

ServerStart ==
    /\ ~up
    /\ up' = TRUE /\ caFile' = TRUE
    /\ UNCHANGED <<file, orig, intent, lock, actors, history>>

ServerStop ==
    /\ up
    /\ up' = FALSE
    /\ UNCHANGED <<caFile, file, orig, intent, lock, actors, history>>

GoesOn == mishap => "aftermath" \in Faults

\* The user, or Claude for him, changes the base URL and takes no lock.
UserEdit(url) ==
    /\ GoesOn
    /\ edits < MaxEdit
    /\ edits' = edits + 1
    /\ file # Torn
    /\ file' = [file EXCEPT !.url = url]
    /\ wanted' = url
    /\ mishap' = (mishap \/ \E a \in Actor : Inside(a))
    /\ UNCHANGED <<server, orig, intent, lock, actors, misled, crashes>>
-----------------------------------------------------------------------------
(* The commands, up to the lock.                                             *)

Goto(a, where) == pc' = [pc EXCEPT ![a] = where]
\* The command is over, and with it the process's hold on anything.
End(a) ==
    /\ Goto(a, "idle")
    /\ op' = [op EXCEPT ![a] = "none"]
    /\ held' = [held EXCEPT ![a] = FALSE]
    /\ data' = [data EXCEPT ![a] = Empty]

Begin(a, what, where) ==
    /\ GoesOn
    /\ pc[a] = "idle"
    /\ op' = [op EXCEPT ![a] = what]
    /\ Goto(a, where)

\* _proxy_enable records the intent first ...
BeginOn(a) ==
    /\ Begin(a, "on", "probe")
    /\ intent' = TRUE
    /\ UNCHANGED <<server, file, orig, lock, held, data, history>>

\* ... and goes on only if the server is there and answers.
Probe(a) ==
    /\ pc[a] = "probe"
    /\ IF up /\ caFile THEN Goto(a, "lock") /\ UNCHANGED <<op, held, data>>
                      ELSE End(a)
    /\ UNCHANGED <<server, file, orig, intent, lock, history>>

BeginOff(a) ==
    /\ \E what \in {"off", "uninstall"} :
         /\ what = "uninstall" => a \notin Panel
         /\ Begin(a, what, "lock")
    /\ UNCHANGED <<server, file, orig, intent, lock, held, data, history>>

\* _ensure_ca_resident, when the panel comes up.
BeginResident(a) ==
    /\ a \in Panel
    /\ caFile /\ \E d \in Content : ~d.ca
    /\ Begin(a, "resident", "lock")
    /\ UNCHANGED <<server, file, orig, intent, lock, held, data, history>>
-----------------------------------------------------------------------------
(* settings_lock.                                                            *)

Waiting(a) == pc[a] \in {"lock", "retry"}

\* Whoever goes in while another is inside disturbs him.
Enter(a) ==
    /\ Goto(a, "read")
    /\ mishap' = (mishap \/ \E b \in Actor \ {a} : Inside(b))
    /\ misled' = misled \ {a}
    /\ UNCHANGED <<server, file, orig, intent, op, data, wanted, edits, crashes>>

Acquire(a) ==
    /\ Waiting(a) /\ lock = "free"
    /\ lock' = a
    /\ held' = [held EXCEPT ![a] = TRUE]
    /\ Enter(a)

\* The lock of a dead or of a slow process outlasts the patience of the others.
WaitOver == lock = "dead" \/ (lock # "free" /\ "slow" \in Faults)

\* After two seconds, or when no lock can be made at all, go on without one.
GiveUp(a) ==
    /\ Waiting(a)
    /\ WaitOver \/ (lock = "free" /\ "disk" \in Faults)
    /\ Enter(a)
    /\ UNCHANGED <<lock, held>>

\* A lock older than ten seconds is removed, whoever made it.  The next one is not
\* that old before the two seconds are over.
Break(a) ==
    /\ pc[a] = "lock"
    /\ WaitOver
    /\ lock' = "free"
    /\ Goto(a, "retry")
    /\ UNCHANGED <<server, file, orig, intent, op, held, data, history>>

\* A lock that was broken and made again by another goes too, if the system allows
\* the removal of a file that is open.
Unlock(a) ==
    lock' \in IF lock = a THEN {"free"}
             ELSE IF held[a] THEN {lock, "free"}
             ELSE {lock}

Release(a) ==
    /\ pc[a] = "unlock"
    /\ Unlock(a)
    /\ IF op[a] = "off"
         THEN /\ Goto(a, "intent")
              /\ held' = [held EXCEPT ![a] = FALSE]
              /\ UNCHANGED <<op, data>>
         ELSE End(a)
    /\ misled' = misled \ {a}
    /\ UNCHANGED <<server, file, orig, intent, wanted, mishap, edits, crashes>>

\* _proxy_disable clears the intent last.
ClearIntent(a) ==
    /\ pc[a] = "intent"
    /\ intent' = FALSE
    /\ End(a)
    /\ UNCHANGED <<server, file, orig, lock, history>>
-----------------------------------------------------------------------------
(* Under the lock.                                                           *)

\* (Mutant.) Only what a saved gateway can replace is recognised as ours.
OursIfSaved(url) == url = "ours" /\ orig # "none"

IsOurProxy(url) == url = "ours"

Changes(a, d) ==
    \/ op[a] \in {"on", "resident"}
    \/ IsOurProxy(d.url)
    \/ op[a] = "uninstall" /\ d.ca

\* Whoever cannot read the settings is misled.  ON and the panel write back what they
\* took for the settings; OFF and uninstall write nothing then.
Read(a) ==
    /\ pc[a] = "read"
    /\ \E d \in Content :
         /\ IF Changes(a, d) THEN data' = [data EXCEPT ![a] = d] /\ Goto(a, "orig")
                             ELSE UNCHANGED data /\ Goto(a, "unlock")
         /\ misled' = IF d = file THEN misled ELSE misled \cup {a}
         /\ mishap' = (mishap \/ (d # file /\ op[a] \in {"on", "resident"}))
    /\ UNCHANGED <<server, file, orig, intent, lock, op, held, wanted, edits, crashes>>

\* (Mutant.) The address of the proxy counts as a gateway of the user.
SavesAnything(d) == d.url \notin {"none", "direct"}

\* Is there a gateway of the user that ON has to save?
SavesGateway(d) == d.url \notin {"none", "direct"} /\ ~IsOurProxy(d.url)

\* (Mutant.) A second ON finds nothing to save and forgets what the first one saved.
ForgetsSaved(what, d) ==
    IF what = "on" THEN IF SavesGateway(d) THEN d.url ELSE "none"
    ELSE IF what = "resident" THEN orig
    ELSE IF IsOurProxy(d.url) \/ (what = "uninstall" /\ d.ca) THEN "none"
    ELSE orig

NewOrig(what, d) ==
    IF what = "on" THEN IF SavesGateway(d) THEN d.url ELSE orig
    ELSE IF what = "resident" THEN orig
    ELSE IF IsOurProxy(d.url) \/ (what = "uninstall" /\ d.ca) THEN "none"
    ELSE orig

Restored(d, saved) ==
    IF ~IsOurProxy(d.url) THEN d.url ELSE IF saved # "none" THEN saved ELSE "direct"

\* Does the command take the saved gateway back?
Restores(what, d) == what \in {"off", "uninstall"} /\ IsOurProxy(d.url)

\* (Mutant.) Only the env object is written back.
OnlyEnv(what, d, saved) ==
    IF what = "on" THEN [url |-> "ours", ca |-> TRUE, rest |-> FALSE]
    ELSE [url |-> d.url, ca |-> d.ca, rest |-> FALSE]

\* What each command writes back.
NewSettings(what, d, saved) ==
    IF what = "on" THEN [d EXCEPT !.url = "ours", !.ca = TRUE]
    ELSE IF what = "resident" THEN [d EXCEPT !.ca = TRUE]
    ELSE [d EXCEPT !.url = Restored(d, saved), !.ca = @ /\ what # "uninstall"]

\* route_to_proxy saves the gateway, strip_proxy_env takes it back and removes the
\* file, read or not; both before settings.json is written.  Failures are ignored.
EditOrig(a) ==
    /\ pc[a] = "orig"
    /\ \E saved \in IF Restores(op[a], data[a]) THEN Saved ELSE {orig} :
         /\ data' = [data EXCEPT ![a] = NewSettings(op[a], @, saved)]
         /\ \/ /\ orig' = NewOrig(op[a], data[a])
               /\ mishap' = (mishap \/ saved # orig)
            \/ /\ "disk" \in Faults
               /\ op[a] = "on" /\ SavesGateway(data[a])
               /\ orig' \in {orig, "none"}
               /\ mishap' = TRUE
            \/ /\ "disk" \in Faults
               /\ op[a] \in {"off", "uninstall"}
               /\ orig' = orig
               /\ mishap' = (mishap \/ saved # orig)
    /\ Goto(a, "truncate")
    /\ UNCHANGED <<server, file, intent, lock, op, held, wanted, misled, edits, crashes>>

\* _write_settings writes in place: the file is empty first.
Truncate(a) ==
    /\ pc[a] = "truncate"
    /\ file' = Torn
    /\ Goto(a, "fill")
    /\ UNCHANGED <<server, orig, intent, lock, op, held, data, history>>

\* Whoever else is inside works on what is overwritten now.
Fill(a) ==
    /\ pc[a] = "fill"
    /\ file' = data[a]
    /\ data' = [data EXCEPT ![a] = Empty]
    /\ misled' = (misled \ {a}) \cup {b \in Actor \ {a} : Inside(b)}
    /\ Goto(a, "unlock")
    /\ UNCHANGED <<server, orig, intent, lock, op, held, wanted, mishap, edits, crashes>>

\* The write raises, before or after the file is emptied: the lock is released on the
\* way out, and the command ends there.
WriteFails(a) ==
    /\ "disk" \in Faults
    /\ pc[a] \in {"truncate", "fill"}
    /\ Unlock(a)
    /\ End(a)
    /\ mishap' = TRUE
    /\ UNCHANGED <<server, file, orig, intent, wanted, misled, edits, crashes>>

\* A process dies.  Its lock stays; a saved gateway half written cannot be read.
Crash(a) ==
    /\ pc[a] # "idle"
    /\ crashes < MaxCrash
    /\ crashes' = crashes + 1
    /\ lock' = IF lock = a THEN "dead" ELSE lock
    /\ orig' \in IF pc[a] = "orig" /\ op[a] = "on" /\ SavesGateway(data[a])
                   THEN {orig, "none"} ELSE {orig}
    /\ mishap' = (mishap \/ pc[a] \in {"truncate", "fill"})
    /\ End(a)
    /\ UNCHANGED <<server, file, intent, wanted, misled, edits>>
-----------------------------------------------------------------------------
User == ServerStart \/ ServerStop \/ \E url \in Url \ {"ours"} : UserEdit(url)

Command(a) == BeginOn(a) \/ BeginOff(a) \/ BeginResident(a)

Step(a) ==
    \/ Probe(a)
    \/ Acquire(a) \/ GiveUp(a) \/ Break(a)
    \/ Read(a) \/ EditOrig(a) \/ Truncate(a) \/ Fill(a) \/ WriteFails(a)
    \/ Release(a) \/ ClearIntent(a)

Next == User \/ \E a \in Actor : Command(a) \/ Step(a) \/ Crash(a)

Spec == Init /\ [][Next]_vars
-----------------------------------------------------------------------------
(* What must hold.                                                           *)

TypeOK ==
    /\ up \in BOOLEAN /\ caFile \in BOOLEAN /\ intent \in BOOLEAN
    /\ file \in Settings \cup {Torn}
    /\ orig \in Gateway \cup {"none"}
    /\ lock \in Actor \cup {"free", "dead"}
    /\ pc \in [Actor -> {"idle", "probe", "lock", "retry", "read", "orig", "truncate",
                         "fill", "unlock", "intent"}]
    /\ op \in [Actor -> {"none", "on", "off", "uninstall", "resident"}]
    /\ held \in [Actor -> BOOLEAN]
    /\ data \in [Actor -> Settings]
    /\ wanted \in Url /\ mishap \in BOOLEAN /\ misled \subseteq Actor
    /\ edits \in Nat /\ crashes \in Nat

\* The gateway the user chose is never lost, however ON, OFF, uninstall and the user's
\* own edits follow each other: it is in settings.json, saved, or about to be written
\* back.  What can lose it is a mishap: two edits at a time (the lock is not waited for
\* beyond two seconds), a death or a failed write between the change of the saved
\* gateway and the end of the write (proxyguard.py:246-259), or a file that is whole
\* but cannot be read, which counts as empty (settings.json read by ON or the panel,
\* proxyguard.py:137; the saved gateway taken back by OFF or uninstall, 170).
Kept(url) ==
    \/ file # Torn /\ file.url = url
    \/ orig = url
    \/ \E a \in Actor : pc[a] \in {"truncate", "fill"} /\ data[a].url = url

GatewayKept == ~mishap /\ wanted \in Gateway => Kept(wanted)

\* settings.json is whole whenever nobody is writing it, and the user's other
\* settings are in it, unless there was one of these mishaps.
SettingsKept ==
    ~mishap => /\ file = Torn => \E a \in Actor : pc[a] = "fill"
               /\ file # Torn => file.rest

\* When OFF or uninstall lets go of the lock, Claude is not routed to the proxy, whatever
\* mishaps and commands there were before and whatever others do meanwhile: all it takes
\* is that it could read settings.json and that nobody else filled the file after it
\* went in, or after its own write.
OffMeansOff ==
    \A a \in Actor \ misled :
        pc[a] = "unlock" /\ op[a] \in {"off", "uninstall"}
            => file = Torn \/ file.url # "ours"

\* (proxyguard.py:13) What the user had before ON is what OFF restores.
OffRestores ==
    \A a \in Actor : pc[a] = "unlock" /\ op[a] = "off" /\ ~mishap
                        => IF wanted \in Gateway THEN file.url = wanted
                                                 ELSE file.url \notin Gateway
=============================================================================
