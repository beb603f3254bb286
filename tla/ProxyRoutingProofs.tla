------------------------- MODULE ProxyRoutingProofs -------------------------
(***************************************************************************)
(* What holds of ProxyRouting for every set of processes and gateways and  *)
(* every combination of faults.                                            *)
(***************************************************************************)
EXTENDS ProxyRouting, TLAPS

States == {"idle", "probe", "lock", "retry", "read", "orig", "truncate", "fill",
           "unlock", "intent"}
Commands == {"none", "on", "off", "uninstall", "resident"}
-----------------------------------------------------------------------------
(* The operators of an edit.                                                 *)

LEMMA ContentType == TypeOK => Content \subseteq Settings
<1>1. Empty \in Settings
  BY DEF Empty, Settings, Url
<1> QED BY <1>1 DEF TypeOK, Content

\* A URL is the user's gateway, the proxy, direct, or not there at all, and never two
\* of these.
LEMMA UrlKinds ==
    ASSUME NEW url \in Url
    PROVE  (url \notin {"none", "direct"} /\ ~IsOurProxy(url)) <=> url \in Gateway
  BY RoutingAssumption DEF Url, IsOurProxy

LEMMA NewOrigType ==
    ASSUME TypeOK, NEW what \in Commands, NEW d \in Settings
    PROVE  NewOrig(what, d) \in Gateway \cup {"none"}
  BY UrlKinds DEF TypeOK, NewOrig, SavesGateway, Settings

LEMMA NewSettingsType ==
    ASSUME TypeOK, NEW what \in Commands, NEW d \in Settings, NEW saved \in {orig, "none"}
    PROVE  NewSettings(what, d, saved) \in Settings
<1>1. Restored(d, saved) \in Url
  BY DEF Restored, TypeOK, Url, Settings
<1> QED BY <1>1 DEF NewSettings, Settings, Url
-----------------------------------------------------------------------------
(* Type correctness.                                                         *)

LEMMA EndTyped ==
    ASSUME TypeOK, NEW a \in Actor, End(a)
    PROVE  /\ pc' \in [Actor -> States] /\ op' \in [Actor -> Commands]
           /\ held' \in [Actor -> BOOLEAN] /\ data' \in [Actor -> Settings]
  BY DEF End, Goto, TypeOK, States, Commands, Empty, Settings, Url

LEMMA InitTyped == Init => TypeOK
<1> SUFFICES ASSUME Init PROVE TypeOK
  OBVIOUS
<1>1. Empty \in Settings
  BY DEF Empty, Settings, Url
<1>2. file \in Settings
  BY DEF Init, Settings, Url
<1>3. wanted \in Url
  BY DEF Init
<1> QED BY <1>1, <1>2, <1>3 DEF Init, TypeOK

LEMMA UserTyped == TypeOK /\ User => TypeOK'
<1> USE DEF TypeOK, actors, history, server
<1>1. ASSUME TypeOK, ServerStart PROVE TypeOK'
  BY <1>1 DEF ServerStart
<1>2. ASSUME TypeOK, ServerStop PROVE TypeOK'
  BY <1>2 DEF ServerStop
<1>3. ASSUME TypeOK, NEW url \in Url \ {"ours"}, UserEdit(url) PROVE TypeOK'
  BY <1>3 DEF UserEdit, Settings
<1> QED BY <1>1, <1>2, <1>3 DEF User

LEMMA CommandTyped ==
    ASSUME TypeOK, NEW a \in Actor, Command(a)
    PROVE  TypeOK'
  BY DEF Command, BeginOn, BeginOff, BeginResident, Begin, Goto, TypeOK, server, history

LEMMA UnlockTyped ==
    ASSUME TypeOK, NEW a \in Actor, Unlock(a)
    PROVE  lock' \in Actor \cup {"free", "dead"}
  BY DEF Unlock, TypeOK

LEMMA StepTyped ==
    ASSUME TypeOK, NEW a \in Actor, Step(a)
    PROVE  TypeOK'
<1> USE DEF TypeOK, server, history, Goto
<1>1. CASE Probe(a)
  BY <1>1, EndTyped DEF Probe, States, Commands
<1>2. CASE Acquire(a)
  BY <1>2 DEF Acquire, Enter
<1>3. CASE GiveUp(a)
  BY <1>3 DEF GiveUp, Enter
<1>4. CASE Break(a)
  BY <1>4 DEF Break
<1>5. CASE Read(a)
  BY <1>5, ContentType DEF Read
<1>6. CASE EditOrig(a)
  <2>1. op[a] \in Commands /\ data[a] \in Settings
    BY DEF Commands
  <2>2. orig' \in Gateway \cup {"none"} /\ mishap' \in BOOLEAN
    BY <1>6, <2>1, NewOrigType DEF EditOrig
  <2>3. data' \in [Actor -> Settings]
    <3>1. PICK saved \in {orig, "none"} :
             data' = [data EXCEPT ![a] = NewSettings(op[a], data[a], saved)]
      BY <1>6 DEF EditOrig, Saved
    <3> QED BY <2>1, <3>1, NewSettingsType
  <2> QED BY <1>6, <2>2, <2>3 DEF EditOrig
<1>7. CASE Truncate(a)
  BY <1>7 DEF Truncate
<1>8. CASE Fill(a)
  BY <1>8 DEF Fill, Empty, Settings, Url
<1>9. CASE WriteFails(a)
  BY <1>9, EndTyped, UnlockTyped DEF WriteFails, States, Commands
<1>10. CASE Release(a)
  BY <1>10, EndTyped, UnlockTyped DEF Release, States, Commands
<1>11. CASE ClearIntent(a)
  BY <1>11, EndTyped DEF ClearIntent, States, Commands
<1> QED BY <1>1, <1>2, <1>3, <1>4, <1>5, <1>6, <1>7, <1>8, <1>9, <1>10, <1>11 DEF Step

LEMMA CrashTyped ==
    ASSUME TypeOK, NEW a \in Actor, Crash(a)
    PROVE  TypeOK'
<1>1. /\ pc' \in [Actor -> States] /\ op' \in [Actor -> Commands]
      /\ held' \in [Actor -> BOOLEAN] /\ data' \in [Actor -> Settings]
  BY EndTyped DEF Crash
<1> QED BY <1>1 DEF Crash, TypeOK, States, Commands, server

LEMMA StutterTyped == TypeOK /\ UNCHANGED vars => TypeOK'
  BY DEF TypeOK, vars, server, actors, history

LEMMA NextTyped == TypeOK /\ [Next]_vars => TypeOK'
  BY UserTyped, CommandTyped, StepTyped, CrashTyped, StutterTyped DEF Next

\* Whatever is in the files and in the hands of the processes has its type: above all,
\* the saved gateway is never the proxy's own address (proxyguard.py:218-222).
THEOREM RoutingTyped == Spec => []TypeOK
<1>1. Init => TypeOK
  BY InitTyped
<1>2. TypeOK /\ [Next]_vars => TypeOK'
  BY NextTyped
<1> QED BY <1>1, <1>2, PTL DEF Spec
-----------------------------------------------------------------------------
(* What an undisturbed edit relies on.                                       *)

Writing(a) == pc[a] \in {"truncate", "fill"}

\* One edit at a time.
Alone == \A a, b \in Actor : Inside(a) /\ Inside(b) => a = b

\* settings.json is whole, except while it is written.
Whole == /\ file = Torn => \E a \in Actor : pc[a] = "fill"
         /\ file # Torn => file.rest

\* What was read is still there; what will be written has the user's other settings.
InHand(a) ==
    /\ pc[a] = "orig" => data[a] = file
    /\ Writing(a) => data[a].rest

\* A gateway the user chose is not displaced by anything but the proxy, and whoever
\* is about to do that has seen to it that it is saved.
Undisplaced ==
    wanted \in Gateway =>
        /\ file # Torn => file.url \in {wanted, "ours"}
        /\ \A a \in Actor : Writing(a) => /\ data[a].url \in {wanted, "ours"}
                                          /\ data[a].url = wanted \/ orig = wanted

Undisturbed == /\ Alone
               /\ Whole
               /\ \A a \in Actor : InHand(a)
               /\ wanted \in Gateway => Kept(wanted)
               /\ Undisplaced

Inv == TypeOK /\ (~mishap => Undisturbed)

LEMMA InvInit == Init => Inv
<1> SUFFICES ASSUME Init PROVE Undisturbed
  BY InitTyped DEF Inv
<1>1. \A a \in Actor : pc[a] = "idle"
  BY DEF Init
<1>2. file # Torn /\ file.rest /\ file.url = wanted
  <2>1. file \in Settings
    BY DEF Init, Settings, Url
  <2> QED BY <2>1, RoutingAssumption DEF Init
<1> QED BY <1>1, <1>2 DEF Undisturbed, Alone, Whole, InHand, Writing, Kept, Undisplaced,
                          Inside

\* A step that leaves the files alone and takes nobody further than to his reading.
LEMMA Quiet ==
    ASSUME Undisturbed, ~mishap, UNCHANGED <<file, orig, wanted>>, Alone',
           \A a \in Actor : Inside(a)' => \/ pc'[a] = "read"
                                         \/ /\ pc'[a] = pc[a] /\ op'[a] = op[a]
                                            /\ data'[a] = data[a],
           \A a \in Actor : Writing(a) => pc'[a] = pc[a]
    PROVE  Undisturbed'
<1>1. \A a \in Actor : Writing(a)' => Writing(a)
  BY DEF Writing, Inside
<1>2. \A a \in Actor : Writing(a) => data'[a] = data[a] /\ op'[a] = op[a] /\ pc'[a] = pc[a]
  BY DEF Writing, Inside
<1>3. Whole'
  BY <1>2 DEF Undisturbed, Whole, Writing
<1>4. \A a \in Actor : InHand(a)'
  BY <1>1, <1>2 DEF Undisturbed, InHand, Inside
<1>5. wanted' \in Gateway => Kept(wanted)'
  BY <1>2 DEF Undisturbed, Kept, Writing
<1>6. Undisplaced'
  BY <1>1, <1>2 DEF Undisturbed, Undisplaced
<1> QED BY <1>3, <1>4, <1>5, <1>6 DEF Undisturbed

\* Nobody comes in: those who are inside stay alone.
LEMMA StillAlone ==
    ASSUME Alone, \A a \in Actor : Inside(a)' => Inside(a)
    PROVE  Alone'
  BY DEF Alone

\* Reading: the settings are taken as they are, or left as they are.
LEMMA ReadKeeps ==
    ASSUME TypeOK, Undisturbed, ~mishap, NEW a \in Actor, Read(a), ~mishap'
    PROVE  Undisturbed'
<1>1. \A b \in Actor \ {a} : ~Inside(b)
  BY DEF Undisturbed, Alone, Read, Inside
<1>2. file # Torn /\ Content \subseteq {file, Empty}
  BY <1>1 DEF Undisturbed, Whole, Read, Inside, Content
<1>3. PICK d \in Content :
         /\ IF Changes(a, d) THEN data' = [data EXCEPT ![a] = d] /\ Goto(a, "orig")
                             ELSE UNCHANGED data /\ Goto(a, "unlock")
         /\ ~(d # file /\ op[a] \in {"on", "resident"})
  BY DEF Read
<1>4. d = file \/ ~Changes(a, d)
  BY <1>2, <1>3 DEF Changes, Empty, IsOurProxy
<1>5. /\ UNCHANGED <<file, orig, wanted, op>>
      /\ pc' = [pc EXCEPT ![a] = IF Changes(a, d) THEN "orig" ELSE "unlock"]
      /\ data' = IF Changes(a, d) THEN [data EXCEPT ![a] = file] ELSE data
  BY <1>3, <1>4 DEF Read, Goto
<1>6. pc'[a] \in {"orig", "unlock"} /\ \A b \in Actor \ {a} : pc'[b] = pc[b]
  BY <1>5 DEF TypeOK
<1>7. \A b \in Actor : ~Writing(b) /\ ~Writing(b)'
  BY <1>1, <1>6 DEF Writing, Inside, Read
<1>8. Alone'
  BY <1>1, <1>6 DEF Alone, Inside
<1>9. Whole'
  BY <1>2, <1>5 DEF Undisturbed, Whole
<1>10. \A b \in Actor : InHand(b)'
  BY <1>1, <1>5, <1>6, <1>7 DEF InHand, Inside, TypeOK
<1>11. wanted' \in Gateway => Kept(wanted)'
  BY <1>2, <1>5, <1>7 DEF Undisturbed, Kept, Writing
<1>12. Undisplaced'
  BY <1>5, <1>7 DEF Undisturbed, Undisplaced
<1> QED BY <1>8, <1>9, <1>10, <1>11, <1>12 DEF Undisturbed

\* ON saves the gateway it will displace, OFF and uninstall take it back.
LEMMA EditOrigKeeps ==
    ASSUME TypeOK, Undisturbed, ~mishap, NEW a \in Actor, EditOrig(a), ~mishap'
    PROVE  Undisturbed'
<1>1. /\ \A b \in Actor \ {a} : ~Inside(b)
      /\ pc[a] = "orig" /\ data[a] = file
  BY DEF Undisturbed, Alone, EditOrig, Inside, InHand
<1>2. file # Torn /\ file \in Settings /\ file.rest
  BY <1>1 DEF Undisturbed, Whole, Inside, TypeOK
<1>3. /\ UNCHANGED <<file, wanted, op>>
      /\ pc' = [pc EXCEPT ![a] = "truncate"]
      /\ data' = [data EXCEPT ![a] = NewSettings(op[a], file, orig)]
      /\ orig' = NewOrig(op[a], file) \/ (op[a] \in {"off", "uninstall"} /\ orig' = orig)
  BY <1>1 DEF EditOrig, Goto
<1>4. pc'[a] = "truncate" /\ \A b \in Actor \ {a} : pc'[b] = pc[b]
  BY <1>3 DEF TypeOK
<1>5. data'[a] = NewSettings(op[a], file, orig)
  BY <1>3 DEF TypeOK
<1>6. \A b \in Actor : Writing(b)' => b = a
  BY <1>1, <1>4 DEF Writing, Inside
<1>7. \A b \in Actor : ~Writing(b)
  BY <1>1 DEF Writing, Inside
<1>8. Alone' /\ Whole'
  BY <1>1, <1>2, <1>3, <1>4 DEF Alone, Inside, Whole
<1>9. data'[a].rest
  BY <1>2, <1>5 DEF NewSettings, Settings
<1>10. \A b \in Actor : InHand(b)'
  BY <1>1, <1>3, <1>4, <1>6, <1>9 DEF InHand, Inside
<1>11. wanted \in Gateway => wanted \notin {"none", "direct", "ours"}
  BY RoutingAssumption
<1>12. wanted \in Gateway =>
          file.url \in {wanted, "ours"} /\ (file.url = wanted \/ orig = wanted)
  BY <1>2, <1>7 DEF Undisturbed, Undisplaced, Kept, Writing
<1>13. ASSUME wanted \in Gateway
       PROVE  /\ data'[a].url \in {wanted, "ours"}
              /\ data'[a].url = wanted \/ orig' = wanted
  <2>1. CASE op[a] = "on"
    <3>1. data'[a].url = "ours"
      BY <1>2, <1>5, <2>1 DEF NewSettings, Settings
    <3>2. orig' = IF SavesGateway(file) THEN file.url ELSE orig
      BY <1>3, <2>1 DEF NewOrig
    <3> QED BY <1>11, <1>12, <1>13, <3>1, <3>2 DEF SavesGateway, IsOurProxy
  <2>2. CASE op[a] = "resident"
    BY <1>2, <1>3, <1>5, <1>11, <1>12, <1>13, <2>2 DEF NewSettings, NewOrig, Settings
  <2>3. CASE op[a] \notin {"on", "resident"}
    <3>1. data'[a].url = Restored(file, orig)
      BY <1>2, <1>5, <2>3 DEF NewSettings, Settings
    <3> QED BY <1>11, <1>12, <1>13, <3>1 DEF Restored, IsOurProxy
  <2> QED BY <2>1, <2>2, <2>3
<1>14. wanted' \in Gateway => Kept(wanted)'
  BY <1>3, <1>4, <1>13 DEF Kept
<1>15. Undisplaced'
  BY <1>3, <1>6, <1>12, <1>13 DEF Undisplaced
<1> QED BY <1>8, <1>10, <1>14, <1>15 DEF Undisturbed

\* The file is emptied: the saved gateway, or the writer, holds what it held.
LEMMA TruncateKeeps ==
    ASSUME TypeOK, Undisturbed, ~mishap, NEW a \in Actor, Truncate(a)
    PROVE  Undisturbed'
<1>1. \A b \in Actor \ {a} : ~Inside(b)
  BY DEF Undisturbed, Alone, Truncate, Inside
<1>2. /\ UNCHANGED <<orig, wanted, op, data>> /\ file' = Torn
      /\ pc[a] = "truncate" /\ pc'[a] = "fill" /\ \A b \in Actor \ {a} : pc'[b] = pc[b]
  BY DEF Truncate, Goto, TypeOK, history
<1>3. \A b \in Actor : (Writing(b) <=> b = a) /\ (Writing(b)' <=> b = a)
  BY <1>1, <1>2 DEF Writing, Inside
<1>4. Alone' /\ Whole'
  BY <1>1, <1>2 DEF Alone, Inside, Whole
<1>5. \A b \in Actor : InHand(b)'
  BY <1>1, <1>2, <1>3 DEF Undisturbed, InHand, Inside
<1>6. wanted' \in Gateway => Kept(wanted)'
  BY <1>2, <1>3 DEF Undisturbed, Undisplaced, Kept
<1>7. Undisplaced'
  BY <1>2, <1>3 DEF Undisturbed, Undisplaced
<1> QED BY <1>4, <1>5, <1>6, <1>7 DEF Undisturbed

\* The file is written: what was in the writer's hands is in it.
LEMMA FillKeeps ==
    ASSUME TypeOK, Undisturbed, ~mishap, NEW a \in Actor, Fill(a)
    PROVE  Undisturbed'
<1>1. \A b \in Actor \ {a} : ~Inside(b)
  BY DEF Undisturbed, Alone, Fill, Inside
<1>2. /\ UNCHANGED <<orig, wanted, op>> /\ file' = data[a]
      /\ pc[a] = "fill" /\ pc'[a] = "unlock" /\ \A b \in Actor \ {a} : pc'[b] = pc[b]
  BY DEF Fill, Goto, TypeOK, history
<1>3. file' # Torn
  BY <1>2, RoutingAssumption DEF TypeOK
<1>4. Writing(a) /\ \A b \in Actor : ~Writing(b)'
  BY <1>1, <1>2 DEF Writing, Inside
<1>5. Alone' /\ Whole'
  BY <1>1, <1>2, <1>3, <1>4 DEF Alone, Inside, Whole, Undisturbed, InHand
<1>6. \A b \in Actor : InHand(b)'
  BY <1>1, <1>2, <1>4 DEF InHand, Inside
<1>7. wanted' \in Gateway => Kept(wanted)'
  BY <1>2, <1>3, <1>4 DEF Undisturbed, Undisplaced, Kept
<1>8. Undisplaced'
  BY <1>2, <1>4 DEF Undisturbed, Undisplaced
<1> QED BY <1>5, <1>6, <1>7, <1>8 DEF Undisturbed

\* A process that writes nothing ends a step outside, whatever it did there.
LEMMA OutsideKeeps ==
    ASSUME Undisturbed, ~mishap, NEW a \in Actor, UNCHANGED <<file, orig, wanted>>,
           ~Writing(a), ~Inside(a)',
           \A b \in Actor \ {a} : pc'[b] = pc[b] /\ op'[b] = op[b] /\ data'[b] = data[b]
    PROVE  Undisturbed'
<1>1. \A b \in Actor : Inside(b)' => b # a /\ Inside(b)
  BY DEF Inside
<1>2. Alone'
  BY <1>1, StillAlone DEF Undisturbed
<1> QED BY <1>1, <1>2, Quiet

\* Going in disturbs nobody if nobody is there.
LEMMA EnterKeeps ==
    ASSUME TypeOK, Undisturbed, ~mishap, NEW a \in Actor, Waiting(a), Enter(a), ~mishap'
    PROVE  Undisturbed'
<1>1. \A b \in Actor \ {a} : ~Inside(b)
  BY DEF Enter
<1>2. /\ UNCHANGED <<file, orig, wanted, op, data>>
      /\ pc'[a] = "read" /\ \A b \in Actor \ {a} : pc'[b] = pc[b]
  BY DEF Enter, Goto, TypeOK
<1>3. Alone'
  BY <1>1, <1>2 DEF Alone, Inside
<1>4. \A b \in Actor : ~Writing(b)
  BY <1>1 DEF Waiting, Writing, Inside
<1>5. \A b \in Actor : Inside(b)' => pc'[b] = "read"
  BY <1>1, <1>2 DEF Inside
<1> QED BY <1>2, <1>3, <1>4, <1>5, Quiet

\* What the user chooses while nobody edits is in settings.json at once.
LEMMA UserEditKeeps ==
    ASSUME TypeOK, Undisturbed, NEW url \in Url \ {"ours"}, UserEdit(url), ~mishap'
    PROVE  Undisturbed'
<1>1. \A a \in Actor : ~Inside(a) /\ ~Inside(a)'
  BY DEF UserEdit, actors, Inside
<1>2. file # Torn /\ file' = [file EXCEPT !.url = url] /\ wanted' = url
  BY DEF UserEdit
<1>3. file' \in Settings /\ file'.url = url /\ file'.rest
  BY <1>2 DEF TypeOK, Settings, Undisturbed, Whole
<1>4. file' # Torn
  BY <1>3, RoutingAssumption
<1>5. \A a \in Actor : ~Writing(a)'
  BY <1>1 DEF Inside, Writing
<1>6. Alone' /\ Whole' /\ \A a \in Actor : InHand(a)'
  BY <1>1, <1>3, <1>4, <1>5 DEF Alone, Whole, InHand, Inside
<1>7. Kept(wanted)' /\ Undisplaced'
  BY <1>2, <1>3, <1>4, <1>5 DEF Kept, Undisplaced
<1> QED BY <1>6, <1>7 DEF Undisturbed

LEMMA UserKeeps ==
    ASSUME TypeOK, Undisturbed, ~mishap, User, ~mishap'
    PROVE  Undisturbed'
<1>1. CASE ServerStart \/ ServerStop
  <2>1. UNCHANGED <<file, orig, wanted, pc, op, data>>
    BY <1>1 DEF ServerStart, ServerStop, actors, history
  <2>2. Alone'
    BY <2>1 DEF Undisturbed, Alone, Inside
  <2> QED BY <2>1, <2>2, Quiet
<1> QED BY <1>1, UserEditKeeps DEF User

LEMMA CommandKeeps ==
    ASSUME TypeOK, Undisturbed, ~mishap, NEW a \in Actor, Command(a)
    PROVE  Undisturbed'
<1>1. /\ UNCHANGED <<file, orig, wanted, data>>
      /\ \E what \in Commands, where \in {"probe", "lock"} : Begin(a, what, where)
  BY DEF Command, BeginOn, BeginOff, BeginResident, Commands, history
<1>2. /\ pc[a] = "idle" /\ pc'[a] \in {"probe", "lock"}
      /\ \A b \in Actor \ {a} : pc'[b] = pc[b] /\ op'[b] = op[b]
  BY <1>1 DEF Begin, Goto, TypeOK
<1> QED BY <1>1, <1>2, OutsideKeeps DEF Inside, Writing

LEMMA EndsOutside ==
    ASSUME TypeOK, NEW a \in Actor, End(a)
    PROVE  /\ ~Inside(a)'
           /\ \A b \in Actor \ {a} : pc'[b] = pc[b] /\ op'[b] = op[b] /\ data'[b] = data[b]
  BY DEF TypeOK, End, Goto, Inside

LEMMA StepKeeps ==
    ASSUME TypeOK, Undisturbed, ~mishap, NEW a \in Actor, Step(a), ~mishap'
    PROVE  Undisturbed'
<1>1. CASE Probe(a)
  <2>1. /\ UNCHANGED <<file, orig, wanted>> /\ pc[a] = "probe"
        /\ (Goto(a, "lock") /\ UNCHANGED <<op, data>>) \/ End(a)
    BY <1>1 DEF Probe, history
  <2>2. CASE Goto(a, "lock") /\ UNCHANGED <<op, data>>
    BY <2>1, <2>2, OutsideKeeps DEF Goto, TypeOK, Writing, Inside
  <2>3. CASE End(a)
    BY <2>1, <2>3, EndsOutside, OutsideKeeps DEF Writing
  <2> QED BY <2>1, <2>2, <2>3
<1>2. CASE Acquire(a) \/ GiveUp(a)
  BY <1>2, EnterKeeps DEF Acquire, GiveUp
<1>3. CASE Break(a)
  BY <1>3, OutsideKeeps DEF Break, Goto, TypeOK, Writing, Inside, history
<1>4. CASE WriteFails(a)
  BY <1>4 DEF WriteFails
<1>5. CASE Release(a)
  <2>1. /\ UNCHANGED <<file, orig, wanted>> /\ pc[a] = "unlock"
        /\ (Goto(a, "intent") /\ UNCHANGED <<op, data>>) \/ End(a)
    BY <1>5 DEF Release, history
  <2>2. CASE Goto(a, "intent") /\ UNCHANGED <<op, data>>
    BY <2>1, <2>2, OutsideKeeps DEF Goto, TypeOK, Writing, Inside
  <2>3. CASE End(a)
    BY <2>1, <2>3, EndsOutside, OutsideKeeps DEF Writing
  <2> QED BY <2>1, <2>2, <2>3
<1>6. CASE ClearIntent(a)
  BY <1>6, EndsOutside, OutsideKeeps DEF ClearIntent, Writing, history
<1> QED BY <1>1, <1>2, <1>3, <1>4, <1>5, <1>6, ReadKeeps, EditOrigKeeps, TruncateKeeps,
           FillKeeps DEF Step

\* A death between the reading and the writing may cost the saved gateway, but then
\* the user's is still in settings.json.
LEMMA CrashKeeps ==
    ASSUME TypeOK, Undisturbed, ~mishap, NEW a \in Actor, Crash(a), ~mishap'
    PROVE  Undisturbed'
<1>1. /\ UNCHANGED <<file, wanted>> /\ ~Writing(a) /\ ~Inside(a)'
      /\ \A b \in Actor \ {a} : pc'[b] = pc[b] /\ op'[b] = op[b] /\ data'[b] = data[b]
  BY EndsOutside DEF Crash, Writing
<1>2. CASE orig' = orig
  BY <1>1, <1>2, OutsideKeeps
<1>3. CASE orig' # orig
  <2>1. pc[a] = "orig" /\ SavesGateway(data[a])
    BY <1>3 DEF Crash
  <2>2. /\ \A b \in Actor \ {a} : ~Inside(b)
        /\ data[a] = file
    BY <2>1 DEF Undisturbed, Alone, Inside, InHand
  <2>3. file # Torn /\ file.rest /\ file.url # "ours"
    BY <2>1, <2>2 DEF Undisturbed, Whole, Inside, SavesGateway, IsOurProxy
  <2>4. \A b \in Actor : ~Inside(b)' /\ ~Writing(b) /\ ~Writing(b)'
    BY <1>1, <2>2 DEF Inside, Writing
  <2>5. wanted \in Gateway => file.url = wanted
    BY <2>3 DEF Undisturbed, Undisplaced
  <2>6. Alone' /\ Whole' /\ \A b \in Actor : InHand(b)'
    BY <1>1, <2>3, <2>4 DEF Alone, Whole, InHand, Inside
  <2>7. (wanted' \in Gateway => Kept(wanted)') /\ Undisplaced'
    BY <1>1, <2>3, <2>4, <2>5 DEF Kept, Undisplaced
  <2> QED BY <2>6, <2>7 DEF Undisturbed
<1> QED BY <1>2, <1>3

\* There is no way back from a mishap.
LEMMA MishapStays == mishap /\ [Next]_vars => mishap'
<1> SUFFICES ASSUME mishap, [Next]_vars PROVE mishap'
  OBVIOUS
<1> USE DEF history
<1>1. CASE UNCHANGED vars
  BY <1>1 DEF vars
<1>2. CASE User
  BY <1>2 DEF User, ServerStart, ServerStop, UserEdit
<1>3. ASSUME NEW a \in Actor, Command(a) PROVE mishap'
  BY <1>3 DEF Command, BeginOn, BeginOff, BeginResident
<1>4. ASSUME NEW a \in Actor, Step(a) PROVE mishap'
  BY <1>4 DEF Step, Probe, Acquire, GiveUp, Enter, Break, Read, EditOrig, Truncate, Fill,
              WriteFails, Release, ClearIntent
<1>5. ASSUME NEW a \in Actor, Crash(a) PROVE mishap'
  BY <1>5 DEF Crash
<1> QED BY <1>1, <1>2, <1>3, <1>4, <1>5 DEF Next

LEMMA StutterKeeps == Undisturbed /\ UNCHANGED vars => Undisturbed'
  BY DEF Undisturbed, Alone, Whole, InHand, Writing, Kept, Undisplaced,
         Inside, vars, actors, history

LEMMA InvNext == Inv /\ [Next]_vars => Inv'
<1> SUFFICES ASSUME Inv, [Next]_vars, ~mishap' PROVE Undisturbed'
  BY NextTyped DEF Inv
<1>1. TypeOK /\ Undisturbed /\ ~mishap
  BY MishapStays DEF Inv, TypeOK
<1> QED BY <1>1, StutterKeeps, UserKeeps, CommandKeeps, StepKeeps, CrashKeeps DEF Next
-----------------------------------------------------------------------------
LEMMA RoutingInv == Spec => []Inv
<1> QED BY InvInit, InvNext, PTL DEF Spec

\* The gateway the user chose survives every ON, OFF, uninstall and edit of his own that
\* no mishap disturbs (proxyguard.py:208-259), for any number of processes.
THEOREM GatewayIsKept == Spec => []GatewayKept
<1>1. Inv => GatewayKept
  BY DEF Inv, Undisturbed, GatewayKept
<1> QED BY <1>1, RoutingInv, PTL

\* settings.json is whole and keeps the user's other settings (proxyguard.py:132-144).
THEOREM SettingsAreKept == Spec => []SettingsKept
<1>1. Inv => SettingsKept
  BY DEF Inv, Undisturbed, Whole, SettingsKept
<1> QED BY <1>1, RoutingInv, PTL

-----------------------------------------------------------------------------
(* What OFF relies on, mishap or not.                                        *)

Disables(a) == op[a] \in {"off", "uninstall"}

\* Whoever is there to take Claude off the proxy does not write the proxy back.
OffInv ==
    /\ OffMeansOff
    /\ \A a \in Actor : Writing(a) /\ Disables(a) => data[a].url # "ours"

\* A step that fills no file: nobody gets where it matters who was not there.
LEMMA OffQuiet ==
    ASSUME OffInv, file' = file \/ file' = Torn \/ file'.url # "ours", misled \subseteq misled',
           \A a \in Actor : \/ /\ ~Writing(a)'
                                /\ pc'[a] # "unlock"
                             \/ /\ op'[a] = op[a] /\ data'[a] = data[a]
                                /\ Writing(a)' => Writing(a)
                                /\ pc'[a] = "unlock" => pc[a] = "unlock"
    PROVE  OffInv'
<1>1. ASSUME NEW a \in Actor, a \notin misled', pc'[a] = "unlock", Disables(a)'
      PROVE  file' = Torn \/ file'.url # "ours"
  BY <1>1 DEF OffInv, OffMeansOff, Disables
<1>2. ASSUME NEW a \in Actor, Writing(a)', Disables(a)' PROVE data'[a].url # "ours"
  BY <1>2 DEF OffInv, Disables
<1> QED BY <1>1, <1>2 DEF OffInv, OffMeansOff, Disables

\* A command that begins, waits or ends is not where it matters.
LEMMA OffOutside ==
    ASSUME OffInv, NEW a \in Actor, UNCHANGED file, misled \ {a} \subseteq misled',
           pc'[a] \notin {"truncate", "fill", "unlock"},
           \A b \in Actor \ {a} : pc'[b] = pc[b] /\ op'[b] = op[b] /\ data'[b] = data[b]
    PROVE  OffInv'
<1>1. ASSUME NEW b \in Actor, b \notin misled', pc'[b] = "unlock", Disables(b)'
      PROVE  file' = Torn \/ file'.url # "ours"
  BY <1>1 DEF OffInv, OffMeansOff, Disables
<1>2. ASSUME NEW b \in Actor, Writing(b)', Disables(b)' PROVE data'[b].url # "ours"
  BY <1>2 DEF OffInv, Disables, Writing
<1> QED BY <1>1, <1>2 DEF OffInv, OffMeansOff, Disables

LEMMA OffRead ==
    ASSUME TypeOK, OffInv, NEW a \in Actor, Read(a)
    PROVE  OffInv'
<1>1. PICK d \in Content :
         /\ IF Changes(a, d) THEN data' = [data EXCEPT ![a] = d] /\ Goto(a, "orig")
                             ELSE UNCHANGED data /\ Goto(a, "unlock")
         /\ misled' = IF d = file THEN misled ELSE misled \cup {a}
  BY DEF Read
<1>2. UNCHANGED <<file, op>> /\ misled \subseteq misled'
  BY <1>1 DEF Read
<1>3. \A b \in Actor \ {a} : pc'[b] = pc[b] /\ data'[b] = data[b]
  BY <1>1 DEF Goto, TypeOK
<1>4. pc'[a] = IF Changes(a, d) THEN "orig" ELSE "unlock"
  BY <1>1 DEF Goto, TypeOK
<1>5. a \notin misled' /\ pc'[a] = "unlock" /\ Disables(a) => file.url # "ours"
  BY <1>1, <1>4 DEF Changes, IsOurProxy, Disables
<1>6. ASSUME NEW b \in Actor, b \notin misled', pc'[b] = "unlock", Disables(b)'
      PROVE  file' = Torn \/ file'.url # "ours"
  BY <1>2, <1>3, <1>5, <1>6 DEF OffInv, OffMeansOff, Disables
<1>7. ASSUME NEW b \in Actor, Writing(b)', Disables(b)' PROVE data'[b].url # "ours"
  BY <1>2, <1>3, <1>4, <1>7 DEF OffInv, Disables, Writing
<1> QED BY <1>6, <1>7 DEF OffInv, OffMeansOff, Disables

LEMMA OffEditOrig ==
    ASSUME TypeOK, OffInv, NEW a \in Actor, EditOrig(a)
    PROVE  OffInv'
<1>1. PICK saved \in {orig, "none"} :
         data' = [data EXCEPT ![a] = NewSettings(op[a], data[a], saved)]
  BY DEF EditOrig, Saved
<1>2. UNCHANGED <<file, op, misled>> /\ pc' = [pc EXCEPT ![a] = "truncate"]
  BY DEF EditOrig, Goto
<1>3. \A b \in Actor \ {a} : pc'[b] = pc[b] /\ data'[b] = data[b]
  BY <1>1, <1>2 DEF TypeOK
<1>4. pc'[a] = "truncate" /\ data'[a] = NewSettings(op[a], data[a], saved)
  BY <1>1, <1>2 DEF TypeOK
<1>5. Disables(a) => data'[a].url # "ours"
  <2>1. data[a] \in Settings /\ saved # "ours"
    BY RoutingAssumption DEF TypeOK
  <2>2. Restored(data[a], saved) # "ours"
    BY <2>1 DEF Restored, IsOurProxy
  <2> QED BY <1>4, <2>1, <2>2 DEF NewSettings, Settings, Disables
<1>6. ASSUME NEW b \in Actor, b \notin misled', pc'[b] = "unlock", Disables(b)'
      PROVE  file' = Torn \/ file'.url # "ours"
  BY <1>2, <1>3, <1>4, <1>6 DEF OffInv, OffMeansOff, Disables
<1>7. ASSUME NEW b \in Actor, Writing(b)', Disables(b)' PROVE data'[b].url # "ours"
  BY <1>2, <1>3, <1>5, <1>7 DEF OffInv, Disables, Writing
<1> QED BY <1>6, <1>7 DEF OffInv, OffMeansOff, Disables

LEMMA OffFill ==
    ASSUME TypeOK, OffInv, NEW a \in Actor, Fill(a)
    PROVE  OffInv'
<1>1. /\ file' = data[a] /\ op' = op /\ pc[a] = "fill" /\ pc' = [pc EXCEPT ![a] = "unlock"]
      /\ data' = [data EXCEPT ![a] = Empty]
      /\ misled' = (misled \ {a}) \cup {b \in Actor \ {a} : Inside(b)}
  BY DEF Fill, Goto
<1>2. /\ pc'[a] = "unlock"
      /\ \A b \in Actor \ {a} : pc'[b] = pc[b] /\ data'[b] = data[b]
  BY <1>1 DEF TypeOK
<1>3. ASSUME NEW b \in Actor, b \notin misled', pc'[b] = "unlock", Disables(b)'
      PROVE  file' = Torn \/ file'.url # "ours"
  <2>1. b = a
    BY <1>1, <1>2, <1>3 DEF Inside
  <2> QED BY <1>1, <1>3, <2>1 DEF OffInv, Disables, Writing
<1>4. ASSUME NEW b \in Actor, Writing(b)', Disables(b)' PROVE data'[b].url # "ours"
  BY <1>1, <1>2, <1>4 DEF OffInv, Disables, Writing
<1> QED BY <1>3, <1>4 DEF OffInv, OffMeansOff, Disables

LEMMA OffStep ==
    ASSUME TypeOK, OffInv, NEW a \in Actor, Step(a)
    PROVE  OffInv'
<1> DEFINE Rest == \A b \in Actor \ {a} : pc'[b] = pc[b] /\ op'[b] = op[b] /\ data'[b] = data[b]
<1>1. ASSUME NEW where, Goto(a, where), UNCHANGED <<op, data>>
      PROVE  Rest /\ pc'[a] = where
  BY <1>1 DEF Goto, TypeOK
<1>2. ASSUME End(a) PROVE Rest /\ pc'[a] = "idle"
  BY <1>2 DEF End, Goto, TypeOK
<1>3. CASE Probe(a)
  BY <1>3, <1>1, <1>2, OffOutside DEF Probe, history
<1>4. CASE Acquire(a) \/ GiveUp(a)
  <2>1. Enter(a)
    BY <1>4 DEF Acquire, GiveUp
  <2> QED BY <2>1, <1>1, OffOutside DEF Enter
<1>5. CASE Break(a)
  BY <1>5, <1>1, OffOutside DEF Break, history
<1>6. CASE Truncate(a)
  <2>1. UNCHANGED <<op, data, misled>> /\ file' = Torn /\ pc[a] = "truncate" /\ pc'[a] = "fill"
    BY <1>6 DEF Truncate, history, Goto, TypeOK
  <2>2. Rest
    BY <1>6, <1>1 DEF Truncate
  <2> QED BY <2>1, <2>2, OffQuiet DEF Writing
<1>7. CASE WriteFails(a)
  BY <1>7, <1>2, OffOutside DEF WriteFails
<1>8. CASE Release(a)
  BY <1>8, <1>1, <1>2, OffOutside DEF Release
<1>9. CASE ClearIntent(a)
  BY <1>9, <1>2, OffOutside DEF ClearIntent, history
<1> QED BY <1>3, <1>4, <1>5, <1>6, <1>7, <1>8, <1>9, OffRead, OffEditOrig, OffFill DEF Step

LEMMA OffNext == TypeOK /\ OffInv /\ [Next]_vars => OffInv'
<1> SUFFICES ASSUME TypeOK, OffInv, [Next]_vars PROVE OffInv'
  OBVIOUS
<1>1. CASE UNCHANGED vars
  BY <1>1, OffQuiet DEF vars, actors, history, Writing
<1>2. CASE ServerStart \/ ServerStop
  BY <1>2, OffQuiet DEF ServerStart, ServerStop, actors, history, Writing
<1>3. ASSUME NEW url \in Url \ {"ours"}, UserEdit(url) PROVE OffInv'
  <2>1. file'.url # "ours" /\ UNCHANGED <<pc, op, data, misled>>
    BY <1>3 DEF UserEdit, actors, TypeOK, Settings
  <2> QED BY <2>1, OffQuiet DEF Writing
<1>4. ASSUME NEW a \in Actor, Command(a) PROVE OffInv'
  <2>1. UNCHANGED <<file, data, misled>> /\ \E what \in Commands, where \in {"probe", "lock"} : Begin(a, what, where)
    BY <1>4 DEF Command, BeginOn, BeginOff, BeginResident, Commands, history
  <2>2. /\ pc'[a] \in {"probe", "lock"}
        /\ \A b \in Actor \ {a} : pc'[b] = pc[b] /\ op'[b] = op[b]
    BY <2>1 DEF Begin, Goto, TypeOK
  <2> QED BY <2>1, <2>2, OffOutside
<1>5. ASSUME NEW a \in Actor, Crash(a) PROVE OffInv'
  <2>1. UNCHANGED <<file, misled>> /\ End(a)
    BY <1>5 DEF Crash
  <2>2. /\ pc'[a] = "idle"
        /\ \A b \in Actor \ {a} : pc'[b] = pc[b] /\ op'[b] = op[b] /\ data'[b] = data[b]
    BY <2>1 DEF End, Goto, TypeOK
  <2> QED BY <2>1, <2>2, OffOutside
<1> QED BY <1>1, <1>2, <1>3, <1>4, <1>5, OffStep DEF Next, User

\* When OFF or uninstall lets go, Claude does not go to the proxy, whatever mishaps there
\* were, if only it could read settings.json and nobody filled the file after its own
\* write (proxyguard.py:230-259).
THEOREM OffIsOff == Spec => []OffMeansOff
<1>1. Init => OffInv
  BY DEF Init, OffInv, OffMeansOff, Writing
<1>2. OffInv => OffMeansOff
  BY DEF OffInv
<1> QED BY <1>1, <1>2, RoutingTyped, OffNext, PTL DEF Spec
=============================================================================
