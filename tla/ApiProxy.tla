------------------------------ MODULE ApiProxy ------------------------------
(***************************************************************************)
(* apiproxy.py, proxypolicy.py, apilog.py: the proxy between Claude and    *)
(* the Messages API.  Claude sends the whole conversation with every       *)
(* request; the proxy refuses it or passes it on, relays or gates the      *)
(* answer, and appends what is new to a spool the collector reads.  What   *)
(* it masks or adds in the copy sent on changes no state and is left out.  *)
(* One conversation is modelled (its session_id comes with every request), *)
(* and as many handler threads as Handler has members: Claude gives a      *)
(* request up and sends the next while the thread of the first still runs. *)
(* Regular expressions are sets: a policy names the texts and the tool     *)
(* calls its patterns match.                                               *)
(***************************************************************************)
EXTENDS Parser

CONSTANTS
    Text,       \* what the user types
    Reminder,   \* the context block Claude puts before a prompt
    Output,     \* what a tool prints
    Policy,     \* the policies the file may hold (parsed, with defaults filled in)
    Reply,      \* the block sequences the model answers with
    Handler,    \* the server's threads
    None,
    MaxConv, MaxMsg, MaxToggle, MaxEdit, MaxFault   \* bounds

VARIABLES
    conv,       \* Claude's conversation: user and assistant messages
    claude,     \* "idle", "ready" (a user message waits to be sent), "waiting"
    cur,        \* the thread that serves the request Claude waits for, or None
    routed,     \* ANTHROPIC_BASE_URL points to the proxy
    policy,     \* the policy file: a member of Policy, or None when it is missing or torn
    hs,         \* the handler threads
    spool,      \* the events on whole lines of the spool
    torn,       \* the spool ends in half a line
    \* bounds and history
    msgs, toggles, edits, faults,
    executed,   \* [pol, by, id, call]: the tool calls Claude ran on an answer of the proxy
    lost        \* the events of appends that failed and of threads that died

settings == <<routed, policy, toggles, edits>>
log == <<spool, torn, lost>>
dialog == <<conv, claude, cur>>
vars == <<dialog, settings, log, hs, msgs, faults, executed>>

TextBlock(t) == [type |-> "text", text |-> t]
EmptyText == ""
EmptyInput == "{}"

\* An assistant message knows who wrote it: through the proxy "proxy" and "gate"
\* in the model's place, "model", and "unread" or "unmatched" when the gate failed
\* on the model's answer; past it "direct"; "cut" is kept of an answer that broke off.
Assistant(by, id, pol, blocks) ==
    [role |-> "assistant", by |-> by, id |-> id, pol |-> pol, blocks |-> blocks]
\* A user message knows whether the proxy was on while it was unanswered.
User(on, blocks) == [role |-> "user", on |-> on, blocks |-> blocks]

\* A failure of the environment: MaxFault of them in all.
Fault == faults < MaxFault /\ faults' = faults + 1

NoMsg == [id |-> 0, status |-> 0, blocks |-> <<>>]

Pc == {"free", "request", "refuse", "upstream", "relay", "gate", "log"}
Call == [name : STRING, input : STRING]
ToolId == Nat \X Nat       \* the message and the position in it
Policies == [enabled : BOOLEAN, block : SUBSET STRING, gate : BOOLEAN, tools : SUBSET Call]
ReplyBlock == [type : {"text", "thinking"}, text : STRING] \cup [type : {"tool_use"}, call : Call]
AnswerBlock == [type : {"text", "thinking"}, text : STRING] \cup
               [type : {"tool_use"}, id : ToolId, call : Call]
UserBlock == [type : {"text"}, text : STRING] \cup
             [type : {"tool_result"}, id : ToolId, text : STRING]
UserMessage == [role : {"user"}, on : BOOLEAN, blocks : Seq(UserBlock)]
Writer == {"model", "unread", "unmatched", "gate", "proxy", "direct", "cut"}
AssistantMessage ==
    [role : {"assistant"}, by : Writer, id : Nat, pol : Policies, blocks : Seq(AnswerBlock)]
Conversation == Seq(UserMessage \cup AssistantMessage)

ASSUME ProxyAssumption ==
    /\ Text \subseteq STRING /\ Reminder \in STRING /\ Output \in STRING
    \* These are strings, which no prover knows of a literal.
    /\ {EmptyText, EmptyInput, "cancel", "notice", "blk"} \subseteq STRING
    /\ Policy \subseteq Policies /\ Reply \subseteq Seq(ReplyBlock)
    /\ None \notin Handler
    /\ MaxConv \in Nat /\ MaxMsg \in Nat /\ MaxToggle \in Nat /\ MaxEdit \in Nat
    /\ MaxFault \in Nat

-----------------------------------------------------------------------------
(* proxypolicy.py *)

DefaultPolicy == [enabled |-> TRUE, block |-> {}, gate |-> FALSE, tools |-> {}]

\* load_policy: anything that cannot be read counts as no control at all.
LoadPolicy == IF policy \in Policy THEN policy ELSE DefaultPolicy

\* The user messages behind the last assistant message, by their positions.
Trailing(body) ==
    {i \in DOMAIN body : /\ body[i].role = "user"
                         /\ \A k \in DOMAIN body : body[k].role = "assistant" => k < i}

\* The blocks of some messages, one after the other.
BlocksAt(body, at) ==
    FlattenSeq([i \in DOMAIN body |-> IF i \in at THEN body[i].blocks ELSE <<>>])

\* (Mutant.) Every user message of the history counts as new.
AllBlocks(body) == BlocksAt(body, {i \in DOMAIN body : body[i].role = "user"})

\* (Mutant.) Only the last message counts as new.
LastBlocks(body) == body[Len(body)].blocks

TrailingBlocks(body) == BlocksAt(body, Trailing(body))

IsContext(b) == b.type = "text" /\ b.text = Reminder

\* (Mutant.) The whole history is searched.
AllUserText(body) == {b.text : b \in ToSet(AllBlocks(body))}

\* _trailing_user_text
TrailingUserText(body) ==
    {b.text : b \in {c \in ToSet(TrailingBlocks(body)) : ~IsContext(c)}}

Blocks(p, body) == p.enabled /\ TrailingUserText(body) \cap p.block # {}

\* (Mutant.) The first call stands for the answer.
MatchFirstTool(p, blocks) ==
    LET calls == {i \in DOMAIN blocks : blocks[i].type = "tool_use"}
    IN  {i \in calls : (\A j \in calls : i <= j) /\ blocks[i].call \in p.tools}

\* match_blocked_tools, as positions: the patterns see the name and the input.
MatchBlockedTools(p, blocks) ==
    {i \in DOMAIN blocks : blocks[i].type = "tool_use" /\ blocks[i].call \in p.tools}

-----------------------------------------------------------------------------
(* apilog.py *)

Event(id, kind, val, ref, blocked) ==
    [id |-> id, kind |-> kind, val |-> val, ref |-> ref, blocked |-> blocked]

LogEvent ==
    [id : {"api-up"} \X STRING, kind : {"user_prompt"}, val : STRING, ref : {<<>>},
     blocked : BOOLEAN] \cup
    [id : {"api-up"} \X {"blk"} \X Nat, kind : {"user_prompt"}, val : STRING, ref : {<<>>},
     blocked : {TRUE}] \cup
    [id : {"api-tr"} \X ToolId \X STRING, kind : {"tool_result"}, val : STRING, ref : ToolId,
     blocked : {FALSE}] \cup
    [id : {"api"} \X Nat \X Nat, kind : {"assistant_text"}, val : STRING, ref : {<<>>},
     blocked : {FALSE}] \cup
    [id : {"api"} \X Nat \X Nat, kind : {"tool_use"}, val : Call, ref : ToolId,
     blocked : BOOLEAN]

\* events_from_request: ids are hashes of the contents, so a second event of
\* the same id ("seen") is the same event.
RequestEvent(b, blocked) ==
    IF b.type = "tool_result"
    THEN Event(<<"api-tr", b.id, b.text>>, "tool_result", b.text, b.id, FALSE)
    ELSE Event(<<"api-up", b.text>>, "user_prompt", b.text, <<>>, blocked)

EventsFromRequest(body, blocked) ==
    LET new == TrailingBlocks(body)
        evs == FlattenSeq([i \in DOMAIN new |->
                   IF IsContext(new[i]) THEN <<>> ELSE <<RequestEvent(new[i], blocked)>>])
    IN  IF blocked /\ evs = <<>>
        THEN <<Event(<<"api-up", "blk", Len(body)>>, "user_prompt", "blk", <<>>, TRUE)>>
        ELSE evs

\* The stream of an answer: message_start, then start, delta and stop of each block.
BlockEvents == <<"content_block_start", "content_block_delta", "content_block_stop">>

Wire(msg) ==
    [j \in 1 .. 1 + 3 * Len(msg.blocks) |->
        IF j = 1 THEN [type |-> "message_start", id |-> msg.id]
        ELSE LET i == (j + 1) \div 3
             IN  [type |-> BlockEvents[1 + ((j + 1) % 3)], index |-> i, block |-> msg.blocks[i]]]

\* assemble_sse: a tool call whose input has not arrived, or not as whole JSON,
\* has the input {}; blocks that are neither text nor tool_use are left out.
Opened(b) ==
    CASE b.type = "tool_use" -> [b EXCEPT !.call.input = EmptyInput]
      [] b.type = "text"     -> TextBlock(EmptyText)
      [] OTHER               -> b

AssembleSse(stream) ==
    LET Events(type) == {e \in ToSet(stream) : e.type = type}
        Begun(i) == {Opened(e.block) : e \in {d \in Events("content_block_start") : d.index = i}}
        Whole(i) == {e.block : e \in {d \in Events("content_block_delta") : d.index = i}}
        start == Events("message_start")
        blocks == [i \in {e.index : e \in Events("content_block_start")} |->
                      CHOOSE b \in IF Whole(i) = {} THEN Begun(i) ELSE Whole(i) : TRUE]
    IN  [id |-> IF start = {} THEN 0 ELSE (CHOOSE e \in start : TRUE).id,
         blocks |-> OfType(blocks, {"text", "tool_use"})]

\* events_from_message; an error body (message_from_json) has no blocks.
EventsFromMessage(msg, dropped) ==
    [i \in DOMAIN msg.blocks |->
        LET b == msg.blocks[i] IN
        IF b.type = "text"
        THEN Event(<<"api", msg.id, i>>, "assistant_text", b.text, <<>>, FALSE)
        ELSE Event(<<"api", msg.id, i>>, "tool_use", b.call, b.id, b.call.name \in dropped)]

-----------------------------------------------------------------------------
(* Claude, its user and the network: outside src/.                         *)

\* pc: "free", "request", "refuse", "upstream", "relay", "gate", "log".
Free == [pc |-> "free", body |-> <<>>, pol |-> DefaultPolicy, evs |-> <<>>, msg |-> NoMsg]

ToolCalls(blocks) == OfType(blocks, {"tool_use"})

ToolResults(blocks) ==
    LET calls == ToolCalls(blocks)
    IN  [i \in DOMAIN calls |-> [type |-> "tool_result", id |-> calls[i].id, text |-> Output]]

\* The answer msg has arrived whole: Claude runs its tools and has their
\* results to send, or it is the user's turn.
Answered(a) ==
    /\ conv' = IF ToolCalls(a.blocks) = <<>> THEN Append(conv, a)
               ELSE conv \o <<a, User(routed, ToolResults(a.blocks))>>
    /\ claude' = IF ToolCalls(a.blocks) = <<>> THEN "idle" ELSE "ready"
    /\ cur' = None

\* The thread h has sent its whole answer, which nobody reads when Claude has
\* given the request up.
Deliver(h, a) ==
    IF cur = h
    THEN /\ Answered(a)
         /\ executed' = executed \cup {[pol |-> a.pol, by |-> a.by, id |-> b.id, call |-> b.call] :
                                       b \in ToSet(ToolCalls(a.blocks))}
    ELSE UNCHANGED <<dialog, executed>>

\* The request Claude waits for has failed: Claude sends it again or the user
\* gives up; of an answer that had begun, Claude may keep what it has.
Fails(h, begun) ==
    IF cur = h
    THEN /\ cur' = None
         /\ \/ claude' \in {"ready", "idle"} /\ conv' = conv
            \/ begun /\ claude' = "idle" /\ Len(conv) < MaxConv
               /\ conv' = Append(conv, Assistant("cut", 0, DefaultPolicy, <<>>))
    ELSE UNCHANGED dialog

WithIds(mid, reply) ==
    [i \in DOMAIN reply |->
        IF reply[i].type = "tool_use"
        THEN [type |-> "tool_use", id |-> <<mid, i>>, call |-> reply[i].call] ELSE reply[i]]

Type(t) ==
    /\ claude = "idle" /\ Len(conv) < MaxConv
    /\ conv' = Append(conv, User(routed, <<TextBlock(Reminder), TextBlock(t)>>))
    /\ claude' = "ready"
    /\ UNCHANGED <<settings, log, cur, hs, msgs, faults, executed>>

\* Past the proxy: the API answers Claude, or the user gives up.
Direct ==
    /\ claude = "ready" /\ ~routed
    /\ \/ /\ msgs < MaxMsg /\ msgs' = msgs + 1
          /\ \E r \in Reply :
                Answered(Assistant("direct", msgs + 1, DefaultPolicy, WithIds(msgs + 1, r)))
       \/ claude' = "idle" /\ UNCHANGED <<conv, cur, msgs>>
    /\ UNCHANGED <<settings, log, hs, faults, executed>>

Send(h) ==
    /\ claude = "ready" /\ routed /\ hs[h].pc = "free"
    /\ hs' = [hs EXCEPT ![h] = [Free EXCEPT !.pc = "request", !.body = conv]]
    /\ cur' = h /\ claude' = "waiting"
    /\ UNCHANGED <<settings, log, conv, msgs, faults, executed>>

\* The user presses escape; the thread goes on.
Esc ==
    /\ claude = "waiting" /\ Fault
    /\ claude' = "idle" /\ cur' = None
    /\ \/ conv' = conv
       \/ /\ hs[cur].pc = "relay" /\ Len(conv) < MaxConv
          /\ conv' = Append(conv, Assistant("cut", 0, DefaultPolicy, <<>>))
    /\ UNCHANGED <<settings, log, hs, msgs, executed>>

\* The proxy is switched on or off between two requests.  What is unanswered
\* when it goes on is what the next request is about.
Toggle ==
    /\ claude = "idle" /\ toggles < MaxToggle
    /\ routed' = ~routed /\ toggles' = toggles + 1
    /\ conv' = IF routed THEN conv
               ELSE [i \in DOMAIN conv |->
                        IF i \in Trailing(conv)
                        THEN [conv[i] EXCEPT !.on = TRUE] ELSE conv[i]]
    /\ UNCHANGED <<log, claude, cur, policy, edits, hs, msgs, faults, executed>>

\* The policy file is edited, or read while it is being written.
EditPolicy ==
    /\ edits < MaxEdit /\ edits' = edits + 1
    /\ policy' \in (Policy \cup {None}) \ {policy}
    /\ UNCHANGED <<dialog, log, routed, toggles, hs, msgs, faults, executed>>

-----------------------------------------------------------------------------
(* apiproxy.py: a handler thread.                                          *)

\* _proxy up to the decision: the policy file is read anew for each request,
\* and an exception while it is applied means no control (apiproxy.py:162).
HandleRequest(h) ==
    /\ hs[h].pc = "request"
    /\ \E p \in {LoadPolicy, DefaultPolicy} :
          /\ IF p = LoadPolicy THEN UNCHANGED faults ELSE Fault
          /\ LET no  == Blocks(p, hs[h].body)
                 evs == EventsFromRequest(hs[h].body, no)
             IN  hs' = [hs EXCEPT ![h] = [@ EXCEPT !.pc = IF no THEN "refuse" ELSE "upstream",
                                                   !.pol = p, !.evs = evs]]
    /\ UNCHANGED <<dialog, settings, log, msgs, executed>>

\* _respond_block_reply: the proxy answers in the model's place.
Refuse(h) ==
    /\ hs[h].pc = "refuse"
    /\ Deliver(h, Assistant("proxy", 0, hs[h].pol, <<TextBlock("cancel")>>))
    /\ hs' = [hs EXCEPT ![h].pc = "log"]
    /\ UNCHANGED <<settings, log, msgs, faults>>

\* No connection: 502 to Claude, nothing logged.
UpstreamFails(h) ==
    /\ hs[h].pc = "upstream" /\ Fault
    /\ Fails(h, FALSE)
    /\ hs' = [hs EXCEPT ![h] = Free]
    /\ UNCHANGED <<settings, log, msgs, executed>>

UpstreamAnswers(h) ==
    /\ hs[h].pc = "upstream"
    /\ \/ /\ msgs < MaxMsg /\ msgs' = msgs + 1 /\ UNCHANGED faults
          /\ \E r \in Reply :
                hs' = [hs EXCEPT ![h] =
                        [@ EXCEPT !.pc = IF hs[h].pol.gate THEN "gate" ELSE "relay", !.body = <<>>,
                                  !.msg = [id |-> msgs + 1, status |-> 200,
                                           blocks |-> WithIds(msgs + 1, r)]]]
       \/ /\ Fault /\ msgs' = msgs
          /\ hs' = [hs EXCEPT ![h] = [@ EXCEPT !.pc = "relay", !.body = <<>>,
                                               !.msg = [NoMsg EXCEPT !.status = 500]]]
    /\ UNCHANGED <<dialog, settings, log, executed>>

\* The relay has come to its end.  The answer is logged after it.
RelayEnds(h) ==
    /\ hs[h].pc = "relay"
    /\ LET m == hs[h].msg
       IN  /\ IF m.status = 200
              THEN Deliver(h, Assistant("model", m.id, hs[h].pol, m.blocks))
              ELSE Fails(h, FALSE) /\ UNCHANGED executed
           /\ hs' = [hs EXCEPT ![h] = [@ EXCEPT !.pc = "log", !.evs = hs[h].evs \o
                        (IF m.status = 200 THEN EventsFromMessage(AssembleSse(Wire(m)), {})
                         ELSE <<>>)]]
    /\ UNCHANGED <<settings, log, msgs, faults>>

\* (Mutant.) What the request had gathered stays with the thread.
BreaksDirty(h) ==
    /\ hs[h].pc = "relay" /\ Fault
    /\ Fails(h, TRUE)
    /\ hs' = [hs EXCEPT ![h].pc = "free"]
    /\ UNCHANGED <<settings, log, msgs, executed>>

\* The connection to upstream, or to Claude, breaks while the answer is
\* relayed: the thread returns and logs nothing, the request neither.
RelayBreaks(h) ==
    /\ hs[h].pc = "relay"
    /\ IF cur = h THEN Fault ELSE UNCHANGED faults
    /\ Fails(h, TRUE)
    /\ hs' = [hs EXCEPT ![h] = Free]
    /\ UNCHANGED <<settings, log, msgs, executed>>

Sight == {"read", "unread", "unmatched"}

\* _gate_response with n events of the stream in the buffer: all of them, or
\* what came before upstream broke off.  The buffer is "read", or it is "unread"
\* or "unmatched" when parsing it (apiproxy.py:315) or matching its calls (321)
\* raises.  An answer with a matching call is replaced by its texts and a notice;
\* any other goes on as it came, and of one that is unread nothing is logged.
Gate(h, n, sees) ==
    /\ hs[h].pc = "gate"
    /\ IF n = Len(Wire(hs[h].msg)) /\ sees = "read" THEN UNCHANGED faults ELSE Fault
    /\ LET m    == hs[h].msg
           p    == hs[h].pol
           seen == AssembleSse(SubSeq(Wire(m), 1, n))
           hits == IF sees = "read" THEN MatchBlockedTools(p, seen.blocks) ELSE {}
           text == FlattenSeq([i \in DOMAIN seen.blocks |->
                      LET b == seen.blocks[i]
                      IN  IF b.type = "text" /\ b.text # EmptyText THEN <<b>> ELSE <<>>])
           by   == IF sees = "read" THEN "model" ELSE sees
           told == IF sees = "unread" THEN <<>>
                   ELSE EventsFromMessage(seen, {seen.blocks[i].call.name : i \in hits})
       IN  /\ IF hits # {}
              THEN Deliver(h, Assistant("gate", 0, p, text \o <<TextBlock("notice")>>))
              ELSE IF n = Len(Wire(m)) THEN Deliver(h, Assistant(by, m.id, p, m.blocks))
              ELSE Fails(h, TRUE) /\ UNCHANGED executed
           /\ hs' = [hs EXCEPT ![h] = [@ EXCEPT !.pc = "log", !.evs = hs[h].evs \o told]]
    /\ UNCHANGED <<settings, log, msgs>>

\* write_events under the lock.  Half a line that an append has left swallows
\* the first line of the next.
Whole(evs) == ToSet(IF torn /\ evs # <<>> THEN Tail(evs) ELSE evs)

Log(h) ==
    /\ hs[h].pc = "log"
    /\ LET evs == hs[h].evs
       IN  \/ /\ spool' = spool \cup Whole(evs) /\ UNCHANGED faults
              /\ lost' = lost \cup (ToSet(evs) \ Whole(evs))
              /\ torn' = (torn /\ evs = <<>>)
           \/ /\ evs # <<>> /\ Fault
              /\ \E n \in 0 .. Len(evs) - 1 :
                    /\ spool' = spool \cup Whole(SubSeq(evs, 1, n))
                    /\ torn' \in {TRUE, torn /\ n = 0}
              /\ lost' = lost \cup ToSet(evs)
    /\ hs' = [hs EXCEPT ![h] = Free]
    /\ UNCHANGED <<dialog, settings, msgs, executed>>

\* The proxy dies and is started again.
Crash ==
    /\ (\E h \in Handler : hs[h].pc # "free") /\ Fault
    /\ hs' = [h \in Handler |-> Free]
    /\ lost' = lost \cup UNION {ToSet(hs[h].evs) : h \in Handler}
    /\ IF cur = None THEN UNCHANGED dialog
       ELSE Fails(cur, hs[cur].pc = "relay")
    /\ UNCHANGED <<settings, spool, torn, msgs, executed>>

-----------------------------------------------------------------------------
Init ==
    /\ conv = <<>> /\ claude = "idle" /\ cur = None
    /\ routed = FALSE /\ policy = None
    /\ hs = [h \in Handler |-> Free]
    /\ spool = {} /\ torn = FALSE
    /\ msgs = 0 /\ toggles = 0 /\ edits = 0 /\ faults = 0
    /\ executed = {} /\ lost = {}

Next ==
    \/ \E t \in Text : Type(t)
    \/ Direct \/ Esc \/ Toggle \/ EditPolicy \/ Crash
    \/ \E h \in Handler :
          \/ Send(h) \/ HandleRequest(h) \/ Refuse(h)
          \/ UpstreamFails(h) \/ UpstreamAnswers(h)
          \/ RelayEnds(h) \/ RelayBreaks(h)
          \/ \E n \in 0 .. Len(Wire(hs[h].msg)), sees \in Sight : Gate(h, n, sees)
          \/ Log(h)

Spec == Init /\ [][Next]_vars

-----------------------------------------------------------------------------
(* Properties                                                              *)

TypeOK ==
    /\ conv \in Conversation
    /\ claude \in {"idle", "ready", "waiting"}
    /\ cur \in Handler \cup {None} /\ (cur # None <=> claude = "waiting")
    /\ routed \in BOOLEAN /\ torn \in BOOLEAN
    /\ policy \in Policy \cup {None}
    /\ hs \in [Handler -> [pc : Pc, body : Conversation, pol : Policies, evs : Seq(LogEvent),
                           msg : [id : Nat, status : Nat, blocks : Seq(AnswerBlock)]]]
    /\ \A h \in Handler : hs[h].pc = "free" <=> hs[h] = Free
    /\ spool \subseteq LogEvent /\ lost \subseteq LogEvent
    /\ executed \subseteq [pol : Policies, by : Writer, id : ToolId, call : Call]
    /\ msgs \in 0 .. MaxMsg /\ toggles \in 0 .. MaxToggle
    /\ edits \in 0 .. MaxEdit /\ faults \in 0 .. MaxFault

Quiet == claude # "waiting" /\ \A h \in Handler : hs[h].pc = "free"

\* The user messages an assistant message answers.
AnsweredBy(j) ==
    {i \in 1 .. j - 1 : \A k \in i .. j - 1 : conv[k].role = "user"}

NewBlocks(j) ==
    {b \in UNION {ToSet(conv[i].blocks) : i \in AnsweredBy(j)} : ~IsContext(b)}

\* The log of the proxy tells nothing of what was typed, or printed by a tool,
\* and answered while the proxy was off (apilog.py:99-100).
OffStaysOff ==
    \A e \in spool :
        e.kind \in {"user_prompt", "tool_result"} =>
            \E i \in DOMAIN conv :
                /\ conv[i].role = "user" /\ conv[i].on
                /\ \E b \in ToSet(conv[i].blocks) : RequestEvent(b, e.blocked) = e

\* An answer of the proxy: the model's, whether the gate could read it or not,
\* or one in its place.
OfProxy(m) ==
    m.role = "assistant" /\ m.by \in {"model", "unread", "unmatched", "gate", "proxy"}

\* Once the threads have ended, the log has all of every exchange that went
\* through the proxy and was answered whole: the prompts and tool results, those
\* of earlier requests that failed included, and the answer, unless the gate could
\* not read it (apilog.py:101).  An answer that broke off is not told, nor is what
\* it answered (apiproxy.py:231).
LogComplete ==
    Quiet =>
        \A j \in {k \in DOMAIN conv : OfProxy(conv[k])} :
            /\ \A b \in NewBlocks(j) :
                  RequestEvent(b, conv[j].by = "proxy") \in spool \cup lost
            /\ conv[j].by \in {"model", "unmatched"} =>
                  \A b \in ToSet(conv[j].blocks) :
                      b.type \in {"text", "tool_use"} =>
                          \E e \in spool \cup lost :
                              /\ e.id[1] = "api" /\ e.id[2] = conv[j].id /\ ~e.blocked
                              /\ IF b.type = "text" THEN e.kind = "assistant_text" /\ e.val = b.text
                                 ELSE e.kind = "tool_use" /\ e.ref = b.id /\ e.val = b.call

\* The proxy refuses exactly the requests whose new input is named by the policy
\* it decided by (no control, when reading or applying the policy failed): a prompt
\* once refused does not refuse the prompts after it (proxypolicy.py:72-75), and no
\* model answers a prompt that policy names.
RefusesTheNew ==
    \A j \in DOMAIN conv :
        OfProxy(conv[j]) =>
            LET p == conv[j].pol
            IN  (conv[j].by = "proxy") <=>
                    p.enabled /\ \E b \in NewBlocks(j) : b.text \in p.block

\* A tool call the policy of the request names is run by Claude only when the gate
\* could not parse or match the answer (it fails open, apiproxy.py:315-322), and a
\* call the log tells as blocked was not run in any case.
GateHolds ==
    /\ \A x \in executed :
          x.pol.gate /\ x.call \in x.pol.tools => x.by \in {"unread", "unmatched"}
    /\ \A e \in spool : e.kind = "tool_use" /\ e.blocked => \A x \in executed : x.id # e.ref

Line(i) == [type |-> conv[i].role, uuid |-> i, blocks |-> conv[i].blocks]

TranscriptRows(opt) == UNION {ToSet(ParseLine(Line(i), opt)) : i \in DOMAIN conv}
SpoolRows(opt) ==
    UNION {ToSet(ParseLine([type |-> "event", event |-> e], opt)) : e \in spool}

\* Two rows of the same event_id, from the transcript and the spool of one
\* session, have the same kind, value and tool call (parser.py:8-10), and are
\* blocked or not alike unless they are prompts: a prompt has the hash of its text
\* for an id, so that one typed twice is one row, and one refused and let through
\* later keeps the row that came first (apilog.py:152-161).
IdsTellApart ==
    Quiet => \A opt \in ParserOptions :
        LET rows == TranscriptRows(opt) \cup SpoolRows(opt)
        IN  /\ \A r, s \in rows :
                  r.id = s.id => r.kind = s.kind /\ r.val = s.val /\ r.ref = s.ref
            /\ \A r, s \in SpoolRows(opt) :
                  r.id = s.id /\ r.kind # "user_prompt" => r.blocked = s.blocked

\* A tool call that Claude ran is told by both logs as it was run, or masked: by the
\* transcript unless masking breaks the JSON of a call on its own line, which is
\* dropped whole (parser.py:88-95); by the spool, unmasked when masking would break
\* it (parser.py:137-141), unless the gate could not read the answer or the event
\* was in an append that failed or a thread that died.
RunsTold ==
    Quiet => \A opt \in ParserOptions : \A x \in executed :
        LET masked == RedactCall(x.call, opt)
            In(rows, call) == \E r \in rows : r.kind = "tool_use" /\ r.ref = x.id /\ r.val = call
            Holds(blocks)  == \E b \in ToSet(blocks) : b.type = "tool_use" /\ b.id = x.id
        IN  /\ \/ In(TranscriptRows(opt), masked)
               \/ \E i \in DOMAIN conv : Holds(conv[i].blocks) /\ Raises(Line(i), opt)
            /\ \/ x.by = "unread"
               \/ In(SpoolRows(opt), IF BreaksJson(x.call.input, opt) THEN x.call ELSE masked)
               \/ \E e \in lost : e.kind = "tool_use" /\ e.ref = x.id /\ e.val = x.call
=============================================================================
