------------------------------- MODULE Parser -------------------------------
(***************************************************************************)
(* parser.py: one line of a transcript, or of a spool, becomes a sequence  *)
(* of events.  A line is [type, uuid, blocks], or [type |-> "event", event]*)
(* for a line another part of the collector has already normalised, or     *)
(* [type |-> "junk"] for text that is no JSON object.  A block is          *)
(*   [type |-> "text" | "thinking", text]   [type |-> "tool_use", id, call]*)
(*   [type |-> "tool_result", id, text].                                   *)
(* opt is the part of the configuration the parser is built with.          *)
(***************************************************************************)
EXTENDS Naturals, Sequences, SequencesExt

CONSTANTS
    Secret,     \* the values (texts, tool inputs) _REDACT_PATTERNS match
    SecretAtEnd \* those of them that end in key=value

ParserOptions == [store_thinking : BOOLEAN, redact : BOOLEAN]

\* The blocks of some types, in their order.
OfType(blocks, types) ==
    FlattenSeq([i \in DOMAIN blocks |->
                   IF blocks[i].type \in types THEN <<blocks[i]>> ELSE <<>>])

\* _redact replaces the secret and, as \S+ reaches to the next blank, the quote
\* that closes a JSON string after it: harmless in a text, fatal in JSON.
Redact(v, opt) == IF opt.redact /\ v \in Secret THEN "[REDACTED]" ELSE v
BreaksJson(v, opt) == opt.redact /\ v \in SecretAtEnd

RedactCall(call, opt) == [call EXCEPT !.input = Redact(@, opt)]

\* (Mutant.) The events of a line share its uuid.
LineId(uuid, total, i) == <<"line", uuid>>

\* _event_id: one event of a line keeps the line's uuid, several get an index.
EventId(uuid, total, i) == IF total <= 1 THEN <<"line", uuid>> ELSE <<"line", uuid, i>>

Finalize(uuid, events) ==
    [i \in DOMAIN events |->
        [id |-> EventId(uuid, Len(events), i),
         kind |-> events[i].kind, val |-> events[i].val, ref |-> events[i].ref]]

\* _from_assistant, _tool_use_event.
AssistantEvent(b, opt) ==
    CASE b.type = "tool_use" -> [kind |-> "tool_use", val |-> RedactCall(b.call, opt), ref |-> b.id]
      [] b.type = "text"     -> [kind |-> "assistant_text", val |-> Redact(b.text, opt), ref |-> <<>>]
      [] b.type = "thinking" -> [kind |-> "assistant_thinking", val |-> b.text, ref |-> <<>>]

FromAssistant(blocks, opt) ==
    LET known == {"tool_use", "text"} \cup (IF opt.store_thinking THEN {"thinking"} ELSE {})
        kept  == OfType(blocks, known)
    IN  [i \in DOMAIN kept |-> AssistantEvent(kept[i], opt)]

\* _from_user.
UserEvent(b, opt) ==
    IF b.type = "tool_result"
    THEN [kind |-> "tool_result", val |-> Redact(b.text, opt), ref |-> b.id]
    ELSE [kind |-> "user_prompt", val |-> Redact(b.text, opt), ref |-> <<>>]

FromUser(blocks, opt) ==
    LET kept == OfType(blocks, {"text", "tool_result"})
    IN  [i \in DOMAIN kept |-> UserEvent(kept[i], opt)]

\* (Mutant.) A payload that masking would break is dropped.
PassthroughOrNothing(event, opt) ==
    LET use == event.kind = "tool_use"
    IN  IF BreaksJson(IF use THEN event.val.input ELSE event.val, opt) THEN <<>>
        ELSE <<[event EXCEPT !.val = IF use THEN RedactCall(@, opt) ELSE Redact(@, opt)]>>

\* _passthrough: a payload that masking would break is kept as it is.
Passthrough(event, opt) ==
    LET use == event.kind = "tool_use"
    IN  IF BreaksJson(IF use THEN event.val.input ELSE event.val, opt) THEN <<event>>
        ELSE <<[event EXCEPT !.val = IF use THEN RedactCall(@, opt) ELSE Redact(@, opt)]>>

\* parse_line: an exception of one block (a tool input that masking breaks)
\* is swallowed with the whole line.
Raises(line, opt) ==
    \E i \in DOMAIN line.blocks :
        line.blocks[i].type = "tool_use" /\ BreaksJson(line.blocks[i].call.input, opt)

ParseLine(line, opt) ==
    CASE line.type = "event" -> Passthrough(line.event, opt)
      [] line.type = "assistant" /\ ~Raises(line, opt) ->
             Finalize(line.uuid, FromAssistant(line.blocks, opt))
      [] line.type = "user" -> Finalize(line.uuid, FromUser(line.blocks, opt))
      [] OTHER -> <<>>
=============================================================================
