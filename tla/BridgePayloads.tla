-------------------------- MODULE BridgePayloads --------------------------
(***************************************************************************)
(* What the TypeScript bridge sends and mediates: the joinpoint payloads   *)
(* built from host events (messages.ts, payloads.ts, buildPayloadForHook), *)
(* the text of agent messages (message-text.ts) and the actions put before *)
(* the reflex monitor (reflex-tool-guard.ts, reflex-policies.ts).          *)
(***************************************************************************)
EXTENDS ReflexPolicies

CONSTANT MaxMessages            \* the 64 of normalizeMessages

Words(seq) == UNION ToSet(seq)

-----------------------------------------------------------------------------
(* messages.ts.  A chat message is [role, content, text, raw, sections]:   *)
(* the three bodies are sequences of the parts' word sets, a section is    *)
(* [path, words] and its path is a word.                                   *)
VALID_ROLES == {"system", "developer", "user", "assistant", "tool", "memory",
                "retrieved_context"}

parseSections(sections) == SelectSeq(sections, LAMBDA s : s.path # None)

textFromSections(sections) ==
  UNION {IF s.words = {} THEN {s.path} ELSE s.words : s \in ToSet(sections)}

\* The first of the three bodies that has words.
textFromMessage(m) ==
  IF Words(m.content) # {} THEN Words(m.content)
  ELSE IF Words(m.text) # {} THEN Words(m.text) ELSE Words(m.raw)

normalizeMessage(m) ==
  LET sections == parseSections(m.sections)
      own      == textFromMessage(m)
  IN  [role |-> IF m.role \in VALID_ROLES THEN m.role ELSE "user",
       text |-> IF own = {} THEN textFromSections(sections) ELSE own,
       sections |-> sections]

normalizeMessages(messages) ==
  LET first == IF Len(messages) > MaxMessages THEN Len(messages) - MaxMessages + 1 ELSE 1
      norm  == [i \in 1..Len(messages) - first + 1 |-> normalizeMessage(messages[i + first - 1])]
  IN  SelectSeq(norm, LAMBDA m : m.text # {} \/ m.sections # <<>>)

messagesToText(norm) == UNION {m.text \cup textFromSections(m.sections) : m \in ToSet(norm)}

promptPayload(part, messages) ==
  LET norm == normalizeMessages(messages)
      text == part \cup messagesToText(norm)
  IN  [text |-> text, content |-> text, messages |-> {m.text : m \in ToSet(norm)}]

-----------------------------------------------------------------------------
(* payloads.ts.  A host event is [words, cut, opaque, fields, ...]: its    *)
(* words within the first 12 000 characters of its JSON, the words past    *)
(* them, whether JSON.stringify refuses one of its values, and the words   *)
(* of the fields that the payload also carries on their own.               *)
safeJson(ev) == IF ev.opaque THEN {} ELSE ev.words

TextPayload(words, fields) == [text |-> words, content |-> words, fields |-> fields]

passThroughPayload(ev) == TextPayload(safeJson(ev), ev.words \cup ev.cut)

\* The one payload that is serialised without a fallback: it throws on an opaque
\* event, before handleHook's try.
toolCallPayload(ev) == TextPayload(ev.words \cup ev.cut \cup {ev.tool}, {})

toolResultPayload(ev) == TextPayload(safeJson(ev), {ev.tool})
queuePayload(ev) == TextPayload(safeJson(ev), ev.fields)
subagentPayload(ev) == TextPayload(safeJson(ev), ev.fields)
compactionPayload(ev) == TextPayload(safeJson(ev), {})
llmPayload(ev) == TextPayload(safeJson(ev), {})
textPayload(word) == TextPayload({word}, {})

\* Whether the payload can be serialised again, for the monitor or the daemon: the
\* payloads that carry values of the event cannot when the event cannot.
Carries(hook) == hook \notin {"message_received", "message_sending", "before_prompt_build",
                              "after_tool_call", "before_compaction", "after_compaction",
                              "llm_input", "llm_output", "session_start", "session_end",
                              "gateway_start", "gateway_stop", "before_reset"}
Serialises(hook, ev) == ev.opaque => ~Carries(hook)

UserMessage(words) ==
  [role |-> "user", content |-> <<words>>, text |-> <<>>, raw |-> <<>>, sections |-> <<>>]

buildPayloadForHook(hook, ev) ==
  CASE hook \in {"message_received", "message_sending"} ->
         promptPayload(ev.words, IF ev.words = {} THEN <<>> ELSE <<UserMessage(ev.words)>>)
    [] hook = "before_prompt_build" -> promptPayload(ev.words, ev.messages)
    [] hook = "before_tool_call"    -> toolCallPayload(ev)
    [] hook = "after_tool_call"     -> toolResultPayload(ev)
    [] hook \in {"queue_before_enqueue", "queue_after_enqueue"} -> queuePayload(ev)
    [] hook \in {"before_compaction", "after_compaction"} -> compactionPayload(ev)
    [] hook \in {"llm_input", "llm_output"} -> llmPayload(ev)
    [] hook \in {"subagent_spawning", "subagent_delivery_target", "subagent_spawned",
                 "subagent_ended"} -> subagentPayload(ev)
    [] hook \in {"session_start", "session_end", "gateway_start", "gateway_stop",
                 "before_reset"} -> textPayload(hook)
    [] OTHER -> passThroughPayload(ev)

-----------------------------------------------------------------------------
(* message-text.ts.  An agent message is None (not an object) or           *)
(* [role, shape, parts]: shape "string", "array" or "other"; a part is a   *)
(* sequence of words or None (an image, a tool use).  "string" has one.    *)
TextPart(part) == part # None

extractAgentMessageText(m) ==
  IF m = None \/ m.shape = "other" THEN <<>> ELSE FlattenSeq(SelectSeq(m.parts, TextPart))

applyAgentMessageContent(m, new) ==
  LET first == SelectInSeq(m.parts, TextPart)
      Part(i) == IF m.parts[i] = None THEN None ELSE IF i = first THEN new ELSE <<>>
  IN  IF m = None THEN m
      ELSE IF m.shape # "array" THEN [m EXCEPT !.shape = "string", !.parts = <<new>>]
      ELSE IF first = 0 THEN [m EXCEPT !.parts = <<new>> \o @]
      ELSE [m EXCEPT !.parts = [i \in DOMAIN @ |-> Part(i)]]

-----------------------------------------------------------------------------
(* reflex-tool-guard.ts and reflex-policies.ts: the actions put before the *)
(* monitor.                                                                *)
Action(kind, name, args) == [kind |-> kind, name |-> name, args |-> args, form |-> "json"]

\* The caller has serialised the parameters already, so they are not circular.
buildToolCallAction(ev) == Action("tool_call", ev.tool, [params |-> ev.words \cup ev.cut])

buildMemoryWriteAction(m) ==
  LET text == ToSet(extractAgentMessageText(m))
      role == IF m = None \/ m.role = None THEN "message" ELSE m.role
  IN  Action("memory_write", role, [text |-> text, content |-> text, role |-> {role}])

buildPayloadAction(kind, payload) ==
  Action(kind, kind, [f \in DOMAIN payload \ {"messages"} |-> payload[f]])

ToolResultAction(m, tool) ==
  LET text == ToSet(extractAgentMessageText(m))
  IN  Action("tool_result_persist", "tool_result_persist",
             [text |-> text, content |-> text, toolName |-> {tool}])

\* The content of a rewritten action.
RewriteText(d) == SetToSeq(d.action.args["content"])
=============================================================================
