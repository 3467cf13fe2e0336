------------------------------ MODULE Authoring ------------------------------
(***************************************************************************)
(* Concerns made from text: the extractor, the builder and its activation  *)
(* templates, and the choice of chat text                                  *)
(* (opencoat_runtime_core/concern/extractor.py, builder.py,                *)
(* builder_templates.py, chat_extract.py).                                 *)
(*                                                                         *)
(* A text to extract from is a sequence of pieces (paragraphs and list     *)
(* items) [chars, reply]: reply is what the LLM answers to the piece when  *)
(* it is asked, an error, something that is no object, the empty object,   *)
(* or an object [c, id, valid] whose fields make the concern c.  gtype is  *)
(* the set of template needles the generated type contains; a tag contains *)
(* the needle it is.                                                       *)
(***************************************************************************)
EXTENDS ConcernStores

CONSTANTS Minted,               \* the SHA-1 id of <<origin, ref, name>>
          MaxConcernsPerCall,   \* max_concerns_per_call
          MinSpanChars,         \* min_span_chars
          KeywordLimit,         \* activation_keywords' limit
          MinMessageChars       \* extract_min_message_chars

-----------------------------------------------------------------------------
(* extractor.py                                                            *)
_ORIGIN_INSTRUCTIONS == {"manual_import", "intent_alignment", "user_input", "tool_result",
                         "draft_output", "feedback"}

_DEFAULT_TRUST_BY_ORIGIN ==
  [manual_import |-> 57, intent_alignment |-> 54, user_input |-> 42, tool_result |-> 36,
   feedback |-> 33, draft_output |-> 24]

_mint_id(origin, ref, name) == Minted[<<origin, ref, name>>]

_segment_spans(text) == SelectSeq(text, LAMBDA p : p.chars >= MinSpanChars)

\* A non-empty id of the model is kept, the source is always overwritten.
_stamp(reply, origin, ref) ==
  [reply.c EXCEPT !.id = IF reply.id # None THEN reply.id ELSE _mint_id(origin, ref, reply.c.name),
                  !.origin = origin,
                  !.trust = _DEFAULT_TRUST_BY_ORIGIN[origin]]

\* Span by span until the cap: the empty object is skipped in silence, any
\* other failure and a repeated (name, type) is a rejection.
_extract(text, origin, ref) ==
  LET Key(c) == <<c.name, c.gtype>>
      Step(acc, p) ==
        LET c == _sync_aop_executable_shape(_stamp(p.reply, origin, ref))
        IN  CASE Len(acc.candidates) >= MaxConcernsPerCall -> acc
              [] p.reply.kind = "empty" -> acc
              [] p.reply.kind \in {"error", "not_object"} \/ ~p.reply.valid ->
                   [acc EXCEPT !.rejected = @ + 1]
              [] \E d \in ToSet(acc.candidates) : Key(d) = Key(c) ->
                   [acc EXCEPT !.rejected = @ + 1]
              [] OTHER -> [acc EXCEPT !.candidates = Append(@, c)]
  IN  FoldLeft(Step, [candidates |-> <<>>, rejected |-> 0], _segment_spans(text))

\* The by-origin entry point: None for an origin it has no instruction for (ValueError).
\* The methods named after an origin, extract_from_user_input and so on, fix it.
extract(text, origin, ref) ==
  IF origin \in _ORIGIN_INSTRUCTIONS THEN _extract(text, origin, ref) ELSE None

-----------------------------------------------------------------------------
(* builder_templates.py                                                    *)
Rule(needle, type, jps, priority) ==
  [needle |-> needle, type |-> type, joinpoints |-> jps, priority |-> priority]

_TYPE_RULES == <<
  Rule("tool", "tool_guard", {"before_tool_call"}, 57),
  Rule("memory", "memory_write_guard", {"before_memory_write"}, 51),
  Rule("safety", "tool_guard", {"before_response", "on_user_input"}, 57),
  Rule("risk", "tool_guard", {"before_response", "before_tool_call"}, 54),
  Rule("malware", "tool_guard", {"before_response"}, 60),
  Rule("forbid", "tool_guard", {"before_response", "before_tool_call"}, 57),
  Rule("block", "tool_guard", {"before_tool_call", "before_response"}, 54),
  Rule("verify", "verification_rule", {"before_response", "after_response"}, 54),
  Rule("citation", "verification_rule", {"before_response"}, 51),
  Rule("cite", "verification_rule", {"before_response"}, 51),
  Rule("source", "verification_rule", {"before_response"}, 48),
  Rule("reason", "reasoning_guidance", {"before_reasoning", "before_planning"}, 42),
  Rule("plan", "planning_guidance", {"before_planning"}, 42),
  Rule("persona", "response_requirement", {"before_reasoning", "runtime_start"}, 45),
  Rule("role", "response_requirement", {"before_reasoning"}, 45),
  Rule("style", "response_requirement", {"before_response"}, 42),
  Rule("preference", "response_requirement", {"on_user_input", "before_response"}, 39),
  Rule("constraint", "response_requirement", {"before_response", "on_user_input"}, 45),
  Rule("feedback", "response_requirement", {"on_feedback"}, 42),
  Rule("policy", "response_requirement", {"on_user_input", "before_response"}, 48) >>

Authoritative == {"manual_import", "host_explicit_plan", "intent_alignment", "system_default"}

_origin_joinpoints(origin, defaults) ==
  CASE origin = "tool_result"    -> defaults \cup {"before_tool_call"}
    [] origin \in Authoritative  -> defaults \cup {"on_user_input", "before_tool_call"}
    [] OTHER                     -> defaults

\* The type decides, then the tags in order, then the origin.
resolve_activation(c) ==
  LET sources == <<c.gtype>> \o [i \in DOMAIN c.tags |-> {c.tags[i]}]
      hits    == FlattenSeq([i \in DOMAIN sources |->
                   SelectSeq(_TYPE_RULES, LAMBDA r : r.needle \in sources[i])])
      default == {"before_response", "on_user_input"}
      Found(type, jps, priority) == [type |-> type, joinpoints |-> jps, priority |-> priority]
  IN  CASE hits # <<>> -> Found(hits[1].type, _origin_joinpoints(c.origin, hits[1].joinpoints),
                                hits[1].priority)
        [] hits = <<>> /\ c.origin = "tool_result" ->
             Found("tool_guard", {"before_tool_call", "before_response"}, 51)
        [] hits = <<>> /\ c.origin = "feedback" ->
             Found("response_requirement", {"on_feedback", "before_response"}, 42)
        [] OTHER -> Found("response_requirement", _origin_joinpoints(c.origin, default), 42)

Stopwords == {"rule", "concern", "when", "your"}

activation_keywords(c) ==
  LET words == SelectSeq(c.tags \o <<c.name>> \o c.desc, LAMBDA w : w \notin Stopwords)
      fresh == FoldLeft(LAMBDA acc, w : IF w \in ToSet(acc) THEN acc ELSE Append(acc, w),
                        <<>>, words)
  IN  ToSet(SubSeq(fresh, 1, Min({Len(fresh), KeywordLimit})))

-----------------------------------------------------------------------------
(* builder.py                                                              *)
_default_advice(c, type) ==
  [type |-> type, chars |-> c.bodyChars, space |-> 0, rationale |-> 0, max |-> None]

\* Only what is missing is filled in; a complete concern is returned as it is,
\* its lifecycle state included.
enrich(c) ==
  LET r    == resolve_activation(c)
      kw   == activation_keywords(c)
      made == [joinpoints |-> r.joinpoints, selectors |-> {}, preds |-> {},
               match |-> IF kw = {} THEN None ELSE [any |-> kw]]
      type == IF c.advice = None THEN r.type ELSE c.advice.type
  IN  IF c.pointcut # None /\ c.advice # None /\ c.policy # None THEN c
      ELSE [c EXCEPT
              !.pointcut = CASE c.pointcut = None -> made
                             [] c.pointcut # None /\ c.pointcut.match = None
                                  /\ c.pointcut.preds = {} /\ c.pointcut.joinpoints = {} ->
                                  [made EXCEPT !.selectors = c.pointcut.selectors]
                             [] OTHER -> IF c.pointcut.joinpoints = {}
                                         THEN [c.pointcut EXCEPT !.joinpoints = r.joinpoints]
                                         ELSE c.pointcut,
              !.advice = IF c.advice = None THEN _default_advice(c, r.type) ELSE @,
              !.policy = IF c.policy # None THEN @
                         ELSE [mode |-> DEFAULT_MODE(type), level |-> DEFAULT_LEVEL(type),
                               target |-> DEFAULT_TARGET(type), max |-> 200,
                               priority |-> r.priority],
              !.state = IF @ = "created" THEN "active" ELSE @]

merge_fresh_policy(existing, fresh) ==
  [fresh EXCEPT !.relations = existing.relations,
                !.pointcut = IF existing.pointcut = None THEN @ ELSE existing.pointcut,
                !.state = IF existing.state \in {"created", "deleted"} THEN @ ELSE existing.state]

\* What the store holds wins over the fresh extract, field by field; name,
\* description, tags and the AOP lists are the fresh ones.
_merge_preserve_customizations(existing, fresh) ==
  LET Kept(old, new) == IF old = None THEN new ELSE old
  IN  [fresh EXCEPT !.relations = existing.relations,
                    !.pointcut = Kept(existing.pointcut, @),
                    !.advice = Kept(existing.advice, @),
                    !.policy = Kept(existing.policy, @),
                    !.state = IF existing.state \in {"created", "deleted"} THEN @ ELSE existing.state]

Merged(existing, candidate) ==
  IF existing = None THEN enrich(candidate)
  ELSE _merge_preserve_customizations(existing, enrich(candidate))

-----------------------------------------------------------------------------
(* chat_extract.py: the last three user messages, else the joinpoint's own *)
(* text; only for the joinpoints that carry user input.                    *)
USER_INPUT_JOINPOINT_NAMES == {"on_user_input", "user_message"}

chat_text_for_extraction(jp) ==
  LET messages == Lookup(jp.payload, "messages")
      user == IF messages = None THEN <<>>
              ELSE SelectSeq(messages, LAMBDA m : m.role = "user" /\ m.pieces # <<>>)
      tail == SubSeq(user, Max({1, Len(user) - 2}), Len(user))
      own  == Lookup(jp.payload, "pieces")
  IN  CASE jp.name \notin USER_INPUT_JOINPOINT_NAMES -> <<>>
        [] jp.name \in USER_INPUT_JOINPOINT_NAMES /\ user # <<>> ->
             FlattenSeq([i \in DOMAIN tail |-> tail[i].pieces])
        [] OTHER -> IF own = None THEN <<>> ELSE own

\* What joinpoint.submit extracts from before it weaves.
ChatToExtract(jp, forced, auto) ==
  LET text  == chat_text_for_extraction(jp)
      chars == FoldLeft(LAMBDA n, p : n + p.chars, 0, text)
  IN  IF (forced \/ auto.chatExtract) /\ chars >= MinMessageChars THEN text ELSE <<>>
=============================================================================
