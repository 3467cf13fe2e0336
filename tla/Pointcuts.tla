----------------------------- MODULE Pointcuts -----------------------------
(***************************************************************************)
(* Pointcut matching: opencoat_runtime_core/pointcut, joinpoint/aliases.py *)
(* and the executable view of a concern (opencoat_runtime_protocol/aop.py).*)
(*                                                                         *)
(* A joinpoint is [id, name, level, words, payload]: words is the set of   *)
(* lower-cased words of its text (extract_text), payload a function from   *)
(* the field names it carries.  A pointcut is [joinpoints, match, preds];  *)
(* a match block is a function whose domain is the set of criteria it      *)
(* states, so an absent criterion is a name outside the domain.  A score   *)
(* is an integer from 0 to Unit, which stands for 1.0.  A strategy that    *)
(* raises is a miss: the pipeline's scan catches the exception.            *)
(***************************************************************************)
EXTENDS Aspects, FiniteSets

Unit == 60
Miss == -1
Blank == "blank"        \* a semantic_intent of white space only

clamp01(x) == IF x <= 0 THEN 0 ELSE IF x >= Unit THEN Unit ELSE x

-----------------------------------------------------------------------------
(* joinpoint/aliases.py: dotted v0.1 names and their catalog names.        *)
OPENCLAW_V01_ALIASES ==
  { <<"runtime.start", "runtime_start">>, <<"runtime.shutdown", "runtime_stop">>,
    <<"runtime.tick", "runtime_tick">>, <<"runtime.error", "runtime_error">>,
    <<"runtime.recovery", "runtime_recovery">>, <<"input.received", "on_user_input">>,
    <<"reasoning.before_start", "before_reasoning">>,
    <<"reasoning.after_start", "after_reasoning">>,
    <<"planning.before_start", "before_planning">>,
    <<"planning.after_start", "after_planning">>,
    <<"planning.plan_updated", "after_planning">>,
    <<"command.output_stream", "command.output_stream">>,
    <<"patch.summary_created", "patch.summary_created">>,
    <<"tool.before_call", "before_tool_call">>, <<"tool.after_execute", "after_tool_call">>,
    <<"tool.result.received", "after_tool_call">>,
    <<"prompt.before_build", "before_response">>,
    <<"prompt.before_send_to_model", "before_response">>,
    <<"response.after_final", "after_response">>,
    <<"response.before_final", "before_response">>,
    <<"memory.before_write", "before_memory_write">>,
    <<"memory.after_write", "after_memory_write">>, <<"error.detected", "on_error">>,
    <<"heartbeat.before_run", "on_heartbeat">>, <<"feedback.received", "on_feedback">>,
    <<"concern.after_reinforce", "adviceexecution">>,
    <<"prompt.system.role_definition", "system_prompt.role_definition">>,
    <<"prompt.system.rules", "system_prompt.rules">>,
    <<"prompt.developer.constraints", "developer_prompt.task_constraints">>,
    <<"prompt.user.original_request", "user_prompt.original_request">>,
    <<"prompt.runtime.active_concerns", "runtime_prompt.active_concerns">>,
    <<"prompt.runtime.tool_instructions", "runtime_prompt.tool_instructions">>,
    <<"prompt.runtime.output_format", "runtime_prompt.output_format">>,
    <<"prompt.runtime.verification_rules", "runtime_prompt.verification_rules">> }

canonical_joinpoint_name(name) ==
  LET hits == {p \in OPENCLAW_V01_ALIASES : p[1] = name}
  IN  IF hits = {} THEN name ELSE (CHOOSE p \in hits : TRUE)[2]

joinpoint_names_match(a, b) == canonical_joinpoint_name(a) = canonical_joinpoint_name(b)

-----------------------------------------------------------------------------
(* Values and operators.                                                   *)
Lookup(map, key) == IF key \in DOMAIN map THEN map[key] ELSE None

\* A comparison value is literal, or a reference into the context.
resolve_value(arg, ctx) == IF "ref" \in DOMAIN arg THEN Lookup(ctx, arg.ref) ELSE arg.value

Orderings == {">", ">=", "<", "<="}
Memberships == {"in", "not_in"}
CONTEXT_OPERATORS == {"==", "!="} \cup Orderings \cup Memberships
STRUCTURE_OPERATORS == CONTEXT_OPERATORS \cup {"contains"}

apply_operator(op, target, compare) ==
  CASE op = "=="       -> target = compare
    [] op = "!="       -> target # compare
    [] op = ">"        -> target > compare
    [] op = ">="       -> target >= compare
    [] op = "<"        -> target < compare
    [] op = "<="       -> target <= compare
    [] op = "in"       -> target \in compare
    [] op = "not_in"   -> target \notin compare
    [] op = "contains" -> compare \in target

-----------------------------------------------------------------------------
(* The strategies: each yields Miss or a score.                            *)
Hit(cond) == IF cond THEN Unit ELSE Miss

\* any_keywords and all_keywords are one strategy: the score is the share of
\* the supplied keywords that the text holds.
keyword(anyKw, allKw, jp) ==
  LET found == Cardinality(anyKw \cap jp.words) + Cardinality(allKw \cap jp.words)
      total == Cardinality(anyKw) + Cardinality(allKw)
  IN  IF /\ jp.words # {}
         /\ anyKw # {} => anyKw \cap jp.words # {}
         /\ allKw \subseteq jp.words
      THEN (found * Unit) \div total
      ELSE Miss

regex(wordsMatched, jp) == Hit(wordsMatched \cap jp.words # {})

semantic(intent, jp) == Hit(intent # Blank /\ intent \in jp.words)

structure(arg, jp, ctx) ==
  LET target  == Lookup(jp.payload, arg.field)
      compare == resolve_value(arg, ctx)
  IN  Hit(/\ arg.op \in STRUCTURE_OPERATORS
          /\ target # None
          /\ compare # None
          /\ apply_operator(arg.op, target, compare))

\* The context is read first, the payload only when the context has no value.
ContextThenPayload(key, jp, ctx) ==
  IF key \in DOMAIN ctx THEN ctx[key] ELSE Lookup(jp.payload, key)

confidence(arg, jp, ctx) ==
  LET v == ContextThenPayload("confidence", jp, ctx)
  IN  Hit(arg.op \in Orderings /\ v # None /\ apply_operator(arg.op, v, arg.threshold))

LEVELS == [low |-> 0, medium |-> 1, high |-> 2, critical |-> 3]

risk(arg, jp, ctx) ==
  LET v == ContextThenPayload("risk_level", jp, ctx)
  IN  Hit(/\ arg.op \in {"==", ">=", "<="}
          /\ arg.level \in DOMAIN LEVELS
          /\ v \in DOMAIN LEVELS
          /\ apply_operator(arg.op, LEVELS[v], LEVELS[arg.level]))

claim(arg, jp) ==
  Hit(/\ DOMAIN arg \cap {"type", "evidence"} # {}
      /\ "claims" \in DOMAIN jp.payload
      /\ \E c \in jp.payload.claims : \A k \in DOMAIN arg : c[k] = arg[k])

\* history keys and the context value each is compared with; an unknown key
\* fails the whole predicate.
HistoryOp == [activated_in_last_n_turns |-> <<"turns_since_activation", "<=">>,
              min_activations           |-> <<"total_activations", ">=">>,
              min_satisfied_ratio       |-> <<"satisfied_ratio", ">=">>]

history(arg, ctx) ==
  Hit(/\ DOMAIN arg # {}
      /\ DOMAIN arg \subseteq DOMAIN HistoryOp
      /\ \A k \in DOMAIN arg :
           LET v == Lookup(ctx, HistoryOp[k][1])
           IN  v # None /\ apply_operator(HistoryOp[k][2], v, arg[k]))

-----------------------------------------------------------------------------
(* The matcher.                                                            *)
match_block_is_executable(block) ==
  \E k \in DOMAIN block : /\ k \in {"any", "all"} => block[k] # {}
                          /\ k = "intent" => block[k] # Blank

Keywords(block, k) == IF k \in DOMAIN block THEN block[k] ELSE {}

\* The scores of the strategies a match block runs.
BlockScores(block, jp, ctx) ==
  LET Score(k) == CASE k \in {"any", "all"} ->
                         keyword(Keywords(block, "any"), Keywords(block, "all"), jp)
                    [] k = "regex"      -> regex(block[k], jp)
                    [] k = "intent"     -> semantic(block[k], jp)
                    [] k = "structure"  -> structure(block[k], jp, ctx)
                    [] k = "confidence" -> confidence(block[k], jp, ctx)
                    [] k = "risk"       -> risk(block[k], jp, ctx)
                    [] k = "claim"      -> claim(block[k], jp)
                    [] k = "history"    -> history(block[k], ctx)
      Run == {k \in DOMAIN block : k \in {"any", "all"} => block[k] # {}}
  IN  {Score(k) : k \in Run}

\* A selector names the attributes it constrains; level, name, path, text...
_selector_matches(sel, jp) ==
  /\ "level" \in DOMAIN sel => jp.level = sel.level
  /\ "name" \in DOMAIN sel => jp.name = sel.name
  /\ "path" \in DOMAIN sel =>
       sel.path = (IF "path" \in DOMAIN jp.payload THEN jp.payload.path ELSE jp.name)
  /\ \A k \in {"semantic_type", "field"} \cap DOMAIN sel : Lookup(jp.payload, k) = sel[k]
  /\ "match" \in DOMAIN sel /\ sel.match # {} => sel.match \cap jp.words # {}

_joinpoint_passes(pc, jp) ==
  \/ pc.joinpoints = {} /\ pc.selectors = {}
  \/ \E n \in pc.joinpoints : joinpoint_names_match(n, jp.name)
  \/ \E sel \in pc.selectors : _selector_matches(sel, jp)

_evaluate_context_predicates(preds, ctx) ==
  \A p \in preds : LET target  == Lookup(ctx, p.key)
                       compare == resolve_value(p, ctx)
                   IN  /\ p.op \in CONTEXT_OPERATORS
                       /\ target # None
                       /\ compare # None
                       /\ apply_operator(p.op, target, compare)

\* Names and selectors are kept apart from the start; an invalid regex, on which compile
\* raises, is left out.
compile(pointcut) ==
  [source |-> pointcut,
   has_match_block |-> pointcut.match # None /\ match_block_is_executable(pointcut.match),
   has_context_predicates |-> pointcut.preds # {}]

\* A block that states nothing is inert: the pointcut matches nothing, unless
\* it has context predicates.  A pointcut without a block is a bare joinpoint
\* filter, and matches with score Unit.
match_compiled(compiled, jp, ctx) ==
  LET source == compiled.source
      scores == IF compiled.has_match_block THEN BlockScores(source.match, jp, ctx) ELSE {}
  IN  IF \/ ~_joinpoint_passes(source, jp)
         \/ source.match # None /\ ~compiled.has_match_block /\ ~compiled.has_context_predicates
         \/ Miss \in scores
         \/ ~_evaluate_context_predicates(source.preds, ctx)
      THEN Miss
      ELSE Min(scores \cup {Unit})

match(pointcut, jp, ctx) == match_compiled(compile(pointcut), jp, ctx)

=============================================================================
