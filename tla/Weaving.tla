------------------------------ MODULE Weaving ------------------------------
(***************************************************************************)
(* From active concerns to injection rows: the advice generator            *)
(* (opencoat_runtime_core/advice), the weaver with its own token budget,   *)
(* and the merge of the injections of one host surface                     *)
(* (opencoat_runtime_core/weaving).  Text is its length in characters; a   *)
(* body that is cut carries `space`, the last blank before its cap.        *)
(***************************************************************************)
EXTENDS Selection

CONSTANT TemplateChars      \* length of a rendered advice template

PromptTypes == {"reasoning_guidance", "planning_guidance", "decision_guidance",
                "suppress_instruction", "escalation_notice"}

DEFAULT_MODE(type) ==
  CASE type \in {"tool_guard", "memory_write_guard"} -> "block"
    [] type = "decision_guidance"    -> "annotate"
    [] type = "verification_rule"    -> "verify"
    [] type = "rewrite_guidance"     -> "rewrite"
    [] type = "suppress_instruction" -> "suppress"
    [] type = "escalation_notice"    -> "escalate"
    [] OTHER                         -> "insert"

DEFAULT_LEVEL(type) ==
  CASE type = "tool_guard"         -> "tool_level"
    [] type = "memory_write_guard" -> "memory_level"
    [] type = "verification_rule"  -> "verification_level"
    [] type = "reflection_prompt"  -> "reflection_level"
    [] type \in {"response_requirement", "rewrite_guidance"} -> "output_level"
    [] type \in PromptTypes        -> "prompt_level"

DEFAULT_TARGET(type) ==
  CASE type = "reasoning_guidance"   -> "runtime_prompt.reasoning_guidance"
    [] type = "tool_guard"           -> "tool_call.arguments.*"
    [] type = "response_requirement" -> "runtime_prompt.output_format"
    [] type = "verification_rule"    -> "runtime_prompt.verification_rules"
    [] type = "memory_write_guard"   -> "memory_write.*"
    [] type = "reflection_prompt"    -> "runtime_prompt.reflection_prompt"
    [] type = "rewrite_guidance"     -> "response.text"
    [] OTHER                         -> "runtime_prompt.active_concerns"

-----------------------------------------------------------------------------
(* advice/generator.py: the legacy advice field, else a template.  Both    *)
(* types that can be inferred have a template and its text is never empty, *)
(* so the LLM fallback behind it is not reached.                           *)
_infer_type(c) ==
  IF /\ c.policy # None
     /\ c.policy.target \in {"runtime_prompt.verification_rules", "verification"}
  THEN "verification_rule" ELSE "reasoning_guidance"

generate(c) ==
  IF c.advice # None THEN c.advice
  ELSE [type |-> _infer_type(c), chars |-> TemplateChars, space |-> 0, rationale |-> 0,
        max |-> None]

-----------------------------------------------------------------------------
(* weaving/weaver.py                                                       *)
DefaultPolicy == [mode |-> None, level |-> None, target |-> None,
                  max |-> 200, priority |-> Unit \div 2]

\* Cut at the last blank if that keeps more than half, and an ellipsis added.
_truncate(advice, policy) ==
  LET cap     == IF advice.max = None THEN policy.max ELSE Min({policy.max, advice.max})
      charCap == Max({4 * cap, 1})
      cut     == IF advice.space <= charCap \div 2 THEN charCap ELSE advice.space
  IN  IF advice.chars <= charCap THEN advice.chars ELSE cut + 1

_render_one(active, c, advice) ==
  LET policy == IF primary_weaving(c) = None THEN DefaultPolicy ELSE primary_weaving(c)
      Or(x, y) == IF x = None THEN y ELSE x
  IN  [cid      |-> c.id,
       type     |-> advice.type,
       target   |-> Or(policy.target, DEFAULT_TARGET(advice.type)),
       mode     |-> Or(policy.mode, DEFAULT_MODE(advice.type)),
       level    |-> Or(policy.level, DEFAULT_LEVEL(advice.type)),
       chars    |-> _truncate(advice, policy),
       score    |-> active.score,
       priority |-> Or(active.priority, policy.priority)]

_token_cost(row) == CeilDiv4(row.chars)

\* One row per concern, so concerns and rows are counted alike.
_enforce_budget(ordered) ==
  FittingPrefix(ordered, [i \in DOMAIN ordered |-> _token_cost(ordered[i])],
                MaxActive, MaxTokens)

\* Active concerns without a candidate, without advice or with empty advice
\* give no row; the rest go by score, then priority, then rank.
build(actives, concerns, advices) ==
  LET usable == SelectSeq(actives, LAMBDA a : /\ a.cid \in DOMAIN concerns
                                              /\ a.cid \in DOMAIN advices
                                              /\ advices[a.cid].chars > 0)
      rows   == [i \in DOMAIN usable |->
                   _render_one(usable[i], concerns[usable[i].cid], advices[usable[i].cid])]
      Before(r, q) == r.score > q.score \/ (r.score = q.score /\ r.priority > q.priority)
  IN  _enforce_budget(StableSort(rows, Before))

-----------------------------------------------------------------------------
(* weaving/merge.py: rows one after the other, a later row replacing the   *)
(* earlier one with its concern and target; no rows at all is None.        *)
merge_injections(a, b) ==
  LET rowsOf(x) == IF x = None THEN <<>> ELSE x
      Add(acc, r) == Append(SelectSeq(acc, LAMBDA q : <<q.cid, q.target>> # <<r.cid, r.target>>), r)
      rows == FoldLeft(Add, <<>>, rowsOf(a) \o rowsOf(b))
  IN  IF rows = <<>> THEN None ELSE rows
=============================================================================
