-------------------------- MODULE ReflexPolicies --------------------------
(***************************************************************************)
(* Reflex policies: their export from the concern store                    *)
(* (concern/reflex_policy_export.py), the bridge's parser, compiler and    *)
(* monitor (reflex-policy-spec.ts, reflex-policies.ts, reflex-monitor.ts,  *)
(* reflex-policy-sync.ts) and the kernel's own copy of that monitor        *)
(* (effector/reflex_monitor.py).                                           *)
(*                                                                         *)
(* Text is a set of words and a needle is a word, so a substring test is   *)
(* membership.  A target "tool_call.arguments" is the path                 *)
(* <<"tool_call", "arguments">>.  Ids are numbers, ordered as the strings  *)
(* are.  `Blank` is a text of white space, `None` a field that is absent   *)
(* or has the wrong type.                                                  *)
(***************************************************************************)
EXTENDS Integers, Sequences, FiniteSets, TLC, SequencesExt

CONSTANTS None, Blank,
          LowerCase,          \* a function: each word, in lower case
          UnicodeEscape       \* words with a letter outside ASCII -> their \u spelling

ACTION_KINDS == {"tool_call", "spawn", "message_out", "queue_enqueue", "memory_write",
                 "tool_result_persist"}
CRITICALITIES == {"safety_critical", "advisory"}
BLOCK_MODES == {"block", "suppress", "escalate"}

IsText(t) == t \notin {None, Blank}

\* A sequence of records with an id, in the order of their ids.
SortedById(seq) == SortSeq(seq, LAMBDA a, b : a.id < b.id)

-----------------------------------------------------------------------------
(* The export.  A concern is [id, state, desc, pointcuts, pointcut,        *)
(* advices, advice, policy]; a pointcut names joinpoints (of its own or in *)
(* its expression) and keywords.                                           *)
_ACTION_PROFILES(kind) ==
  CASE kind = "tool_call"     -> [jps |-> {"before_tool_call", "tool.before_call"},
                                  roots |-> {"tool_call"}, guard |-> TRUE]
    [] kind = "spawn"         -> [jps |-> {"task.before_create", "subagent_spawning",
                                           "subagent.before_spawn"},
                                  roots |-> {"task", "subagent"}, guard |-> FALSE]
    [] kind = "message_out"   -> [jps |-> {"before_response", "response.before_final",
                                           "message_sending"},
                                  roots |-> {"runtime_prompt", "response"}, guard |-> FALSE]
    [] kind = "queue_enqueue" -> [jps |-> {"queue.before_enqueue"},
                                  roots |-> {"queue"}, guard |-> FALSE]
    [] kind = "memory_write"  -> [jps |-> {"memory.before_write", "before_memory_write",
                                           "before_message_write"},
                                  roots |-> {"memory_write", "memory"}, guard |-> FALSE]
    [] kind = "tool_result_persist" ->
                                 [jps |-> {"after_tool_call", "tool.result.before_emit",
                                           "tool_result_persist"},
                                  roots |-> {"tool_result", "memory_write"}, guard |-> FALSE]

\* A definition that names no joinpoint is about every joinpoint; the legacy
\* pointcut has to name one.
_pointcut_def_matches(pc, jps) ==
  pc.joinpoints = {} \/ (pc.joinpoints \cup pc.expr) \cap jps # {}

_legacy_pointcut_matches(pc, jps) == pc.joinpoints \cap jps # {}

_pointcut_keywords(c, jps) ==
  UNION {pc.any : pc \in {p \in ToSet(c.pointcuts) : _pointcut_def_matches(p, jps)}}
  \cup (IF c.pointcut # None /\ _legacy_pointcut_matches(c.pointcut, jps)
        THEN c.pointcut.any ELSE {})

\* The first advice of the concern that gives a policy of this profile.
HardAdvice(c, profile, modes) ==
  LET Effect(a) == IF a.effect = None THEN c.policy ELSE a.effect
      Hit(a) == /\ profile.guard => a.template = "tool_guard"
                /\ Effect(a) # None
                /\ Effect(a).mode \in modes
                /\ Head(Effect(a).target) \in profile.roots
                /\ Effect(a).mode = "rewrite" => IsText(a.content)
  IN  SelectInSeq(c.advices, Hit)

\* The fallback "Blocked by <id>" is one word here.
Wording(t, c) == IF t # None THEN t ELSE IF c.desc # None THEN c.desc ELSE "blocked by"

\* An advice of the list decides; the single legacy advice is read for the tool
\* profile only, and whatever its target.
_is_hard_block(c, profile) ==
  LET i == HardAdvice(c, profile, BLOCK_MODES)
      legacy == /\ profile.guard /\ c.advice # None
                /\ c.advice.type = "tool_guard"
                /\ c.policy # None /\ c.policy.mode \in BLOCK_MODES
  IN  IF _pointcut_keywords(c, profile.jps) = {} THEN None
      ELSE IF i # 0 THEN Wording(c.advices[i].content, c)
      ELSE IF legacy THEN Wording(c.advice.content, c) ELSE None

_is_hard_rewrite(c, profile) ==
  LET i == HardAdvice(c, profile, {"rewrite"})
  IN  IF i = 0 \/ _pointcut_keywords(c, profile.jps) = {} THEN None ELSE c.advices[i].content

\* The policy a concern gives for one kind of action, or None.
ExportRow(c, kind) ==
  LET profile == _ACTION_PROFILES(kind)
      block   == _is_hard_block(c, profile)
      rewrite == _is_hard_rewrite(c, profile)
      row     == [id |-> c.id, crit |-> "safety_critical", kind |-> kind,
                  pred |-> IF kind = "tool_call" THEN "args_contains" ELSE "text_contains",
                  terms |-> _pointcut_keywords(c, profile.jps), ci |-> FALSE,
                  effect |-> "deny", reason |-> block, content |-> None]
  IN  IF c.state \in {"archived", "merged"} THEN None
      ELSE IF block # None THEN row
      ELSE IF rewrite # None
           THEN [row EXCEPT !.effect = "rewrite", !.content = rewrite,
                            !.reason = Wording(None, c)]
      ELSE None

KindOrder == <<"memory_write", "message_out", "queue_enqueue", "spawn", "tool_call",
               "tool_result_persist">>

\* reflex.policies.export with action_kind "all": by kind, then by id.
export_reflex_policies(concerns) ==
  LET OfKind(kind) == SortedById(SetToSeq({ExportRow(c, kind) : c \in concerns} \ {None}))
  IN  FlattenSeq([k \in DOMAIN KindOrder |-> OfKind(KindOrder[k])])

-----------------------------------------------------------------------------
(* The bridge.  A row that does not parse is dropped.                      *)
ParsesTo(row) ==
  /\ row.id # None /\ row.kind \in ACTION_KINDS /\ row.crit \in CRITICALITIES
  /\ row.reason # None
  /\ row.pred \in {"args_contains", "text_contains", "tool_name"} /\ row.terms # {}
  /\ row.effect = "rewrite" => IsText(row.content)

parseReflexPolicyExport(rows) == SelectSeq(rows, ParsesTo)

\* The text of an action's arguments.  An action's form is "json", or "circular", or
\* "foreign" when both encoders raise a TypeError over a value.  "compact" is the needle
\* `":"`, which every text of JSON.stringify has, and "spaced" the needle `": "`, which
\* every text of json.dumps has.  TypeScript falls back to "[object Object]".
ArgWords(action) == UNION {action.args[f] : f \in DOMAIN action.args}

serializeArgs(action) ==
  IF action.form = "json" THEN ArgWords(action) \cup {"compact"} ELSE {}

Folded(words, ci) == IF ci THEN {LowerCase[w] : w \in words} ELSE words

argsContains(hay, p) == Folded(hay, p.ci) \cap Folded(p.terms, p.ci) # {}

AppliesTo(p, action, text) ==
  /\ action.kind = p.kind
  /\ IF p.pred = "tool_name" THEN action.name \in p.terms ELSE argsContains(text, p)

Applies(p, action) == AppliesTo(p, action, serializeArgs(action))

Rewritten(action, content) == [action EXCEPT !.args = ("content" :> {content}) @@ @]

\* Only a policy that applies is asked to decide.
Decide(p, action) ==
  IF p.effect = "rewrite" /\ p.content # None
  THEN [kind |-> "rewrite", policy |-> p.id, reason |-> <<p.reason>>,
        action |-> Rewritten(action, p.content)]
  ELSE [kind |-> "deny", policy |-> p.id, reason |-> <<p.reason>>, action |-> action]

Allow(action) == [kind |-> "allow", policy |-> None, reason |-> <<>>, action |-> action]

DECISION_RANK == [allow |-> 1, rewrite |-> 2, deny |-> 3]

mergeDecisions(current, next) ==
  LET cur == DECISION_RANK[current.kind]
      nxt == DECISION_RANK[next.kind]
  IN  CASE nxt > cur -> next
        [] nxt < cur -> current
        [] nxt = cur /\ current.kind = "deny" -> [current EXCEPT !.reason = @ \o next.reason]
        [] nxt = cur /\ current.kind # "deny" ->
             IF next.policy < current.policy THEN next ELSE current

\* The compiled policies cannot raise, so the monitor's fail-closed branch is not
\* reached from them.
mediate(policies, action) ==
  FoldLeft(LAMBDA d, p : IF ~Applies(p, action) THEN d
                         ELSE IF d.kind = "allow" THEN Decide(p, action)
                         ELSE mergeDecisions(d, Decide(p, action)),
           Allow(action), SortedById(policies))

\* The record kept of a decision.
DecisionRecord(d, action) ==
  [kind |-> action.kind, name |-> action.name, decision |-> d.kind, policy |-> d.policy]

DEMO_POLICIES ==
  <<[id |-> 8, crit |-> "safety_critical", kind |-> "tool_call", pred |-> "args_contains",
     terms |-> {"wipe"}, ci |-> FALSE, effect |-> None, reason |-> "demo", content |-> None],
    [id |-> 9, crit |-> "safety_critical", kind |-> "queue_enqueue", pred |-> "text_contains",
     terms |-> {"hold"}, ci |-> FALSE, effect |-> None, reason |-> "demo", content |-> None]>>

\* The Map keyed by id: the place of the first entry, the value of the last.
UniqueById(specs) ==
  LET Put(seq, s) == LET i == SelectInSeq(seq, LAMBDA x : x.id = s.id)
                     IN  IF i = 0 THEN Append(seq, s) ELSE [seq EXCEPT ![i] = s]
  IN  FoldLeft(Put, <<>>, specs)

\* `exported` is the sequence of policies of the daemon, <<>> when there are none.
buildReflexRuntime(cfg, exported) ==
  UniqueById(cfg.inline \o exported
             \o (IF cfg.demo /\ exported = <<>> THEN DEMO_POLICIES ELSE <<>>))

-----------------------------------------------------------------------------
(* The kernel's monitor: no row is merged with another, circular arguments *)
(* raise, and among equal ranks the last policy wins.                      *)
from_export(rows) ==
  SelectSeq(rows, LAMBDA r : /\ r.pred \in {"args_contains", "text_contains", "tool_name"}
                             /\ r.kind \in ACTION_KINDS
                             /\ r.effect = "rewrite" => IsText(r.content))

\* json.dumps escapes what is not ASCII; a TypeError leaves str(args), which does not.
_serialize_args(action) ==
  IF action.form = "foreign" THEN ArgWords(action)
  ELSE {IF w \in DOMAIN UnicodeEscape THEN UnicodeEscape[w] ELSE w : w \in ArgWords(action)}
         \cup {"spaced"}

applies_py(p, action) == AppliesTo(p, action, _serialize_args(action))

Raises(p, action) == action.kind = p.kind /\ p.pred # "tool_name" /\ action.form = "circular"

\* Mutant of PyOverrides: the later policy always does.
PyOverridesAlways(next, current) == TRUE

\* An equal rank overrides too.
PyOverrides(next, current) == DECISION_RANK[next.kind] >= DECISION_RANK[current.kind]

\* done: a safety-critical policy raised, and the verdict is final.
mediate_py(policies, action) ==
  LET Step(acc, p) ==
        CASE acc.done -> acc
          [] ~acc.done /\ Raises(p, action) ->
               IF p.crit = "safety_critical"
               THEN [d |-> [kind |-> "deny", policy |-> p.id, reason |-> <<None>>,
                            action |-> action], done |-> TRUE]
               ELSE acc
          [] OTHER ->
               IF applies_py(p, action) /\ PyOverrides(Decide(p, action), acc.d)
               THEN [acc EXCEPT !.d = Decide(p, action)] ELSE acc
  IN  FoldLeft(Step, [d |-> Allow(action), done |-> FALSE], SortedById(policies)).d
=============================================================================
