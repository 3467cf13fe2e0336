------------------------------ MODULE Aspects ------------------------------
(***************************************************************************)
(* The two shapes of a concern and the executable view over them           *)
(* (opencoat_runtime_protocol/aop.py and the validator of Concern in       *)
(* envelopes.py).  A concern has single legacy fields (pointcut, advice,   *)
(* policy: a value or None) and AOP lists (pointcuts, advices,             *)
(* declarations: sequences).  Advice content is its length in characters.  *)
(***************************************************************************)
EXTENDS Integers, Sequences, SequencesExt

CONSTANT None           \* absent: a model value, different from every value

\* An expression is [calls, args]: the names called in it and the keywords of
\* its args(...) parts.  Reserved designators are not joinpoints.
parse_pointcut_expression(expr) ==
  [joinpoints |-> expr.calls \ {"args", "execution", "call", "within", "adviceexecution"},
   match      |-> IF expr.args = {} THEN None ELSE [any |-> expr.args]]

\* The expression only fills what the definition leaves open.
pointcut_def_to_pointcut(defn) ==
  LET parsed == IF defn.expr = None THEN [joinpoints |-> {}, match |-> None]
                ELSE parse_pointcut_expression(defn.expr)
      bare   == defn.joinpoints = {} /\ defn.selectors = {}
  IN  [joinpoints |-> IF bare THEN parsed.joinpoints ELSE defn.joinpoints,
       selectors  |-> defn.selectors,
       match      |-> IF defn.match = None THEN parsed.match ELSE defn.match,
       preds      |-> defn.preds]

AdviceOf(aj) ==
  [type |-> IF aj.template = None THEN "response_requirement" ELSE aj.template,
   chars |-> aj.chars, space |-> aj.space, rationale |-> aj.rationale, max |-> aj.max]

primary_pointcut(c) ==
  IF c.pointcut # None THEN c.pointcut
  ELSE IF c.pointcuts # <<>> THEN pointcut_def_to_pointcut(Head(c.pointcuts))
  ELSE None

primary_advice(c) ==
  IF c.advice # None THEN c.advice
  ELSE IF c.advices # <<>> THEN AdviceOf(Head(c.advices)) ELSE None

primary_weaving(c) ==
  IF c.policy # None THEN c.policy
  ELSE IF c.advices # <<>> THEN Head(c.advices).effect ELSE None

has_executable_pointcut(c) == primary_pointcut(c) # None

-----------------------------------------------------------------------------
(* Validation: a concern with only one shape gets the other one.           *)
legacy_to_aop_lists(c) ==
  [c EXCEPT
     !.pointcuts = IF c.pointcut = None THEN @
                   ELSE <<[joinpoints |-> c.pointcut.joinpoints,
                           selectors |-> c.pointcut.selectors, match |-> c.pointcut.match,
                           preds |-> c.pointcut.preds, expr |-> None]>>,
     !.advices = IF c.advice = None THEN @
                 ELSE <<[template |-> c.advice.type, chars |-> c.advice.chars, space |-> c.advice.space,
                         rationale |-> c.advice.rationale, max |-> c.advice.max,
                         effect |-> c.policy]>>,
     !.declarations =
        IF @ # <<>> THEN @
        ELSE FoldLeft(LAMBDA acc, r : IF r.type = "declares_precedence_over"
                                      THEN Append(acc, <<c.id, r.target>>) ELSE acc,
                      <<>>, c.relations)]

legacy_from_primary(c) ==
  [c EXCEPT
     !.pointcut = IF c.pointcuts = <<>> THEN @
                  ELSE pointcut_def_to_pointcut(Head(c.pointcuts)),
     !.advice = IF c.advices = <<>> THEN @ ELSE AdviceOf(Head(c.advices)),
     !.policy = IF c.advices = <<>> \/ Head(c.advices).effect = None THEN @
                ELSE Head(c.advices).effect]

\* A concern that already has something of both shapes is left as it is.
sync_concern_aop(c) ==
  LET hasLists  == c.pointcuts # <<>> \/ c.advices # <<>>
      hasLegacy == c.pointcut # None \/ c.advice # None
  IN  CASE hasLegacy /\ ~hasLists -> legacy_to_aop_lists(c)
        [] hasLists /\ ~hasLegacy -> legacy_from_primary(c)
        [] OTHER                  -> c

\* The validator of Concern takes over the six fields of the two shapes.
_sync_aop_executable_shape(c) ==
  LET synced == sync_concern_aop(c)
  IN  [c EXCEPT !.pointcut = synced.pointcut, !.advice = synced.advice, !.policy = synced.policy,
                !.pointcuts = synced.pointcuts, !.advices = synced.advices,
                !.declarations = synced.declarations]
=============================================================================
