----------------------------- MODULE Effector -----------------------------
(***************************************************************************)
(* The daemon as the hosts of this model see it: its concern store, and    *)
(* the effector kernel (effector/kernel.py, called by effector.run_turn)   *)
(* with the verifier (concern/verifier.py).  A kernel turn weaves,         *)
(* mediates, verifies and appends one r_t record; the vector it verifies   *)
(* against is the pipeline's last one, which any other weave replaces.     *)
(*                                                                         *)
(* What a weave activates is taken from the scenario: the joinpoint        *)
(* pipeline has a model of its own.                                        *)
(***************************************************************************)
EXTENDS BridgeAdvice

CONSTANT MAX_REPAIR             \* EffectorKernel.DEFAULT_MAX_REPAIR

\* A turn is repaired at most once, by the monitor or by the verifier.
ASSUME RepairAssumption == MAX_REPAIR \in 0 .. 1

VARIABLES
  sc,             \* the scenario: what the environment may do (never changes)
  concerns,       \* the daemon's concern store
  edits,          \* upserts of other clients still to come
  last_vector,    \* JoinpointPipeline.last_vector
  turns,          \* effector.run_turn requests, by number
  rt              \* the r_t records the daemon has received

daemonVars == <<concerns, edits, last_vector, turns>>

-----------------------------------------------------------------------------
(* The verifier.  A rule is [regex, must, mustnot, llm, cs]: alternatives  *)
(* (None: not given, {}: does not compile), words, words, and two flags.   *)
NoAdvice == "no verification advice"

Verdict(id, ok, notes) == [id |-> id, satisfied |-> ok, notes |-> notes]

_verify_regex(id, hay, rule) ==
  IF rule.regex = {} THEN Verdict(id, FALSE, "invalid regex")
  ELSE Verdict(id, Folded(rule.regex, ~rule.cs) \cap Folded(hay, ~rule.cs) # {}, "regex")

_verify_must_contain(id, hay, rule) ==
  Verdict(id, Folded(rule.must, ~rule.cs) \subseteq Folded(hay, ~rule.cs), "must_contain")

_verify_must_not_contain(id, hay, rule) ==
  Verdict(id, Folded(rule.mustnot, ~rule.cs) \cap Folded(hay, ~rule.cs) = {},
          "must_not_contain")

\* `yes` is the LLM's judgement.
verify_one(c, hay, yes) ==
  LET rule == c.advice.rule
  IN  IF c.advice = None \/ c.advice.type # "verification_rule"
      THEN Verdict(c.id, FALSE, NoAdvice)
      ELSE IF rule.regex # None THEN _verify_regex(c.id, hay, rule)
      ELSE IF rule.must # None THEN _verify_must_contain(c.id, hay, rule)
      ELSE IF rule.mustnot # None THEN _verify_must_not_contain(c.id, hay, rule)
      ELSE IF rule.llm THEN Verdict(c.id, yes, "llm")
      ELSE Verdict(c.id, FALSE, "no rule")

\* Mutant of verify_turn: every concern of the catalogue is judged.
verify_catalogue(active, store, hay, yes) == {verify_one(c, hay, yes) : c \in store}

\* The active concerns of the store are judged.
verify_turn(active, store, hay, yes) ==
  {verify_one(c, hay, yes) : c \in {c \in store : c.id \in active}}

Failed(v) == ~v.satisfied /\ v.notes # NoAdvice

-----------------------------------------------------------------------------
(* A turn is [pc, action, output, decision, policy, repairs, repairedBy,   *)
(* own, raced]; own and raced are history: the vector of its weave, and    *)
(* whether another weave has replaced it since.                            *)
Turn(job) ==
  [pc |-> "weave", action |-> job.action, output |-> job.output, decision |-> "allow",
   policy |-> None, repairs |-> 0, repairedBy |-> None, own |-> {}, raced |-> FALSE]

InitDaemon ==
  /\ concerns = sc.concerns
  /\ edits = sc.edits
  /\ last_vector = None
  /\ turns = [t \in DOMAIN sc.jobs |-> Turn(sc.jobs[t])]
  /\ rt = <<>>

\* Another client upserts a concern.
UpsertConcern ==
  /\ edits # <<>>
  /\ concerns' = {c \in concerns : c.id # Head(edits).id} \cup {Head(edits)}
  /\ edits' = Tail(edits)
  /\ UNCHANGED <<sc, last_vector, turns, rt>>

\* A weave of any caller leaves its vector for everyone.
Woven(ts) ==
  [t \in DOMAIN ts |-> [ts[t] EXCEPT !.raced = @ \/ ts[t].pc \in {"mediate", "verify"}]]

Weave(v) ==
  /\ last_vector' = v
  /\ turns' = Woven(turns)

\* pipeline.run of the turn; it raises when the runtime does.
TurnWeave(t) ==
  /\ turns[t].pc = "weave"
  /\ \/ \E v \in sc.vectors :
          /\ last_vector' = v
          /\ turns' = [Woven(turns) EXCEPT ![t].pc = "mediate", ![t].own = v]
     \/ /\ sc.faults
        /\ turns' = [turns EXCEPT ![t].pc = "raised"]
        /\ UNCHANGED last_vector
  /\ UNCHANGED <<sc, concerns, edits, rt>>

\* _resolve_monitor exports afresh for every turn; the loop ends with its first
\* verdict, and a rewrite counts as the repair of this turn.
_resolve_monitor == from_export(export_reflex_policies(concerns))

TurnMediate(t) ==
  /\ turns[t].pc = "mediate"
  /\ LET d == mediate_py(_resolve_monitor, turns[t].action)
     IN  turns' = [turns EXCEPT ![t] =
                     [@ EXCEPT !.pc = "verify", !.decision = d.kind, !.action = d.action,
                               !.policy = IF d.kind \in {"deny", "rewrite"} THEN d.policy ELSE None,
                               !.repairs = IF d.kind = "rewrite" THEN 1 ELSE 0]]
  /\ UNCHANGED <<sc, concerns, edits, last_vector, rt>>

Repairable(turn) == turn.repairs < MAX_REPAIR

Failing(turn, yes) ==
  IF turn.output = None \/ turn.decision = "deny" \/ last_vector = None THEN {}
  ELSE {v \in verify_turn(last_vector, concerns, turn.output, yes) : Failed(v)}

Repaired(turn, v) ==
  [turn EXCEPT !.pc = "append", !.decision = "rewrite", !.repairs = @ + 1,
               !.action = Rewritten(@, v.notes), !.repairedBy = v.id]

\* The first concern that fails, in the order of the store (by id here), replaces the
\* content of an outgoing message by the verifier's note.
TurnVerify(t) ==
  /\ turns[t].pc = "verify"
  /\ \E yes \in BOOLEAN :
       LET failed == Failing(turns[t], yes)
           repairs == Repairable(turns[t]) /\ turns[t].action.kind = "message_out"
       IN  \/ /\ failed = {} \/ ~repairs
              /\ turns' = [turns EXCEPT ![t].pc = "append"]
           \/ /\ repairs
              /\ \E v \in failed : /\ \A w \in failed : v.id <= w.id
                                   /\ turns' = [turns EXCEPT ![t] = Repaired(turns[t], v)]
  /\ UNCHANGED <<sc, concerns, edits, last_vector, rt>>

_build_signal(turn, t) ==
  LET denied == turn.decision = "deny"
      kind   == IF turn.action.kind # "tool_call" THEN "reflex_decision"
                ELSE IF denied THEN "tool_blocked" ELSE "tool_outcome"
  IN  [kind |-> kind, turn |-> t, tool |-> turn.action.name,
       reflex |-> [kind |-> turn.action.kind, name |-> turn.action.name,
                   decision |-> turn.decision, policy |-> turn.policy],
       r |-> IF kind = "tool_outcome" THEN 1 ELSE 0]

TurnAppend(t) ==
  /\ turns[t].pc = "append"
  /\ rt' = Append(rt, _build_signal(turns[t], t))
  /\ turns' = [turns EXCEPT ![t].pc = "done"]
  /\ UNCHANGED <<sc, concerns, edits, last_vector>>

EffectorNext ==
  \/ UpsertConcern
  \/ \E t \in DOMAIN turns : TurnWeave(t) \/ TurnMediate(t) \/ TurnVerify(t) \/ TurnAppend(t)
=============================================================================
