---------------------------- MODULE ConcernRules ----------------------------
(***************************************************************************)
(* The pure part of the concern lifecycle: what a persisted Concern looks   *)
(* like to the lifecycle manager, the transition matrix, and the record     *)
(* `_mutate` computes from the snapshot it has fetched                      *)
(* (opencoat_runtime_core/concern/lifecycle.py).                            *)
(*                                                                         *)
(* Scores and decays are fixed-point: ScoreOne units of score make 1.0 and  *)
(* DecayOne units of decay make 1.0.  Timestamps, names and payloads are    *)
(* left out; they never decide a transition.                                *)
(***************************************************************************)
EXTENDS Integers

CONSTANTS ScoreOne,       \* units in a score of 1.0
          DecayOne,       \* units in a decay of 1.0
          InitialScore    \* DEFAULT_INITIAL_SCORE, in score units

ASSUME RulesAssumption ==
    /\ ScoreOne \in Nat \ {0}
    /\ DecayOne \in Nat \ {0}
    /\ InitialScore \in 0 .. ScoreOne

LifecycleState ==
    {"created", "active", "reinforced", "weakened", "merged",
     "frozen", "archived", "revived", "deleted"}

(***************************************************************************)
(* _ALLOWED_TRANSITIONS: the states reachable in one step from s.           *)
(***************************************************************************)
AllowedTransitions(s) ==
    CASE s = "created" ->
            {"active", "reinforced", "weakened", "frozen", "archived", "deleted"}
      [] s \in {"active", "reinforced"} ->
            {"active", "reinforced", "weakened", "merged", "frozen",
             "archived", "deleted"}
      [] s = "weakened" ->
            {"active", "reinforced", "weakened", "frozen", "archived", "deleted"}
      [] s = "merged" -> {"archived", "deleted"}
      [] s = "frozen" -> {"active", "frozen", "archived", "deleted"}
      [] s = "archived" -> {"archived", "revived", "deleted"}
      [] s = "revived" ->
            {"active", "reinforced", "weakened", "archived", "deleted"}
      [] OTHER -> {}

(* _REINFORCE_FROM, which _WEAKEN_FROM aliases. *)
ReinforceFrom == {"created", "active", "reinforced", "weakened", "revived"}

(* Mutant: a merged concern is forgotten. *)
DeactivatingSansMerged == {"frozen", "archived", "deleted"}

(* The targets for which transition() clears activation_state.active. *)
DeactivatingTargets == {"merged", "frozen", "archived", "deleted"}

(***************************************************************************)
(* The fields of a Concern the manager owns.  NoScore stands for a missing  *)
(* activation_state and for an activation_state whose score is None: the    *)
(* code treats both as InitialScore when the score first moves.             *)
(***************************************************************************)
NoScore == -1

Concern ==
    [state       : LifecycleState,
     score       : {NoScore} \cup 0 .. ScoreOne,
     active      : BOOLEAN,
     decay       : 0 .. DecayOne,
     activations : Nat,
     reflex      : BOOLEAN]

(* Mutant: only the lower end is clamped. *)
ClampLow(v) == IF v <= 0 THEN 0 ELSE v

Clamp01(v) == IF v <= 0 THEN 0 ELSE IF v >= ScoreOne THEN ScoreOne ELSE v

(***************************************************************************)
(* One call of _mutate, as the keyword arguments its wrapper passes.        *)
(* from_states=None is every state; score_delta=None is scored=FALSE.       *)
(***************************************************************************)
Request ==
    [target        : LifecycleState,
     from          : SUBSET LifecycleState,
     scored        : BOOLEAN,
     delta         : (-ScoreOne) .. ScoreOne,
     reinforcement : BOOLEAN,
     deactivate    : BOOLEAN,
     sync          : BOOLEAN,
     resetDecay    : BOOLEAN]

Reinforce(d) ==
    [target |-> "reinforced", from |-> ReinforceFrom, scored |-> TRUE,
     delta |-> d, reinforcement |-> TRUE, deactivate |-> FALSE,
     sync |-> FALSE, resetDecay |-> FALSE]

Weaken(d) ==
    [target |-> "weakened", from |-> ReinforceFrom, scored |-> TRUE,
     delta |-> -d, reinforcement |-> FALSE, deactivate |-> FALSE,
     sync |-> FALSE, resetDecay |-> FALSE]

Archive ==
    [target |-> "archived", from |-> LifecycleState, scored |-> FALSE,
     delta |-> 0, reinforcement |-> FALSE, deactivate |-> TRUE,
     sync |-> TRUE, resetDecay |-> FALSE]

Revive ==
    [target |-> "revived", from |-> {"archived"}, scored |-> FALSE,
     delta |-> 0, reinforcement |-> FALSE, deactivate |-> TRUE,
     sync |-> FALSE, resetDecay |-> TRUE]

(* Mutant: the generic entry point never reaches the DCN. *)
TransitionStoreOnly(t) ==
    [target |-> t, from |-> LifecycleState, scored |-> FALSE,
     delta |-> 0, reinforcement |-> FALSE,
     deactivate |-> (t \in DeactivatingTargets),
     sync |-> FALSE, resetDecay |-> FALSE]

Transition(t) ==
    [target |-> t, from |-> LifecycleState, scored |-> FALSE,
     delta |-> 0, reinforcement |-> FALSE,
     deactivate |-> (t \in DeactivatingTargets),
     sync |-> (t = "archived"), resetDecay |-> FALSE]

(* Mutant: the method's own gate only, the matrix is not consulted. *)
AdmitsByMethod(stored, req) == stored.state \in req.from

(***************************************************************************)
(* The two gates of _mutate.  When either fails the call raises             *)
(* InvalidLifecycleTransition and writes nothing.                           *)
(***************************************************************************)
Admits(stored, req) ==
    /\ stored.state \in req.from
    /\ req.target \in AllowedTransitions(stored.state)

(* The idempotent fast path: nothing is persisted. *)
IsNoOp(stored, req) == ~req.scored /\ req.target = stored.state

MovedScore(score, req) ==
    IF req.scored
    THEN Clamp01((IF score = NoScore THEN InitialScore ELSE score) + req.delta)
    ELSE score

(* The record _mutate hands to ConcernStore.upsert. *)
Mutated(stored, req) ==
    [state       |-> req.target,
     score       |-> MovedScore(stored.score, req),
     active      |-> IF req.deactivate THEN FALSE
                     ELSE IF req.reinforcement THEN TRUE
                     ELSE stored.active,
     decay       |-> IF req.reinforcement \/ req.resetDecay THEN 0
                     ELSE stored.decay,
     activations |-> IF req.reinforcement THEN stored.activations + 1
                     ELSE stored.activations,
     reflex      |-> stored.reflex]

(***************************************************************************)
(* What every concern that left the live states must look like: it no      *)
(* longer counts as active.  A revived one starts inactive as well.         *)
(***************************************************************************)
DormantStates == {"merged", "frozen", "archived", "deleted", "revived"}

IsCoherent(r) == r.state \in DormantStates => ~r.active
=============================================================================
