------------------------- MODULE MCConcernLifecycle -------------------------
(***************************************************************************)
(* Small instances of ConcernLifecycle for TLC.  Two score units are enough *)
(* for both clamps and a value between them; a fresh concern is "created"   *)
(* and inactive, an adopted one "active" with a score.                      *)
(***************************************************************************)
EXTENDS ConcernLifecycle, TLC

Fresh == [state |-> "created", score |-> NoScore, active |-> FALSE,
          decay |-> 0, activations |-> 0, reflex |-> FALSE]

Adopted == [state |-> "active", score |-> 1, active |-> TRUE,
            decay |-> 0, activations |-> 0, reflex |-> FALSE]

MCHostRecords == {Fresh, Adopted}
MCFreshOnly == {Fresh}

CallerSymmetry == Permutations(Callers)
=============================================================================
