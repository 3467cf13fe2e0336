--------------------------- MODULE ConcernMachine ---------------------------
(***************************************************************************)
(* What the lifecycle manager promises about a concern's lifecycle_state    *)
(* and score, with no store, no snapshot and no caller in sight: a concern  *)
(* that has been admitted moves only along the transition matrix, and its   *)
(* score moves only in the states reinforce and weaken accept.              *)
(***************************************************************************)
EXTENDS ConcernRules

CONSTANTS Concerns, Absent, AdmittedStates

VARIABLES phase,   \* lifecycle_state of every concern, or Absent
          points   \* its score

mvars == <<phase, points>>

MInit ==
    /\ phase \in [Concerns -> AdmittedStates \cup {Absent}]
    /\ points \in [Concerns -> {NoScore} \cup 0 .. ScoreOne]

(* A host admits a concern, or replaces the one stored under its id. *)
Admit(c) ==
    /\ \E s \in AdmittedStates : phase' = [phase EXCEPT ![c] = s]
    /\ \E p \in {NoScore} \cup 0 .. ScoreOne :
           points' = [points EXCEPT ![c] = p]

(* A host deletes the row. *)
Remove(c) ==
    /\ phase' = [phase EXCEPT ![c] = Absent]
    /\ points' = [points EXCEPT ![c] = NoScore]

(* The manager moves a concern along the matrix. *)
Move(c) ==
    /\ phase[c] # Absent
    /\ \E t \in AllowedTransitions(phase[c]) :
           phase' = [phase EXCEPT ![c] = t]
    /\ \E p \in {NoScore} \cup 0 .. ScoreOne :
           /\ points' = [points EXCEPT ![c] = p]
           /\ p # points[c] => phase[c] \in ReinforceFrom

MNext == \E c \in Concerns : Admit(c) \/ Remove(c) \/ Move(c)

MSpec == MInit /\ [][MNext]_mvars
=============================================================================
