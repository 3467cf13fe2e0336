-------------------------------- MODULE Dcn ---------------------------------
(***************************************************************************)
(* The parameters the DCNStore port and its backends share.                 *)
(***************************************************************************)
EXTENDS Integers

CONSTANTS Ids,        \* concern ids
          Rels,       \* relation types
          WeightOne,  \* units in an edge weight of 1.0
          NodeStates, \* lifecycle states a node can carry
          MaxHits,    \* bound on logged activations
          Absent

ASSUME GraphAssumption ==
    /\ WeightOne \in Nat
    /\ MaxHits \in Nat
    /\ "archived" \in NodeStates
    /\ Absent \notin NodeStates
=============================================================================
