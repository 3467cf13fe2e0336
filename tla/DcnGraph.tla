------------------------------ MODULE DcnGraph ------------------------------
(***************************************************************************)
(* What the DCNStore port promises of the Deep Concern Network, whichever   *)
(* backend keeps it: a graph of concern nodes, weighted edges keyed by      *)
(* (src, dst, relation), and a count of logged activations per concern.     *)
(* Every backend takes one lock around a whole operation, so an operation   *)
(* is one step.  An operation that raises (unknown node, weight or score    *)
(* out of range) changes nothing.                                           *)
(***************************************************************************)
EXTENDS Dcn

VARIABLES nodes,   \* id -> lifecycle_state of its node, or Absent
          weight,  \* edge key -> weight, or NoEdge
          hits     \* id -> number of activations logged for it

gvars == <<nodes, weight, hits>>

NoEdge == -1

EdgeKey == [src : Ids, dst : Ids, rel : Rels]

GTypeOK ==
    /\ nodes \in [Ids -> NodeStates \cup {Absent}]
    /\ weight \in [EdgeKey -> {NoEdge} \cup 0 .. WeightOne]
    /\ hits \in [Ids -> Nat]

GInit ==
    /\ nodes = [c \in Ids |-> Absent]
    /\ weight = [e \in EdgeKey |-> NoEdge]
    /\ hits = [c \in Ids |-> 0]

Touches(e, c) == e.src = c \/ e.dst = c

-----------------------------------------------------------------------------
GAddNode(c, s) ==
    /\ nodes' = [nodes EXCEPT ![c] = s]
    /\ UNCHANGED <<weight, hits>>

GRemoveNode(c) ==
    /\ nodes[c] # Absent
    /\ nodes' = [nodes EXCEPT ![c] = Absent]
    /\ weight' = [e \in EdgeKey |-> IF Touches(e, c) THEN NoEdge ELSE weight[e]]
    /\ hits' = [hits EXCEPT ![c] = 0]

GAddEdge(e, w) ==
    /\ nodes[e.src] # Absent
    /\ nodes[e.dst] # Absent
    /\ UNCHANGED <<nodes, hits>>
    /\ weight' = [weight EXCEPT ![e] = w]

GRemoveEdge(e) ==
    /\ weight[e] # NoEdge
    /\ weight' = [weight EXCEPT ![e] = NoEdge]
    /\ UNCHANGED <<nodes, hits>>

GLogActivation(c) ==
    /\ nodes[c] # Absent
    /\ hits[c] < MaxHits
    /\ hits' = [hits EXCEPT ![c] = @ + 1]
    /\ UNCHANGED <<nodes, weight>>

(***************************************************************************)
(* merge(a, b): every edge of a becomes an edge of b; where two edges meet  *)
(* the heavier survives, and no loop does.  An edge that is not a loop has  *)
(* at most one end at b, so at most one edge of a can land on it: Twin(e).  *)
(***************************************************************************)
Twin(e, a, b) == [e EXCEPT !.src = IF e.src = b THEN a ELSE e.src,
                           !.dst = IF e.dst = b THEN a ELSE e.dst]

Heavier(v, w) == IF v >= w THEN v ELSE w

GMerge(a, b) ==
    /\ a # b
    /\ nodes[a] # Absent
    /\ nodes[b] # Absent
    /\ hits[a] + hits[b] <= MaxHits
    /\ weight' = [e \in EdgeKey |->
                    IF Touches(e, a) \/ e.src = e.dst THEN NoEdge
                    ELSE Heavier(weight[e], weight[Twin(e, a, b)])]
    /\ hits' = [hits EXCEPT ![a] = 0, ![b] = hits[a] + hits[b]]
    /\ nodes' = [nodes EXCEPT ![a] = Absent]

GArchive(c) ==
    /\ nodes[c] # Absent
    /\ nodes' = [nodes EXCEPT ![c] = "archived"]
    /\ UNCHANGED <<weight, hits>>

GNext ==
    \/ \E c \in Ids, s \in NodeStates : GAddNode(c, s)
    \/ \E c \in Ids : GRemoveNode(c)
    \/ \E e \in EdgeKey : GRemoveEdge(e)
    \/ \E c \in Ids : GLogActivation(c)
    \/ \E a, b \in Ids : GMerge(a, b)
    \/ \E c \in Ids : GArchive(c)
    \/ \E e \in EdgeKey, w \in 0 .. WeightOne : GAddEdge(e, w)

GSpec == GInit /\ [][GNext]_gvars

-----------------------------------------------------------------------------
(* No operation leaves a dangling pointer behind: every edge and every      *)
(* logged activation belongs to nodes that exist, also after remove_node    *)
(* and merge have taken a node away.                                        *)
NoDanglingReference ==
    /\ \A e \in EdgeKey :
          weight[e] # NoEdge => nodes[e.src] # Absent /\ nodes[e.dst] # Absent
    /\ \A c \in Ids : hits[c] > 0 => nodes[c] # Absent
=============================================================================
