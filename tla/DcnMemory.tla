----------------------------- MODULE DcnMemory ------------------------------
(***************************************************************************)
(* MemoryDCNStore: the graph with the order its callers can observe.  The   *)
(* edge dict and the activation list are sequences, because neighbors()     *)
(* walks the dict in insertion order and activation_log() returns the list. *)
(***************************************************************************)
EXTENDS Dcn, SequencesExt

CONSTANT MaxEdges \* bound on the edge dict

VARIABLES nodes,   \* id -> lifecycle_state of its node, or Absent
          edges,   \* the edge dict, in iteration order
          log      \* the activation list: the concern of each record

mvars == <<nodes, edges, log>>

Edge == [src : Ids, dst : Ids, rel : Rels, w : 0 .. WeightOne]

SameKey(e, f) == e.src = f.src /\ e.dst = f.dst /\ e.rel = f.rel

MInit ==
    /\ nodes = [c \in Ids |-> Absent]
    /\ edges = <<>>
    /\ log = <<>>

(* dict[key] = weight: an existing key keeps its place. *)
DictPut(dict, e) ==
    LET at == SelectInSeq(dict, LAMBDA f : SameKey(e, f))
    IN  IF at = 0 THEN Append(dict, e) ELSE ReplaceAt(dict, at, e)

(* rewired[key] = max(rewired.get(key, 0.0), weight) *)
DictPutMax(dict, e) ==
    LET at == SelectInSeq(dict, LAMBDA f : SameKey(e, f))
    IN  IF at # 0 /\ dict[at].w >= e.w THEN dict ELSE DictPut(dict, e)

Rename(x, a, b) == IF x = a THEN b ELSE x

-----------------------------------------------------------------------------
AddNode(c, s) ==
    /\ nodes' = [nodes EXCEPT ![c] = s]
    /\ UNCHANGED <<edges, log>>

RemoveNode(c) ==
    /\ nodes' = [nodes EXCEPT ![c] = Absent]
    /\ edges' = SelectSeq(edges, LAMBDA e : e.src # c /\ e.dst # c)
    /\ log' = SelectSeq(log, LAMBDA r : r # c)

AddEdge(e) ==
    LET put == DictPut(edges, e)
    IN  /\ nodes[e.src] # Absent
        /\ nodes[e.dst] # Absent
        /\ UNCHANGED <<nodes, log>>
        /\ Len(put) <= MaxEdges
        /\ edges' = put

RemoveEdge(a, b, r) ==
    /\ edges' = SelectSeq(edges,
                    LAMBDA e : ~(e.src = a /\ e.dst = b /\ e.rel = r))
    /\ UNCHANGED <<nodes, log>>

LogActivation(c) ==
    /\ nodes[c] # Absent
    /\ Len(log) < MaxHits
    /\ log' = Append(log, c)
    /\ UNCHANGED <<nodes, edges>>

(* The loop of merge(): rename, drop loops, keep the heavier of two. *)
Rewired(dict, a, b) ==
    FoldLeft(LAMBDA acc, e :
                LET f == [e EXCEPT !.src = Rename(e.src, a, b),
                                   !.dst = Rename(e.dst, a, b)]
                IN  IF f.src = f.dst THEN acc ELSE DictPutMax(acc, f),
             <<>>, dict)

Merge(a, b) ==
    /\ a # b
    /\ nodes[a] # Absent
    /\ nodes[b] # Absent
    /\ edges' = Rewired(edges, a, b)
    /\ log' = [i \in 1 .. Len(log) |-> Rename(log[i], a, b)]
    /\ nodes' = [nodes EXCEPT ![a] = Absent]

ArchiveNode(c) ==
    /\ nodes[c] # Absent
    /\ nodes' = [nodes EXCEPT ![c] = "archived"]
    /\ UNCHANGED <<edges, log>>

MNext ==
    \/ \E c \in Ids, s \in NodeStates : AddNode(c, s)
    \/ \E c \in Ids : RemoveNode(c)
    \/ \E a, b \in Ids, r \in Rels : RemoveEdge(a, b, r)
    \/ \E c \in Ids : LogActivation(c)
    \/ \E a, b \in Ids : Merge(a, b)
    \/ \E c \in Ids : ArchiveNode(c)
    \/ \E e \in Edge : AddEdge(e)

MSpec == MInit /\ [][MNext]_mvars
=============================================================================
