----------------------------- MODULE DcnSqlite ------------------------------
(***************************************************************************)
(* SqliteDCNStore: three tables whose order is carried by seq columns.      *)
(* Each operation runs under the store's lock inside one BEGIN/COMMIT, so   *)
(* it is one step for every reader; a crash before COMMIT, or an exception, *)
(* leaves the tables as they were and is a stuttering step.                 *)
(***************************************************************************)
EXTENDS Dcn, FiniteSetsExt, TLC

CONSTANTS MaxEdges,  \* bound on the rows of dcn_edges
          MaxSeq,    \* bound on dcn_edges.seq
          MaxLogSeq  \* bound on dcn_activations.seq

VARIABLES nodes,        \* dcn_nodes: id -> lifecycle_state, or Absent
          edgeRows,     \* dcn_edges
          activations,  \* dcn_activations
          lastSeq       \* AUTOINCREMENT: the highest activation seq ever used

svars == <<nodes, edgeRows, activations, lastSeq>>

EdgeRow == [src : Ids, dst : Ids, rel : Rels, w : 0 .. WeightOne,
            seq : 1 .. MaxSeq]
ActivationRow == [seq : 1 .. MaxLogSeq, concern : Ids]

Matches(row, a, b, r) == row.src = a /\ row.dst = b /\ row.rel = r

(* COALESCE(MAX(seq), 0) + 1 *)
NextSeq(rows) == IF rows = {} THEN 1 ELSE Max({row.seq : row \in rows}) + 1

SInit ==
    /\ nodes = [c \in Ids |-> Absent]
    /\ edgeRows = {}
    /\ activations = {}
    /\ lastSeq = 0

-----------------------------------------------------------------------------
(* INSERT ... ON CONFLICT(id) DO UPDATE: the row is updated in place, so no *)
(* cascade fires.                                                           *)
AddNode(c, s) ==
    /\ nodes' = [nodes EXCEPT ![c] = s]
    /\ UNCHANGED <<edgeRows, activations, lastSeq>>

(* Mutant: the cascade covers the outgoing edges only. *)
RemoveNodeOutgoing(c) ==
    /\ nodes[c] # Absent
    /\ nodes' = [nodes EXCEPT ![c] = Absent]
    /\ edgeRows' = {row \in edgeRows : row.src # c}
    /\ activations' = {row \in activations : row.concern # c}
    /\ UNCHANGED lastSeq

(* DELETE with ON DELETE CASCADE on both ends of an edge and on the log.    *)
(* A DELETE that finds no row is a stuttering step.                         *)
RemoveNode(c) ==
    /\ nodes[c] # Absent
    /\ nodes' = [nodes EXCEPT ![c] = Absent]
    /\ edgeRows' = {row \in edgeRows : row.src # c /\ row.dst # c}
    /\ activations' = {row \in activations : row.concern # c}
    /\ UNCHANGED lastSeq

AddEdge(a, b, r, w) ==
    LET existing == {row \in edgeRows : Matches(row, a, b, r)}
        seq == IF existing # {} THEN (CHOOSE row \in existing : TRUE).seq
               ELSE NextSeq(edgeRows)
    IN  /\ nodes[a] # Absent
        /\ nodes[b] # Absent
        /\ existing # {} \/ Cardinality(edgeRows) < MaxEdges
        /\ seq <= MaxSeq
        /\ edgeRows' = (edgeRows \ existing) \cup
               {[src |-> a, dst |-> b, rel |-> r, w |-> w, seq |-> seq]}
        /\ UNCHANGED <<nodes, activations, lastSeq>>

RemoveEdge(a, b, r) ==
    /\ \E row \in edgeRows : Matches(row, a, b, r)
    /\ edgeRows' = {row \in edgeRows : ~Matches(row, a, b, r)}
    /\ UNCHANGED <<nodes, activations, lastSeq>>

LogActivation(c) ==
    /\ nodes[c] # Absent
    /\ lastSeq < MaxLogSeq
    /\ Cardinality(activations) < MaxHits
    /\ lastSeq' = lastSeq + 1
    /\ activations' = activations \cup {[seq |-> lastSeq + 1, concern |-> c]}
    /\ UNCHANGED <<nodes, edgeRows>>

(* Mutant: an edge that meets another takes the later place. *)
RewiredRowsLast(rows, a, b) ==
    LET Ren(x) == IF x = a THEN b ELSE x
        Landing(row) == {other \in rows :
                            /\ Ren(other.src) = Ren(row.src)
                            /\ Ren(other.dst) = Ren(row.dst)
                            /\ other.rel = row.rel}
    IN  {[src |-> Ren(row.src), dst |-> Ren(row.dst), rel |-> row.rel,
          w |-> Max({o.w : o \in Landing(row)}),
          seq |-> Max({o.seq : o \in Landing(row)})]
         : row \in {x \in rows : Ren(x.src) # Ren(x.dst)}}

(* Mutant: of two edges that meet, the lighter weight stays. *)
RewiredRowsLight(rows, a, b) ==
    LET Ren(x) == IF x = a THEN b ELSE x
        Landing(row) == {other \in rows :
                            /\ Ren(other.src) = Ren(row.src)
                            /\ Ren(other.dst) = Ren(row.dst)
                            /\ other.rel = row.rel}
    IN  {[src |-> Ren(row.src), dst |-> Ren(row.dst), rel |-> row.rel,
          w |-> Min({o.w : o \in Landing(row)}),
          seq |-> Min({o.seq : o \in Landing(row)})]
         : row \in {x \in rows : Ren(x.src) # Ren(x.dst)}}

(* merge(): per rewired key the maximal weight and the first seq. *)
RewiredRows(rows, a, b) ==
    LET Ren(x) == IF x = a THEN b ELSE x
        Landing(row) == {other \in rows :
                            /\ Ren(other.src) = Ren(row.src)
                            /\ Ren(other.dst) = Ren(row.dst)
                            /\ other.rel = row.rel}
    IN  {[src |-> Ren(row.src), dst |-> Ren(row.dst), rel |-> row.rel,
          w |-> Max({o.w : o \in Landing(row)}),
          seq |-> Min({o.seq : o \in Landing(row)})]
         : row \in {x \in rows : Ren(x.src) # Ren(x.dst)}}

Merge(a, b) ==
    /\ a # b
    /\ nodes[a] # Absent
    /\ nodes[b] # Absent
    /\ edgeRows' = RewiredRows(edgeRows, a, b)
    /\ activations' = {[row EXCEPT !.concern = IF @ = a THEN b ELSE @]
                       : row \in activations}
    /\ nodes' = [nodes EXCEPT ![a] = Absent]
    /\ UNCHANGED lastSeq

ArchiveNode(c) ==
    /\ nodes[c] # Absent
    /\ nodes' = [nodes EXCEPT ![c] = "archived"]
    /\ UNCHANGED <<edgeRows, activations, lastSeq>>

SNext ==
    \/ \E c \in Ids, s \in NodeStates : AddNode(c, s)
    \/ \E c \in Ids : RemoveNode(c)
    \/ \E a, b \in Ids, r \in Rels, w \in 0 .. WeightOne : AddEdge(a, b, r, w)
    \/ \E a, b \in Ids, r \in Rels : RemoveEdge(a, b, r)
    \/ \E c \in Ids : LogActivation(c)
    \/ \E a, b \in Ids : Merge(a, b)
    \/ \E c \in Ids : ArchiveNode(c)

SSpec == SInit /\ [][SNext]_svars

-----------------------------------------------------------------------------
STypeOK ==
    /\ nodes \in [Ids -> NodeStates \cup {Absent}]
    /\ edgeRows \subseteq EdgeRow
    /\ activations \subseteq ActivationRow
    /\ lastSeq \in 0 .. MaxLogSeq

(* The row that comes i-th in ORDER BY seq. *)
BySeq(rows, i) ==
    CHOOSE row \in rows : Cardinality({r \in rows : r.seq < row.seq}) = i - 1

Memory == INSTANCE DcnMemory
    WITH edges <- [i \in 1 .. Cardinality(edgeRows) |->
                      LET row == BySeq(edgeRows, i)
                      IN  [src |-> row.src, dst |-> row.dst, rel |-> row.rel,
                           w |-> row.w]],
         log <- [i \in 1 .. Cardinality(activations) |->
                    BySeq(activations, i).concern]

(* "Identical contract to MemoryDCNStore": read in seq order, the tables    *)
(* are the memory backend's dict and list after the same calls, so          *)
(* neighbors() and activation_log() answer in the same order, also after    *)
(* removals have freed seq values and merge() has rebuilt the edges.        *)
ImplementsMemory == Memory!MSpec

(* The weight per edge key, -1 where there is no row, and the number of     *)
(* activations per concern.                                                 *)
WeightsOf(rows) ==
    [k \in [src : Ids, dst : Ids, rel : Rels] |->
        LET found == {row \in rows : Matches(row, k.src, k.dst, k.rel)}
        IN  IF found = {} THEN -1 ELSE (CHOOSE row \in found : TRUE).w]

HitsOf(rows) ==
    [c \in Ids |-> Cardinality({row \in rows : row.concern = c})]

PortWeight == WeightsOf(edgeRows)
PortHits == HitsOf(activations)

Graph == INSTANCE DcnGraph WITH weight <- PortWeight, hits <- PortHits

(* The rows, and with them the memory backend they agree with, are the      *)
(* graph the DCNStore port promises: merge() leaves one edge per key, the   *)
(* heavier of the two that met, drops self-loops and moves every            *)
(* activation.                                                              *)
ImplementsGraph == Graph!GSpec

(* No operation leaves a dangling pointer behind: every row of dcn_edges    *)
(* and of dcn_activations belongs to nodes that exist, also after           *)
(* remove_node and merge have taken a node away.                            *)
NoDanglingReference == Graph!NoDanglingReference

(* Concern ids are interchangeable. *)
IdSymmetry == Permutations(Ids)
=============================================================================
