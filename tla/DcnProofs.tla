----------------------------- MODULE DcnProofs ------------------------------
(***************************************************************************)
(* The Deep Concern Network, for graphs of any size: the port keeps         *)
(* referential integrity, the sqlite tables implement the port, and so the  *)
(* tables keep it too.  The proofs of the first part treat the weights and  *)
(* counts of the port as opaque: they hold whichever backend keeps them.    *)
(***************************************************************************)
EXTENDS DcnSqlite, FiniteSetTheorems, TLAPS

(* The edge of a that lands on e when a is merged into b. *)
LEMMA TwinIsKey ==
    ASSUME NEW e \in Graph!EdgeKey, NEW a \in Ids, NEW b \in Ids
    PROVE  /\ Graph!Twin(e, a, b) \in Graph!EdgeKey
           /\ Graph!Twin(e, a, b).src = (IF e.src = b THEN a ELSE e.src)
           /\ Graph!Twin(e, a, b).dst = (IF e.dst = b THEN a ELSE e.dst)
  BY DEF Graph!EdgeKey, Graph!Twin

LEMMA HeavierInRange ==
    ASSUME NEW v \in {Graph!NoEdge} \cup 0 .. WeightOne,
           NEW w \in {Graph!NoEdge} \cup 0 .. WeightOne
    PROVE  /\ Graph!Heavier(v, w) \in {Graph!NoEdge} \cup 0 .. WeightOne
           /\ Graph!Heavier(v, w) # Graph!NoEdge
                 => v # Graph!NoEdge \/ w # Graph!NoEdge
  BY GraphAssumption DEF Graph!Heavier, Graph!NoEdge

LEMMA GNextPreservesGTypeOK ==
    Graph!GTypeOK /\ [Graph!GNext]_(Graph!gvars) => Graph!GTypeOK'
  <1> SUFFICES ASSUME Graph!GTypeOK, [Graph!GNext]_(Graph!gvars)
               PROVE  Graph!GTypeOK'
    OBVIOUS
  <1> USE DEF Graph!GTypeOK
  <1>1. ASSUME NEW c \in Ids, NEW s \in NodeStates, Graph!GAddNode(c, s)
        PROVE  Graph!GTypeOK'
    BY <1>1 DEF Graph!GAddNode
  <1>2. ASSUME NEW c \in Ids, Graph!GRemoveNode(c) PROVE Graph!GTypeOK'
    BY <1>2 DEF Graph!GRemoveNode
  <1>3. ASSUME NEW e \in Graph!EdgeKey, NEW w \in 0 .. WeightOne,
               Graph!GAddEdge(e, w)
        PROVE  Graph!GTypeOK'
    BY <1>3 DEF Graph!GAddEdge
  <1>4. ASSUME NEW e \in Graph!EdgeKey, Graph!GRemoveEdge(e)
        PROVE  Graph!GTypeOK'
    BY <1>4 DEF Graph!GRemoveEdge
  <1>5. ASSUME NEW c \in Ids, Graph!GLogActivation(c) PROVE Graph!GTypeOK'
    BY <1>5 DEF Graph!GLogActivation
  <1>6. ASSUME NEW a \in Ids, NEW b \in Ids, Graph!GMerge(a, b)
        PROVE  Graph!GTypeOK'
    <2>1. PortWeight' \in [Graph!EdgeKey -> {Graph!NoEdge} \cup 0 .. WeightOne]
      BY <1>6, TwinIsKey, HeavierInRange DEF Graph!GMerge
    <2>2. PortHits[a] + PortHits[b] \in Nat
      OBVIOUS
    <2> QED BY <1>6, <2>1, <2>2 DEF Graph!GMerge
  <1>7. ASSUME NEW c \in Ids, Graph!GArchive(c) PROVE Graph!GTypeOK'
    BY <1>7, GraphAssumption DEF Graph!GArchive
  <1>8. CASE UNCHANGED Graph!gvars
    BY <1>8 DEF Graph!gvars
  <1> QED BY <1>1, <1>2, <1>3, <1>4, <1>5, <1>6, <1>7, <1>8 DEF Graph!GNext

(* The two operations that take a node away, remove_node and merge, also    *)
(* take or rename everything that refers to it.                             *)
LEMMA GNextPreservesReferences ==
    Graph!GTypeOK /\ Graph!NoDanglingReference /\ [Graph!GNext]_(Graph!gvars)
        => Graph!NoDanglingReference'
  <1> SUFFICES ASSUME Graph!GTypeOK, Graph!NoDanglingReference,
                      [Graph!GNext]_(Graph!gvars)
               PROVE  Graph!NoDanglingReference'
    OBVIOUS
  <1> USE DEF Graph!GTypeOK, Graph!NoDanglingReference
  <1>0. \A e \in Graph!EdgeKey : e.src \in Ids /\ e.dst \in Ids
    BY DEF Graph!EdgeKey
  <1>1. ASSUME NEW c \in Ids, NEW s \in NodeStates, Graph!GAddNode(c, s)
        PROVE  Graph!NoDanglingReference'
    BY <1>0, <1>1, GraphAssumption DEF Graph!GAddNode
  <1>2. ASSUME NEW c \in Ids, Graph!GRemoveNode(c)
        PROVE  Graph!NoDanglingReference'
    BY <1>0, <1>2 DEF Graph!GRemoveNode, Graph!Touches
  <1>3. ASSUME NEW e \in Graph!EdgeKey, NEW w \in 0 .. WeightOne,
               Graph!GAddEdge(e, w)
        PROVE  Graph!NoDanglingReference'
    BY <1>0, <1>3 DEF Graph!GAddEdge
  <1>4. ASSUME NEW e \in Graph!EdgeKey, Graph!GRemoveEdge(e)
        PROVE  Graph!NoDanglingReference'
    BY <1>4 DEF Graph!GRemoveEdge
  <1>5. ASSUME NEW c \in Ids, Graph!GLogActivation(c)
        PROVE  Graph!NoDanglingReference'
    BY <1>5 DEF Graph!GLogActivation
  <1>6. ASSUME NEW a \in Ids, NEW b \in Ids, Graph!GMerge(a, b)
        PROVE  Graph!NoDanglingReference'
    <2>1. ASSUME NEW e \in Graph!EdgeKey, PortWeight'[e] # Graph!NoEdge
          PROVE  nodes'[e.src] # Absent /\ nodes'[e.dst] # Absent
      <3>1. /\ ~Graph!Touches(e, a)
            /\ Graph!Heavier(PortWeight[e], PortWeight[Graph!Twin(e, a, b)])
                  # Graph!NoEdge
        BY <1>6, <2>1 DEF Graph!GMerge
      <3>2. \/ PortWeight[e] # Graph!NoEdge
            \/ PortWeight[Graph!Twin(e, a, b)] # Graph!NoEdge
        BY <3>1, TwinIsKey, HeavierInRange
      <3>3. nodes[e.src] # Absent /\ nodes[e.dst] # Absent
        <4>1. CASE PortWeight[e] # Graph!NoEdge
          BY <4>1
        <4>2. CASE PortWeight[Graph!Twin(e, a, b)] # Graph!NoEdge
          <5>1. /\ nodes[Graph!Twin(e, a, b).src] # Absent
                /\ nodes[Graph!Twin(e, a, b).dst] # Absent
            BY <4>2, TwinIsKey
          <5>2. nodes[b] # Absent
            BY <1>6 DEF Graph!GMerge
          <5>3. nodes[e.src] # Absent
            <6>1. CASE e.src = b
              BY <5>2, <6>1
            <6>2. CASE e.src # b
              <7>1. Graph!Twin(e, a, b).src = e.src
                BY <6>2, TwinIsKey
              <7> QED BY <5>1, <7>1
            <6> QED BY <6>1, <6>2
          <5>4. nodes[e.dst] # Absent
            <6>1. CASE e.dst = b
              BY <5>2, <6>1
            <6>2. CASE e.dst # b
              <7>1. Graph!Twin(e, a, b).dst = e.dst
                BY <6>2, TwinIsKey
              <7> QED BY <5>1, <7>1
            <6> QED BY <6>1, <6>2
          <5> QED BY <5>3, <5>4
        <4> QED BY <3>2, <4>1, <4>2
      <3> QED BY <1>0, <1>6, <3>1, <3>3 DEF Graph!GMerge, Graph!Touches
    <2>2. ASSUME NEW c \in Ids, PortHits'[c] > 0 PROVE nodes'[c] # Absent
      BY <1>6, <2>2 DEF Graph!GMerge
    <2> QED BY <2>1, <2>2
  <1>7. ASSUME NEW c \in Ids, Graph!GArchive(c) PROVE Graph!NoDanglingReference'
    BY <1>0, <1>7, GraphAssumption DEF Graph!GArchive
  <1>8. CASE UNCHANGED Graph!gvars
    BY <1>8 DEF Graph!gvars
  <1> QED BY <1>1, <1>2, <1>3, <1>4, <1>5, <1>6, <1>7, <1>8 DEF Graph!GNext

(* Every edge and every logged activation refers to nodes that exist,       *)
(* whatever sequence of store operations led there.                         *)
THEOREM ReferentialIntegrity == Graph!GSpec => []Graph!NoDanglingReference
  <1>1. Graph!GInit => Graph!GTypeOK /\ Graph!NoDanglingReference
    BY GraphAssumption
       DEF Graph!GInit, Graph!GTypeOK, Graph!NoDanglingReference, Graph!NoEdge
  <1> QED BY <1>1, GNextPreservesGTypeOK, GNextPreservesReferences, PTL
             DEF Graph!GSpec

-----------------------------------------------------------------------------
(***************************************************************************)
(* The tables implement the port.  What the mapping needs of them: one row  *)
(* per edge key, so that "the" weight of a key exists, and one row per      *)
(* activation seq, so that merge() moves activations without losing one.    *)
(***************************************************************************)
OneRowPerKey(rows) ==
    \A r, s \in rows :
        r.src = s.src /\ r.dst = s.dst /\ r.rel = s.rel => r = s

EdgesInv(rows) ==
    /\ \A row \in rows : /\ row.src \in Ids
                         /\ row.dst \in Ids
                         /\ row.rel \in Rels
                         /\ row.w \in 0 .. WeightOne
    /\ OneRowPerKey(rows)

LogInv(rows, last) ==
    /\ rows \subseteq [seq : Nat, concern : Ids]
    /\ \A row \in rows : row.seq <= last
    /\ \A r, s \in rows : r.seq = s.seq => r = s
    /\ IsFiniteSet(rows)
    /\ Cardinality(rows) <= MaxHits

TablesInv ==
    /\ nodes \in [Ids -> NodeStates \cup {Absent}]
    /\ lastSeq \in Nat
    /\ EdgesInv(edgeRows)
    /\ LogInv(activations, lastSeq)

Logged(rows, c) == {row \in rows : row.concern = c}

LEMMA WeightOfRow ==
    ASSUME NEW rows, EdgesInv(rows), NEW k \in Graph!EdgeKey, NEW row \in rows,
           Matches(row, k.src, k.dst, k.rel)
    PROVE  WeightsOf(rows)[k] = row.w
  <1> DEFINE found == {r \in rows : Matches(r, k.src, k.dst, k.rel)}
  <1>1. \A r \in found : r = row
    BY DEF EdgesInv, OneRowPerKey, Matches
  <1>2. row \in found
    OBVIOUS
  <1>3. (CHOOSE r \in found : TRUE) = row
    BY <1>1, <1>2
  <1> QED BY <1>2, <1>3 DEF WeightsOf, Graph!EdgeKey

LEMMA WeightOfNone ==
    ASSUME NEW rows, NEW k \in Graph!EdgeKey,
           \A row \in rows : ~Matches(row, k.src, k.dst, k.rel)
    PROVE  WeightsOf(rows)[k] = -1
  BY DEF WeightsOf, Graph!EdgeKey

(* Two tables with the same rows for a key give it the same weight. *)
LEMMA SameRowsSameWeight ==
    ASSUME NEW rows, NEW others, NEW k \in Graph!EdgeKey,
           {row \in rows : Matches(row, k.src, k.dst, k.rel)} =
               {row \in others : Matches(row, k.src, k.dst, k.rel)}
    PROVE  WeightsOf(rows)[k] = WeightsOf(others)[k]
  <1> DEFINE Found(S) == {row \in S : Matches(row, k.src, k.dst, k.rel)}
             Weight(f) == IF f = {} THEN -1 ELSE (CHOOSE row \in f : TRUE).w
  <1>1. /\ WeightsOf(rows)[k] = Weight(Found(rows))
        /\ WeightsOf(others)[k] = Weight(Found(others))
    BY DEF WeightsOf, Graph!EdgeKey
  <1>2. Found(rows) = Found(others)
    OBVIOUS
  <1> HIDE DEF Found, Weight
  <1> QED BY <1>1, <1>2

(* To show what the weights are, it is enough to show it key by key. *)
LEMMA WeightsByKey ==
    ASSUME NEW rows
    PROVE  WeightsOf(rows) = [k \in Graph!EdgeKey |-> WeightsOf(rows)[k]]
  BY DEF WeightsOf, Graph!EdgeKey

LEMMA KeyOfRow ==
    ASSUME NEW rows, EdgesInv(rows), NEW row \in rows
    PROVE  /\ [src |-> row.src, dst |-> row.dst, rel |-> row.rel]
                \in Graph!EdgeKey
           /\ row.w \in 0 .. WeightOne
  BY DEF EdgesInv, Graph!EdgeKey

LEMMA WeightsType ==
    ASSUME NEW rows, EdgesInv(rows)
    PROVE  WeightsOf(rows) \in [Graph!EdgeKey -> {-1} \cup 0 .. WeightOne]
  <1>1. ASSUME NEW k \in Graph!EdgeKey
        PROVE  WeightsOf(rows)[k] \in {-1} \cup 0 .. WeightOne
    <2>1. CASE \E row \in rows : Matches(row, k.src, k.dst, k.rel)
      BY <2>1, WeightOfRow, KeyOfRow
    <2>2. CASE \A row \in rows : ~Matches(row, k.src, k.dst, k.rel)
      BY <2>2, WeightOfNone
    <2> QED BY <2>1, <2>2
  <1> QED BY <1>1, WeightsByKey

LEMMA LoggedFinite ==
    ASSUME NEW rows, IsFiniteSet(rows), NEW c
    PROVE  /\ IsFiniteSet(Logged(rows, c))
           /\ Cardinality(Logged(rows, c)) \in Nat
           /\ Cardinality(Logged(rows, c)) <= Cardinality(rows)
           /\ Cardinality(rows) \in Nat
  <1>1. Logged(rows, c) \in SUBSET rows
    BY DEF Logged
  <1> QED BY <1>1, FS_Subset, FS_CardinalityType

LEMMA HitsAre ==
    ASSUME NEW rows
    PROVE  HitsOf(rows) = [c \in Ids |-> Cardinality(Logged(rows, c))]
  BY DEF HitsOf, Logged

(* An operation that keeps the seq of every row it keeps.                   *)
LEMMA LogShrinks ==
    ASSUME NEW rows, NEW kept \in SUBSET rows, NEW last, LogInv(rows, last)
    PROVE  LogInv(kept, last)
  <1>1. IsFiniteSet(kept) /\ Cardinality(kept) <= Cardinality(rows)
    BY FS_Subset DEF LogInv
  <1>2. Cardinality(kept) \in Nat /\ Cardinality(rows) \in Nat
    BY <1>1, FS_CardinalityType DEF LogInv
  <1> QED BY <1>1, <1>2, GraphAssumption DEF LogInv

-----------------------------------------------------------------------------
LEMMA AddNodeRefines ==
    ASSUME TablesInv, NEW c \in Ids, NEW s \in NodeStates, AddNode(c, s)
    PROVE  TablesInv' /\ Graph!GAddNode(c, s)
  <1>1. TablesInv'
    BY DEF TablesInv, AddNode
  <1>2. PortWeight' = PortWeight /\ PortHits' = PortHits
    BY DEF PortWeight, PortHits, AddNode
  <1> QED BY <1>1, <1>2 DEF AddNode, Graph!GAddNode

LEMMA ArchiveNodeRefines ==
    ASSUME TablesInv, NEW c \in Ids, ArchiveNode(c)
    PROVE  TablesInv' /\ Graph!GArchive(c)
  <1>1. TablesInv'
    BY GraphAssumption DEF TablesInv, ArchiveNode
  <1>2. PortWeight' = PortWeight /\ PortHits' = PortHits
    BY DEF PortWeight, PortHits, ArchiveNode
  <1> QED BY <1>1, <1>2 DEF ArchiveNode, Graph!GArchive

(* The cascade takes the edges at either end, which are the keys that touch *)
(* the node, and the activations of that node alone.                        *)
LEMMA RemoveNodeRefines ==
    ASSUME TablesInv, NEW c \in Ids, RemoveNode(c)
    PROVE  TablesInv' /\ Graph!GRemoveNode(c)
  <1> DEFINE rows == {row \in edgeRows : row.src # c /\ row.dst # c}
             kept == {row \in activations : row.concern # c}
  <1>1. edgeRows' = rows /\ activations' = kept
    BY DEF RemoveNode
  <1>2. EdgesInv(rows)
    BY DEF TablesInv, EdgesInv, OneRowPerKey
  <1>3. LogInv(kept, lastSeq)
    BY LogShrinks DEF TablesInv
  <1>4. TablesInv'
    BY <1>1, <1>2, <1>3 DEF TablesInv, RemoveNode
  <1>5. ASSUME NEW k \in Graph!EdgeKey
        PROVE  WeightsOf(rows)[k] =
                  IF Graph!Touches(k, c) THEN -1 ELSE WeightsOf(edgeRows)[k]
    <2>1. CASE Graph!Touches(k, c)
      <3>1. \A row \in rows : ~Matches(row, k.src, k.dst, k.rel)
        BY <2>1 DEF Matches, Graph!Touches
      <3> HIDE DEF rows
      <3> QED BY <2>1, <3>1, WeightOfNone
    <2>2. CASE ~Graph!Touches(k, c)
      <3>1. {row \in rows : Matches(row, k.src, k.dst, k.rel)} =
               {row \in edgeRows : Matches(row, k.src, k.dst, k.rel)}
        BY <2>2 DEF Matches, Graph!Touches
      <3> HIDE DEF rows
      <3> QED BY <2>2, <3>1, SameRowsSameWeight
    <2> QED BY <2>1, <2>2
  <1>6. PortWeight' = [k \in Graph!EdgeKey |->
                          IF Graph!Touches(k, c) THEN Graph!NoEdge
                          ELSE PortWeight[k]]
    <2> HIDE DEF rows
    <2> QED BY <1>1, <1>5, WeightsByKey DEF PortWeight, Graph!NoEdge
  <1>7. PortHits' = [PortHits EXCEPT ![c] = 0]
    <2>1. Logged(kept, c) = {}
      BY DEF Logged
    <2>2. \A d \in Ids : d # c => Logged(kept, d) = Logged(activations, d)
      BY DEF Logged
    <2>3. Cardinality(Logged(kept, c)) = 0
      BY <2>1, FS_EmptySet
    <2> HIDE DEF kept
    <2> QED BY <1>1, <2>2, <2>3, HitsAre DEF PortHits
  <1> QED BY <1>4, <1>6, <1>7 DEF RemoveNode, Graph!GRemoveNode

LEMMA RemoveEdgeRefines ==
    ASSUME TablesInv, NEW a \in Ids, NEW b \in Ids, NEW r \in Rels,
           RemoveEdge(a, b, r)
    PROVE  /\ TablesInv'
           /\ Graph!GRemoveEdge([src |-> a, dst |-> b, rel |-> r])
  <1> DEFINE rows == {row \in edgeRows : ~Matches(row, a, b, r)}
             key == [src |-> a, dst |-> b, rel |-> r]
  <1>1. edgeRows' = rows /\ PortHits' = PortHits
    BY DEF RemoveEdge, PortHits
  <1>2. EdgesInv(rows)
    BY DEF TablesInv, EdgesInv, OneRowPerKey
  <1>3. TablesInv'
    BY <1>1, <1>2 DEF TablesInv, RemoveEdge
  <1>4. key \in Graph!EdgeKey
    BY DEF Graph!EdgeKey
  <1>5. PortWeight[key] # -1
    <2>1. PICK row \in edgeRows : Matches(row, a, b, r)
      BY DEF RemoveEdge
    <2>2. Matches(row, key.src, key.dst, key.rel)
      BY <2>1
    <2>3. row.w \in 0 .. WeightOne
      BY KeyOfRow DEF TablesInv
    <2> HIDE DEF key
    <2>4. PortWeight[key] = row.w
      BY <1>4, <2>2, WeightOfRow DEF PortWeight, TablesInv
    <2> QED BY <2>3, <2>4, GraphAssumption
  <1>6. ASSUME NEW k \in Graph!EdgeKey
        PROVE  WeightsOf(rows)[k] =
                  IF k = key THEN -1 ELSE WeightsOf(edgeRows)[k]
    <2>1. CASE k = key
      <3>1. \A row \in rows : ~Matches(row, k.src, k.dst, k.rel)
        BY <2>1
      <3> HIDE DEF rows
      <3> QED BY <2>1, <3>1, WeightOfNone
    <2>2. CASE k # key
      <3>0. ~(k.src = a /\ k.dst = b /\ k.rel = r)
        BY <2>2 DEF Graph!EdgeKey
      <3>1. {row \in rows : Matches(row, k.src, k.dst, k.rel)} =
               {row \in edgeRows : Matches(row, k.src, k.dst, k.rel)}
        BY <3>0 DEF Matches
      <3> HIDE DEF rows
      <3> QED BY <2>2, <3>1, SameRowsSameWeight
    <2> QED BY <2>1, <2>2
  <1>7. PortWeight' = [PortWeight EXCEPT ![key] = Graph!NoEdge]
    <2> HIDE DEF rows, key
    <2> QED BY <1>1, <1>6, WeightsByKey DEF PortWeight, Graph!NoEdge
  <1> QED BY <1>1, <1>3, <1>5, <1>7
          DEF RemoveEdge, Graph!GRemoveEdge, Graph!NoEdge

(* An existing key gives its row up for one with the new weight. *)
LEMMA AddEdgeRefines ==
    ASSUME TablesInv, NEW a \in Ids, NEW b \in Ids, NEW r \in Rels,
           NEW w \in 0 .. WeightOne, AddEdge(a, b, r, w)
    PROVE  /\ TablesInv'
           /\ Graph!GAddEdge([src |-> a, dst |-> b, rel |-> r], w)
  <1> DEFINE key == [src |-> a, dst |-> b, rel |-> r]
             others == {row \in edgeRows : ~Matches(row, a, b, r)}
  <1>1. PICK seq : edgeRows' = others \cup
            {[src |-> a, dst |-> b, rel |-> r, w |-> w, seq |-> seq]}
    BY DEF AddEdge
  <1> DEFINE new == [src |-> a, dst |-> b, rel |-> r, w |-> w, seq |-> seq]
             rows == others \cup {new}
  <1>2. EdgesInv(rows)
    <2>1. \A row \in others : ~(row.src = a /\ row.dst = b /\ row.rel = r)
      BY DEF Matches
    <2>2. EdgesInv(others)
      BY DEF TablesInv, EdgesInv, OneRowPerKey
    <2> HIDE DEF others
    <2> QED BY <2>1, <2>2 DEF EdgesInv, OneRowPerKey
  <1>3. UNCHANGED <<nodes, activations, lastSeq>>
    BY DEF AddEdge
  <1>4. TablesInv'
    <2> HIDE DEF rows
    <2>1. edgeRows' = rows
      BY <1>1 DEF rows
    <2> QED BY <1>2, <1>3, <2>1 DEF TablesInv
  <1>5. key \in Graph!EdgeKey
    BY DEF Graph!EdgeKey
  <1>6. ASSUME NEW k \in Graph!EdgeKey
        PROVE  WeightsOf(rows)[k] =
                  IF k = key THEN w ELSE WeightsOf(edgeRows)[k]
    <2>1. CASE k = key
      <3>1. Matches(new, k.src, k.dst, k.rel) /\ new \in rows /\ new.w = w
        BY <2>1 DEF Matches
      <3> HIDE DEF rows, new
      <3> QED BY <1>2, <2>1, <3>1, WeightOfRow
    <2>2. CASE k # key
      <3>1. ~(k.src = a /\ k.dst = b /\ k.rel = r)
        BY <2>2 DEF Graph!EdgeKey
      <3>2. {row \in rows : Matches(row, k.src, k.dst, k.rel)} =
               {row \in edgeRows : Matches(row, k.src, k.dst, k.rel)}
        BY <3>1 DEF Matches
      <3> HIDE DEF rows
      <3> QED BY <2>2, <3>2, SameRowsSameWeight
    <2> QED BY <2>1, <2>2
  <1>7. PortWeight' = [PortWeight EXCEPT ![key] = w]
    <2>1. edgeRows' = rows
      BY <1>1
    <2> HIDE DEF rows, key
    <2> QED BY <1>6, <2>1, WeightsByKey DEF PortWeight
  <1>8. PortHits' = PortHits
    BY <1>3 DEF PortHits
  <1>9. nodes[key.src] # Absent /\ nodes[key.dst] # Absent
    BY DEF AddEdge
  <1> QED BY <1>3, <1>4, <1>7, <1>8, <1>9 DEF Graph!GAddEdge

(* AUTOINCREMENT: the new seq is above every one in the table, so the row   *)
(* is a new one.                                                            *)
LEMMA LogActivationRefines ==
    ASSUME TablesInv, NEW c \in Ids, LogActivation(c)
    PROVE  TablesInv' /\ Graph!GLogActivation(c)
  <1> DEFINE new == [seq |-> lastSeq + 1, concern |-> c]
             rows == activations \cup {new}
  <1>1. /\ activations' = rows
        /\ lastSeq' = lastSeq + 1
        /\ nodes[c] # Absent
        /\ Cardinality(activations) < MaxHits
        /\ UNCHANGED <<nodes, edgeRows>>
    BY DEF LogActivation
  <1>2. lastSeq \in Nat /\ LogInv(activations, lastSeq)
    BY DEF TablesInv
  <1>3. new \notin activations
    BY <1>2 DEF LogInv
  <1>4. /\ IsFiniteSet(rows)
        /\ Cardinality(rows) = Cardinality(activations) + 1
    BY <1>2, <1>3, FS_AddElement DEF LogInv
  <1>5. LogInv(rows, lastSeq + 1)
    <2>1. rows \subseteq [seq : Nat, concern : Ids]
      BY <1>2 DEF LogInv
    <2>2. \A row \in rows : row.seq <= lastSeq + 1
      BY <1>2 DEF LogInv
    <2>3. \A r, s \in rows : r.seq = s.seq => r = s
      BY <1>2 DEF LogInv
    <2>4. Cardinality(rows) <= MaxHits
      BY <1>1, <1>2, <1>4, LoggedFinite, GraphAssumption DEF LogInv
    <2> QED BY <1>4, <2>1, <2>2, <2>3, <2>4 DEF LogInv
  <1>6. TablesInv'
    BY <1>1, <1>2, <1>5 DEF TablesInv
  <1>7. Cardinality(Logged(activations, c)) < MaxHits
    BY <1>1, <1>2, LoggedFinite, GraphAssumption DEF LogInv
  <1>8. Cardinality(Logged(rows, c)) = Cardinality(Logged(activations, c)) + 1
    <2>1. /\ Logged(rows, c) = Logged(activations, c) \cup {new}
          /\ new \notin Logged(activations, c)
      BY <1>3 DEF Logged
    <2>2. IsFiniteSet(Logged(activations, c))
      BY <1>2, LoggedFinite DEF LogInv
    <2> HIDE DEF rows, new
    <2> QED BY <2>1, <2>2, FS_AddElement
  <1>9. \A d \in Ids : d # c => Logged(rows, d) = Logged(activations, d)
    BY DEF Logged
  <1>10. PortHits' = [PortHits EXCEPT ![c] = @ + 1] /\ PortHits[c] < MaxHits
    <2> HIDE DEF rows
    <2> QED BY <1>1, <1>7, <1>8, <1>9, HitsAre DEF PortHits
  <1>11. PortWeight' = PortWeight
    BY <1>1 DEF PortWeight
  <1> QED BY <1>1, <1>6, <1>10, <1>11 DEF Graph!GLogActivation

-----------------------------------------------------------------------------
(***************************************************************************)
(* merge(a, b).  Renaming a to b sends at most two edges to one key, so the *)
(* maximum over what lands there is the heavier of two; a log row keeps its *)
(* seq, so the rows of b afterwards are the rows of a and of b before.      *)
(***************************************************************************)
Renamed(x, a, b) == IF x = a THEN b ELSE x

LandsOn(other, row, a, b) ==
    /\ Renamed(other.src, a, b) = Renamed(row.src, a, b)
    /\ Renamed(other.dst, a, b) = Renamed(row.dst, a, b)
    /\ other.rel = row.rel

Landing(rows, row, a, b) == {other \in rows : LandsOn(other, row, a, b)}

RewiredRow(rows, row, a, b) ==
    [src |-> Renamed(row.src, a, b), dst |-> Renamed(row.dst, a, b),
     rel |-> row.rel,
     w |-> Max({o.w : o \in Landing(rows, row, a, b)}),
     seq |-> Min({o.seq : o \in Landing(rows, row, a, b)})]

LEMMA RewiredRowsAre ==
    ASSUME NEW rows, NEW a, NEW b
    PROVE  RewiredRows(rows, a, b) =
               {RewiredRow(rows, row, a, b) :
                   row \in {x \in rows : Renamed(x.src, a, b)
                                             # Renamed(x.dst, a, b)}}
  BY DEF RewiredRows, RewiredRow, Landing, LandsOn, Renamed

LEMMA MaxOfTwo ==
    ASSUME NEW S, NEW v \in Int, NEW w \in Int, S = {v, w}
    PROVE  Max(S) = Graph!Heavier(v, w)
  <1>1. /\ Graph!Heavier(v, w) \in S
        /\ \A y \in S : Graph!Heavier(v, w) >= y
    BY DEF Graph!Heavier
  <1>2. ASSUME NEW x \in S, \A y \in S : x >= y
        PROVE  x = Graph!Heavier(v, w)
    BY <1>2 DEF Graph!Heavier
  <1> QED BY <1>1, <1>2 DEF Max

(* What lands on a key that is not a loop and does not touch a: the row of  *)
(* the key itself and the row of its twin.                                  *)
LEMMA LandingIsKeyAndTwin ==
    ASSUME NEW k \in Graph!EdgeKey, NEW a \in Ids, NEW b \in Ids, a # b,
           ~Graph!Touches(k, a), k.src # k.dst, NEW o
    PROVE  (/\ Renamed(o.src, a, b) = k.src
            /\ Renamed(o.dst, a, b) = k.dst
            /\ o.rel = k.rel)
           <=> \/ Matches(o, k.src, k.dst, k.rel)
               \/ Matches(o, Graph!Twin(k, a, b).src, Graph!Twin(k, a, b).dst,
                             Graph!Twin(k, a, b).rel)
  <1>1. Graph!Twin(k, a, b).rel = k.rel
    BY DEF Graph!Twin, Graph!EdgeKey
  <1> QED BY <1>1, TwinIsKey DEF Renamed, Matches, Graph!Touches, Graph!EdgeKey

(* The weight of a key after the merge, where some row lands on it.         *)
LEMMA LandedWeight ==
    ASSUME NEW rows, EdgesInv(rows), NEW k \in Graph!EdgeKey,
           NEW a \in Ids, NEW b \in Ids, a # b,
           ~Graph!Touches(k, a), k.src # k.dst,
           NEW row \in rows,
           Renamed(row.src, a, b) = k.src, Renamed(row.dst, a, b) = k.dst,
           row.rel = k.rel
    PROVE  /\ Max({o.w : o \in Landing(rows, row, a, b)}) =
                  Graph!Heavier(WeightsOf(rows)[k],
                                WeightsOf(rows)[Graph!Twin(k, a, b)])
           /\ Max({o.w : o \in Landing(rows, row, a, b)}) \in 0 .. WeightOne
  <1> DEFINE t == Graph!Twin(k, a, b)
             Own(o) == Matches(o, k.src, k.dst, k.rel)
             Other(o) == Matches(o, t.src, t.dst, t.rel)
             ws == {o.w : o \in Landing(rows, row, a, b)}
  <1>1. t \in Graph!EdgeKey
    BY TwinIsKey
  <1>2. \A o \in rows : o \in Landing(rows, row, a, b) <=> Own(o) \/ Other(o)
    BY LandingIsKeyAndTwin DEF Landing, LandsOn
  <1>3. Own(row) \/ Other(row)
    BY LandingIsKeyAndTwin
  <1>4. \A o \in rows : Own(o) => o.w = WeightsOf(rows)[k]
    BY WeightOfRow
  <1>5. \A o \in rows : Other(o) => o.w = WeightsOf(rows)[t]
    <2> HIDE DEF t
    <2> QED BY <1>1, WeightOfRow
  <1>6. \A o \in rows : o.w \in Nat
    BY GraphAssumption DEF EdgesInv
  <1>7. ASSUME NEW o \in rows, Own(o), NEW p \in rows, Other(p)
        PROVE  Max(ws) = Graph!Heavier(WeightsOf(rows)[k], WeightsOf(rows)[t])
    <2> HIDE DEF t, Own, Other
    <2>1. ws = {WeightsOf(rows)[k], WeightsOf(rows)[t]}
      BY <1>2, <1>4, <1>5, <1>7 DEF Landing
    <2>2. WeightsOf(rows)[k] \in Int /\ WeightsOf(rows)[t] \in Int
      BY <1>4, <1>5, <1>6, <1>7
    <2> HIDE DEF ws
    <2> QED BY <2>1, <2>2, MaxOfTwo
  <1>8. ASSUME NEW o \in rows, Own(o), \A p \in rows : ~Other(p)
        PROVE  Max(ws) = Graph!Heavier(WeightsOf(rows)[k], WeightsOf(rows)[t])
    <2>1. WeightsOf(rows)[t] = -1
      <3> HIDE DEF t
      <3> QED BY <1>1, <1>8, WeightOfNone
    <2> HIDE DEF t, Own, Other
    <2>2. ws = {WeightsOf(rows)[k], WeightsOf(rows)[k]}
      BY <1>2, <1>4, <1>8 DEF Landing
    <2>3. WeightsOf(rows)[k] \in Nat
      BY <1>4, <1>6, <1>8
    <2> HIDE DEF ws
    <2>4. Max(ws) = Graph!Heavier(WeightsOf(rows)[k], WeightsOf(rows)[k])
      BY <2>2, <2>3, MaxOfTwo
    <2> QED BY <2>1, <2>3, <2>4 DEF Graph!Heavier
  <1>9. ASSUME NEW o \in rows, Other(o), \A p \in rows : ~Own(p)
        PROVE  Max(ws) = Graph!Heavier(WeightsOf(rows)[k], WeightsOf(rows)[t])
    <2>1. WeightsOf(rows)[k] = -1
      BY <1>9, WeightOfNone
    <2> HIDE DEF t, Own, Other
    <2>2. ws = {WeightsOf(rows)[t], WeightsOf(rows)[t]}
      BY <1>2, <1>5, <1>9 DEF Landing
    <2>3. WeightsOf(rows)[t] \in Nat
      BY <1>5, <1>6, <1>9
    <2> HIDE DEF ws
    <2>4. Max(ws) = Graph!Heavier(WeightsOf(rows)[t], WeightsOf(rows)[t])
      BY <2>2, <2>3, MaxOfTwo
    <2> QED BY <2>1, <2>3, <2>4 DEF Graph!Heavier
  <1>10. Max(ws) = Graph!Heavier(WeightsOf(rows)[k], WeightsOf(rows)[t])
    BY <1>3, <1>7, <1>8, <1>9
  <1>11. Max(ws) \in 0 .. WeightOne
    <2>1. /\ WeightsOf(rows)[k] \in {-1} \cup 0 .. WeightOne
          /\ WeightsOf(rows)[t] \in {-1} \cup 0 .. WeightOne
      BY <1>1, WeightsType
    <2>2. row.w \in 0 .. WeightOne
      BY KeyOfRow
    <2>3. row.w = WeightsOf(rows)[k] \/ row.w = WeightsOf(rows)[t]
      BY <1>3, <1>4, <1>5
    <2> HIDE DEF t, ws
    <2> QED BY <1>10, <2>1, <2>2, <2>3, GraphAssumption DEF Graph!Heavier
  <1> QED BY <1>10, <1>11

LEMMA RewiredKey ==
    ASSUME NEW rows, EdgesInv(rows), NEW a \in Ids, NEW b \in Ids, a # b,
           NEW row \in rows, Renamed(row.src, a, b) # Renamed(row.dst, a, b),
           NEW k, k = [src |-> Renamed(row.src, a, b),
                       dst |-> Renamed(row.dst, a, b), rel |-> row.rel]
    PROVE  /\ k \in Graph!EdgeKey
           /\ ~Graph!Touches(k, a)
           /\ k.src # k.dst
           /\ k.src = Renamed(row.src, a, b)
           /\ k.dst = Renamed(row.dst, a, b)
           /\ k.rel = row.rel
  BY DEF EdgesInv, Renamed, Graph!EdgeKey, Graph!Touches

LEMMA RewiredEdgesInv ==
    ASSUME NEW rows, EdgesInv(rows), NEW a \in Ids, NEW b \in Ids, a # b
    PROVE  EdgesInv(RewiredRows(rows, a, b))
  <1> DEFINE Moving == {x \in rows : Renamed(x.src, a, b)
                                         # Renamed(x.dst, a, b)}
  <1>1. ASSUME NEW row \in Moving
        PROVE  LET new == RewiredRow(rows, row, a, b)
               IN  /\ new.src \in Ids
                   /\ new.dst \in Ids
                   /\ new.rel \in Rels
                   /\ new.w \in 0 .. WeightOne
    <2> DEFINE k == [src |-> Renamed(row.src, a, b),
                     dst |-> Renamed(row.dst, a, b), rel |-> row.rel]
    <2>1. /\ k \in Graph!EdgeKey
          /\ ~Graph!Touches(k, a)
          /\ k.src # k.dst
      BY RewiredKey
    <2>2. Max({o.w : o \in Landing(rows, row, a, b)}) \in 0 .. WeightOne
      BY <2>1, LandedWeight
    <2>3. row.src \in Ids /\ row.dst \in Ids /\ row.rel \in Rels
      BY DEF EdgesInv
    <2> QED BY <2>2, <2>3 DEF RewiredRow, Renamed
  <1>2. ASSUME NEW x \in Moving, NEW y \in Moving,
               RewiredRow(rows, x, a, b).src = RewiredRow(rows, y, a, b).src,
               RewiredRow(rows, x, a, b).dst = RewiredRow(rows, y, a, b).dst,
               RewiredRow(rows, x, a, b).rel = RewiredRow(rows, y, a, b).rel
        PROVE  RewiredRow(rows, x, a, b) = RewiredRow(rows, y, a, b)
    <2>1. /\ Renamed(x.src, a, b) = Renamed(y.src, a, b)
          /\ Renamed(x.dst, a, b) = Renamed(y.dst, a, b)
          /\ x.rel = y.rel
      BY <1>2 DEF RewiredRow
    <2>2. Landing(rows, x, a, b) = Landing(rows, y, a, b)
      BY <2>1 DEF Landing, LandsOn
    <2> QED BY <2>1, <2>2 DEF RewiredRow
  <1>3. RewiredRows(rows, a, b) = {RewiredRow(rows, row, a, b) : row \in Moving}
    BY RewiredRowsAre
  <1> HIDE DEF Moving
  <1> QED BY <1>1, <1>2, <1>3 DEF EdgesInv, OneRowPerKey

LEMMA RewiredWeights ==
    ASSUME NEW rows, EdgesInv(rows), NEW a \in Ids, NEW b \in Ids, a # b
    PROVE  WeightsOf(RewiredRows(rows, a, b)) =
               [k \in Graph!EdgeKey |->
                   IF Graph!Touches(k, a) \/ k.src = k.dst THEN -1
                   ELSE Graph!Heavier(WeightsOf(rows)[k],
                                      WeightsOf(rows)[Graph!Twin(k, a, b)])]
  <1> DEFINE Moving == {x \in rows : Renamed(x.src, a, b)
                                         # Renamed(x.dst, a, b)}
             new == RewiredRows(rows, a, b)
  <1>1. new = {RewiredRow(rows, row, a, b) : row \in Moving}
    BY RewiredRowsAre
  <1>2. EdgesInv(new)
    BY RewiredEdgesInv
  <1>3. ASSUME NEW k \in Graph!EdgeKey, Graph!Touches(k, a) \/ k.src = k.dst
        PROVE  WeightsOf(new)[k] = -1
    <2>1. ASSUME NEW row \in Moving
          PROVE  ~Matches(RewiredRow(rows, row, a, b), k.src, k.dst, k.rel)
      BY <1>3 DEF RewiredRow, Matches, Renamed, Graph!Touches
    <2>2. \A row \in new : ~Matches(row, k.src, k.dst, k.rel)
      <3> HIDE DEF new, Moving
      <3> QED BY <1>1, <2>1
    <2> HIDE DEF new
    <2> QED BY <2>2, WeightOfNone
  <1>4. ASSUME NEW k \in Graph!EdgeKey, ~Graph!Touches(k, a), k.src # k.dst
        PROVE  WeightsOf(new)[k] =
                   Graph!Heavier(WeightsOf(rows)[k],
                                 WeightsOf(rows)[Graph!Twin(k, a, b)])
    <2> DEFINE Lands(row) == /\ Renamed(row.src, a, b) = k.src
                             /\ Renamed(row.dst, a, b) = k.dst
                             /\ row.rel = k.rel
    <2>1. CASE \E row \in rows : Lands(row)
      <3>1. PICK row \in rows : Lands(row)
        BY <2>1
      <3>2. row \in Moving
        BY <1>4, <3>1
      <3> DEFINE r == RewiredRow(rows, row, a, b)
      <3>3. /\ Matches(r, k.src, k.dst, k.rel)
            /\ r.w = Max({o.w : o \in Landing(rows, row, a, b)})
        BY <3>1 DEF RewiredRow, Matches
      <3>4. r \in new
        <4> HIDE DEF new, Moving
        <4> QED BY <1>1, <3>2
      <3>5. WeightsOf(new)[k] = r.w
        <4> HIDE DEF new, r
        <4> QED BY <1>2, <3>3, <3>4, WeightOfRow
      <3>6. r.w = Graph!Heavier(WeightsOf(rows)[k],
                                WeightsOf(rows)[Graph!Twin(k, a, b)])
        <4> HIDE DEF r
        <4> QED BY <1>4, <3>1, <3>3, LandedWeight
      <3> QED BY <3>5, <3>6
    <2>2. CASE \A row \in rows : ~Lands(row)
      <3>1. ASSUME NEW row \in Moving
            PROVE  ~Matches(RewiredRow(rows, row, a, b), k.src, k.dst, k.rel)
        BY <2>2 DEF RewiredRow, Matches
      <3>2. \A row \in new : ~Matches(row, k.src, k.dst, k.rel)
        <4> HIDE DEF new, Moving
        <4> QED BY <1>1, <3>1
      <3>3. WeightsOf(new)[k] = -1
        <4> HIDE DEF new
        <4> QED BY <3>2, WeightOfNone
      <3> DEFINE t == Graph!Twin(k, a, b)
      <3>4. t \in Graph!EdgeKey
        BY TwinIsKey
      <3>5. /\ \A o \in rows : ~Matches(o, k.src, k.dst, k.rel)
            /\ \A o \in rows : ~Matches(o, t.src, t.dst, t.rel)
        BY <1>4, <2>2, LandingIsKeyAndTwin
      <3>6. WeightsOf(rows)[k] = -1 /\ WeightsOf(rows)[t] = -1
        <4> HIDE DEF t
        <4> QED BY <3>4, <3>5, WeightOfNone
      <3> QED BY <3>3, <3>6 DEF Graph!Heavier
    <2> QED BY <2>1, <2>2
  <1> HIDE DEF new
  <1>5. WeightsOf(new) = [k \in Graph!EdgeKey |-> WeightsOf(new)[k]]
    BY WeightsByKey
  <1>6. WeightsOf(new) =
            [k \in Graph!EdgeKey |->
                IF Graph!Touches(k, a) \/ k.src = k.dst THEN -1
                ELSE Graph!Heavier(WeightsOf(rows)[k],
                                   WeightsOf(rows)[Graph!Twin(k, a, b)])]
    BY <1>3, <1>4, <1>5
  <1> QED BY <1>6 DEF new

(* UPDATE dcn_activations SET concern_id = b WHERE concern_id = a. *)
MovedRow(row, a, b) == [row EXCEPT !.concern = IF @ = a THEN b ELSE @]

MovedRows(rows, a, b) == {MovedRow(row, a, b) : row \in rows}

LEMMA MovedRowIs ==
    ASSUME NEW row \in [seq : Nat, concern : Ids], NEW a \in Ids, NEW b \in Ids
    PROVE  /\ MovedRow(row, a, b) \in [seq : Nat, concern : Ids]
           /\ MovedRow(row, a, b).seq = row.seq
           /\ MovedRow(row, a, b).concern =
                 IF row.concern = a THEN b ELSE row.concern
           /\ row.concern # a => MovedRow(row, a, b) = row
  BY DEF MovedRow

(* The update maps rows one to one: no two of them share a seq. *)
LEMMA MovedRowsCount ==
    ASSUME NEW rows, rows \subseteq [seq : Nat, concern : Ids],
           \A r, s \in rows : r.seq = s.seq => r = s, IsFiniteSet(rows),
           NEW a \in Ids, NEW b \in Ids
    PROVE  /\ IsFiniteSet(MovedRows(rows, a, b))
           /\ Cardinality(MovedRows(rows, a, b)) = Cardinality(rows)
  <1> DEFINE moved == MovedRows(rows, a, b)
             f == [row \in rows |-> MovedRow(row, a, b)]
  <1>1. f \in [rows -> moved]
    BY DEF MovedRows
  <1>2. \A r, s \in rows : MovedRow(r, a, b) = MovedRow(s, a, b) => r = s
    <2> SUFFICES ASSUME NEW r \in rows, NEW s \in rows,
                        MovedRow(r, a, b) = MovedRow(s, a, b)
                 PROVE  r = s
      OBVIOUS
    <2>1. MovedRow(r, a, b).seq = r.seq /\ MovedRow(s, a, b).seq = s.seq
      BY MovedRowIs
    <2> QED BY <2>1
  <1>3. f \in Injection(rows, moved)
    BY <1>1, <1>2 DEF Injection, IsInjective
  <1>4. f \in Surjection(rows, moved)
    BY <1>1 DEF Surjection, MovedRows
  <1>5. ExistsBijection(rows, moved)
    BY <1>3, <1>4 DEF ExistsBijection, Bijection
  <1> HIDE DEF moved
  <1>6. IsFiniteSet(moved) /\ Cardinality(moved) = Cardinality(rows)
    BY <1>5, FS_Bijection
  <1> QED BY <1>6 DEF moved

LEMMA MovedLogInv ==
    ASSUME NEW rows, NEW last, LogInv(rows, last), NEW a \in Ids, NEW b \in Ids
    PROVE  LogInv(MovedRows(rows, a, b), last)
  <1>1. /\ IsFiniteSet(MovedRows(rows, a, b))
        /\ Cardinality(MovedRows(rows, a, b)) <= MaxHits
    BY MovedRowsCount DEF LogInv
  <1>2. \A row \in rows : /\ MovedRow(row, a, b) \in [seq : Nat, concern : Ids]
                          /\ MovedRow(row, a, b).seq = row.seq
    BY MovedRowIs DEF LogInv
  <1>3. \A r, s \in rows : MovedRow(r, a, b).seq = MovedRow(s, a, b).seq
                              => MovedRow(r, a, b) = MovedRow(s, a, b)
    BY <1>2 DEF LogInv
  <1> QED BY <1>1, <1>2, <1>3 DEF LogInv, MovedRows

LEMMA MovedHits ==
    ASSUME NEW rows, NEW last, LogInv(rows, last), NEW a \in Ids, NEW b \in Ids,
           a # b
    PROVE  /\ HitsOf(MovedRows(rows, a, b)) =
                  [HitsOf(rows) EXCEPT ![a] = 0,
                                       ![b] = HitsOf(rows)[a] + HitsOf(rows)[b]]
           /\ HitsOf(rows)[a] + HitsOf(rows)[b] <= MaxHits
  <1> DEFINE moved == MovedRows(rows, a, b)
             La == Logged(rows, a)
             Lb == Logged(rows, b)
             both == La \cup Lb
  <1>1. rows \subseteq [seq : Nat, concern : Ids]
    BY DEF LogInv
  <1>2. \A row \in rows :
            /\ MovedRow(row, a, b).concern =
                  IF row.concern = a THEN b ELSE row.concern
            /\ row.concern # a => MovedRow(row, a, b) = row
    BY <1>1, MovedRowIs
  <1>3. Logged(moved, a) = {}
    BY <1>2 DEF Logged, MovedRows
  <1>4. ASSUME NEW d \in Ids, d # a, d # b
        PROVE  Logged(moved, d) = Logged(rows, d)
    BY <1>2, <1>4 DEF Logged, MovedRows
  <1>5. Logged(moved, b) = MovedRows(both, a, b)
    BY <1>2 DEF Logged, MovedRows
  <1>6. /\ IsFiniteSet(La)
        /\ IsFiniteSet(Lb)
        /\ Cardinality(La) \in Nat
        /\ Cardinality(Lb) \in Nat
    BY LoggedFinite DEF LogInv
  <1>7. /\ IsFiniteSet(both)
        /\ Cardinality(both) = Cardinality(La) + Cardinality(Lb)
    <2>1. La \cap Lb = {}
      BY DEF Logged
    <2>2. Cardinality(La \cap Lb) = 0
      BY <2>1, FS_EmptySet
    <2>3. /\ IsFiniteSet(La \cup Lb)
          /\ Cardinality(La \cup Lb) =
                Cardinality(La) + Cardinality(Lb) - Cardinality(La \cap Lb)
      BY <1>6, FS_Union
    <2> HIDE DEF La, Lb
    <2> QED BY <1>6, <2>2, <2>3
  <1>8. Cardinality(Logged(moved, b)) = Cardinality(La) + Cardinality(Lb)
    <2>1. /\ both \subseteq [seq : Nat, concern : Ids]
          /\ \A r, s \in both : r.seq = s.seq => r = s
      BY DEF LogInv, Logged
    <2> HIDE DEF both
    <2> QED BY <1>5, <1>7, <2>1, MovedRowsCount
  <1>9. Cardinality(La) + Cardinality(Lb) <= MaxHits
    <2>1. both \in SUBSET rows
      BY DEF Logged
    <2>2. /\ Cardinality(both) <= Cardinality(rows)
          /\ Cardinality(rows) \in Nat
          /\ Cardinality(rows) <= MaxHits
      BY <2>1, FS_Subset, FS_CardinalityType DEF LogInv
    <2> HIDE DEF both, La, Lb
    <2> QED BY <1>6, <1>7, <2>2, GraphAssumption
  <1>10. Cardinality(Logged(moved, a)) = 0
    BY <1>3, FS_EmptySet
  <1> HIDE DEF moved
  <1>11. HitsOf(moved) =
            [HitsOf(rows) EXCEPT ![a] = 0,
                                 ![b] = HitsOf(rows)[a] + HitsOf(rows)[b]]
    BY <1>4, <1>8, <1>10, HitsAre
  <1> QED BY <1>9, <1>11, HitsAre DEF moved

LEMMA MergeRefines ==
    ASSUME TablesInv, NEW a \in Ids, NEW b \in Ids, Merge(a, b)
    PROVE  TablesInv' /\ Graph!GMerge(a, b)
  <1>1. /\ a # b
        /\ nodes[a] # Absent
        /\ nodes[b] # Absent
        /\ edgeRows' = RewiredRows(edgeRows, a, b)
        /\ activations' = MovedRows(activations, a, b)
        /\ nodes' = [nodes EXCEPT ![a] = Absent]
        /\ lastSeq' = lastSeq
    BY DEF Merge, MovedRows, MovedRow
  <1>2. EdgesInv(edgeRows) /\ LogInv(activations, lastSeq)
    BY DEF TablesInv
  <1>3. EdgesInv(RewiredRows(edgeRows, a, b))
    BY <1>1, <1>2, RewiredEdgesInv
  <1>4. LogInv(MovedRows(activations, a, b), lastSeq)
    BY <1>2, MovedLogInv
  <1>5. TablesInv'
    BY <1>1, <1>3, <1>4 DEF TablesInv
  <1>6. PortWeight' = [k \in Graph!EdgeKey |->
            IF Graph!Touches(k, a) \/ k.src = k.dst THEN Graph!NoEdge
            ELSE Graph!Heavier(PortWeight[k], PortWeight[Graph!Twin(k, a, b)])]
    BY <1>1, <1>2, RewiredWeights DEF PortWeight, Graph!NoEdge
  <1>7. /\ PortHits' = [PortHits EXCEPT ![a] = 0,
                                        ![b] = PortHits[a] + PortHits[b]]
        /\ PortHits[a] + PortHits[b] <= MaxHits
    BY <1>1, <1>2, MovedHits DEF PortHits
  <1> QED BY <1>1, <1>5, <1>6, <1>7 DEF Graph!GMerge

-----------------------------------------------------------------------------
LEMMA TablesStep ==
    TablesInv /\ [SNext]_svars => TablesInv' /\ [Graph!GNext]_(Graph!gvars)
  <1> SUFFICES ASSUME TablesInv, [SNext]_svars
               PROVE  TablesInv' /\ [Graph!GNext]_(Graph!gvars)
    OBVIOUS
  <1> USE DEF Graph!GNext
  <1>1. ASSUME NEW c \in Ids, NEW s \in NodeStates, AddNode(c, s)
        PROVE  TablesInv' /\ Graph!GNext
    BY <1>1, AddNodeRefines
  <1>2. ASSUME NEW c \in Ids, RemoveNode(c) PROVE TablesInv' /\ Graph!GNext
    BY <1>2, RemoveNodeRefines
  <1>3. ASSUME NEW a \in Ids, NEW b \in Ids, NEW r \in Rels,
               NEW w \in 0 .. WeightOne, AddEdge(a, b, r, w)
        PROVE  TablesInv' /\ Graph!GNext
    <2>1. [src |-> a, dst |-> b, rel |-> r] \in Graph!EdgeKey
      BY DEF Graph!EdgeKey
    <2> QED BY <1>3, <2>1, AddEdgeRefines
  <1>4. ASSUME NEW a \in Ids, NEW b \in Ids, NEW r \in Rels, RemoveEdge(a, b, r)
        PROVE  TablesInv' /\ Graph!GNext
    <2>1. [src |-> a, dst |-> b, rel |-> r] \in Graph!EdgeKey
      BY DEF Graph!EdgeKey
    <2> QED BY <1>4, <2>1, RemoveEdgeRefines
  <1>5. ASSUME NEW c \in Ids, LogActivation(c) PROVE TablesInv' /\ Graph!GNext
    BY <1>5, LogActivationRefines
  <1>6. ASSUME NEW a \in Ids, NEW b \in Ids, Merge(a, b)
        PROVE  TablesInv' /\ Graph!GNext
    BY <1>6, MergeRefines
  <1>7. ASSUME NEW c \in Ids, ArchiveNode(c) PROVE TablesInv' /\ Graph!GNext
    BY <1>7, ArchiveNodeRefines
  <1>8. CASE UNCHANGED svars
    <2>1. PortWeight' = PortWeight /\ PortHits' = PortHits
      BY <1>8 DEF svars, PortWeight, PortHits
    <2> QED BY <1>8, <2>1 DEF svars, TablesInv, Graph!gvars
  <1> QED BY <1>1, <1>2, <1>3, <1>4, <1>5, <1>6, <1>7, <1>8 DEF SNext

LEMMA TablesInit == SInit => TablesInv /\ Graph!GInit
  <1> SUFFICES ASSUME SInit PROVE TablesInv /\ Graph!GInit
    OBVIOUS
  <1>1. IsFiniteSet({}) /\ Cardinality({}) = 0
    BY FS_EmptySet
  <1>2. TablesInv
    BY <1>1, GraphAssumption
       DEF SInit, TablesInv, EdgesInv, OneRowPerKey, LogInv
  <1>3. PortWeight = [k \in Graph!EdgeKey |-> -1]
    BY WeightOfNone, WeightsByKey DEF SInit, PortWeight
  <1>4. PortHits = [c \in Ids |-> 0]
    <2>1. \A c \in Ids : Logged({}, c) = {}
      BY DEF Logged
    <2> QED BY <1>1, <2>1, HitsAre DEF SInit, PortHits
  <1> QED BY <1>2, <1>3, <1>4 DEF SInit, Graph!GInit, Graph!NoEdge

(* Every operation of SqliteDCNStore is the operation of the DCNStore port  *)
(* on the graph its tables stand for, or leaves that graph alone; merge(),  *)
(* which rewrites two tables and drops a row of the third, included.        *)
THEOREM SqliteImplementsPort == SSpec => ImplementsGraph
  BY TablesInit, TablesStep, PTL DEF SSpec, ImplementsGraph, Graph!GSpec

(* No row of dcn_edges or dcn_activations outlives the node it refers to:   *)
(* what the port keeps, the tables that implement it keep.                  *)
THEOREM NoRowDangles == SSpec => []NoDanglingReference
  BY SqliteImplementsPort, ReferentialIntegrity, PTL
     DEF ImplementsGraph, NoDanglingReference
=============================================================================
