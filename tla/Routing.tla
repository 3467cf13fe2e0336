------------------------------ MODULE Routing ------------------------------
(***************************************************************************)
(* The connectome router (opencoat_runtime_core/connectome/router.py and   *)
(* model.py): pointcut hits are boosted along the DCN's activates edges,   *)
(* weighed by eligibility, joined by the members of an active lift hub and *)
(* cut to the best per bucket.  A hit is [c, score].  The catalog is the   *)
(* store's content in its iteration order, edges a set of                  *)
(* [src, dst, rel, weight].  Every aspect that is not a reflex falls into  *)
(* the one bucket of the joinpoint's name, so buckets need no names.       *)
(***************************************************************************)
EXTENDS Pointcuts

CONSTANTS RoutingEnabled, MoePerBucket

\* A stable sort, as Python's list.sort.
StableSort(s, Lt(_, _)) ==
  LET order == SetToSortSeq(DOMAIN s,
                 LAMBDA i, j : Lt(s[i], s[j]) \/ (~Lt(s[j], s[i]) /\ i < j))
  IN  [k \in DOMAIN s |-> s[order[k]]]

StoredIds(catalog) == {c.id : c \in ToSet(catalog)}

\* The store's get: a catalog holds one row per id.
ById(catalog, id) == IF id \in StoredIds(catalog) THEN CHOOSE c \in ToSet(catalog) : c.id = id
                     ELSE None

\* Mutant of build_connectome_view: edges of concerns that are gone stay in the view.
ViewOfAllEdges(catalog, edges) == edges

\* A stored weight of zero reads as 1.0.
_edge_weight(e) == IF e.weight = 0 THEN Unit ELSE e.weight

\* The edges whose source is stored.
build_connectome_view(catalog, edges) ==
  {[src |-> e.src, dst |-> e.dst, rel |-> e.rel, weight |-> _edge_weight(e)] :
      e \in {d \in edges : d.src \in StoredIds(catalog)}}

_incoming_activates(id, view) == {e \in view : e.rel = "activates" /\ e.dst = id}

\* Gain 0.35; a parent that is not itself a hit counts 0.25.
_synapse_boost(base, incoming) ==
  FoldSet(LAMBDA e, acc :
            LET parent == IF e.src \in DOMAIN base THEN base[e.src] ELSE Unit \div 4
            IN  acc + (7 * e.weight * parent) \div (20 * Unit),
          0, incoming)

\* The factor 0.25 + 0.75 * min(1, e): no eligibility field, no factor.
Weighed(score, id, elig) ==
  IF elig = None THEN score
  ELSE (score * (Unit + 3 * (IF elig[id] > Unit THEN Unit ELSE elig[id]))) \div (4 * Unit)

\* The members of each stored hub, ghosts included.
_lift_hub_members(catalog, edges) ==
  [hub \in {c.id : c \in {d \in ToSet(catalog) : d.hub}} |->
     {e.dst : e \in {d \in edges : d.src = hub /\ d.rel \in {"depends_on", "activates"}}}]

\* The hubs among the routed lift their members, each member once.
LiftInto(routed, boost, members, catalog) ==
  LET score(id) == (CHOOSE r \in ToSet(routed) : r.c.id = id).score
      Lift(acc, hub) ==
        FoldLeft(LAMBDA a, m :
                   Append(a, [c |-> ById(catalog, m),
                              score |-> clamp01(score(hub.id) \div 4) + boost[m]]),
                 acc, SetToSortSeq(members[hub.id] \ {r.c.id : r \in ToSet(acc)}, <))
      hubs == SelectSeq(catalog, LAMBDA c : c.hub /\ c.id \in {r.c.id : r \in ToSet(routed)})
  IN  FoldLeft(Lift, routed, hubs)

\* Only members that are stored and no reflex are lifted.
_expand_lift_hubs(routed, boost, members, catalog) ==
  LiftInto(routed, boost,
           [hub \in DOMAIN members |->
              {m \in members[hub] : ById(catalog, m) # None /\ ~ById(catalog, m).reflex}],
           catalog)

IsReflex(r, catalog) ==
  \/ r.c.reflex \/ r.c.inhibitory
  \/ r.c.id \in {c.id : c \in {d \in ToSet(catalog) : d.reflex}}

HigherScore(a, b) == a.score > b.score

\* All reflexes, and of the rest the best MoePerBucket that reach 0.02; when
\* that leaves nothing at all, the best one whatever its score.
_moe_select(routed, catalog) ==
  LET reflex == SelectSeq(routed, LAMBDA r : IsReflex(r, catalog))
      items  == StableSort(SelectSeq(routed, LAMBDA r : ~IsReflex(r, catalog)), HigherScore)
      top    == SubSeq(items, 1, Min({Len(items), Max({1, MoePerBucket})}))
      passed == SelectSeq(top, LAMBDA r : 50 * r.score >= Unit)
      rest   == IF passed = <<>> /\ reflex = <<>> THEN SubSeq(items, 1, Min({Len(items), 1}))
                ELSE passed
  IN  StableSort(reflex \o rest, HigherScore)

route(hits, catalog, edges, elig) ==
  LET view == build_connectome_view(catalog, edges)
      base == [id \in {h.c.id : h \in ToSet(hits)} |->
                 clamp01((CHOOSE h \in ToSet(hits) : h.c.id = id).score)]
      boost == [id \in {h.c.id : h \in ToSet(hits)} \cup StoredIds(catalog) |->
                  _synapse_boost(base, _incoming_activates(id, view))]
      routed == [i \in DOMAIN hits |->
                   [c |-> hits[i].c,
                    score |-> clamp01(Weighed(base[hits[i].c.id] + boost[hits[i].c.id],
                                              hits[i].c.id, elig))]]
  IN  CASE hits = <<>>     -> <<>>
        [] ~RoutingEnabled -> [i \in DOMAIN hits |-> [hits[i] EXCEPT !.score = clamp01(@)]]
        [] OTHER -> _moe_select(_expand_lift_hubs(routed, boost,
                                                  _lift_hub_members(catalog, edges), catalog),
                                catalog)
=============================================================================
