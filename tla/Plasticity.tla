----------------------------- MODULE Plasticity -----------------------------
(***************************************************************************)
(* The passes of the plasticity engine as functions of the two stores       *)
(* (credit/plasticity_engine.py, connectome_plasticity.py,                  *)
(* connectome_split.py, synapse_ledger.py, connectome/synapse_evolution.py).*)
(* A pass the rewrite gate decides returns the set of its outcomes.         *)
(***************************************************************************)
EXTENDS Rewrites

NoSplit == <<>>
Retired == {"archived", "merged", "deleted"}

(* sorted(texts)[:n]: which n of them is not observable. *)
Firsts(S, n) == ToSet(SubSeq(SetToSeq(S), 1, Least(n, Cardinality(S))))

propose_keyword_split(id, row) ==
    LET keys == SetToSeq(row.kw)
        mid == Len(keys) \div 2
    IN  IF row.life.reflex \/ IsDerived(id) \/ Len(keys) < 2 THEN NoSplit
        ELSE <<ToSet(SubSeq(keys, 1, mid)), ToSet(SubSeq(keys, mid + 1, Len(keys)))>>

(* The keywords of the two children: the stimuli on either side of the      *)
(* partition when the guards accept one, halves of the keywords otherwise.  *)
KeywordsAlong(id, row, samples, left) ==
    LET Texts(idx) == {samples[i].feature : i \in idx} \ {{}}
        right == DOMAIN samples \ left
    IN  IF row.life.reflex \/ IsDerived(id) THEN NoSplit
        ELSE IF left # NoPartition /\ Texts(left) # {} /\ Texts(right) # {}
        THEN <<Firsts(Texts(left), 4), Firsts(Texts(right), 4)>>
        ELSE propose_keyword_split(id, row)

SplitKeywords(id, row, samples) ==
    KeywordsAlong(id, row, samples, evaluate_split_guards(samples))

(* A child keeps everything of its parent but keywords, state and reflex.   *)
_child_from_parent(row, keywords) ==
    [row EXCEPT !.kw = keywords, !.life.state = "created", !.life.reflex = FALSE]

_should_split(id, row, samples) ==
    /\ row.life.state = "reinforced"
    /\ row.life.score >= 65
    /\ row.life.activations >= 3
    /\ IF Len(samples) >= SplitNMin THEN evaluate_split_guards(samples) # NoPartition
       ELSE propose_keyword_split(id, row) # NoSplit

(* Only after the split window has closed. *)
_should_lift(id, row, samples) ==
    /\ row.life.state = "reinforced"
    /\ row.life.score >= 75
    /\ Len(samples) >= SplitNMin
    /\ ~_should_split(id, row, samples)

-----------------------------------------------------------------------------
Conserved(view, ids) == ids \cap view.reflex_core # {}

(* One pair of connect_coactivated: both nodes are refreshed, the edge made *)
(* or strengthened; the view was taken before the first pair.               *)
ConnectPair(store, view, g, pair, buffer) ==
    LET a == pair[1]
        b == pair[2]
        dF == score_connect(20, _coalition_reward_mean(buffer, {a, b}))
        linked == strengthen_edge(EnsureNodes(g, store, {a, b}), a, b, 20, 20)
    IN  IF a = b \/ Conserved(view, {a, b}) \/ ~({a, b} \subseteq view.aspects) THEN {g}
        ELSE {IF ok THEN linked ELSE g : ok \in GateOutcomes(dF)}

connect_coactivated(store, g, pairs, buffer) ==
    FoldLeft(LAMBDA gs, p :
                UNION {ConnectPair(store, ConnectomeOf(store, g), h, p, buffer) : h \in gs},
             {g}, pairs)

Prunable(view, g, e) == g.edges[e] < 15 /\ ~Conserved(view, {e[1], e[2]})

prune_weak_edges(store, g) ==
    LET view == ConnectomeOf(store, g)
        weak == {e \in view.edges : Prunable(view, g, e)}
        sure == {e \in weak : score_prune(g.edges[e], 15) <= 0}
    IN  {[g EXCEPT !.edges = Restrict(@, DOMAIN @ \ (sure \cup also))] :
            also \in SUBSET (weak \ sure)}

(* Strengthens or weakens the edges back from the neighbours of each policy *)
(* a record names, then both directions of every co-activated pair; neither *)
(* the nodes of those pairs nor the conserved core are looked at.           *)
reweight_synapses_from_records(store, g, recs, pairs) ==
    LET view == ConnectomeOf(store, g)
        OneRecord(acc, rec) ==
            LET cid == rec.policy
                adv == rec.r - rec.b
                near == neighbors(acc, cid, "activates")
            IN  IF cid = NoId \/ cid \notin view.aspects \/ Conserved(view, {cid})
                   \/ (adv <= 5 /\ adv >= -5) THEN acc
                ELSE IF adv > 5
                THEN FoldSet(LAMBDA n, h : strengthen_edge(h, n, cid, 5, 20),
                             acc, near \ view.reflex_core)
                ELSE FoldSet(LAMBDA n, h : weaken_edge(h, n, cid, 5), acc, near)
        OnePair(acc, p) ==
            IF p[1] = p[2] THEN acc
            ELSE strengthen_edge(strengthen_edge(acc, p[1], p[2], 5, 20),
                                 p[2], p[1], 5, 20)
    IN  FoldLeft(OnePair, FoldLeft(OneRecord, g, recs), pairs)

apply_synapse_kappa_ledger(store, g, ledger) ==
    LET Apply(key, acc) ==
            LET kappa == ledger[key]
                ready == EnsureNodes(acc, store, {key[1], key[2]})
                delta == Least(20, Percent(Abs(kappa), 5))
            IN  CASE key[1] = key[2] -> acc
                  [] kappa > 0 -> strengthen_edge(ready, key[1], key[2], delta, 20)
                  [] kappa < 0 -> weaken_edge(ready, key[1], key[2], delta)
                  [] OTHER -> ready
    IN  FoldSet(Apply, g, DOMAIN ledger)

-----------------------------------------------------------------------------
(* Candidates are pairs of ids, the smaller one first, taken in the order   *)
(* of itertools.combinations: found[:n] are the n that come before the rest. *)
Before(p, q) == p[1] < q[1] \/ (p[1] = q[1] /\ p[2] < q[2])
FirstPairs(found, n) == {p \in found : Cardinality({q \in found : Before(q, p)}) < n}

(* Pairs with two keywords in common, from the rows of the view. *)
find_merge_candidates(rows) ==
    LET open == {c \in DOMAIN rows : ~rows[c].life.reflex}
    IN  {p \in open \X open :
            p[1] < p[2] /\ Cardinality(rows[p[1]].kw \cap rows[p[2]].kw) >= 2}

(* The graph only: both rows stay as they are in the concern store. *)
merge_near_duplicate_pair(store, g, pair, buffer) ==
    LET a == pair[1]
        b == pair[2]
        overlap == Cardinality(store[a].kw \cap store[b].kw)
        dF == score_merge(overlap, _reward_gap(buffer, a, b))
    IN  IF ~({a, b} \subseteq DOMAIN store) THEN {g}
        ELSE IF store[a].life.reflex \/ store[b].life.reflex \/ overlap < 2 THEN {g}
        ELSE {IF ok THEN MergeNodes(EnsureNodes(g, store, {a, b}), b, a) ELSE g :
                 ok \in GateOutcomes(dF)}

(* Pairs that activate each other. *)
find_lift_candidates(view) ==
    LET sources == {e[1] : e \in view.edges}
    IN  {p \in sources \X sources :
            /\ p[1] < p[2]
            /\ <<p[1], p[2], "activates">> \in view.edges
            /\ <<p[2], p[1], "activates">> \in view.edges}

(* The higher-order concern: the keywords and joinpoints of its members, at *)
(* most eight, created without a score, depending on and activating them.   *)
LiftRow(rows) ==
    LET jps == UNION {r.jp : r \in rows}
    IN  [life |-> [state |-> "created", score |-> NoScore, active |-> FALSE,
                   decay |-> 0, activations |-> 0, reflex |-> FALSE],
         kw |-> Firsts(UNION {r.kw : r \in rows}, 8),
         jp |-> IF jps = {} THEN {"before_tool_call"} ELSE jps,
         rels |-> <<>>]

lift_coalition(store, g, members, buffer) ==
    LET id == LiftId(members)
        meta == LiftRow({store[m] : m \in ToSet(members)})
        dF == score_lift(2, _coalition_reward_mean(buffer, ToSet(members)))
        Link(acc, m) == AddEdge(AddEdge(AddNode(acc, m, store[m]),
                                        id, m, "depends_on", 90), id, m, "activates", 50)
        lifted == [store |-> Put(store, id, meta),
                   g |-> Link(Link(AddNode(g, id, meta), members[1]), members[2])]
    IN  IF ~(ToSet(members) \subseteq DOMAIN store) THEN {[store |-> store, g |-> g]}
        ELSE IF id \in DOMAIN store \/ \E m \in ToSet(members) : store[m].life.reflex
        THEN {[store |-> store, g |-> g]}
        ELSE {IF ok THEN lifted ELSE [store |-> store, g |-> g] : ok \in GateOutcomes(dF)}
=============================================================================
