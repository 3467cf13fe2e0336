------------------------------ MODULE Rewrites ------------------------------
(***************************************************************************)
(* The structural rewrites of the connectome: when a concern is split, a    *)
(* pair merged, a coalition lifted, an edge connected, strengthened,        *)
(* weakened or pruned, and what each does to the two stores                 *)
(* (credit/split_spec.py, connectome_split.py, connectome_plasticity.py,    *)
(* rewrite_objective.py, rewrite_gate.py, connectome/synapse_evolution.py). *)
(*                                                                         *)
(* A row of the concern store is [life, kw, jp, rels]: the lifecycle        *)
(* record, the keywords and joinpoint names of its pointcuts, and its       *)
(* declared relations <<type, target>>.  The graph is [nodes, edges]:       *)
(* id -> lifecycle_state and <<src, dst, relation>> -> weight.              *)
(***************************************************************************)
EXTENDS Credit

CONSTANTS Beta,        \* PlasticityEngine.split_beta, in hundredths
          SplitNMin    \* PlasticityEngine.split_n_min, at least 4

ASSUME RewriteAssumption == Beta \in Nat /\ SplitNMin \in Nat /\ SplitNMin >= 4

IdSeq(S) == SetToSortSeq(S, LAMBDA a, b : a < b)

(* "--" occurs in the ids of split children and of lifted coalitions; both  *)
(* numberings are injective.                                                *)
ChildA(id) == id + 1
ChildB(id) == id + 2
LiftId(members) ==
    LET sum == members[1] + members[2]
    IN  100 * (sum * sum + members[1]) + 3
IsDerived(id) == id % 100 # 0

-----------------------------------------------------------------------------
(* The DCN store, one operation each (DcnGraph states what they promise).   *)
AddNode(g, id, row) == [nodes |-> Put(g.nodes, id, row.life.state), edges |-> g.edges]

HasEdge(g, s, d, rel) == <<s, d, rel>> \in DOMAIN g.edges

AddEdge(g, s, d, rel, w) ==
    IF {s, d} \subseteq DOMAIN g.nodes
    THEN [nodes |-> g.nodes, edges |-> Put(g.edges, <<s, d, rel>>, w)] ELSE g

RemoveEdge(g, s, d, rel) == [nodes |-> g.nodes, edges |-> Drop(g.edges, <<s, d, rel>>)]

MergeNodes(g, a, b) ==
    LET To(x) == IF x = a THEN b ELSE x
        Moved(e) == <<To(e[1]), To(e[2]), e[3]>>
        kept == {e \in DOMAIN g.edges : To(e[1]) # To(e[2])}
    IN  IF a = b \/ ~({a, b} \subseteq DOMAIN g.nodes) THEN g
        ELSE [nodes |-> Drop(g.nodes, a),
              edges |-> [k \in {Moved(e) : e \in kept} |->
                           Max({g.edges[e] : e \in {f \in kept : Moved(f) = k}})]]

ArchiveNode(g, id) ==
    IF id \in DOMAIN g.nodes
    THEN [nodes |-> Put(g.nodes, id, "archived"), edges |-> g.edges] ELSE g

(* with suppress(Exception): dcn_store.add_node(concern_store.get(id))      *)
EnsureNodes(g, store, ids) ==
    LET known == ids \cap DOMAIN store
    IN  [nodes |-> [c \in DOMAIN g.nodes \cup known |->
                      IF c \in known THEN store[c].life.state ELSE g.nodes[c]],
         edges |-> g.edges]

neighbors(g, id, rel) == {d \in DOMAIN g.nodes : HasEdge(g, id, d, rel)}

-----------------------------------------------------------------------------
(* build_connectome_view: every stored concern, whatever its state; the     *)
(* reflex ones are conserved; the edges that leave a stored concern.        *)
ViewRelations == {"activates", "supports", "depends_on"}
ConnectomeOf(store, g) ==
    [aspects |-> DOMAIN store,
     reflex_core |-> {c \in DOMAIN store : store[c].life.reflex},
     edges |-> {e \in DOMAIN g.edges : e[1] \in DOMAIN store /\ e[3] \in ViewRelations}]

weaken_edge(g, s, d, delta) ==
    LET w == Pos(g.edges[<<s, d, "activates">>] - delta)
    IN  IF ~HasEdge(g, s, d, "activates") THEN g
        ELSE IF w < 5 THEN RemoveEdge(g, s, d, "activates")
        ELSE AddEdge(g, s, d, "activates", w)

strengthen_edge(g, s, d, delta, floor) ==
    IF delta <= 0 THEN g
    ELSE AddEdge(g, s, d, "activates",
                 Least(One, At(g.edges, <<s, d, "activates">>, floor) + delta))

-----------------------------------------------------------------------------
(* RewriteGate.evaluate: a rewrite that lowers F (or leaves it) is certain, *)
(* one that raises it happens with probability exp(-dF/T), so it may or may *)
(* not.  delta_f is in hundredths.                                          *)
GateOutcomes(delta_f) == IF delta_f <= 0 THEN {TRUE} ELSE BOOLEAN

(* ConcernRtBuffer means; NoReward for a concern without samples. *)
_reward_mean(buffer, id) ==
    LET rs == At(buffer, id, <<>>)
    IN  IF rs = <<>> THEN NoReward
        ELSE FoldLeft(LAMBDA acc, s : acc + s.r, 0, rs) \div Len(rs)

_coalition_reward_mean(buffer, ids) ==
    LET known == {id \in ids : _reward_mean(buffer, id) # NoReward}
    IN  IF known = {} THEN NoReward
        ELSE MapThenSumSet(LAMBDA id : _reward_mean(buffer, id), known)
                \div Cardinality(known)

_reward_gap(buffer, a, b) ==
    LET ra == _reward_mean(buffer, a)
        rb == _reward_mean(buffer, b)
    IN  IF NoReward \in {ra, rb} THEN 0 ELSE ra - rb

RewardSignal(mean) == IF mean = NoReward THEN One ELSE Pos(mean)

score_connect(coactivation, mean) ==
    Beta - Percent(coactivation, RewardSignal(mean))

score_prune(w, threshold) == w - Percent(One + Pos(threshold - w), Beta)

score_lift(size, mean) == Beta * (4 + size) - RewardSignal(mean) * size

score_merge(overlap, gap) == Abs(gap) - 25 * overlap - 4 * Beta

-----------------------------------------------------------------------------
(* split_spec.  A partition is the set of positions on its left side.       *)
RewardsIn(samples, s) == [i \in 1 .. Len(s) |-> samples[s[i]].r]
RewardsAt(samples, idx) == RewardsIn(samples, IdSeq(idx))

SumOf(rs) == FoldLeft(LAMBDA x, y : x + y, 0, rs)

(* n^2 times the variance of n rewards. *)
Spread(rs) ==
    IF Len(rs) < 2 THEN 0
    ELSE Len(rs) * SumOf([i \in DOMAIN rs |-> rs[i] * rs[i]]) - SumOf(rs) * SumOf(rs)

(* Variance of n rewards, in hundredths of a squared reward. *)
_variance(rs) == Spread(rs) \div (One * Len(rs) * Len(rs))

separability_gain(samples, left) ==
    LET rest == DOMAIN samples \ left
        n == Len(samples)
    IN  _variance(RewardsAt(samples, DOMAIN samples))
          - (Cardinality(left) * _variance(RewardsAt(samples, left))
               + Cardinality(rest) * _variance(RewardsAt(samples, rest))) \div n

is_categorical_feature_axis(samples) ==
    LET feats == SelectSeq([i \in DOMAIN samples |-> samples[i].feature],
                           LAMBDA f : f # {})
        unique == Cardinality(ToSet(feats))
    IN  /\ feats # <<>>
        /\ \/ unique <= Most(4, Len(feats) \div 2)
           \/ 100 * unique <= 35 * Len(feats)

(* One class against the rest. *)
_partition_categorical_exact(samples) ==
    {{i \in DOMAIN samples : samples[i].feature = f} :
        f \in {samples[i].feature : i \in DOMAIN samples} \ {{}}}

(* Samples that have a token against those that have not. *)
_partition_token_axes(samples) ==
    {{i \in DOMAIN samples : tok \in samples[i].feature} :
        tok \in UNION {samples[i].feature : i \in DOMAIN samples}}

NoPartition == {}

FeatureAxes(samples) ==
    IF \A i \in DOMAIN samples : samples[i].feature = {}
    THEN {1 .. Len(samples) \div 2}
    ELSE IF is_categorical_feature_axis(samples)
    THEN _partition_categorical_exact(samples)
    ELSE _partition_token_axes(samples)

BestOf(samples, proper) ==
    IF Len(samples) < 4 \/ proper = {} THEN NoPartition
    ELSE CHOOSE p \in proper : \A q \in proper :
            separability_gain(samples, p) >= separability_gain(samples, q)

find_best_axis_partition(samples) ==
    BestOf(samples, FeatureAxes(samples) \ {{}, DOMAIN samples})

MeanOf(rs) == SumOf(rs) \div Len(rs)

(* The guards decline a candidate partition: too few samples, too little    *)
(* variance, gain or gap.  The acceptance sample of a split whose dF < 0 is *)
(* always below its rate.                                                   *)
Declines(samples, left, gain, h) ==
    \/ Len(samples) < SplitNMin
    \/ h < 2
    \/ left = NoPartition
    \/ 100 * gain < 15 * h
    \/ Abs(MeanOf(RewardsAt(samples, left))
             - MeanOf(RewardsAt(samples, DOMAIN samples \ left))) < 5
    \/ 8 * Beta - gain >= 0

Guarded(samples, left) ==
    IF Declines(samples, left, separability_gain(samples, left),
                _variance(RewardsAt(samples, DOMAIN samples)))
    THEN NoPartition ELSE left

(* The partition to split along, or NoPartition when a guard declines.      *)
evaluate_split_guards(samples) == Guarded(samples, find_best_axis_partition(samples))
=============================================================================
