----------------------------- MODULE Selection -----------------------------
(***************************************************************************)
(* Which of the routed candidates become active: the coordinator           *)
(* (opencoat_runtime_core/coordinator) ranks them, the resolver            *)
(* (opencoat_runtime_core/resolver) drops duplicates and the losers of     *)
(* declared precedence, suppression and conflict, and the budget keeps a   *)
(* prefix.  A candidate is [c, score]; a composite score is an integer     *)
(* from 0 to 20 * Unit (the weights 1.0, 0.5, 0.3, 0.2, -0.5 over 2.0).    *)
(***************************************************************************)
EXTENDS Routing

CONSTANTS MaxActive, MaxTokens       \* RuntimeBudgets

TopScore == 20 * Unit

_priority_signal(c) == IF primary_weaving(c) = None THEN Unit \div 2 ELSE primary_weaving(c).priority

_trust_signal(c) == IF c.trust = None THEN Unit \div 2 ELSE c.trust

_compose(c, relevance, ctx) ==
  LET Signal(map) == IF map \in DOMAIN ctx /\ c.id \in DOMAIN ctx[map]
                     THEN clamp01(ctx[map][c.id]) ELSE 0
      weighted == 10 * clamp01(relevance) + 5 * _priority_signal(c) + 3 * _trust_signal(c)
                    + 2 * Signal("history_effectiveness") - 5 * Signal("conflict_penalty")
  IN  Max({0, Min({TopScore, weighted})})

RanksBefore(a, b) == a.score > b.score \/ (a.score = b.score /\ a.c.id < b.c.id)

rank(scored, ctx) ==
  StableSort([i \in DOMAIN scored |->
                [c |-> scored[i].c, score |-> _compose(scored[i].c, scored[i].score, ctx)]],
             RanksBefore)

Ids(ranked) == {e.c.id : e \in ToSet(ranked)}
Without(ranked, dropped) == SelectSeq(ranked, LAMBDA e : e.c.id \notin dropped)

-----------------------------------------------------------------------------
(* resolver/dedupe.py: in ranked order, the more specific concern wins.    *)
collapse(ranked) ==
  LET Scan(dropped, e) ==
        FoldLeft(LAMBDA d, r :
                   IF \/ e.c.id \in d
                      \/ r.type \notin {"generalizes", "specializes"}
                      \/ 2 * r.weight < Unit
                      \/ r.target \notin Ids(ranked) \ d
                   THEN d
                   ELSE d \cup {IF r.type = "specializes" THEN r.target ELSE e.c.id},
                 dropped, e.c.relations)
  IN  Without(ranked, FoldLeft(Scan, {}, ranked))

-----------------------------------------------------------------------------
(* resolver/precedence.py: a map from winners to losers, as the sequence   *)
(* of the pairs entered into it: per concern its declared orders, then its *)
(* own relations.                                                          *)
build_precedence_beats(catalog) ==
  LET PairsOf(o) == FlattenSeq([i \in DOMAIN o |->
                      SelectSeq([j \in 1..(Len(o) - i) |-> <<o[i], o[i + j]>>],
                                LAMBDA p : p[1] # p[2])])
      Declared(c) == FlattenSeq([k \in DOMAIN c.declarations |-> PairsOf(c.declarations[k])])
      Related(c) == LET rels == SelectSeq(c.relations,
                                          LAMBDA r : r.type = "declares_precedence_over")
                    IN  [k \in DOMAIN rels |-> <<c.id, rels[k].target>>]
  IN  FlattenSeq([i \in DOMAIN catalog |-> Declared(catalog[i]) \o Related(catalog[i])])

\* Winners are taken in the order in which they entered the map; a winner
\* that has been dropped beats nobody.
precedence_drops(ranked, beats) ==
  LET Beat(dropped, p) ==
        IF p[1] \notin Ids(ranked) \ dropped THEN dropped
        ELSE dropped \cup {l \in Ids(ranked) : <<p[1], l>> \in ToSet(beats)}
  IN  FoldLeft(Beat, {}, beats)

-----------------------------------------------------------------------------
(* resolver/conflict.py                                                    *)
Targets(c, type) == {r.target : r \in {s \in ToSet(c.relations) : s.type = type}}

SuppressionOfLower(ranked, dropped0) ==
  dropped0 \cup UNION {Targets(ranked[i].c, "suppresses")
                         \cap Ids(SubSeq(ranked, i + 1, Len(ranked))) : i \in DOMAIN ranked}

SuppressionDrops(ranked, dropped0) ==
  FoldLeft(LAMBDA d, e : IF e.c.id \in d THEN d
                         ELSE d \cup (Targets(e.c, "suppresses") \cap Ids(ranked)),
           dropped0, ranked)

_pick_loser(a, b, scores) ==
  CASE scores[a] > scores[b] -> b
    [] scores[b] > scores[a] -> a
    [] OTHER                 -> Max({a, b})

ConflictDrops(ranked, dropped0) ==
  LET scores == [id \in Ids(ranked) |-> (CHOOSE e \in ToSet(ranked) : e.c.id = id).score]
      Scan(dropped, e) ==
        FoldLeft(LAMBDA d, r :
                   IF \/ e.c.id \in d
                      \/ r.type # "conflicts_with"
                      \/ r.target \notin Ids(ranked) \ d
                   THEN d
                   ELSE d \cup {_pick_loser(e.c.id, r.target, scores)},
                 dropped, e.c.relations)
  IN  FoldLeft(Scan, dropped0, ranked)

\* ConflictResolver.resolve: precedence, then suppression, then conflict.
Survivors(ranked, catalog) ==
  Without(ranked, ConflictDrops(ranked,
                    SuppressionDrops(ranked,
                      precedence_drops(ranked, build_precedence_beats(catalog)))))

\* ConcernResolver.resolve
resolve(ranked, catalog) == Survivors(collapse(ranked), catalog)

\* resolver/escalation.py: collected from the legacy advice field, before the
\* budget is applied.
escalations(resolved) ==
  {e.c.id : e \in {x \in ToSet(resolved) : /\ x.c.advice # None
                                           /\ x.c.advice.type = "escalation_notice"}}

-----------------------------------------------------------------------------
(* coordinator/budget.py and topk.py                                       *)
CeilDiv4(n) == (n + 3) \div 4

estimate_floor(c) == IF primary_advice(c) = None THEN 0 ELSE primary_advice(c).chars \div 8

estimate_tokens(c) ==
  LET a     == primary_advice(c)
      chars == a.chars + a.rationale
      est   == IF a.max = None THEN CeilDiv4(chars) ELSE Min({CeilDiv4(chars), a.max})
  IN  IF a = None THEN 0 ELSE IF chars = 0 THEN 0 ELSE Max({est, 1})

\* A cutoff, not a packing: the longest prefix that fits; its first entry
\* always does.
FittingPrefix(s, costs, maxCount, maxTokens) ==
  LET Spent(n) == FoldLeft(LAMBDA acc, x : acc + x, 0, SubSeq(costs, 1, n))
      fits == {n \in 1..Len(s) : n <= maxCount /\ (n = 1 \/ Spent(n) <= maxTokens)}
  IN  SubSeq(s, 1, Max(fits \cup {0}))

enforce(ranked) ==
  FittingPrefix(ranked, [i \in DOMAIN ranked |-> estimate_tokens(ranked[i].c)],
                MaxActive, MaxTokens)

select(scored, k) == SubSeq(scored, 1, Min({k, Len(scored)}))

_to_active(e) ==
  [cid |-> e.c.id, score |-> e.score,
   priority |-> IF primary_weaving(e.c) = None THEN None ELSE primary_weaving(e.c).priority]

ActiveOf(resolved) ==
  LET capped == select(enforce(resolved), MaxActive)
  IN  [i \in DOMAIN capped |-> _to_active(capped[i])]
=============================================================================
