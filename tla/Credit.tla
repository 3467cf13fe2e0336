------------------------------- MODULE Credit -------------------------------
(***************************************************************************)
(* The credit field: how one r_t outcome record becomes a reward, an        *)
(* advantage over its context's baseline, samples in the split buffer and   *)
(* signed credit on the synapses between the aspects that were active       *)
(* (opencoat_runtime_core/credit).                                          *)
(*                                                                         *)
(* Rewards, advantages, scores and weights are in hundredths, eligibility   *)
(* traces in tenths, rounded.  Ids are integers: a host's                   *)
(* concern is a multiple of 100, so that the ids "x--a", "x--b" of its      *)
(* split children sort right after it, and "lift.x--y" after them all.      *)
(* A feature text is the set of its tokens; {} is the empty text.           *)
(***************************************************************************)
EXTENDS ConcernRules, SequencesExt

NoId == 0
One == 100
NoReward == -1
NoAdvantage == -1000000

Put(f, k, v) == [x \in DOMAIN f \cup {k} |-> IF x = k THEN v ELSE f[x]]
Drop(f, k) == Restrict(f, DOMAIN f \ {k})
At(f, k, default) == IF k \in DOMAIN f THEN f[k] ELSE default
Pos(v) == IF v > 0 THEN v ELSE 0
Abs(v) == IF v < 0 THEN -v ELSE v
Least(v, w) == IF v <= w THEN v ELSE w
Most(v, w) == IF v >= w THEN v ELSE w
Percent(v, p) == (v * p) \div One

(* All pairs of positions i < j of a sequence, in the order of two nested   *)
(* loops (itertools.combinations).                                          *)
PairsOf(s) ==
    FlattenSeq([i \in 1 .. Len(s) |->
                  [j \in 1 .. Len(s) - i |-> <<s[i], s[i + j]>>]])

-----------------------------------------------------------------------------
reward_from_signal(rec) ==
    CASE rec.kind = "tool_outcome" -> IF rec.blocked \/ rec.error THEN 0 ELSE One
      [] rec.kind = "turn_complete" ->
            IF rec.error THEN 0
            ELSE IF rec.reward # NoReward THEN rec.reward ELSE One
      [] OTHER -> 0

(* Which concern a record is about and in which direction it moves it.      *)
Nobody == [cid |-> NoId, dir |-> 0]

_attribute_policy(rec) ==
    LET adv == rec.r - rec.b
    IN  CASE rec.kind = "tool_blocked" \/ rec.decision = "deny" ->
               [cid |-> rec.policy, dir |-> One]
          [] adv # 0 -> [cid |-> rec.policy, dir |-> adv]
          [] rec.kind = "tool_outcome" /\ rec.error ->
               [cid |-> rec.policy, dir |-> -One]
          [] OTHER -> Nobody

(* The best scored plastic aspect of the turn, or the best scored one when  *)
(* none is marked plastic; max() keeps the first of equals.                 *)
_attribute_turn_complete(rec) ==
    LET adv == IF rec.adv # NoAdvantage THEN rec.adv ELSE rec.r - rec.b
        plastic == SelectSeq(rec.aspects, LAMBDA a : a.plastic)
        pool == IF plastic # <<>> THEN plastic ELSE rec.aspects
        leader == SelectInSeq(pool,
                     LAMBDA a : \A b \in ToSet(pool) : a.score >= b.score)
    IN  IF pool = <<>> \/ adv = 0 THEN Nobody
        ELSE [cid |-> pool[leader].cid, dir |-> adv]

_attribute(rec) ==
    IF rec.policy # NoId THEN _attribute_policy(rec)
    ELSE IF rec.kind = "turn_complete" THEN _attribute_turn_complete(rec)
    ELSE Nobody

-----------------------------------------------------------------------------
(* RewardBaseline with ema_alpha = 1: the running mean of each bucket.      *)
baseline(cr, bucket) ==
    IF bucket \notin DOMAIN cr.counts THEN 0
    ELSE cr.sums[bucket] \div cr.counts[bucket]

update(cr, bucket, r) ==
    [cr EXCEPT !.sums = Put(@, bucket, At(@, bucket, 0) + r),
               !.counts = Put(@, bucket, At(@, bucket, 0) + 1)]

(* e <- 0.9 e + part *)
touch_synapse(traces, key) == Put(traces, key, (9 * At(traces, key, 0)) \div 10 + 10)

_fallback_active(rec) ==
    LET who == _attribute(rec).cid
    IN  IF who = NoId THEN <<>> ELSE <<who>>

(* Every ordered pair of aspects active together earns advantage * trace.   *)
_attribute_synapses(cr, ids, adv) ==
    IF adv = 0 THEN cr
    ELSE FoldLeft(
           LAMBDA acc, key :
              LET traces == touch_synapse(acc.traces, key)
              IN  [acc EXCEPT !.traces = traces,
                              !.ledger = Put(@, key,
                                   At(@, key, 0) + (adv * traces[key]) \div 10)],
           cr,
           FlattenSeq([i \in 1 .. Len(PairsOf(ids)) |->
                         LET p == PairsOf(ids)[i]
                         IN  <<p, <<p[2], p[1]>>>>]))

(* The stimulus axis a sample is filed under. *)
_feature_from_record(rec) ==
    CASE rec.feature # {} -> rec.feature
      [] rec.policy # NoId -> {ToString(rec.policy)}
      [] OTHER -> {rec.joinpoint}

(* ConcernRtBuffer.append: a sliding window. *)
BufferAppend(buffer, cid, sample, maxSamples) ==
    LET rows == Append(At(buffer, cid, <<>>), sample)
    IN  Put(buffer, cid,
            IF Len(rows) > maxSamples THEN Tail(rows) ELSE rows)

(***************************************************************************)
(* attribute_turn: cr is the credit field [sums, counts, traces, ledger,    *)
(* buffer]; active the ids record_turn_activations left for the turn.  The  *)
(* per-aspect kappa is reported in statistics only and is left out.         *)
(***************************************************************************)
attribute_turn(cr, rec, active, maxSamples) ==
    LET b == baseline(cr, rec.joinpoint)
        adv == rec.r - b
        ids == IF active # <<>> THEN active ELSE _fallback_active(rec)
        credited == _attribute_synapses(update(cr, rec.joinpoint, rec.r), ids, adv)
        sample == [r |-> rec.r, feature |-> _feature_from_record(rec)]
    IN  [field |-> [credited EXCEPT !.buffer =
                      FoldSet(LAMBDA c, buf : BufferAppend(buf, c, sample, maxSamples),
                              @, ToSet(ids))],
         baseline_b |-> b, advantage |-> adv, members |-> ToSet(ids)]

(* A record as a host sends it, before append() fills in r, b and adv.      *)
WireRecord(turn, kind, policy) ==
    [turn |-> turn, joinpoint |-> "before_tool_call", kind |-> kind,
     error |-> FALSE, blocked |-> FALSE, policy |-> policy, decision |-> "none",
     reward |-> NoReward, feature |-> {}, aspects |-> <<>>,
     r |-> 0, b |-> 0, adv |-> NoAdvantage]
=============================================================================
