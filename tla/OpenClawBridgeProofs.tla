----------------------- MODULE OpenClawBridgeProofs -------------------------
(***************************************************************************)
(* What the bridge keeps between two hook calls, for any lanes of hook      *)
(* events, any answers of the daemon and any failures of its requests:      *)
(* advice waiting for a prompt, and verdicts waiting for an outcome.  What  *)
(* a turn of the kernel repairs while everybody weaves, what the Python     *)
(* plugin's two threads do to its buffer, and what overlapping polls report. *)
(***************************************************************************)
EXTENDS OpenClawBridge, FiniteSetTheorems, TLAPS

(* A lane stands before one of its events or at its end. *)
LaneInv ==
  /\ sc \in Scenarios
  /\ DOMAIN lanes = DOMAIN sc.lanes
  /\ \A l \in DOMAIN lanes :
       /\ lanes[l].pos \in 1 .. Len(sc.lanes[l]) + 1
       /\ lanes[l].pc \in {"idle", "await"}
       /\ lanes[l].pc = "await" => lanes[l].pos <= Len(sc.lanes[l])

(* The event of a mark has been handled; no later step makes that mark again. *)
Past(m) == \E l \in DOMAIN lanes, k \in Nat : m = <<l, k>> /\ k < lanes[l].pos

RunOf(m) == runKey(EventOf(m))
Key(m) == <<RunOf(m), EventOf(m).tool>>

(* A verdict that waits is filed under its own run and tool and credited to  *)
(* nothing yet.                                                              *)
CreditInv ==
  /\ DOMAIN lastReflex = RunKeys \X Tools
  /\ \A k \in DOMAIN lastReflex : lastReflex[k] # None =>
       /\ Past(lastReflex[k].mark) /\ k = Key(lastReflex[k].mark)
       /\ \A o \in outcomes : o.credits # lastReflex[k].mark
  /\ \A o \in outcomes : Past(o.credits) /\ Key(o.of) = Key(o.credits)
  /\ \A o, q \in outcomes : o.credits = q.credits => o = q

(* Rows wait under the run of their weave, and only until they are folded. *)
AdviceInv ==
  /\ DOMAIN pendingByRun = RunKeys
  /\ \A run \in RunKeys : \E S : pendingByRun[run] \in Seq(S)
  /\ \A w \in remembered : Past(w) /\ RunOf(w) \in RunKeys
  /\ \A run \in RunKeys : \A w \in Weaves(pendingByRun[run]) : w \in remembered /\ RunOf(w) = run
  /\ \A f \in folded : /\ f.weave \in remembered /\ f.run = RunOf(f.weave)
                       /\ f.weave \notin Weaves(pendingByRun[f.run])
  /\ \A f, g \in folded : f.weave = g.weave => f = g
  /\ \A w \in remembered :
       w \in Weaves(pendingByRun[RunOf(w)]) \/ \E f \in folded : f.weave = w

-----------------------------------------------------------------------------
(* Sequences of rows. *)
LEMMA WeavesConcat ==
  ASSUME NEW S, NEW T, NEW a \in Seq(S), NEW b \in Seq(T)
  PROVE  /\ Weaves(a \o b) = Weaves(a) \cup Weaves(b)
         /\ a \o b \in Seq(S \cup T)
<1>1. a \in Seq(S \cup T) /\ b \in Seq(S \cup T)
  OBVIOUS
<1>2. /\ a \o b \in Seq(S \cup T) /\ Len(a \o b) = Len(a) + Len(b)
      /\ \A i \in 1 .. Len(a) + Len(b) :
            (a \o b)[i] = IF i <= Len(a) THEN a[i] ELSE b[i - Len(a)]
  BY <1>1
<1>3. DOMAIN a = 1 .. Len(a) /\ DOMAIN b = 1 .. Len(b) /\ Len(a) \in Nat /\ Len(b) \in Nat
      /\ DOMAIN (a \o b) = 1 .. Len(a) + Len(b)
  BY <1>1, <1>2
<1>4. ASSUME NEW w \in Weaves(a \o b) PROVE w \in Weaves(a) \cup Weaves(b)
  <2>1. PICK i \in 1 .. Len(a) + Len(b) : w = (a \o b)[i].weave
    BY <1>3, <1>4 DEF Weaves, ToSet
  <2>2. CASE i <= Len(a)
    BY <1>2, <1>3, <2>1, <2>2 DEF Weaves, ToSet
  <2>3. CASE i > Len(a)
    <3>1. i - Len(a) \in DOMAIN b /\ w = b[i - Len(a)].weave
      BY <1>2, <1>3, <2>1, <2>3
    <3> QED
      BY <3>1 DEF Weaves, ToSet
  <2> QED
    BY <1>3, <2>2, <2>3
<1>5. ASSUME NEW w \in Weaves(a) PROVE w \in Weaves(a \o b)
  <2>1. PICK i \in DOMAIN a : w = a[i].weave
    BY <1>5 DEF Weaves, ToSet
  <2>2. i \in DOMAIN (a \o b) /\ w = (a \o b)[i].weave
    BY <1>2, <1>3, <2>1
  <2> QED
    BY <2>2 DEF Weaves, ToSet
<1>6. ASSUME NEW w \in Weaves(b) PROVE w \in Weaves(a \o b)
  <2>1. PICK i \in DOMAIN b : w = b[i].weave
    BY <1>6 DEF Weaves, ToSet
  <2>2. i + Len(a) \in DOMAIN (a \o b) /\ w = (a \o b)[i + Len(a)].weave
    BY <1>2, <1>3, <2>1
  <2> QED
    BY <2>2 DEF Weaves, ToSet
<1> QED
  BY <1>2, <1>4, <1>5, <1>6

LEMMA WeavesEmpty == Weaves(<<>>) = {} /\ \E S : <<>> \in Seq(S)
  BY DEF Weaves, ToSet

(* An answer's rows carry the mark of the event they were woven for. *)
LEMMA TaggedRows ==
  ASSUME sc \in Scenarios, NEW l, NEW rows \in sc.replies \cup {<<>>}
  PROVE  /\ \E S : Tagged(l, rows) \in Seq(S)
         /\ Weaves(Tagged(l, rows)) \subseteq {Mark(l)}
<1>1. rows \in Seq(ToSet(rows)) /\ \A i \in DOMAIN rows : "weave" \in DOMAIN rows[i]
  <2>1. CASE rows \in sc.replies
    BY <2>1, ScenarioAssumption
  <2>2. CASE rows = <<>>
    BY <2>2
  <2> QED
    BY <2>1, <2>2
<1>2. DOMAIN rows = 1 .. Len(rows) /\ Len(rows) \in Nat
  BY <1>1
<1> DEFINE row(i) == [rows[i] EXCEPT !.weave = Mark(l)]
           S == {row(i) : i \in DOMAIN rows}
<1>3. Tagged(l, rows) = [i \in 1 .. Len(rows) |-> row(i)]
  BY <1>2 DEF Tagged
<1>4. [i \in 1 .. Len(rows) |-> row(i)] \in Seq(S)
  <2>1. \A i \in 1 .. Len(rows) : row(i) \in S
    BY <1>2
  <2> HIDE DEF S, row
  <2> QED
    BY <1>2, <2>1
<1>5. \A i \in DOMAIN rows : row(i).weave = Mark(l)
  BY <1>1
<1>6. Weaves(Tagged(l, rows)) \subseteq {Mark(l)}
  <2> HIDE DEF row
  <2> QED
    BY <1>2, <1>3, <1>5 DEF Weaves, ToSet
<1> QED
  BY <1>3, <1>4, <1>6

-----------------------------------------------------------------------------
(* Lanes only move on. *)
MovesTo(l, pos, pc) ==
  \E result : lanes' = [lanes EXCEPT ![l] = [pos |-> pos, pc |-> pc, result |-> result]]

Handles(l) == lanes[l].pos <= Len(sc.lanes[l]) /\ MovesTo(l, lanes[l].pos + 1, "idle")
Waits(l) == lanes[l].pos <= Len(sc.lanes[l]) /\ MovesTo(l, lanes[l].pos, "await")
LanesStep == lanes' = lanes \/ \E l \in DOMAIN lanes : Handles(l) \/ Waits(l)

LEMMA LaneFacts ==
  ASSUME LaneInv, NEW l \in DOMAIN lanes
  PROVE  lanes[l].pos \in Nat /\ Len(sc.lanes[l]) \in Nat
  BY ScenarioAssumption DEF LaneInv

LEMMA LanesStepInv ==
  ASSUME LaneInv, LanesStep, UNCHANGED sc
  PROVE  LaneInv' /\ \A m : Past(m) => Past(m)'
<1>1. CASE lanes' = lanes
  BY <1>1 DEF LaneInv, Past
<1>2. ASSUME NEW l \in DOMAIN lanes, NEW result, NEW pos, NEW pc, pc \in {"idle", "await"},
             pos \in Nat, lanes[l].pos <= pos, pos <= Len(sc.lanes[l]) + 1,
             pc = "await" => pos <= Len(sc.lanes[l]),
             lanes' = [lanes EXCEPT ![l] = [pos |-> pos, pc |-> pc, result |-> result]]
      PROVE  LaneInv' /\ \A m : Past(m) => Past(m)'
  <2>0. lanes[l].pos \in Nat /\ lanes[l].pos >= 1 /\ Len(sc.lanes[l]) \in Nat
    BY LaneFacts DEF LaneInv
  <2>1. LaneInv'
    BY <1>2, <2>0 DEF LaneInv
  <2>2. ASSUME NEW m, Past(m) PROVE Past(m)'
    <3>1. PICK j \in DOMAIN lanes, k \in Nat : m = <<j, k>> /\ k < lanes[j].pos
      BY <2>2 DEF Past
    <3>2. k < lanes'[j].pos /\ j \in DOMAIN lanes'
      BY <1>2, <2>0, <3>1
    <3> QED
      BY <3>1, <3>2 DEF Past
  <2> QED
    BY <2>1, <2>2
<1>3. ASSUME NEW l \in DOMAIN lanes, Handles(l) \/ Waits(l)
      PROVE  LaneInv' /\ \A m : Past(m) => Past(m)'
  <2>0. lanes[l].pos \in Nat /\ Len(sc.lanes[l]) \in Nat
    BY LaneFacts
  <2>1. CASE Handles(l)
    <3> DEFINE q == lanes[l].pos + 1
    <3>1. q \in Nat /\ lanes[l].pos <= q /\ q <= Len(sc.lanes[l]) + 1
      BY <2>0, <2>1 DEF Handles
    <3>2. PICK result : lanes' = [lanes EXCEPT ![l] = [pos |-> q, pc |-> "idle", result |-> result]]
      BY <2>1 DEF Handles, MovesTo
    <3> HIDE DEF q
    <3> QED
      BY <1>2, <3>1, <3>2
  <2>2. CASE Waits(l)
    <3> DEFINE q == lanes[l].pos
    <3>1. q \in Nat /\ lanes[l].pos <= q /\ q <= Len(sc.lanes[l]) /\ q <= Len(sc.lanes[l]) + 1
      BY <2>0, <2>2 DEF Waits
    <3>2. PICK result : lanes' = [lanes EXCEPT ![l] = [pos |-> q, pc |-> "await", result |-> result]]
      BY <2>2 DEF Waits, MovesTo
    <3> QED
      BY <1>2, <3>1, <3>2
  <2> QED
    BY <1>3, <2>1, <2>2
<1> QED
  BY <1>1, <1>3 DEF LanesStep

(* The mark of an event that is being handled is new, and past afterwards. *)
LEMMA MarkFacts ==
  ASSUME LaneInv, NEW l \in DOMAIN lanes, Handles(l), UNCHANGED sc, NEW m, m = Mark(l)
  PROVE  /\ ~Past(m) /\ Past(m)'
         /\ EventOf(m) = Event(l)
         /\ RunOf(m) \in RunKeys /\ Key(m) \in RunKeys \X Tools
<1>k. PICK k : k = lanes[l].pos
  OBVIOUS
<1> USE <1>k
<1>0. k \in Nat /\ k >= 1 /\ Len(sc.lanes[l]) \in Nat /\ k <= Len(sc.lanes[l])
  BY LaneFacts DEF LaneInv, Handles
<1>1. ~Past(m) /\ m = <<l, k>>
  BY <1>0 DEF Past, Mark
<1>2. Past(m)'
  <2>1. l \in DOMAIN lanes' /\ lanes'[l].pos = k + 1
    BY DEF Handles, MovesTo
  <2> QED
    BY <1>0, <1>1, <2>1 DEF Past
<1>3. EventOf(m) = Event(l)
  BY DEF EventOf, Mark, Event
<1>4. sc.lanes[l] \in Seq(ToSet(sc.lanes[l])) /\ l \in DOMAIN sc.lanes
  BY ScenarioAssumption DEF LaneInv
<1>5. Event(l) \in UNION {ToSet(sc.lanes[j]) : j \in DOMAIN sc.lanes}
  <2>1. Event(l) \in ToSet(sc.lanes[l])
    BY <1>0, <1>4 DEF Event
  <2> QED
    BY <1>4, <2>1
<1>6. runKey(Event(l)) \in RunKeys /\ Event(l).tool \in Tools
  BY <1>5, Zenon DEF RunKeys, Tools
<1> QED
  BY <1>1, <1>2, <1>3, <1>6 DEF RunOf, Key

LEMMA Static ==
  ASSUME UNCHANGED sc
  PROVE  /\ RunKeys' = RunKeys /\ Tools' = Tools
         /\ \A m : EventOf(m)' = EventOf(m) /\ RunOf(m)' = RunOf(m) /\ Key(m)' = Key(m)
  BY DEF RunKeys, Tools, EventOf, RunOf, Key

-----------------------------------------------------------------------------
(* Verdicts. *)
LEMMA CreditKept ==
  ASSUME LaneInv, CreditInv, LanesStep, UNCHANGED <<sc, lastReflex, outcomes>>
  PROVE  CreditInv'
<1>1. \A m : Past(m) => Past(m)'
  BY LanesStepInv
<1> QED
  BY <1>1, Static DEF CreditInv

LEMMA CreditRemembered ==
  ASSUME LaneInv, CreditInv, NEW l \in DOMAIN lanes, Handles(l), NEW record,
         UNCHANGED <<sc, outcomes>>,
         lastReflex' = [lastReflex EXCEPT ![<<runKey(Event(l)), Event(l).tool>>] =
                          [mark |-> Mark(l), record |-> record]]
  PROVE  CreditInv'
<1>1. \A m : Past(m) => Past(m)'
  BY LanesStepInv DEF LanesStep
<1>m. PICK m : m = Mark(l)
  OBVIOUS
<1>2. ~Past(m) /\ Past(m)' /\ Key(m) \in RunKeys \X Tools
      /\ Key(m) = <<runKey(Event(l)), Event(l).tool>>
  BY <1>m, MarkFacts DEF Key, RunOf
<1>c. PICK c : c = [mark |-> m, record |-> record]
  OBVIOUS
<1>3. lastReflex' = [lastReflex EXCEPT ![Key(m)] = c] /\ c.mark = m
  BY <1>m, <1>c, <1>2
<1>4. \A o \in outcomes : o.credits # m
  BY <1>2 DEF CreditInv
<1>5. /\ DOMAIN lastReflex' = DOMAIN lastReflex
      /\ \A k \in DOMAIN lastReflex : lastReflex'[k] = IF k = Key(m) THEN c ELSE lastReflex[k]
  BY <1>3
<1>6. ASSUME NEW k \in DOMAIN lastReflex, lastReflex'[k] # None
      PROVE  /\ Past(lastReflex[k].mark)' /\ k = Key(lastReflex[k].mark)'
             /\ \A o \in outcomes' : o.credits # lastReflex'[k].mark
  BY <1>1, <1>2, <1>3, <1>4, <1>5, <1>6, Static DEF CreditInv
<1> QED
  BY <1>1, <1>5, <1>6, Static DEF CreditInv

LEMMA CreditForgotten ==
  ASSUME LaneInv, CreditInv, NEW l \in DOMAIN lanes, Handles(l), UNCHANGED sc,
         NEW key, key = <<runKey(Event(l)), Event(l).tool>>,
         lastReflex' = Forgotten(key),
         outcomes' = IF lastReflex[key] # None
                     THEN outcomes \cup {[of |-> Mark(l), credits |-> lastReflex[key].mark]}
                     ELSE outcomes
  PROVE  CreditInv'
<1>1. \A m : Past(m) => Past(m)'
  BY LanesStepInv DEF LanesStep
<1>m. PICK m : m = Mark(l)
  OBVIOUS
<1>2. Key(m) \in RunKeys \X Tools /\ Key(m) = key
  BY <1>m, MarkFacts DEF Key, RunOf
<1>l. PICK last : last = lastReflex[key]
  OBVIOUS
<1>n. PICK new : new = [of |-> m, credits |-> last.mark]
  OBVIOUS
<1>3. CASE last = None
  BY <1>1, <1>l, <1>3, Static DEF CreditInv, Forgotten
<1>4. CASE last # None
  <2>1. /\ Past(last.mark) /\ key = Key(last.mark)
        /\ \A o \in outcomes : o.credits # last.mark
    BY <1>2, <1>l, <1>4 DEF CreditInv
  <2>2. new.credits = last.mark /\ Key(new.of) = key /\ outcomes' = outcomes \cup {new}
    BY <1>m, <1>2, <1>l, <1>n, <1>4
  <2>3. \A k \in DOMAIN lastReflex : k # key /\ lastReflex[k] # None =>
          lastReflex[k].mark # last.mark
    BY <2>1 DEF CreditInv
  <2>4. DOMAIN lastReflex' = DOMAIN lastReflex
        /\ \A k \in DOMAIN lastReflex : lastReflex'[k] = IF k = key THEN None ELSE lastReflex[k]
    BY DEF Forgotten
  <2>5. \A o \in outcomes' : Past(o.credits)' /\ Key(o.of)' = Key(o.credits)'
    BY <1>1, <2>1, <2>2, Static DEF CreditInv
  <2>6. \A o, q \in outcomes' : o.credits = q.credits => o = q
    BY <2>1, <2>2 DEF CreditInv
  <2>7. ASSUME NEW k \in DOMAIN lastReflex, lastReflex'[k] # None
        PROVE  /\ Past(lastReflex[k].mark)' /\ k = Key(lastReflex[k].mark)'
               /\ \A o \in outcomes' : o.credits # lastReflex'[k].mark
    BY <1>1, <2>2, <2>3, <2>4, <2>7, Static DEF CreditInv
  <2> QED
    BY <2>4, <2>5, <2>6, <2>7, Static DEF CreditInv
<1> QED
  BY <1>3, <1>4

-----------------------------------------------------------------------------
(* Advice. *)
LEMMA AdviceKept ==
  ASSUME LaneInv, AdviceInv, LanesStep, UNCHANGED <<sc, pendingByRun, remembered, folded>>
  PROVE  AdviceInv'
<1>1. \A m : Past(m) => Past(m)'
  BY LanesStepInv
<1> QED
  BY <1>1, Static DEF AdviceInv

LEMMA AdviceBuffered ==
  ASSUME LaneInv, AdviceInv, NEW l \in DOMAIN lanes, Handles(l), UNCHANGED <<sc, folded>>,
         NEW S, NEW rows \in Seq(S), Weaves(rows) \subseteq {Mark(l)},
         pendingByRun' = rememberInjection(runKey(Event(l)), rows), Remembers(rows)
  PROVE  AdviceInv'
<1>1. \A w : Past(w) => Past(w)'
  BY LanesStepInv DEF LanesStep
<1>m. PICK m : m = Mark(l)
  OBVIOUS
<1>2. ~Past(m) /\ Past(m)' /\ RunOf(m) = runKey(Event(l)) /\ RunOf(m) \in RunKeys
  BY <1>m, MarkFacts DEF RunOf
<1>3. m \notin remembered
  BY <1>2 DEF AdviceInv
<1>4. /\ DOMAIN pendingByRun' = RunKeys
      /\ \A run \in RunKeys : pendingByRun'[run] = IF run = RunOf(m) THEN pendingByRun[run] \o rows
                                                  ELSE pendingByRun[run]
  BY <1>2 DEF rememberInjection, mergeInjections, AdviceInv
<1>5. /\ \E T : pendingByRun'[RunOf(m)] \in Seq(T)
      /\ Weaves(pendingByRun'[RunOf(m)]) = Weaves(pendingByRun[RunOf(m)]) \cup Weaves(rows)
  <2>1. PICK T : pendingByRun[RunOf(m)] \in Seq(T)
    BY <1>2 DEF AdviceInv
  <2>2. PICK a \in Seq(T) : a = pendingByRun[RunOf(m)]
    BY <2>1
  <2>3. Weaves(a \o rows) = Weaves(a) \cup Weaves(rows) /\ a \o rows \in Seq(T \cup S)
    BY WeavesConcat, Zenon
  <2>4. pendingByRun'[RunOf(m)] = a \o rows
    BY <1>2, <1>4, <2>2
  <2> QED
    BY <2>2, <2>3, <2>4, Zenon
<1>6. remembered' = remembered \cup Weaves(rows)
  BY DEF Remembers, Weaves
<1>7. \A run \in RunKeys : /\ \E T : pendingByRun'[run] \in Seq(T)
                           /\ run # RunOf(m) => Weaves(pendingByRun'[run]) = Weaves(pendingByRun[run])
  BY <1>4, <1>5 DEF AdviceInv
<1>8. \A w \in remembered' : Past(w)' /\ RunOf(w) \in RunKeys
  BY <1>m, <1>1, <1>2, <1>6 DEF AdviceInv
<1>9. \A run \in RunKeys : \A w \in Weaves(pendingByRun'[run]) : w \in remembered' /\ RunOf(w) = run
  BY <1>m, <1>2, <1>5, <1>6, <1>7 DEF AdviceInv
<1>10. \A f \in folded : /\ f.weave \in remembered' /\ f.run = RunOf(f.weave)
                         /\ f.weave \notin Weaves(pendingByRun'[f.run])
  <2> SUFFICES ASSUME NEW f \in folded
               PROVE  /\ f.weave \in remembered' /\ f.run = RunOf(f.weave)
                      /\ f.weave \notin Weaves(pendingByRun'[f.run])
    OBVIOUS
  <2>1. /\ f.weave \in remembered /\ f.run = RunOf(f.weave) /\ f.run \in RunKeys
        /\ f.weave \notin Weaves(pendingByRun[f.run])
    BY DEF AdviceInv
  <2>2. f.weave \notin Weaves(rows)
    BY <1>m, <1>3, <2>1
  <2> QED
    BY <1>5, <1>6, <1>7, <2>1, <2>2
<1>11. \A w \in remembered' :
         w \in Weaves(pendingByRun'[RunOf(w)]) \/ \E f \in folded : f.weave = w
  <2>1. ASSUME NEW w \in remembered
        PROVE  w \in Weaves(pendingByRun'[RunOf(w)]) \/ \E f \in folded : f.weave = w
    BY <1>5, <1>7 DEF AdviceInv
  <2>2. ASSUME NEW w \in Weaves(rows) PROVE w \in Weaves(pendingByRun'[RunOf(w)])
    <3>1. w = m
      BY <1>m
    <3> QED
      BY <1>5, <3>1
  <2> QED
    BY <1>6, <2>1, <2>2
<1>12. \A run : Weaves(pendingByRun[run])' = Weaves(pendingByRun'[run])
  BY DEF Weaves
<1> QED
  BY <1>4, <1>7, <1>8, <1>9, <1>10, <1>11, <1>12, Static DEF AdviceInv

LEMMA AdviceFolded ==
  ASSUME LaneInv, AdviceInv, NEW l \in DOMAIN lanes, Handles(l), UNCHANGED sc,
         NEW S, NEW rows \in Seq(S), Weaves(rows) \subseteq {Mark(l)}, NEW run,
         run = runKey(Event(l)),
         pendingByRun' = PendingAfterFold(run, rows), Remembers(rows),
         folded' = folded \cup
           {[weave |-> r.weave, run |-> run, prompt |-> Mark(l)] :
              r \in ToSet(mergeInjections(mergeInjections(takePending(run), rows), rows))}
  PROVE  AdviceInv'
<1>1. \A w : Past(w) => Past(w)'
  BY LanesStepInv DEF LanesStep
<1>m. PICK m : m = Mark(l)
  OBVIOUS
<1>2. ~Past(m) /\ Past(m)' /\ RunOf(m) = run /\ run \in RunKeys
  BY <1>m, MarkFacts DEF RunOf
<1>3. m \notin remembered
  BY <1>2 DEF AdviceInv
<1>4. /\ DOMAIN pendingByRun' = RunKeys
      /\ \A k \in RunKeys : pendingByRun'[k] = IF k = run THEN <<>> ELSE pendingByRun[k]
  BY DEF PendingAfterFold, AdviceInv
<1>5. /\ \A k \in RunKeys : \E T : pendingByRun'[k] \in Seq(T)
      /\ \A k \in RunKeys : Weaves(pendingByRun'[k]) = IF k = run THEN {} ELSE Weaves(pendingByRun[k])
  BY <1>4, WeavesEmpty DEF AdviceInv
<1>6. remembered' = remembered \cup Weaves(rows)
  BY DEF Remembers, Weaves
<1> DEFINE all == mergeInjections(mergeInjections(takePending(run), rows), rows)
           new(w) == [weave |-> w, run |-> run, prompt |-> m]
<1>7. Weaves(all) = Weaves(pendingByRun[run]) \cup Weaves(rows)
  <2>1. PICK T : pendingByRun[run] \in Seq(T)
    BY <1>2 DEF AdviceInv
  <2>2. /\ Weaves(pendingByRun[run] \o rows) = Weaves(pendingByRun[run]) \cup Weaves(rows)
        /\ pendingByRun[run] \o rows \in Seq(T \cup S)
    BY <2>1, WeavesConcat, Zenon
  <2>u. PICK U : U = T \cup S
    OBVIOUS
  <2>3. PICK a \in Seq(U) : a = pendingByRun[run] \o rows
    BY <2>2, <2>u, Zenon
  <2>4. Weaves(a \o rows) = Weaves(a) \cup Weaves(rows) /\ a \o rows \in Seq(U \cup S)
    BY WeavesConcat, Zenon
  <2>5. all = a \o rows
    BY <2>3 DEF mergeInjections, takePending
  <2> QED
    BY <2>2, <2>3, <2>4, <2>5
<1>8. folded' = folded \cup {new(w) : w \in Weaves(all)}
  BY <1>m DEF Weaves
<1> HIDE DEF all
<1>9. \A w : new(w).weave = w /\ new(w).run = run
  OBVIOUS
<1> HIDE DEF new
<1>10. \A w \in Weaves(all) : /\ w \in remembered' /\ RunOf(w) = run
                              /\ \A f \in folded : f.weave # w
  <2>1. ASSUME NEW w \in Weaves(pendingByRun[run])
        PROVE  w \in remembered /\ RunOf(w) = run /\ \A f \in folded : f.weave # w
    BY <1>2, <2>1 DEF AdviceInv
  <2>2. ASSUME NEW w \in Weaves(rows)
        PROVE  RunOf(w) = run /\ \A f \in folded : f.weave # w
    <3>1. w = m
      BY <1>m
    <3> QED
      BY <1>2, <1>3, <3>1 DEF AdviceInv
  <2> QED
    BY <1>6, <1>7, <2>1, <2>2
<1>11. \A w \in remembered' : Past(w)' /\ RunOf(w) \in RunKeys
  BY <1>m, <1>1, <1>2, <1>6 DEF AdviceInv
<1>12. \A k \in RunKeys : \A w \in Weaves(pendingByRun'[k]) : w \in remembered' /\ RunOf(w) = k
  BY <1>5, <1>6 DEF AdviceInv
<1>13. \A f \in folded' : /\ f.weave \in remembered' /\ f.run = RunOf(f.weave)
                          /\ f.weave \notin Weaves(pendingByRun'[f.run])
  <2>1. ASSUME NEW f \in folded
        PROVE  /\ f.weave \in remembered' /\ f.run = RunOf(f.weave)
               /\ f.weave \notin Weaves(pendingByRun'[f.run])
    <3>1. /\ f.weave \in remembered /\ f.run = RunOf(f.weave) /\ f.run \in RunKeys
          /\ f.weave \notin Weaves(pendingByRun[f.run])
      BY DEF AdviceInv
    <3> QED
      BY <1>5, <1>6, <3>1
  <2>2. ASSUME NEW w \in Weaves(all)
        PROVE  /\ new(w).weave \in remembered' /\ new(w).run = RunOf(new(w).weave)
               /\ new(w).weave \notin Weaves(pendingByRun'[new(w).run])
    BY <1>2, <1>5, <1>9, <1>10, <2>2
  <2> QED
    BY <1>8, <2>1, <2>2
<1>14. \A f, g \in folded' : f.weave = g.weave => f = g
  BY <1>8, <1>9, <1>10 DEF AdviceInv
<1>15. \A w \in remembered' :
         w \in Weaves(pendingByRun'[RunOf(w)]) \/ \E f \in folded' : f.weave = w
  <2>1. ASSUME NEW w \in Weaves(all) PROVE \E f \in folded' : f.weave = w
    BY <1>8, <1>9, <2>1
  <2>2. ASSUME NEW w \in remembered, w \notin Weaves(all)
        PROVE  w \in Weaves(pendingByRun'[RunOf(w)]) \/ \E f \in folded' : f.weave = w
    BY <1>5, <1>7, <1>8, <2>2 DEF AdviceInv
  <2> QED
    BY <1>6, <1>7, <2>1, <2>2
<1>16. \A k : Weaves(pendingByRun[k])' = Weaves(pendingByRun'[k])
  BY DEF Weaves
<1> QED
  BY <1>4, <1>5, <1>11, <1>12, <1>13, <1>14, <1>15, <1>16, Static DEF AdviceInv

-----------------------------------------------------------------------------
(* The steps of the bridge: what they do to lanes, advice and verdicts. *)
BInv == LaneInv /\ CreditInv /\ AdviceInv

LEMMA FireInv ==
  ASSUME BInv, NEW l \in DOMAIN lanes, Fire(l)
  PROVE  BInv'
<1>1. UNCHANGED <<sc, pendingByRun, remembered, folded, outcomes>>
      /\ lanes[l].pos <= Len(sc.lanes[l])
  BY DEF Fire
<1>2. ASSUME NEW result, lanes' = Done(l, result) PROVE Handles(l)
  BY <1>1, <1>2 DEF Handles, MovesTo, Done
<1>3. ASSUME lanes' = Awaiting(l) PROVE Waits(l)
  BY <1>1, <1>3 DEF Waits, MovesTo, Awaiting
<1>4. Handles(l) \/ Waits(l)
  <2>1. CASE RejectsTool(l)
    BY <1>2, <2>1 DEF RejectsTool
  <2>2. CASE GuardInProc(l)
    BY <1>2, <2>2 DEF GuardInProc
  <2>3. CASE SyncHook(l)
    BY <1>2, <2>3 DEF SyncHook
  <2>4. CASE AgentEvent(l)
    BY <1>2, <2>4 DEF AgentEvent
  <2>5. CASE Submits(l)
    BY <1>2, <1>3, <2>5 DEF Submits
  <2> QED
    BY <2>1, <2>2, <2>3, <2>4, <2>5 DEF Fire
<1>5. LanesStep
  BY <1>4 DEF LanesStep
<1>6. LaneInv'
  BY <1>1, <1>5, LanesStepInv DEF BInv
<1>7. AdviceInv'
  BY <1>1, <1>5, AdviceKept DEF BInv
<1>8. CreditInv'
  <2>1. CASE GuardInProc(l)
    <3>1. Handles(l)
      BY <1>2, <2>1 DEF GuardInProc
    <3>2. CASE UNCHANGED lastReflex
      BY <1>1, <1>5, <3>2, CreditKept DEF BInv
    <3>3. ASSUME NEW record,
                 lastReflex' = [lastReflex EXCEPT ![<<runKey(Event(l)), Event(l).tool>>] =
                                  [mark |-> Mark(l), record |-> record]]
          PROVE  CreditInv'
      BY <1>1, <3>1, <3>3, CreditRemembered DEF BInv
    <3> QED
      BY <2>1, <3>2, <3>3 DEF GuardInProc, reflexToolKey
  <2>2. CASE RejectsTool(l) \/ SyncHook(l) \/ AgentEvent(l) \/ Submits(l)
    <3>1. UNCHANGED lastReflex
      BY <2>2 DEF RejectsTool, SyncHook, AgentEvent, Submits
    <3> QED
      BY <1>1, <1>5, <3>1, CreditKept DEF BInv
  <2> QED
    BY <2>1, <2>2 DEF Fire
<1> QED
  BY <1>6, <1>7, <1>8 DEF BInv

LEMMA AnswerInv ==
  ASSUME BInv, NEW l \in DOMAIN lanes, Answer(l)
  PROVE  BInv'
<1>1. UNCHANGED sc /\ lanes[l].pos <= Len(sc.lanes[l])
  BY DEF Answer, BInv, LaneInv
<1>2. ASSUME NEW result, lanes' = Done(l, result) PROVE Handles(l) /\ LanesStep
  BY <1>1, <1>2 DEF Handles, MovesTo, Done, LanesStep
<1>3. PICK rows \in sc.replies \cup {<<>>} :
         \/ AnswerBuffer(l, Tagged(l, rows)) \/ AnswerPrompt(l, Tagged(l, rows))
         \/ AnswerGuard(l, rows) \/ AnswerObserve(l)
  BY DEF Answer
<1>4. PICK T : T = Tagged(l, rows)
  OBVIOUS
<1>5. PICK S : T \in Seq(S) /\ Weaves(T) \subseteq {Mark(l)}
  BY <1>4, TaggedRows DEF BInv, LaneInv
<1>6. CASE AnswerBuffer(l, T)
  <2>1. Handles(l) /\ LanesStep
    BY <1>2, <1>6 DEF AnswerBuffer
  <2>2. UNCHANGED <<lastReflex, outcomes, folded>> /\ Remembers(T)
        /\ pendingByRun' = rememberInjection(runKey(Event(l)), T)
    BY <1>6 DEF AnswerBuffer
  <2>3. AdviceInv'
    BY <1>1, <1>5, <2>1, <2>2, AdviceBuffered DEF BInv
  <2> QED
    BY <1>1, <2>1, <2>2, <2>3, LanesStepInv, CreditKept DEF BInv
<1>7. CASE AnswerPrompt(l, T)
  <2>1. Handles(l) /\ LanesStep
    BY <1>2, <1>7 DEF AnswerPrompt
  <2>r. PICK run : run = runKey(Event(l))
    OBVIOUS
  <2>2. UNCHANGED <<lastReflex, outcomes>> /\ Remembers(T)
        /\ pendingByRun' = PendingAfterFold(run, T)
        /\ folded' = folded \cup
             {[weave |-> r.weave, run |-> run, prompt |-> Mark(l)] :
                r \in ToSet(mergeInjections(mergeInjections(takePending(run), T), T))}
    BY <1>7, <2>r DEF AnswerPrompt
  <2>3. AdviceInv'
    BY <1>1, <1>5, <2>1, <2>r, <2>2, AdviceFolded DEF BInv
  <2> QED
    BY <1>1, <2>1, <2>2, <2>3, LanesStepInv, CreditKept DEF BInv
<1>8. CASE AnswerGuard(l, rows)
  <2>1. LanesStep
    BY <1>2, <1>8 DEF AnswerGuard
  <2>2. UNCHANGED <<pendingByRun, lastReflex, remembered, folded, outcomes>>
    BY <1>8 DEF AnswerGuard
  <2> QED
    BY <1>1, <2>1, <2>2, LanesStepInv, CreditKept, AdviceKept DEF BInv
<1>9. CASE AnswerObserve(l)
  <2>1. Handles(l) /\ LanesStep
    BY <1>2, <1>9 DEF AnswerObserve
  <2>2. UNCHANGED <<pendingByRun, remembered, folded>>
    BY <1>9 DEF AnswerObserve
  <2>k. PICK key : key = <<runKey(Event(l)), Event(l).tool>>
    OBVIOUS
  <2>3. \/ UNCHANGED <<lastReflex, outcomes>>
        \/ /\ lastReflex' = Forgotten(key)
           /\ outcomes' = IF lastReflex[key] # None
                          THEN outcomes \cup {[of |-> Mark(l), credits |-> lastReflex[key].mark]}
                          ELSE outcomes
    BY <1>9, <2>k DEF AnswerObserve, reflexToolKey
  <2>4. CreditInv'
    BY <1>1, <2>1, <2>k, <2>3, CreditKept, CreditForgotten DEF BInv
  <2> QED
    BY <1>1, <2>1, <2>2, <2>4, LanesStepInv, AdviceKept DEF BInv
<1> QED
  BY <1>3, <1>4, <1>6, <1>7, <1>8, <1>9

LEMMA OtherInv ==
  ASSUME BInv, LanesStep, UNCHANGED <<sc, pendingByRun, lastReflex, remembered, folded, outcomes>>
  PROVE  BInv'
  BY LanesStepInv, CreditKept, AdviceKept DEF BInv

LEMMA NextBInv == BInv /\ [Next]_vars => BInv'
<1> SUFFICES ASSUME BInv, [Next]_vars PROVE BInv'
  OBVIOUS
<1>1. ASSUME NEW l \in DOMAIN lanes, Fire(l) PROVE BInv'
  BY <1>1, FireInv
<1>2. ASSUME NEW l \in DOMAIN lanes, Answer(l) PROVE BInv'
  BY <1>2, AnswerInv
<1>3. ASSUME NEW l \in DOMAIN lanes, Fail(l) PROVE BInv'
  <2>1. lanes[l].pos <= Len(sc.lanes[l]) /\ lanes' = Done(l, Unchanged)
    BY <1>3 DEF Fail, BInv, LaneInv
  <2>2. LanesStep
    BY <2>1 DEF LanesStep, Handles, MovesTo, Done
  <2>3. UNCHANGED <<sc, pendingByRun, lastReflex, remembered, folded, outcomes>>
    BY <1>3 DEF Fail
  <2> QED
    BY <2>2, <2>3, OtherInv
<1>4. CASE UNCHANGED <<sc, lanes, pendingByRun, lastReflex, remembered, folded, outcomes>>
  BY <1>4, OtherInv DEF LanesStep
<1>5. CASE SyncLoaded \/ \E post \in posts : Arrive(post)
  BY <1>4, <1>5 DEF SyncLoaded, Arrive
<1>6. CASE EffectorNext /\ UNCHANGED <<pyVars, obsVars, bridgeVars>>
  BY <1>4, <1>6 DEF EffectorNext, UpsertConcern, TurnWeave, TurnMediate, TurnVerify, TurnAppend,
                    bridgeVars
<1>7. CASE PyNext /\ UNCHANGED <<obsVars, bridgeVars>>
  BY <1>4, <1>7 DEF PyNext, Callback, ApplySplit, ApplyWriteBack, guard_tool_call, clear_pending,
                    uninstall, bridgeVars
<1>8. CASE ObserverNext /\ UNCHANGED bridgeVars
  BY <1>4, <1>8 DEF ObserverNext, HostStep, PollStep, bridgeVars
<1>9. CASE UNCHANGED vars
  BY <1>4, <1>9 DEF vars, bridgeVars
<1> QED
  BY <1>1, <1>2, <1>3, <1>5, <1>6, <1>7, <1>8, <1>9 DEF Next, BridgeStep, Rest

LEMMA InitBInv == Init => BInv
<1> SUFFICES ASSUME Init PROVE BInv
  OBVIOUS
<1>1. LaneInv
  BY ScenarioAssumption DEF Init, LaneInv
<1>2. CreditInv
  BY DEF Init, CreditInv
<1>3. AdviceInv
  BY WeavesEmpty DEF Init, AdviceInv
<1> QED
  BY <1>1, <1>2, <1>3 DEF BInv

LEMMA AlwaysBInv == Spec => []BInv
  BY InitBInv, NextBInv, PTL DEF Spec

-----------------------------------------------------------------------------
(* The verdict of a guard is credited to at most one outcome, of its own run *)
(* and tool, however the lanes' calls and answers interleave.                *)
THEOREM VerdictsCreditedOnce == Spec => []CreditedOnce
<1>1. BInv => CreditedOnce
  BY DEF BInv, CreditInv, Key, RunOf, CreditedOnce
<1> QED
  BY <1>1, AlwaysBInv, PTL

(* Advice waits under its own run or was folded into exactly one prompt of   *)
(* that run, whatever requests fail in between.                              *)
THEOREM AdviceIsConserved == Spec => []AdviceConserved
<1>1. BInv => AdviceConserved
  <2> SUFFICES ASSUME BInv, NEW w \in remembered, NEW uses, NEW waits,
                      uses = {f \in folded : f.weave = w},
                      waits = {r \in DOMAIN pendingByRun : w \in Weaves(pendingByRun[r])}
               PROVE  /\ \A f \in uses : f.run = RunOf(w)
                      /\ Cardinality(uses) + Cardinality(waits) = 1
                      /\ uses = {} => w \in Weaves(pendingByRun[RunOf(w)])
    BY DEF AdviceConserved, RunOf
  <2>0. Cardinality({}) = 0 /\ \A x : Cardinality({x}) = 1
    BY FS_EmptySet, FS_Singleton
  <2>1. AdviceInv
    BY DEF BInv
  <2>2. /\ RunOf(w) \in RunKeys /\ DOMAIN pendingByRun = RunKeys
        /\ \A r \in waits : r = RunOf(w)
        /\ \A f \in uses : f.run = RunOf(w) /\ w \notin Weaves(pendingByRun[RunOf(w)])
    BY <2>1 DEF AdviceInv
  <2>3. CASE w \in Weaves(pendingByRun[RunOf(w)])
    <3>1. uses = {} /\ waits = {RunOf(w)}
      BY <2>2, <2>3
    <3>2. Cardinality(uses) = 0 /\ Cardinality(waits) = 1
      BY <2>0, <3>1, Zenon
    <3>3. Cardinality(uses) + Cardinality(waits) = 1
      BY <3>2
    <3> QED
      BY <2>2, <2>3, <3>3
  <2>4. CASE w \notin Weaves(pendingByRun[RunOf(w)])
    <3>1. PICK f \in folded : f.weave = w
      BY <2>1, <2>4 DEF AdviceInv
    <3>2. uses = {f} /\ waits = {}
      BY <2>1, <2>2, <2>4, <3>1 DEF AdviceInv
    <3>3. Cardinality(uses) = 1 /\ Cardinality(waits) = 0
      BY <2>0, <3>2, Zenon
    <3>4. Cardinality(uses) + Cardinality(waits) = 1
      BY <3>3
    <3>5. uses # {}
      BY <3>2
    <3>6. \A g \in uses : g.run = RunOf(w)
      BY <2>2
    <3> QED
      BY <3>4, <3>5, <3>6
  <2> QED
    BY <2>3, <2>4
<1> QED
  BY <1>1, AlwaysBInv, PTL

-----------------------------------------------------------------------------
(* Turns of the kernel.  Until it verifies, a turn that nobody raced finds   *)
(* its own vector; the monitor's rewrite uses up the one repair.             *)
TurnFields == {"pc", "decision", "policy", "repairs", "repairedBy", "own", "raced"}

TurnOK(turn, vector) ==
  /\ TurnFields \subseteq DOMAIN turn
  /\ turn.pc \in {"mediate", "verify"} => turn.raced \/ vector = turn.own
  /\ turn.pc \in {"weave", "mediate", "verify"} => turn.repairedBy = None
  /\ turn.pc = "verify" => turn.policy = None \/ turn.decision = "deny" \/ turn.repairs = 1
  /\ turn.repairedBy # None => /\ turn.raced \/ turn.repairedBy \in turn.own
                               /\ turn.policy = None

TurnsInv == \A t \in DOMAIN turns : TurnOK(turns[t], last_vector)

LEMMA VerdictIsOwn ==
  ASSUME NEW c, NEW hay, NEW yes
  PROVE  verify_one(c, hay, yes).id = c.id
<1>1. \A ok, notes : Verdict(c.id, ok, notes).id = c.id
  BY DEF Verdict
<1> QED
  BY <1>1, Zenon DEF verify_one, _verify_regex, _verify_must_contain, _verify_must_not_contain

(* Another weave: whoever is before its verification has been raced.         *)
LEMMA WovenTurn ==
  ASSUME NEW turn, NEW u, NEW v, TurnOK(turn, u), NEW new,
         new = [turn EXCEPT !.raced = @ \/ turn.pc \in {"mediate", "verify"}]
  PROVE  /\ TurnOK(new, v)
         /\ new.pc = turn.pc /\ new.repairedBy = turn.repairedBy /\ new.policy = turn.policy
         /\ DOMAIN new = DOMAIN turn
<1>1. /\ DOMAIN new = DOMAIN turn
      /\ new.pc = turn.pc /\ new.decision = turn.decision /\ new.policy = turn.policy
      /\ new.repairs = turn.repairs /\ new.repairedBy = turn.repairedBy /\ new.own = turn.own
      /\ new.raced <=> (turn.raced \/ turn.pc \in {"mediate", "verify"})
  BY DEF TurnOK, TurnFields
<1> QED
  BY <1>1 DEF TurnOK

LEMMA WeaveTurns ==
  ASSUME TurnsInv, NEW v, Weave(v)
  PROVE  TurnsInv'
<1>1. DOMAIN turns' = DOMAIN turns /\ last_vector' = v
  BY DEF Weave, Woven
<1>2. \A t \in DOMAIN turns :
        turns'[t] = [turns[t] EXCEPT !.raced = @ \/ turns[t].pc \in {"mediate", "verify"}]
  BY DEF Weave, Woven
<1>3. \A t \in DOMAIN turns : TurnOK(turns'[t], v)
  BY <1>2, WovenTurn DEF TurnsInv
<1> QED
  BY <1>1, <1>3 DEF TurnsInv

LEMMA TurnWeaveInv ==
  ASSUME TurnsInv, NEW t \in DOMAIN turns, TurnWeave(t)
  PROVE  TurnsInv'
<1>1. CASE \E v \in sc.vectors :
             /\ last_vector' = v
             /\ turns' = [Woven(turns) EXCEPT ![t].pc = "mediate", ![t].own = v]
  <2>1. PICK v : /\ last_vector' = v
                 /\ turns' = [Woven(turns) EXCEPT ![t].pc = "mediate", ![t].own = v]
    BY <1>1
  <2> DEFINE w == Woven(turns)
  <2>2. /\ DOMAIN w = DOMAIN turns
        /\ \A u \in DOMAIN turns :
             w[u] = [turns[u] EXCEPT !.raced = @ \/ turns[u].pc \in {"mediate", "verify"}]
    BY DEF Woven
  <2>3. \A u \in DOMAIN turns : /\ TurnOK(w[u], v)
                                /\ w[u].pc = turns[u].pc
    BY <2>2, WovenTurn DEF TurnsInv
  <2>4. turns' = [w EXCEPT ![t].pc = "mediate", ![t].own = v]
    BY <2>1
  <2> HIDE DEF w
  <2>5. /\ DOMAIN turns' = DOMAIN turns
        /\ turns'[t] = [w[t] EXCEPT !.pc = "mediate", !.own = v]
        /\ \A u \in DOMAIN turns \ {t} : turns'[u] = w[u]
    BY <2>2, <2>4
  <2>6. w[t].pc = "weave" /\ TurnOK(w[t], v)
    BY <2>3 DEF TurnWeave
  <2>7. TurnOK(turns'[t], v)
    BY <2>5, <2>6 DEF TurnOK, TurnFields
  <2> QED
    BY <2>1, <2>3, <2>5, <2>7 DEF TurnsInv
<1>2. CASE turns' = [turns EXCEPT ![t].pc = "raised"] /\ UNCHANGED last_vector
  <2>1. /\ DOMAIN turns' = DOMAIN turns
        /\ turns'[t] = [turns[t] EXCEPT !.pc = "raised"]
        /\ \A u \in DOMAIN turns \ {t} : turns'[u] = turns[u]
    BY <1>2
  <2>2. TurnOK(turns'[t], last_vector)
    BY <2>1 DEF TurnsInv, TurnOK, TurnFields
  <2> QED
    BY <1>2, <2>1, <2>2 DEF TurnsInv
<1> QED
  BY <1>1, <1>2 DEF TurnWeave

(* A step of one turn that leaves the vector alone. *)
LEMMA OwnStep ==
  ASSUME TurnsInv, NEW t \in DOMAIN turns, NEW new, TurnOK(new, last_vector),
         turns' = [turns EXCEPT ![t] = new], UNCHANGED last_vector
  PROVE  TurnsInv'
  BY DEF TurnsInv

LEMMA TurnMediateInv ==
  ASSUME TurnsInv, NEW t \in DOMAIN turns, TurnMediate(t)
  PROVE  TurnsInv'
<1> DEFINE d == mediate_py(_resolve_monitor, turns[t].action)
           policy == IF d.kind \in {"deny", "rewrite"} THEN d.policy ELSE None
           repairs == IF d.kind = "rewrite" THEN 1 ELSE 0
           new == [turns[t] EXCEPT !.pc = "verify", !.decision = d.kind, !.action = d.action,
                                   !.policy = policy, !.repairs = repairs]
<1>1. turns[t].pc = "mediate" /\ turns' = [turns EXCEPT ![t] = new] /\ UNCHANGED last_vector
  BY DEF TurnMediate
<1>2. policy = None \/ d.kind = "deny" \/ repairs = 1
  OBVIOUS
<1> HIDE DEF d, policy, repairs
<1>3. TurnOK(new, last_vector)
  BY <1>1, <1>2 DEF TurnsInv, TurnOK, TurnFields
<1> HIDE DEF new
<1> QED
  BY <1>1, <1>3, OwnStep

LEMMA TurnVerifyInv ==
  ASSUME TurnsInv, NEW t \in DOMAIN turns, TurnVerify(t)
  PROVE  TurnsInv'
<1>1. turns[t].pc = "verify" /\ UNCHANGED last_vector /\ TurnOK(turns[t], last_vector)
  BY DEF TurnVerify, TurnsInv
<1>2. \/ turns' = [turns EXCEPT ![t].pc = "append"]
      \/ \E yes \in BOOLEAN : \E v \in Failing(turns[t], yes) :
           Repairable(turns[t]) /\ turns' = [turns EXCEPT ![t] = Repaired(turns[t], v)]
  BY DEF TurnVerify
<1>3. CASE turns' = [turns EXCEPT ![t].pc = "append"]
  <2> DEFINE new == [turns[t] EXCEPT !.pc = "append"]
  <2>1. TurnOK(new, last_vector)
    BY <1>1 DEF TurnOK, TurnFields
  <2>2. turns' = [turns EXCEPT ![t] = new]
    BY <1>3
  <2> HIDE DEF new
  <2> QED
    BY <1>1, <2>1, <2>2, OwnStep
<1>4. ASSUME NEW yes \in BOOLEAN, NEW v \in Failing(turns[t], yes), Repairable(turns[t]),
             turns' = [turns EXCEPT ![t] = Repaired(turns[t], v)]
      PROVE  TurnsInv'
  <2>1. turns[t].decision # "deny" /\ v \in verify_turn(last_vector, concerns, turns[t].output, yes)
    BY <1>4 DEF Failing
  <2>2. v.id \in last_vector
    BY <2>1, VerdictIsOwn DEF verify_turn
  <2>3. turns[t].repairs # 1
    BY <1>4, RepairAssumption DEF Repairable
  <2>4. turns[t].policy = None /\ (turns[t].raced \/ v.id \in turns[t].own)
    BY <1>1, <2>1, <2>2, <2>3 DEF TurnOK
  <2> DEFINE new == Repaired(turns[t], v)
  <2>5. TurnOK(new, last_vector)
    <3>1. /\ DOMAIN new = DOMAIN turns[t] /\ new.pc = "append" /\ new.repairedBy = v.id
          /\ new.policy = turns[t].policy /\ new.own = turns[t].own /\ new.raced = turns[t].raced
      BY <1>1 DEF Repaired, TurnOK, TurnFields
    <3> HIDE DEF new
    <3> QED
      BY <1>1, <2>4, <3>1 DEF TurnOK
  <2> HIDE DEF new
  <2> QED
    BY <1>1, <1>4, <2>5, OwnStep DEF new
<1> QED
  BY <1>2, <1>3, <1>4

LEMMA TurnAppendInv ==
  ASSUME TurnsInv, NEW t \in DOMAIN turns, TurnAppend(t)
  PROVE  TurnsInv'
<1> DEFINE new == [turns[t] EXCEPT !.pc = "done"]
<1>1. TurnOK(new, last_vector)
  BY DEF TurnsInv, TurnOK, TurnFields
<1>2. turns' = [turns EXCEPT ![t] = new] /\ UNCHANGED last_vector
  BY DEF TurnAppend
<1> HIDE DEF new
<1> QED
  BY <1>1, <1>2, OwnStep

LEMMA NextTurnsInv == TurnsInv /\ [Next]_vars => TurnsInv'
<1> SUFFICES ASSUME TurnsInv, [Next]_vars PROVE TurnsInv'
  OBVIOUS
<1>1. CASE UNCHANGED <<last_vector, turns>>
  BY <1>1 DEF TurnsInv
<1>2. ASSUME NEW v, Weave(v) PROVE TurnsInv'
  BY <1>2, WeaveTurns
<1>3. CASE SyncLoaded \/ UNCHANGED vars
  BY <1>1, <1>3 DEF SyncLoaded, vars, daemonVars
<1>4. ASSUME NEW l \in DOMAIN lanes, Fire(l) \/ Answer(l) \/ Fail(l) PROVE TurnsInv'
  <2>1. CASE Fire(l)
    BY <1>1, <2>1 DEF Fire, daemonVars
  <2>2. CASE Answer(l)
    BY <1>1, <1>2, <2>2 DEF Answer
  <2>3. CASE Fail(l)
    BY <1>1, <1>2, <2>3 DEF Fail
  <2> QED
    BY <1>4, <2>1, <2>2, <2>3
<1>5. ASSUME NEW post \in posts, Arrive(post) PROVE TurnsInv'
  BY <1>1, <1>2, <1>5 DEF Arrive
<1>6. CASE EffectorNext
  BY <1>1, <1>6, TurnWeaveInv, TurnMediateInv, TurnVerifyInv, TurnAppendInv
     DEF EffectorNext, UpsertConcern
<1>7. CASE PyNext
  <2>1. CASE Callback
    BY <1>1, <1>2, <2>1 DEF Callback
  <2>2. CASE ApplySplit \/ ApplyWriteBack \/ guard_tool_call \/ clear_pending \/ uninstall
    BY <1>1, <2>2 DEF ApplySplit, ApplyWriteBack, guard_tool_call, clear_pending, uninstall,
                      daemonVars
  <2> QED
    BY <1>7, <2>1, <2>2 DEF PyNext
<1>8. CASE ObserverNext
  BY <1>1, <1>2, <1>8 DEF ObserverNext, HostStep, PollStep, daemonVars
<1> QED
  BY <1>3, <1>4, <1>5, <1>6, <1>7, <1>8 DEF Next, BridgeStep, Rest

(* effector.run_turn repairs a message only on account of a concern that the *)
(* turn itself activated, unless another weave replaced the pipeline's last  *)
(* vector meanwhile, and never one into which a reflex policy wrote.         *)
THEOREM RepairsAreOwn == Spec => []RepairsOwnTurn
<1>1. Init => TurnsInv
  BY DEF Init, InitDaemon, Turn, TurnsInv, TurnOK, TurnFields
<1>2. TurnsInv => RepairsOwnTurn
  BY DEF TurnsInv, TurnOK, RepairsOwnTurn
<1> QED
  BY <1>1, <1>2, NextTurnsInv, PTL DEF Spec

-----------------------------------------------------------------------------
(* The Python plugin's buffer.  An entry carries the number of its event; it *)
(* waits or was taken.  While apply_to is between its two halves, what it    *)
(* kept plays the part of the buffer if it drains.                           *)
Conserved(entries) ==
  /\ Tags(entries) \cap pyTaken = {}
  /\ Tags(entries) \subseteq pyCaptured
  /\ \A d, e \in entries : d.tag = e.tag => d = e
  /\ ~pyRaced => pyCaptured = Tags(entries) \cup pyTaken

EventsLeft == /\ sc \in Scenarios
              /\ pyEvents \in Seq(ToSet(sc.pyEvents)) /\ Len(pyEvents) <= Len(sc.pyEvents)

BufferInv ==
  /\ EventsLeft
  /\ \A n \in pyCaptured : n \in Nat /\ n < Tag
  /\ pyTaken \subseteq pyCaptured
  /\ pyApply.pc \in {"idle", "write_back"}
  /\ pyApply.pc = "idle" => Conserved(pyPending)
  /\ pyApply.pc = "write_back" =>
       /\ pyOps # <<>> /\ Head(pyOps).op = "apply"
       /\ IF pyApply.drain THEN Conserved(pyApply.kept) ELSE Conserved(pyPending)

LEMMA TagFacts ==
  ASSUME EventsLeft, pyEvents # <<>>, pyEvents' = Tail(pyEvents), UNCHANGED sc
  PROVE  Tag \in Nat /\ Tag' = Tag + 1 /\ EventsLeft'
<1>1. sc.pyEvents \in Seq(ToSet(sc.pyEvents))
  BY ScenarioAssumption DEF EventsLeft
<1>2. Len(sc.pyEvents) \in Nat /\ Len(pyEvents) \in Nat
  BY <1>1 DEF EventsLeft
<1> DEFINE S == ToSet(sc.pyEvents)
<1> HIDE DEF S
<1>3. pyEvents \in Seq(S) /\ Len(pyEvents) <= Len(sc.pyEvents)
  BY DEF EventsLeft, S
<1>4. pyEvents' \in Seq(S) /\ Len(pyEvents') = Len(pyEvents) - 1
  BY <1>3
<1>5. EventsLeft'
  BY <1>2, <1>3, <1>4 DEF EventsLeft, S
<1> QED
  BY <1>2, <1>3, <1>4, <1>5 DEF Tag

(* One entry more, under a number nobody has used. *)
LEMMA BufferedOne ==
  ASSUME NEW entries, Conserved(entries), NEW e, e.tag \notin pyCaptured,
         pyTaken \subseteq pyCaptured,
         pyCaptured' = pyCaptured \cup {e.tag}, UNCHANGED pyTaken,
         ~pyRaced' => ~pyRaced
  PROVE  Conserved(entries \cup {e})'
<1>1. Tags(entries \cup {e}) = Tags(entries) \cup {e.tag}
  BY DEF Tags
<1>2. \A d \in entries : d.tag \in pyCaptured
  BY DEF Conserved, Tags
<1>3. \A c, d \in entries \cup {e} : c.tag = d.tag => c = d
  BY <1>2 DEF Conserved
<1> QED
  BY <1>1, <1>3 DEF Conserved

LEMMA BufferStill ==
  ASSUME BufferInv, UNCHANGED <<sc, pyVars>>
  PROVE  BufferInv'
  BY DEF BufferInv, EventsLeft, Conserved, Tag, Tags, pyVars

LEMMA CallbackInv ==
  ASSUME BufferInv, Callback
  PROVE  BufferInv'
<1>1. Tag \in Nat /\ Tag' = Tag + 1 /\ EventsLeft' /\ UNCHANGED <<pyOps, pyApply, pyTaken>>
  BY TagFacts DEF BufferInv, Callback
<1>2. CASE UNCHANGED <<pyPending, pyCaptured, pyRaced>>
  <2>1. \A entries : Conserved(entries) => Conserved(entries)'
    BY <1>1, <1>2 DEF Conserved
  <2>2. \A n \in pyCaptured' : n \in Nat /\ n < Tag'
    BY <1>1, <1>2 DEF BufferInv
  <2> QED
    BY <1>1, <1>2, <2>1, <2>2 DEF BufferInv
<1>3. ASSUME NEW jp, NEW rows, rows # <<>>, Buffer(jp, rows) PROVE BufferInv'
  <2> DEFINE e == [joinpoint |-> jp, rows |-> rows, tag |-> Tag]
  <2>1. /\ e.tag = Tag /\ pyPending' = pyPending \cup {e} /\ pyCaptured' = pyCaptured \cup {Tag}
        /\ (pyApply.pc = "write_back" => pyRaced') /\ (~pyRaced' => ~pyRaced)
    BY <1>3 DEF Buffer
  <2> HIDE DEF e
  <2>2. Tag \notin pyCaptured /\ pyTaken \subseteq pyCaptured
    BY <1>1 DEF BufferInv
  <2>3. Conserved(pyPending) => Conserved(pyPending)'
    BY <1>1, <2>1, <2>2, BufferedOne
  <2>4. ASSUME NEW entries, pyApply.pc = "write_back", Conserved(entries)
        PROVE  Conserved(entries)'
    BY <1>1, <2>1, <2>4 DEF Conserved
  <2>5. \A n \in pyCaptured' : n \in Nat /\ n < Tag'
    BY <1>1, <2>1 DEF BufferInv
  <2> QED
    BY <1>1, <2>1, <2>2, <2>3, <2>4, <2>5 DEF BufferInv
<1> QED
  BY <1>2, <1>3 DEF Callback, Buffer

LEMMA ApplySplitInv ==
  ASSUME BufferInv, ApplySplit
  PROVE  BufferInv'
<1>o. PICK op : op = Head(pyOps)
  OBVIOUS
<1> DEFINE applicable == {e \in pyPending : Applicable(op, e)}
<1>1. /\ UNCHANGED <<sc, pyEvents, pyOps, pyPending, pyCaptured, pyRaced>>
      /\ pyOps # <<>> /\ op.op = "apply" /\ pyApply.pc = "idle"
      /\ pyApply' = [pc |-> "write_back", kept |-> Kept(op, pyPending), drain |-> op.drain]
      /\ pyTaken' = IF op.drain THEN pyTaken \cup Tags(applicable) ELSE pyTaken
  BY <1>o DEF ApplySplit
<1>2. /\ pyApply'.pc = "write_back" /\ pyApply'.kept = Kept(op, pyPending)
      /\ pyApply'.drain = op.drain
  BY <1>1
<1>3. Conserved(pyPending)
  BY <1>1 DEF BufferInv
<1>4. Tags(pyPending) = Tags(Kept(op, pyPending)) \cup Tags(applicable)
      /\ Tags(Kept(op, pyPending)) \cap Tags(applicable) = {}
      /\ Kept(op, pyPending) \subseteq pyPending
  BY <1>3 DEF Tags, Kept, Conserved
<1>5. CASE op.drain
  <2>1. pyTaken' = pyTaken \cup Tags(applicable)
    BY <1>1, <1>5
  <2>2. Conserved(pyApply.kept)'
    BY <1>1, <1>2, <1>3, <1>4, <2>1 DEF Conserved
  <2>3. pyTaken' \subseteq pyCaptured
    BY <1>3, <1>4, <2>1 DEF BufferInv, Conserved
  <2> QED
    BY <1>o, <1>1, <1>2, <1>5, <2>2, <2>3 DEF BufferInv, EventsLeft, Tag
<1>6. CASE ~op.drain
  <2>1. pyTaken' = pyTaken
    BY <1>1, <1>6
  <2>2. Conserved(pyPending)'
    BY <1>1, <1>3, <2>1 DEF Conserved
  <2> QED
    BY <1>o, <1>1, <1>2, <1>6, <2>1, <2>2 DEF BufferInv, EventsLeft, Tag
<1> QED
  BY <1>5, <1>6

LEMMA ApplyWriteBackInv ==
  ASSUME BufferInv, ApplyWriteBack
  PROVE  BufferInv'
<1>1. /\ UNCHANGED <<sc, pyEvents, pyTaken, pyCaptured, pyRaced>>
      /\ pyApply.pc = "write_back" /\ pyApply' = NotApplying
      /\ pyPending' = IF pyApply.drain THEN pyApply.kept ELSE pyPending
  BY DEF ApplyWriteBack
<1>2. pyApply'.pc = "idle"
  BY <1>1 DEF NotApplying
<1>3. Conserved(IF pyApply.drain THEN pyApply.kept ELSE pyPending)
  BY <1>1 DEF BufferInv
<1>4. Conserved(pyPending)'
  BY <1>1, <1>3 DEF Conserved
<1> QED
  BY <1>1, <1>2, <1>4 DEF BufferInv, EventsLeft, Tag

(* The other operations of the prompt thread find no apply_to under way. *)
LEMMA TakenStep ==
  ASSUME BufferInv, UNCHANGED <<sc, pyEvents, pyApply, pyCaptured, pyRaced>>,
         pyOps # <<>>, Head(pyOps).op # "apply", NEW gone \in SUBSET pyPending,
         pyPending' = pyPending \ gone, pyTaken' = pyTaken \cup Tags(gone)
  PROVE  BufferInv'
<1>1. pyApply.pc = "idle" /\ Conserved(pyPending)
  BY DEF BufferInv
<1>2. /\ Tags(pyPending) = Tags(pyPending \ gone) \cup Tags(gone)
      /\ Tags(pyPending \ gone) \cap Tags(gone) = {}
  BY <1>1 DEF Tags, Conserved
<1>3. Conserved(pyPending)'
  BY <1>1, <1>2 DEF Conserved
<1>4. pyTaken' \subseteq pyCaptured
  BY <1>1, <1>2 DEF BufferInv, Conserved
<1> QED
  BY <1>1, <1>3, <1>4 DEF BufferInv, EventsLeft, Tag

LEMMA guard_tool_callInv ==
  ASSUME BufferInv, guard_tool_call
  PROVE  BufferInv'
<1>0. Tags({}) = {}
  BY DEF Tags
<1>1. /\ UNCHANGED <<sc, pyEvents, pyApply, pyCaptured, pyRaced>>
      /\ pyOps # <<>> /\ Head(pyOps).op # "apply"
  BY DEF guard_tool_call
<1>2. CASE UNCHANGED <<pyPending, pyTaken>>
  <2>1. pyPending' = pyPending \ {} /\ pyTaken' = pyTaken \cup Tags({})
    BY <1>0, <1>2
  <2> QED
    BY <1>1, <2>1, TakenStep
<1>3. ASSUME NEW e \in Guards, pyPending' = pyPending \ {e}, pyTaken' = pyTaken \cup {e.tag}
      PROVE  BufferInv'
  <2>1. {e} \in SUBSET pyPending /\ Tags({e}) = {e.tag}
    BY DEF Guards, Tags
  <2> QED
    BY <1>1, <1>3, <2>1, TakenStep
<1> QED
  BY <1>2, <1>3 DEF guard_tool_call

LEMMA ClearInv ==
  ASSUME BufferInv, clear_pending \/ uninstall
  PROVE  BufferInv'
<1>1. /\ UNCHANGED <<sc, pyEvents, pyApply, pyCaptured, pyRaced>>
      /\ pyOps # <<>> /\ Head(pyOps).op # "apply"
  BY DEF clear_pending, uninstall
<1>2. CASE clear_pending
  <2>1. pyPending' = pyPending \ pyPending /\ pyTaken' = pyTaken \cup Tags(pyPending)
    BY <1>2 DEF clear_pending
  <2> QED
    BY <1>1, <2>1, TakenStep
<1>3. CASE uninstall
  <2>1. pyPending' = pyPending \ {} /\ pyTaken' = pyTaken \cup Tags({})
    BY <1>3 DEF uninstall, Tags
  <2> QED
    BY <1>1, <2>1, TakenStep
<1> QED
  BY <1>2, <1>3

LEMMA NextBufferInv == BufferInv /\ [Next]_vars => BufferInv'
<1> SUFFICES ASSUME BufferInv, [Next]_vars PROVE BufferInv'
  OBVIOUS
<1>1. CASE PyNext /\ UNCHANGED <<obsVars, bridgeVars>>
  BY <1>1, CallbackInv, ApplySplitInv, ApplyWriteBackInv, guard_tool_callInv, ClearInv DEF PyNext
<1>2. CASE UNCHANGED <<sc, pyVars>>
  BY <1>2, BufferStill
<1>3. CASE BridgeStep
  <2>1. UNCHANGED <<sc, pyVars>>
    BY <1>3 DEF BridgeStep, SyncLoaded, Fire, Answer, Fail, Arrive
  <2> QED
    BY <1>2, <2>1
<1>4. CASE EffectorNext /\ UNCHANGED <<pyVars, obsVars, bridgeVars>>
  <2>1. UNCHANGED sc
    BY <1>4 DEF EffectorNext, UpsertConcern, TurnWeave, TurnMediate, TurnVerify, TurnAppend
  <2> QED
    BY <1>2, <1>4, <2>1
<1>5. CASE ObserverNext /\ UNCHANGED bridgeVars
  <2>1. UNCHANGED <<sc, pyVars>>
    BY <1>5 DEF ObserverNext, HostStep, PollStep
  <2> QED
    BY <1>2, <2>1
<1>6. CASE UNCHANGED vars
  BY <1>2, <1>6 DEF vars
<1> QED
  BY <1>1, <1>3, <1>4, <1>5, <1>6 DEF Next, Rest

(* An entry the Python plugin has buffered waits or was taken, never both,   *)
(* and is lost only if apply_to was between its halves when it came, for any *)
(* host events and any operations of the prompt thread.                      *)
THEOREM BufferIsConserved == Spec => []BufferConserved
<1>1. Init => BufferInv
  <2> SUFFICES ASSUME Init PROVE BufferInv
    OBVIOUS
  <2>1. EventsLeft
    BY ScenarioAssumption DEF Init, InitPy, EventsLeft
  <2>2. pyApply.pc = "idle" /\ pyCaptured = {} /\ pyTaken = {} /\ pyPending = {}
    BY DEF Init, InitPy, NotApplying
  <2> QED
    BY <2>1, <2>2 DEF BufferInv, Conserved, Tags
<1>2. BufferInv => BufferConserved
  BY DEF BufferInv, Conserved, BufferConserved
<1> QED
  BY <1>1, <1>2, NextBufferInv, PTL DEF Spec

-----------------------------------------------------------------------------
(* The observers.                                                            *)
Terminal(j) == j.name = "task.before_terminal"
Created(about) == Joinpoint("task.before_create", about)
Reported == ToSet(seen) \cup UNION {polls[p].out : p \in DOMAIN polls}

ObserverTypes ==
  /\ sc \in Scenarios
  /\ tracked \in Seq(Sessions)
  /\ DOMAIN host = Sessions /\ DOMAIN taskStatus = Sessions
  /\ hostSteps \in Seq(ToSet(sc.hostSteps))
  /\ \E S : seen \in Seq(S)
  /\ \A p \in DOMAIN polls : polls[p].stage \in Int /\ polls[p].stage >= -1
  /\ \A j \in Reported : j = Joinpoint(j.name, j.about)
  /\ \A p \in DOMAIN polls : \A j \in polls[p].out : j.name # "reply_run.phase.running"

(* A task that has ended for the host stays so in all it has still to do.    *)
HostInv ==
  \A i \in DOMAIN hostSteps : \A t \in DOMAIN hostSteps[i].tasks :
    LET s == hostSteps[i].session IN
    /\ s \in Sessions /\ t \in DOMAIN host[s].tasks /\ Ended(host[s].tasks[t]) =>
         Ended(hostSteps[i].tasks[t])
    /\ \A k \in DOMAIN hostSteps :
         /\ k > i /\ hostSteps[k].session = s
         /\ t \in DOMAIN hostSteps[k].tasks /\ Ended(hostSteps[i].tasks[t])
         => Ended(hostSteps[k].tasks[t])

(* The task has ended, for the host now and later and for the polls.         *)
Over(s, t) ==
  /\ t \in DOMAIN host[s].tasks => Ended(host[s].tasks[t])
  /\ t \in DOMAIN taskStatus[s] => Ended(taskStatus[s][t])
  /\ \A i \in DOMAIN hostSteps :
       hostSteps[i].session = s /\ t \in DOMAIN hostSteps[i].tasks => Ended(hostSteps[i].tasks[t])

EndsInv ==
  \A j \in Reported : Terminal(j) =>
    /\ \E s \in Sessions, t \in {j.about[2]} : j.about = <<s, t>> /\ Over(s, t)
    /\ Created(j.about) \in Reported

OnceInv ==
  /\ \A i, k \in DOMAIN seen : seen[i] = seen[k] /\ Terminal(seen[i]) => i = k
  /\ \A i \in DOMAIN seen, p \in DOMAIN polls : Terminal(seen[i]) => seen[i] \notin polls[p].out
  /\ \A p, q \in DOMAIN polls : \A j \in polls[p].out \cap polls[q].out : Terminal(j) => p = q

CreatedInv ==
  \A s \in Sessions : \A t \in DOMAIN taskStatus[s] : Created(<<s, t>>) \in Reported

RunInv(r) ==
  /\ Count("reply_run.phase.running", r) <= Count("reply_run.before_begin", r)
  /\ r \in runningRuns => Count("reply_run.phase.running", r) < Count("reply_run.before_begin", r)

RunsInv == \A r : RunInv(r)
ObsInv == ObserverTypes /\ HostInv /\ EndsInv /\ OnceInv /\ CreatedInv /\ RunsInv

LEMMA JoinpointFields ==
  ASSUME NEW n, NEW a
  PROVE  Joinpoint(n, a).name = n /\ Joinpoint(n, a).about = a
  BY DEF Joinpoint

(* The history with one joinpoint more. *)
At(h, j) == {i \in DOMAIN h : h[i] = j}

With(h, j) == Append(h, j)

Appended(h, g, S, j) ==
  /\ g \in Seq(S \cup {j}) /\ ToSet(g) = ToSet(h) \cup {j}
  /\ DOMAIN h = 1 .. Len(h) /\ Len(h) \in Nat
  /\ DOMAIN g = 1 .. Len(h) + 1 /\ g[Len(h) + 1] = j
  /\ \A i \in 1 .. Len(h) : g[i] = h[i]

LEMMA AppendFacts ==
  ASSUME NEW S, NEW h \in Seq(S), NEW j
  PROVE  Appended(h, With(h, j), S, j)
<1>g. PICK g : g = Append(h, j) /\ With(h, j) = g
  BY DEF With
<1> USE <1>g
<1>1. h \in Seq(S \cup {j}) /\ DOMAIN h = 1 .. Len(h) /\ Len(h) \in Nat
  OBVIOUS
<1>2. /\ g \in Seq(S \cup {j}) /\ Len(g) = Len(h) + 1 /\ g[Len(h) + 1] = j
      /\ \A i \in 1 .. Len(h) : g[i] = h[i]
  BY <1>1
<1>3. DOMAIN g = 1 .. Len(h) + 1
  BY <1>1, <1>2
<1>4. 1 .. Len(h) + 1 = (1 .. Len(h)) \cup {Len(h) + 1}
  BY <1>1
<1>5. ToSet(g) = ToSet(h) \cup {j}
  BY <1>1, <1>2, <1>3, <1>4 DEF ToSet
<1> QED
  BY <1>1, <1>2, <1>3, <1>5 DEF Appended

LEMMA CountFacts ==
  ASSUME NEW S, NEW h \in Seq(S), NEW x
  PROVE  IsFiniteSet(At(h, x)) /\ Cardinality(At(h, x)) \in Nat
<1>1. DOMAIN h = 1 .. Len(h) /\ Len(h) \in Nat
  OBVIOUS
<1>2. IsFiniteSet(1 .. Len(h))
  BY <1>1, FS_Interval
<1>3. At(h, x) \subseteq 1 .. Len(h)
  BY <1>1 DEF At
<1>4. IsFiniteSet(At(h, x))
  BY <1>2, <1>3, FS_Subset
<1> QED
  BY <1>4, FS_CardinalityType

LEMMA CountAppend ==
  ASSUME NEW S, NEW h \in Seq(S), NEW j, NEW x
  PROVE  Cardinality(At(With(h, j), x)) = Cardinality(At(h, x)) + (IF j = x THEN 1 ELSE 0)
<1> DEFINE g == With(h, j)
           n == Len(h) + 1
<1>1. /\ DOMAIN h = 1 .. Len(h) /\ Len(h) \in Nat /\ DOMAIN g = 1 .. n /\ g[n] = j
      /\ \A i \in 1 .. Len(h) : g[i] = h[i]
  BY DEF With
<1>2. 1 .. n = (1 .. Len(h)) \cup {n} /\ n \notin 1 .. Len(h)
  BY <1>1
<1> HIDE DEF g, n
<1>3. n \notin At(h, x)
  BY <1>1, <1>2 DEF At
<1>4. CASE j = x
  <2>1. At(g, x) = At(h, x) \cup {n}
    BY <1>1, <1>2, <1>4 DEF At
  <2>2. Cardinality(At(h, x) \cup {n}) = Cardinality(At(h, x)) + 1
    BY <1>3, CountFacts, FS_AddElement
  <2> QED
    BY <1>4, <2>1, <2>2 DEF g
<1>5. CASE j # x
  <2>1. At(g, x) = At(h, x)
    BY <1>1, <1>2, <1>5 DEF At
  <2> QED
    BY <1>5, <2>1, CountFacts DEF g
<1> QED
  BY <1>4, <1>5

(* Poll p observes one of out, which may hold more than was left of its      *)
(* stage: ends that nobody has reported.                                     *)
LEMMA ObserveStep ==
  ASSUME ObserverTypes, OnceInv, NEW p \in DOMAIN polls, NEW stage \in Int, stage >= -1, NEW out,
         polls[p].out \subseteq out,
         \A j \in out : j = Joinpoint(j.name, j.about) /\ j.name # "reply_run.phase.running",
         \A j \in out \ polls[p].out : Terminal(j) => j \notin Reported,
         Observe(p, stage, out)
  PROVE  /\ Reported' = Reported \cup out
         /\ OnceInv'
         /\ \E S : seen' \in Seq(S)
         /\ \A j \in Reported' : j = Joinpoint(j.name, j.about)
         /\ DOMAIN polls' = DOMAIN polls
         /\ \A q \in DOMAIN polls : polls'[q].stage \in Int /\ polls'[q].stage >= -1
         /\ \A q \in DOMAIN polls : \A j \in polls'[q].out : j.name # "reply_run.phase.running"
         /\ \E j \in out : seen' = Append(seen, j)
<1>1. PICK j \in out : /\ polls' = [polls EXCEPT ![p] = [stage |-> stage, out |-> out \ {j}]]
                       /\ seen' = Append(seen, j)
  BY DEF Observe, Observable
<1>2. /\ DOMAIN polls' = DOMAIN polls /\ polls'[p].out = out \ {j} /\ polls'[p].stage = stage
      /\ \A q \in DOMAIN polls \ {p} : polls'[q] = polls[q]
  BY <1>1
<1>3. PICK S : seen \in Seq(S)
  BY DEF ObserverTypes
<1>4. /\ seen' \in Seq(S \cup {j}) /\ ToSet(seen') = ToSet(seen) \cup {j}
      /\ DOMAIN seen = 1 .. Len(seen) /\ Len(seen) \in Nat
      /\ DOMAIN seen' = 1 .. Len(seen) + 1 /\ seen'[Len(seen) + 1] = j
      /\ \A i \in 1 .. Len(seen) : seen'[i] = seen[i]
  <2>1. seen' = With(seen, j)
    BY <1>1 DEF With
  <2> QED
    BY <1>3, <2>1, AppendFacts DEF Appended
<1>5. Reported' = Reported \cup out
  <2> DEFINE U == UNION {polls[q].out : q \in DOMAIN polls}
             V == UNION {polls'[q].out : q \in DOMAIN polls'}
  <2>1. \A x : x \in U <=> \E q \in DOMAIN polls : x \in polls[q].out
    BY Zenon
  <2>2. \A x : x \in V <=> \E q \in DOMAIN polls' : x \in polls'[q].out
    BY Zenon
  <2>3. Reported = ToSet(seen) \cup U /\ Reported' = ToSet(seen') \cup V
    BY Zenon DEF Reported
  <2> HIDE DEF U, V
  <2>4. V \cup {j} = U \cup out
    BY <1>1, <1>2, <2>1, <2>2
  <2> HIDE <1>1, <1>2
  <2> QED
    BY <1>4, <2>3, <2>4
<1>6. OnceInv'
  <2>1. \A i \in DOMAIN seen : seen[i] \in Reported
    BY DEF Reported, ToSet
  <2>2. \A q \in DOMAIN polls : polls[q].out \subseteq Reported
    BY DEF Reported
  <2>3. \A i \in DOMAIN seen : Terminal(seen[i]) => seen[i] \notin out
    BY <2>1 DEF OnceInv
  <2>4. \A q \in DOMAIN polls \ {p} : \A x \in polls[q].out : Terminal(x) => x \notin out
    BY <2>2 DEF OnceInv
  <2>5. \A i \in DOMAIN seen' : i \in DOMAIN seen \/ i = Len(seen) + 1
    BY <1>4
  <2>6. \A i, k \in DOMAIN seen' : seen'[i] = seen'[k] /\ Terminal(seen'[i]) => i = k
    BY <1>1, <1>4, <2>3, <2>5 DEF OnceInv
  <2>7. \A i \in DOMAIN seen', q \in DOMAIN polls' :
          Terminal(seen'[i]) => seen'[i] \notin polls'[q].out
    BY <1>1, <1>2, <1>4, <2>3, <2>4, <2>5 DEF OnceInv
  <2>8. \A r, q \in DOMAIN polls' : \A x \in polls'[r].out \cap polls'[q].out : Terminal(x) => r = q
    BY <1>2, <2>4 DEF OnceInv
  <2> QED
    BY <2>6, <2>7, <2>8 DEF OnceInv
<1> QED
  BY <1>1, <1>2, <1>4, <1>5, <1>6 DEF ObserverTypes

(* Counts of reply runs under one joinpoint more. *)
LEMMA RunsKept ==
  ASSUME RunsInv, NEW S, seen \in Seq(S), NEW j, j.name # "reply_run.phase.running",
         seen' = Append(seen, j), UNCHANGED runningRuns
  PROVE  RunsInv'
<1> SUFFICES ASSUME NEW r PROVE RunInv(r)'
  BY DEF RunsInv
<1> DEFINE b == Joinpoint("reply_run.before_begin", r)
           x == Joinpoint("reply_run.phase.running", r)
<1>0. seen' = With(seen, j)
  BY DEF With
<1>1. j # x
  BY JoinpointFields
<1> HIDE DEF b, x
<1>2. /\ Cardinality(At(With(seen, j), x)) = Cardinality(At(seen, x)) + (IF j = x THEN 1 ELSE 0)
      /\ Cardinality(At(With(seen, j), b)) = Cardinality(At(seen, b)) + (IF j = b THEN 1 ELSE 0)
      /\ Cardinality(At(seen, x)) \in Nat /\ Cardinality(At(seen, b)) \in Nat
  BY CountAppend, CountFacts
<1>3. /\ Cardinality(At(seen', x)) = Cardinality(At(seen, x))
      /\ Cardinality(At(seen', b)) >= Cardinality(At(seen, b))
      /\ Cardinality(At(seen', b)) \in Nat
  BY <1>0, <1>1, <1>2
<1>4. /\ Cardinality(At(seen, x)) <= Cardinality(At(seen, b))
      /\ r \in runningRuns => Cardinality(At(seen, x)) < Cardinality(At(seen, b))
  BY DEF RunsInv, RunInv, Count, At, x, b
<1>5. /\ Cardinality(At(seen', x)) <= Cardinality(At(seen', b))
      /\ r \in runningRuns' => Cardinality(At(seen', x)) < Cardinality(At(seen', b))
  BY <1>2, <1>3, <1>4
<1> QED
  BY <1>5 DEF RunInv, Count, At, x, b

-----------------------------------------------------------------------------
(* What a stage finds. *)
LEMMA StageSession ==
  ASSUME ObserverTypes, NEW k \in 1 .. 2 * Len(tracked)
  PROVE  tracked[(k + 1) \div 2] \in Sessions
<1>1. tracked \in Seq(Sessions) /\ Len(tracked) \in Nat
  BY DEF ObserverTypes
<1>2. (k + 1) \div 2 \in 1 .. Len(tracked)
  BY <1>1
<1> QED
  BY <1>1, <1>2

LEMMA ListedTasks ==
  ASSUME NEW s, NEW broken
  PROVE  listTasksForSession(s, broken) = host[s].tasks \/ DOMAIN listTasksForSession(s, broken) = {}
  BY DEF listTasksForSession, EmptyMap

LEMMA DiffTasks ==
  ASSUME NEW s, NEW prev, NEW next
  PROVE  /\ \A j \in diffTaskSnapshots(s, prev, next) :
              /\ j = Joinpoint(j.name, j.about) /\ j.name # "reply_run.phase.running"
              /\ Terminal(j) => \E t \in DOMAIN next \cap DOMAIN prev :
                                  j.about = <<s, t>> /\ ~Ended(prev[t]) /\ Ended(next[t])
         /\ \A t \in DOMAIN next \ DOMAIN prev : Created(<<s, t>>) \in diffTaskSnapshots(s, prev, next)
<1> DEFINE A == UNION {{Joinpoint("task.before_create", <<s, t>>),
                        Joinpoint("task.after_create", <<s, t>>)} : t \in DOMAIN next \ DOMAIN prev}
           B == {Joinpoint("task.before_terminal", <<s, t>>) :
                   t \in {u \in DOMAIN next \cap DOMAIN prev : ~Ended(prev[u]) /\ Ended(next[u])}}
<1>0. diffTaskSnapshots(s, prev, next) = A \cup B
  BY DEF diffTaskSnapshots
<1>1. ASSUME NEW j \in A PROVE j = Joinpoint(j.name, j.about) /\ j.name # "reply_run.phase.running" /\ ~Terminal(j)
  <2>1. PICK t : \/ j = Joinpoint("task.before_create", <<s, t>>)
                 \/ j = Joinpoint("task.after_create", <<s, t>>)
    BY <1>1, Zenon
  <2> QED
    BY <2>1, JoinpointFields DEF Terminal
<1>2. ASSUME NEW j \in B
      PROVE  /\ j = Joinpoint(j.name, j.about) /\ j.name # "reply_run.phase.running"
             /\ \E t \in DOMAIN next \cap DOMAIN prev :
                  j.about = <<s, t>> /\ ~Ended(prev[t]) /\ Ended(next[t])
  <2>1. PICK t \in DOMAIN next \cap DOMAIN prev :
          j = Joinpoint("task.before_terminal", <<s, t>>) /\ ~Ended(prev[t]) /\ Ended(next[t])
    BY <1>2, Zenon
  <2> QED
    BY <2>1, JoinpointFields
<1>3. ASSUME NEW t \in DOMAIN next \ DOMAIN prev PROVE Created(<<s, t>>) \in A
  BY <1>3 DEF Created
<1> HIDE DEF A, B
<1> QED
  BY <1>0, <1>1, <1>2, <1>3

LEMMA StageReport ==
  ASSUME ObserverTypes, NEW k \in 1 .. 2 * Len(tracked), NEW broken,
         NEW s, s = tracked[(k + 1) \div 2]
  PROVE  /\ \A j \in Report(k, broken) :
              /\ j = Joinpoint(j.name, j.about) /\ j.name # "reply_run.phase.running"
              /\ Terminal(j) =>
                   /\ k % 2 = 0
                   /\ \E t \in DOMAIN host[s].tasks \cap DOMAIN taskStatus[s] :
                        /\ j.about = <<s, t>> /\ ~Ended(taskStatus[s][t])
                        /\ Ended(host[s].tasks[t])
                        /\ listTasksForSession(s, broken) = host[s].tasks
         /\ k % 2 = 0 =>
              \A t \in DOMAIN listTasksForSession(s, broken) :
                t \in DOMAIN taskStatus[s] \/ Created(<<s, t>>) \in Report(k, broken)
<1>1. CASE k % 2 = 1
  <2> DEFINE Q == diffQueueDepth(s, queueDepth[s], DepthRead(s, broken))
  <2>1. Report(k, broken) = Q
    BY <1>1, Zenon DEF Report
  <2>2. Q \subseteq {Joinpoint("queue.before_enqueue", s), Joinpoint("queue.before_collect", s)}
    BY Zenon DEF diffQueueDepth
  <2> HIDE DEF Q
  <2>3. \A j \in Q : j = Joinpoint(j.name, j.about) /\ j.name # "reply_run.phase.running" /\ ~Terminal(j)
    BY <2>2, JoinpointFields DEF Terminal
  <2>4. k % 2 # 0
    BY <1>1
  <2> QED
    BY <2>1, <2>3, <2>4
<1>2. CASE k % 2 # 1
  <2> DEFINE next == listTasksForSession(s, broken)
             prev == taskStatus[s]
  <2>1. Report(k, broken) = diffTaskSnapshots(s, prev, next)
    BY <1>2, Zenon DEF Report
  <2>2. k % 2 = 0
    BY <1>2
  <2>3. next = host[s].tasks \/ DOMAIN next = {}
    BY ListedTasks
  <2> HIDE DEF next, prev
  <2>4. /\ \A j \in Report(k, broken) :
              /\ j = Joinpoint(j.name, j.about) /\ j.name # "reply_run.phase.running"
              /\ Terminal(j) => \E t \in DOMAIN next \cap DOMAIN prev :
                                  j.about = <<s, t>> /\ ~Ended(prev[t]) /\ Ended(next[t])
        /\ \A t \in DOMAIN next \ DOMAIN prev : Created(<<s, t>>) \in Report(k, broken)
    BY <2>1, DiffTasks
  <2>5. \A j \in Report(k, broken) :
          Terminal(j) => \E t \in DOMAIN host[s].tasks \cap DOMAIN prev :
                           /\ j.about = <<s, t>> /\ ~Ended(prev[t]) /\ Ended(host[s].tasks[t])
                           /\ next = host[s].tasks
    BY <2>3, <2>4
  <2> QED
    BY <2>2, <2>4, <2>5, Zenon DEF next, prev
<1> QED
  BY <1>1, <1>2

(* A poll that only drops what it knows, or takes over what the host has.    *)
TaskMove == /\ DOMAIN taskStatus' = Sessions
            /\ \A s \in Sessions : \/ taskStatus'[s] = taskStatus[s]
                                   \/ taskStatus'[s] = host[s].tasks
                                   \/ DOMAIN taskStatus'[s] = {}

LEMMA OverKept ==
  ASSUME TaskMove, UNCHANGED <<host, hostSteps>>, NEW s \in Sessions, NEW t, Over(s, t)
  PROVE  Over(s, t)'
  BY DEF TaskMove, Over

(* The stages i to j: what the polls then know of tasks has been reported,   *)
(* or stage j reports it.                                                    *)
LEMMA ListedStep ==
  ASSUME ObserverTypes, CreatedInv, NEW i \in Nat, i >= 1, NEW broken,
         NEW j \in i .. 2 * Len(tracked) + 1,
         \A k \in i .. j - 1 : Report(k, broken) = {},
         taskStatus' = [s \in Sessions |-> IF s \in Looked(i, j, 0)
                                           THEN listTasksForSession(s, broken) ELSE taskStatus[s]]
  PROVE  /\ TaskMove
         /\ \A s \in Sessions : \A t \in DOMAIN taskStatus'[s] :
              \/ Created(<<s, t>>) \in Reported
              \/ j <= 2 * Len(tracked) /\ Created(<<s, t>>) \in Report(j, broken)
         /\ j <= 2 * Len(tracked) /\ j % 2 = 0 =>
              taskStatus'[tracked[(j + 1) \div 2]]
                = listTasksForSession(tracked[(j + 1) \div 2], broken)
<1>0. Len(tracked) \in Nat /\ j \in Nat /\ i <= j
  BY DEF ObserverTypes
<1>n. PICK n \in Nat : n = 2 * Len(tracked)
  BY <1>0
<1>1. TaskMove
  BY ListedTasks DEF TaskMove
<1>2. ASSUME NEW s \in Sessions, NEW t \in DOMAIN taskStatus'[s]
      PROVE  Created(<<s, t>>) \in Reported \/ (j <= n /\ Created(<<s, t>>) \in Report(j, broken))
  <2>1. CASE s \notin Looked(i, j, 0)
    BY <1>2, <2>1 DEF CreatedInv
  <2>2. CASE s \in Looked(i, j, 0)
    <3>1. PICK k \in i .. j : k <= n /\ k % 2 = 0 /\ s = tracked[(k + 1) \div 2]
      BY <1>n, <2>2, Zenon DEF Looked
    <3>2. taskStatus'[s] = listTasksForSession(s, broken)
      BY <2>2
    <3>3. k \in 1 .. 2 * Len(tracked)
      BY <1>0, <1>n, <3>1
    <3>4. t \in DOMAIN taskStatus[s] \/ Created(<<s, t>>) \in Report(k, broken)
      BY <1>2, <3>1, <3>2, <3>3, StageReport
    <3>5. CASE t \in DOMAIN taskStatus[s]
      BY <3>5 DEF CreatedInv
    <3>6. CASE Created(<<s, t>>) \in Report(k, broken)
      <4>1. k = j
        BY <1>0, <3>1, <3>6
      <4> QED
        BY <3>1, <3>6, <4>1
    <3> QED
      BY <3>4, <3>5, <3>6
  <2> QED
    BY <2>1, <2>2
<1>3. ASSUME j <= n, j % 2 = 0
      PROVE  taskStatus'[tracked[(j + 1) \div 2]]
               = listTasksForSession(tracked[(j + 1) \div 2], broken)
  <2>1. j \in 1 .. 2 * Len(tracked)
    BY <1>0, <1>n, <1>3
  <2>2. PICK s \in Sessions : s = tracked[(j + 1) \div 2]
    BY <2>1, StageSession
  <2>3. j \in {m \in i .. j : m <= 2 * Len(tracked) /\ m % 2 = 0}
    BY <1>0, <1>n, <1>3
  <2>4. s \in Looked(i, j, 0)
    BY <2>2, <2>3, Zenon DEF Looked
  <2> QED
    BY <2>2, <2>4
<1> QED
  BY <1>n, <1>1, <1>2, <1>3

LEMMA ReportedStep ==
  ASSUME ObsInv, TaskMove, NEW out, Reported' = Reported \cup out, UNCHANGED <<host, hostSteps>>,
         \A j \in out \ Reported : Terminal(j) =>
            /\ \E s \in Sessions, t \in {j.about[2]} : j.about = <<s, t>> /\ Over(s, t)'
            /\ Created(j.about) \in Reported,
         \A s \in Sessions : \A t \in DOMAIN taskStatus'[s] : Created(<<s, t>>) \in Reported'
  PROVE  EndsInv' /\ CreatedInv'
<1>1. CreatedInv'
  BY DEF CreatedInv
<1>2. ASSUME NEW j \in Reported', Terminal(j)
      PROVE  /\ \E s \in Sessions, t \in {j.about[2]} : j.about = <<s, t>> /\ Over(s, t)'
             /\ Created(j.about) \in Reported'
  <2>1. CASE j \in Reported
    <3>1. PICK s \in Sessions, t \in {j.about[2]} : j.about = <<s, t>> /\ Over(s, t)
      BY <1>2, <2>1, Zenon DEF ObsInv, EndsInv
    <3>2. Over(s, t)'
      BY <3>1, OverKept
    <3>3. Created(j.about) \in Reported
      BY <1>2, <2>1, Zenon DEF ObsInv, EndsInv
    <3> QED
      BY <3>1, <3>2, <3>3, Zenon
  <2>2. CASE j \notin Reported
    BY <1>2, <2>2, Zenon
  <2> QED
    BY <2>1, <2>2
<1> QED
  BY <1>1, <1>2, Zenon DEF EndsInv

(* The next joinpoint of a stage. *)
LEMMA PollOn ==
  ASSUME ObsInv, NEW p \in DOMAIN polls, Observe(p, polls[p].stage, polls[p].out),
         UNCHANGED <<sc, taskStatus, host, hostSteps, tracked, runningRuns>>
  PROVE  ObsInv'
<1> DEFINE out == polls[p].out
<1>1. out \subseteq Reported
  BY DEF Reported
<1>2. \A j \in out : j = Joinpoint(j.name, j.about) /\ j.name # "reply_run.phase.running"
  BY <1>1 DEF ObsInv, ObserverTypes
<1>3. polls[p].stage \in Int /\ polls[p].stage >= -1
  BY DEF ObsInv, ObserverTypes
<1>4. /\ Reported' = Reported \cup out
      /\ OnceInv'
      /\ \E S : seen' \in Seq(S)
      /\ \A j \in Reported' : j = Joinpoint(j.name, j.about)
      /\ DOMAIN polls' = DOMAIN polls
      /\ \A q \in DOMAIN polls : polls'[q].stage \in Int /\ polls'[q].stage >= -1
      /\ \A q \in DOMAIN polls : \A j \in polls'[q].out : j.name # "reply_run.phase.running"
      /\ \E j \in out : seen' = Append(seen, j)
  BY <1>2, <1>3, ObserveStep DEF ObsInv
<1>5. ObserverTypes'
  BY <1>4 DEF ObsInv, ObserverTypes
<1>6. TaskMove
  BY DEF TaskMove, ObsInv, ObserverTypes
<1>7. EndsInv' /\ CreatedInv'
  <2>1. Reported' = Reported
    BY <1>1, <1>4
  <2>2. \A s \in Sessions : \A t \in DOMAIN taskStatus'[s] : Created(<<s, t>>) \in Reported'
    BY <2>1 DEF ObsInv, CreatedInv
  <2> HIDE DEF out
  <2> QED
    BY <1>1, <1>4, <1>6, <2>2, ReportedStep
<1>8. RunsInv'
  <2>1. PICK S : seen \in Seq(S)
    BY DEF ObsInv, ObserverTypes
  <2>2. PICK j \in out : seen' = Append(seen, j)
    BY <1>4
  <2> QED
    BY <1>2, <2>1, <2>2, RunsKept DEF ObsInv
<1>9. HostInv'
  BY DEF ObsInv, HostInv
<1> QED
  BY <1>4, <1>5, <1>7, <1>8, <1>9 DEF ObsInv

(* The next stage with something to report: the ends it finds are of tasks   *)
(* no poll knew the end of.                                                  *)
LEMMA PollFinds ==
  ASSUME ObsInv, NEW p \in DOMAIN polls, polls[p].out = {}, NEW i \in Nat, i >= 1, NEW broken,
         NEW k \in i .. 2 * Len(tracked) + 1, k <= 2 * Len(tracked),
         \A m \in i .. k - 1 : Report(m, broken) = {},
         taskStatus' = [s \in Sessions |-> IF s \in Looked(i, k, 0)
                                           THEN listTasksForSession(s, broken) ELSE taskStatus[s]],
         Observe(p, k, Report(k, broken)),
         UNCHANGED <<sc, host, hostSteps, tracked, runningRuns>>
  PROVE  ObsInv'
<1>o. PICK out : out = Report(k, broken)
  OBVIOUS
<1>0. Len(tracked) \in Nat /\ k \in 1 .. 2 * Len(tracked) /\ k \in Int /\ k >= -1
  BY DEF ObsInv, ObserverTypes
<1>s. PICK s0 \in Sessions : s0 = tracked[(k + 1) \div 2]
  BY <1>0, StageSession DEF ObsInv
<1>1. /\ TaskMove
      /\ \A s \in Sessions : \A t \in DOMAIN taskStatus'[s] :
           Created(<<s, t>>) \in Reported \/ Created(<<s, t>>) \in out
      /\ k % 2 = 0 => taskStatus'[s0] = listTasksForSession(s0, broken)
  BY <1>o, <1>s, ListedStep DEF ObsInv
<1>2. \A j \in out :
        /\ j = Joinpoint(j.name, j.about) /\ j.name # "reply_run.phase.running"
        /\ Terminal(j) =>
             /\ k % 2 = 0
             /\ \E t \in DOMAIN host[s0].tasks \cap DOMAIN taskStatus[s0] :
                  /\ j.about = <<s0, t>> /\ ~Ended(taskStatus[s0][t]) /\ Ended(host[s0].tasks[t])
                  /\ listTasksForSession(s0, broken) = host[s0].tasks
  BY <1>0, <1>o, <1>s, StageReport DEF ObsInv
<1>3. ASSUME NEW j \in out, Terminal(j)
      PROVE  /\ j \notin Reported
             /\ \E s \in Sessions, t \in {j.about[2]} : j.about = <<s, t>> /\ Over(s, t)'
             /\ Created(j.about) \in Reported
  <2>1. PICK t \in DOMAIN host[s0].tasks \cap DOMAIN taskStatus[s0] :
          /\ j.about = <<s0, t>> /\ ~Ended(taskStatus[s0][t]) /\ Ended(host[s0].tasks[t])
          /\ listTasksForSession(s0, broken) = host[s0].tasks
    BY <1>2, <1>3
  <2>2. taskStatus'[s0] = host[s0].tasks
    BY <1>1, <1>2, <1>3, <2>1
  <2>3. Over(s0, t)'
    <3>1. \A m \in DOMAIN hostSteps :
            hostSteps[m].session = s0 /\ t \in DOMAIN hostSteps[m].tasks => Ended(hostSteps[m].tasks[t])
      BY <2>1 DEF ObsInv, HostInv
    <3> QED
      BY <2>1, <2>2, <3>1 DEF Over
  <2>4. j \notin Reported
    <3> SUFFICES ASSUME j \in Reported PROVE FALSE
      OBVIOUS
    <3>1. PICK s \in Sessions, u \in {j.about[2]} : j.about = <<s, u>> /\ Over(s, u)
      BY <1>3, Zenon DEF ObsInv, EndsInv
    <3>2. s = s0 /\ u = t
      BY <2>1, <3>1
    <3> QED
      BY <2>1, <3>1, <3>2 DEF Over
  <2>5. Created(<<s0, t>>) \in Reported
    BY <2>1 DEF ObsInv, CreatedInv
  <2>6. j.about[2] = t
    BY <2>1
  <2> QED
    BY <2>1, <2>3, <2>4, <2>5, <2>6, Zenon
<1>4. /\ Reported' = Reported \cup out
      /\ OnceInv'
      /\ \E S : seen' \in Seq(S)
      /\ \A j \in Reported' : j = Joinpoint(j.name, j.about)
      /\ DOMAIN polls' = DOMAIN polls
      /\ \A q \in DOMAIN polls : polls'[q].stage \in Int /\ polls'[q].stage >= -1
      /\ \A q \in DOMAIN polls : \A j \in polls'[q].out : j.name # "reply_run.phase.running"
      /\ \E j \in out : seen' = Append(seen, j)
  <2>1. Observe(p, k, out) /\ polls[p].out \subseteq out
    BY <1>o
  <2>2. \A j \in out : j = Joinpoint(j.name, j.about) /\ j.name # "reply_run.phase.running"
    BY <1>2
  <2>3. \A j \in out \ polls[p].out : Terminal(j) => j \notin Reported
    BY <1>3
  <2> QED
    BY <1>0, <2>1, <2>2, <2>3, ObserveStep DEF ObsInv
<1>5. ObserverTypes'
  BY <1>1, <1>4 DEF ObsInv, ObserverTypes, TaskMove
<1>7. EndsInv' /\ CreatedInv'
  <2>1. \A s \in Sessions : \A t \in DOMAIN taskStatus'[s] : Created(<<s, t>>) \in Reported'
    BY <1>1, <1>4
  <2>2. \A j \in out \ Reported : Terminal(j) =>
          /\ \E s \in Sessions, t \in {j.about[2]} : j.about = <<s, t>> /\ Over(s, t)'
          /\ Created(j.about) \in Reported
    BY <1>3
  <2> QED
    BY <1>1, <1>4, <2>1, <2>2, ReportedStep
<1>8. RunsInv'
  <2>1. PICK S : seen \in Seq(S)
    BY DEF ObsInv, ObserverTypes
  <2>2. PICK j \in out : seen' = Append(seen, j)
    BY <1>4
  <2> QED
    BY <1>2, <2>1, <2>2, RunsKept DEF ObsInv
<1>9. HostInv'
  BY DEF ObsInv, HostInv
<1> QED
  BY <1>4, <1>5, <1>7, <1>8, <1>9 DEF ObsInv

(* The end of a poll, after quiet stages only. *)
Ends(p, i, k, broken) ==
  /\ k \in i .. 2 * Len(tracked) + 1 /\ k > 2 * Len(tracked)
  /\ \A m \in i .. k - 1 : Report(m, broken) = {}
  /\ taskStatus' = [s \in Sessions |-> IF s \in Looked(i, k, 0)
                                       THEN listTasksForSession(s, broken) ELSE taskStatus[s]]
  /\ polls' = [polls EXCEPT ![p] = [stage |-> -1, out |-> {}]]

LEMMA PollEnds ==
  ASSUME ObsInv, NEW p \in DOMAIN polls, polls[p].out = {}, NEW i \in Nat, i >= 1,
         NEW k, NEW broken, Ends(p, i, k, broken),
         UNCHANGED <<sc, host, hostSteps, tracked, runningRuns, seen>>
  PROVE  ObsInv'
<1>1. /\ DOMAIN polls' = DOMAIN polls /\ polls'[p].out = {} /\ polls'[p].stage = -1
      /\ \A q \in DOMAIN polls \ {p} : polls'[q] = polls[q]
  BY DEF Ends
<1>2. \A q \in DOMAIN polls : polls'[q].out = polls[q].out
  BY <1>1
<1>3. Reported' = Reported
  BY <1>1, <1>2 DEF Reported
<1>0. Len(tracked) \in Nat /\ k \in Int /\ ~(k <= 2 * Len(tracked))
  BY DEF ObsInv, ObserverTypes, Ends
<1>4. /\ TaskMove
      /\ \A s \in Sessions : \A t \in DOMAIN taskStatus'[s] : Created(<<s, t>>) \in Reported
  BY <1>0, ListedStep DEF ObsInv, Ends
<1>5. ObserverTypes'
  BY <1>1, <1>2, <1>3, <1>4 DEF ObsInv, ObserverTypes, TaskMove
<1>6. EndsInv' /\ CreatedInv'
  <2>1. Reported' = Reported \cup {}
    BY <1>3
  <2> QED
    BY <1>3, <1>4, <2>1, ReportedStep
<1>7. OnceInv'
  BY <1>1, <1>2 DEF ObsInv, OnceInv
<1>8. RunsInv' /\ HostInv'
  BY DEF ObsInv, RunsInv, RunInv, Count, HostInv
<1> QED
  BY <1>5, <1>6, <1>7, <1>8 DEF ObsInv

LEMMA PollStepInv ==
  ASSUME ObsInv, NEW p \in DOMAIN polls, PollStep(p)
  PROVE  ObsInv'
<1>1. UNCHANGED <<sc, host, hostSteps, tracked, runningRuns>> /\ polls[p].stage >= 0
  BY DEF PollStep
<1>2. CASE Observe(p, polls[p].stage, polls[p].out) /\ UNCHANGED <<queueDepth, taskStatus>>
  BY <1>1, <1>2, PollOn
<1>3. ASSUME NEW broken, polls[p].out = {}, pollObservers(p, polls[p].stage + 1, broken)
      PROVE  ObsInv'
  <2>1. PICK i \in Nat : i = polls[p].stage + 1 /\ i >= 1
    BY <1>1 DEF ObsInv, ObserverTypes
  <2>2. PICK k \in i .. 2 * Len(tracked) + 1 :
          /\ \A m \in i .. k - 1 : Report(m, broken) = {}
          /\ taskStatus' = [s \in Sessions |-> IF s \in Looked(i, k, 0)
                                               THEN listTasksForSession(s, broken)
                                               ELSE taskStatus[s]]
          /\ \/ k <= 2 * Len(tracked) /\ Observe(p, k, Report(k, broken))
             \/ /\ k > 2 * Len(tracked)
                /\ polls' = [polls EXCEPT ![p] = [stage |-> -1, out |-> {}]]
                /\ UNCHANGED seen
    BY <1>3, <2>1, Zenon DEF pollObservers
  <2>3. CASE k <= 2 * Len(tracked) /\ Observe(p, k, Report(k, broken))
    BY <1>1, <1>3, <2>1, <2>2, <2>3, PollFinds
  <2>4. CASE /\ k > 2 * Len(tracked) /\ UNCHANGED seen
             /\ polls' = [polls EXCEPT ![p] = [stage |-> -1, out |-> {}]]
    <3>1. UNCHANGED <<sc, host, hostSteps, tracked, runningRuns, seen>>
      BY <1>1, <2>4
    <3>2. Ends(p, i, k, broken)
      BY <2>2, <2>4 DEF Ends
    <3> QED
      BY <1>3, <2>1, <3>1, <3>2, PollEnds
  <2> QED
    BY <2>2, <2>3, <2>4
<1> QED
  BY <1>2, <1>3 DEF PollStep

(* The host goes on: nothing that has ended goes on with it. *)
LEMMA HostStepInv ==
  ASSUME ObsInv, HostStep
  PROVE  ObsInv'
<1>1. /\ hostSteps # <<>> /\ hostSteps' = Tail(hostSteps)
      /\ UNCHANGED <<sc, tracked, taskStatus, runningRuns, polls, seen>>
  BY DEF HostStep
<1>h. PICK h : h = Head(hostSteps)
  OBVIOUS
<1>2. host' = [host EXCEPT ![h.session] = [depth |-> h.depth, tasks |-> h.tasks]]
  BY <1>h DEF HostStep
<1>3. /\ DOMAIN host' = Sessions
      /\ h.session \in Sessions => host'[h.session].tasks = h.tasks
      /\ \A s \in Sessions \ {h.session} : host'[s] = host[s]
  BY <1>2 DEF ObsInv, ObserverTypes
<1>4. /\ hostSteps' \in Seq(ToSet(sc.hostSteps))
      /\ 1 \in DOMAIN hostSteps /\ hostSteps[1] = h
      /\ \A i \in DOMAIN hostSteps' : /\ i \in Nat /\ i + 1 \in DOMAIN hostSteps /\ i + 1 > 1
                                      /\ hostSteps'[i] = hostSteps[i + 1]
  BY <1>1, <1>h DEF ObsInv, ObserverTypes
<1> HIDE <1>h, <1>2
<1>5. HostInv'
  <2> SUFFICES ASSUME NEW i \in DOMAIN hostSteps', NEW t \in DOMAIN hostSteps'[i].tasks,
                      NEW s, s = hostSteps'[i].session
               PROVE  /\ s \in Sessions /\ t \in DOMAIN host'[s].tasks /\ Ended(host'[s].tasks[t]) =>
                           Ended(hostSteps'[i].tasks[t])
                      /\ \A k \in DOMAIN hostSteps' :
                           /\ k > i /\ hostSteps'[k].session = s
                           /\ t \in DOMAIN hostSteps'[k].tasks /\ Ended(hostSteps'[i].tasks[t])
                           => Ended(hostSteps'[k].tasks[t])
    BY DEF HostInv
  <2>1. \A k \in DOMAIN hostSteps' :
          /\ k > i /\ hostSteps'[k].session = s
          /\ t \in DOMAIN hostSteps'[k].tasks /\ Ended(hostSteps'[i].tasks[t])
          => Ended(hostSteps'[k].tasks[t])
    BY <1>4 DEF ObsInv, HostInv
  <2>2. ASSUME s \in Sessions, t \in DOMAIN host'[s].tasks, Ended(host'[s].tasks[t])
        PROVE  Ended(hostSteps'[i].tasks[t])
    <3>1. CASE s = h.session
      BY <1>3, <1>4, <2>2, <3>1 DEF ObsInv, HostInv
    <3>2. CASE s # h.session
      BY <1>3, <1>4, <2>2, <3>2 DEF ObsInv, HostInv
    <3> QED
      BY <3>1, <3>2
  <2> QED
    BY <2>1, <2>2
<1>6. ASSUME NEW s \in Sessions, NEW t, Over(s, t) PROVE Over(s, t)'
  <2>1. t \in DOMAIN host'[s].tasks => Ended(host'[s].tasks[t])
    BY <1>3, <1>4, <1>6 DEF Over
  <2>2. \A i \in DOMAIN hostSteps' :
          hostSteps'[i].session = s /\ t \in DOMAIN hostSteps'[i].tasks => Ended(hostSteps'[i].tasks[t])
    BY <1>4, <1>6 DEF Over
  <2> QED
    BY <1>1, <1>6, <2>1, <2>2 DEF Over
<1>7. Reported' = Reported
  BY <1>1 DEF Reported
<1>8. EndsInv'
  BY <1>6, <1>7, Zenon DEF ObsInv, EndsInv
<1>9. ObserverTypes'
  BY <1>1, <1>3, <1>4, <1>7 DEF ObsInv, ObserverTypes
<1>10. OnceInv' /\ CreatedInv' /\ RunsInv'
  BY <1>1, <1>7 DEF ObsInv, OnceInv, CreatedInv, RunsInv, RunInv, Count
<1> QED
  BY <1>5, <1>8, <1>9, <1>10 DEF ObsInv

-----------------------------------------------------------------------------
(* Agent events add to the history what is no end of a task. *)
LEMMA AgentNames ==
  ASSUME NEW ev, NEW runs, NEW a, NEW b, a = agentEventJoinpoint(ev), b = RunningJoinpoint(ev, runs)
  PROVE  /\ a # None => a # "task.before_terminal" /\ a # "reply_run.phase.running"
         /\ b # None => /\ b = "reply_run.phase.running" /\ ev.run \in runs
                        /\ RunsAfter(ev, runs) = runs \ {ev.run}
         /\ \/ a = "reply_run.before_begin" /\ RunsAfter(ev, runs) = runs \cup {ev.run}
            \/ RunsAfter(ev, runs) \subseteq runs
<1>1. a # None => a # "task.before_terminal" /\ a # "reply_run.phase.running"
  BY DEF agentEventJoinpoint
<1>2. CASE ev.stream = "lifecycle" /\ ev.phase = "start"
  BY <1>1, <1>2 DEF agentEventJoinpoint, RunningJoinpoint, RunsAfter
<1>3. CASE ~(ev.stream = "lifecycle" /\ ev.phase = "start")
  BY <1>1, <1>3 DEF RunningJoinpoint, RunsAfter, agentEventRunningJoinpoint
<1> QED
  BY <1>2, <1>3

Longer(h, g, S, j, noted) ==
  /\ g \in Seq(S \cup {j})
  /\ ToSet(h) \subseteq ToSet(g)
  /\ \A x \in ToSet(g) : x \in ToSet(h) \/ (x = j /\ ~Terminal(j))
  /\ \A x : Terminal(x) => At(g, x) = At(h, x)
  /\ \A x : /\ Cardinality(At(h, x)) \in Nat
            /\ Cardinality(At(g, x)) = Cardinality(At(h, x)) + (IF noted /\ j = x THEN 1 ELSE 0)

LEMMA NotedOne ==
  ASSUME NEW S, NEW h \in Seq(S), NEW name, NEW run,
         name # None => name # "task.before_terminal"
  PROVE  Longer(h, Noted(h, name, run), S, Joinpoint(name, run), name # None)
<1>0. PICK j, g : j = Joinpoint(name, run) /\ g = Noted(h, name, run)
  OBVIOUS
<1>1. CASE name = None
  <2>1. g = h
    BY <1>0, <1>1 DEF Noted
  <2> QED
    BY <1>0, <1>1, <2>1, CountFacts DEF Longer
<1>2. CASE name # None
  <2>1. g = With(h, j)
    BY <1>0, <1>2 DEF Noted, With
  <2>2. ~Terminal(j)
    BY <1>0, <1>2, JoinpointFields DEF Terminal
  <2>3. /\ g \in Seq(S \cup {j}) /\ ToSet(g) = ToSet(h) \cup {j}
        /\ DOMAIN h = 1 .. Len(h) /\ Len(h) \in Nat
        /\ DOMAIN g = 1 .. Len(h) + 1 /\ g[Len(h) + 1] = j
        /\ \A i \in 1 .. Len(h) : g[i] = h[i]
    <3>1. Appended(h, g, S, j)
      BY <2>1, AppendFacts
    <3> QED
      BY <3>1, Zenon DEF Appended
  <2>4. ASSUME NEW x, Terminal(x) PROVE At(g, x) = At(h, x)
    <3>1. j # x
      BY <2>2, <2>4
    <3> QED
      BY <2>3, <3>1 DEF At
  <2>5. ASSUME NEW x
        PROVE  /\ Cardinality(At(h, x)) \in Nat
               /\ Cardinality(At(g, x)) = Cardinality(At(h, x)) + (IF j = x THEN 1 ELSE 0)
    BY <2>1, CountFacts, CountAppend
  <2> QED
    BY <1>0, <1>2, <2>2, <2>3, <2>4, <2>5 DEF Longer
<1> QED
  BY <1>1, <1>2

(* The same, of two joinpoints about one run. *)
LEMMA AgentEventInv ==
  ASSUME ObsInv, NEW ev, tracked' \in Seq(Sessions),
         seen' = Noted(Noted(seen, agentEventJoinpoint(ev), ev.run),
                       RunningJoinpoint(ev, runningRuns), ev.run),
         runningRuns' = RunsAfter(ev, runningRuns),
         UNCHANGED <<sc, host, hostSteps, taskStatus, polls>>
  PROVE  ObsInv'
<1>1. PICK a, b, m : /\ a = agentEventJoinpoint(ev) /\ b = RunningJoinpoint(ev, runningRuns)
                     /\ m = Noted(seen, a, ev.run) /\ seen' = Noted(m, b, ev.run)
  OBVIOUS
<1>r. PICK r0 : r0 = ev.run
  OBVIOUS
<1>j. PICK ja, jb : ja = Joinpoint(a, r0) /\ jb = Joinpoint(b, r0)
  OBVIOUS
<1>2. /\ a # None => a # "task.before_terminal" /\ a # "reply_run.phase.running"
      /\ b # None => /\ b = "reply_run.phase.running" /\ r0 \in runningRuns
                     /\ runningRuns' = runningRuns \ {r0}
      /\ \/ a = "reply_run.before_begin" /\ runningRuns' = runningRuns \cup {r0}
         \/ runningRuns' \subseteq runningRuns
  BY <1>1, <1>r, AgentNames
<1>3. PICK S : seen \in Seq(S)
  BY DEF ObsInv, ObserverTypes
<1>4. /\ m \in Seq(S \cup {ja})
      /\ ToSet(seen) \subseteq ToSet(m)
      /\ \A x \in ToSet(m) : x \in ToSet(seen) \/ (x = ja /\ ~Terminal(ja))
      /\ \A x : Terminal(x) => At(m, x) = At(seen, x)
      /\ \A x : /\ Cardinality(At(seen, x)) \in Nat
                /\ Cardinality(At(m, x)) =
                     Cardinality(At(seen, x)) + (IF a # None /\ ja = x THEN 1 ELSE 0)
  <2>1. Longer(seen, m, S, ja, a # None)
    BY <1>1, <1>r, <1>j, <1>2, <1>3, NotedOne
  <2> QED
    BY <2>1, Zenon DEF Longer
<1>5. /\ seen' \in Seq((S \cup {ja}) \cup {jb})
      /\ ToSet(m) \subseteq ToSet(seen')
      /\ \A x \in ToSet(seen') : x \in ToSet(m) \/ (x = jb /\ ~Terminal(jb))
      /\ \A x : Terminal(x) => At(seen', x) = At(m, x)
      /\ \A x : /\ Cardinality(At(m, x)) \in Nat
                /\ Cardinality(At(seen', x)) =
                     Cardinality(At(m, x)) + (IF b # None /\ jb = x THEN 1 ELSE 0)
  <2>1. b # None => b # "task.before_terminal"
    BY <1>2
  <2>2. Longer(m, seen', S \cup {ja}, jb, b # None)
    BY <1>1, <1>r, <1>j, <1>4, <2>1, NotedOne
  <2> QED
    BY <2>2, Zenon DEF Longer
<1>6. /\ \A x : Terminal(x) => At(seen', x) = At(seen, x)
      /\ Reported \subseteq Reported'
      /\ \A x \in Reported' : x \in Reported \/ (x \in {ja, jb} /\ ~Terminal(x))
  <2> DEFINE U == UNION {polls[p].out : p \in DOMAIN polls}
  <2>1. Reported = ToSet(seen) \cup U /\ Reported' = ToSet(seen') \cup U
    BY DEF Reported
  <2> HIDE DEF U
  <2>2. \A x : Terminal(x) => At(seen', x) = At(seen, x)
    BY <1>4, <1>5, Zenon
  <2>3. ToSet(seen) \subseteq ToSet(seen')
    BY <1>4, <1>5
  <2>4. \A x \in ToSet(seen') : x \in ToSet(seen) \/ (x \in {ja, jb} /\ ~Terminal(x))
    BY <1>4, <1>5
  <2> QED
    BY <2>1, <2>2, <2>3, <2>4
<1>7. ObserverTypes'
  <2>1. ja = Joinpoint(ja.name, ja.about) /\ jb = Joinpoint(jb.name, jb.about)
    BY <1>j, JoinpointFields
  <2>2. \A x \in Reported' : x = Joinpoint(x.name, x.about)
    BY <1>6, <2>1 DEF ObsInv, ObserverTypes
  <2>3. \E T : seen' \in Seq(T)
    BY <1>5
  <2> QED
    BY <2>2, <2>3 DEF ObsInv, ObserverTypes
<1>8. HostInv'
  BY DEF ObsInv, HostInv
<1>9. CreatedInv'
  BY <1>6 DEF ObsInv, CreatedInv
<1>10. EndsInv'
  <2> SUFFICES ASSUME NEW j \in Reported', Terminal(j)
               PROVE  /\ \E s \in Sessions, t \in {j.about[2]} : j.about = <<s, t>> /\ Over(s, t)'
                      /\ Created(j.about) \in Reported'
    BY Zenon DEF EndsInv
  <2>1. j \in Reported
    BY <1>6
  <2>2. Created(j.about) \in Reported'
    BY <1>6, <2>1 DEF ObsInv, EndsInv
  <2>3. PICK s \in Sessions, t \in {j.about[2]} : j.about = <<s, t>> /\ Over(s, t)
    BY <2>1, Zenon DEF ObsInv, EndsInv
  <2>4. Over(s, t)'
    BY <2>3 DEF Over
  <2> QED
    BY <2>2, <2>3, <2>4, Zenon
<1>11. OnceInv'
  <2>1. ASSUME NEW i \in DOMAIN seen', Terminal(seen'[i])
        PROVE  i \in DOMAIN seen /\ seen[i] = seen'[i]
    <3>1. i \in At(seen', seen'[i])
      BY DEF At
    <3>2. i \in At(seen, seen'[i])
      BY <1>6, <2>1, <3>1
    <3> QED
      BY <3>2 DEF At
  <2> QED
    BY <2>1 DEF ObsInv, OnceInv
<1>12. RunsInv'
  <2> SUFFICES ASSUME NEW r PROVE RunInv(r)'
    BY DEF RunsInv
  <2>j. PICK x, y : /\ x = Joinpoint("reply_run.phase.running", r)
                    /\ y = Joinpoint("reply_run.before_begin", r)
    OBVIOUS
  <2>1. /\ a # None => ja # x
        /\ b # None => (jb = x <=> r = r0)
        /\ a = "reply_run.before_begin" /\ r = r0 => ja = y
        /\ b # None => jb # y
    BY <1>j, <1>2, <2>j, JoinpointFields
  <2>2. /\ Cardinality(At(seen, x)) <= Cardinality(At(seen, y))
        /\ r \in runningRuns => Cardinality(At(seen, x)) < Cardinality(At(seen, y))
    BY <2>j DEF ObsInv, RunsInv, RunInv, Count, At
  <2>3. PICK cx \in Nat, cy \in Nat, dx \in Nat, dy \in Nat :
          /\ cx = Cardinality(At(seen, x)) /\ cy = Cardinality(At(seen, y))
          /\ dx = Cardinality(At(seen', x)) /\ dy = Cardinality(At(seen', y))
          /\ dx = cx + (IF b # None /\ r = r0 THEN 1 ELSE 0)
          /\ dy = cy + (IF a # None /\ ja = y THEN 1 ELSE 0)
    BY <1>4, <1>5, <2>1
  <2>4. dx <= dy /\ (r \in runningRuns' => dx < dy)
    BY <1>2, <2>1, <2>2, <2>3, NoneAssumption
  <2>5. /\ Cardinality(At(seen', x)) <= Cardinality(At(seen', y))
        /\ r \in runningRuns' => Cardinality(At(seen', x)) < Cardinality(At(seen', y))
    BY <2>3, <2>4
  <2> QED
    BY <2>j, <2>5 DEF RunInv, Count, At
<1> QED
  BY <1>7, <1>8, <1>9, <1>10, <1>11, <1>12 DEF ObsInv

LEMMA TrackedStep ==
  ASSUME LaneInv, ObserverTypes, NEW l \in DOMAIN lanes, lanes[l].pos <= Len(sc.lanes[l])
  PROVE  trackSessionKey(Event(l).session, tracked) \in Seq(Sessions)
<1>1. Event(l).session \in Sessions \cup {None}
  BY ScenarioAssumption DEF LaneInv, Event
<1> QED
  BY <1>1 DEF trackSessionKey, ObserverTypes

LEMMA FireObsInv ==
  ASSUME BInv, ObsInv, NEW l \in DOMAIN lanes, Fire(l)
  PROVE  ObsInv'
<1>1. /\ UNCHANGED <<sc, host, hostSteps, taskStatus, polls>>
      /\ lanes[l].pos <= Len(sc.lanes[l])
      /\ tracked' \in {tracked, trackSessionKey(Event(l).session, tracked)}
  BY DEF Fire
<1>2. tracked' \in Seq(Sessions)
  BY <1>1, TrackedStep DEF BInv, ObsInv, ObserverTypes
<1>3. CASE AgentEvent(l)
  <2>1. PICK ev : ev = Event(l)
    OBVIOUS
  <2>2. /\ seen' = Noted(Noted(seen, agentEventJoinpoint(ev), ev.run),
                         RunningJoinpoint(ev, runningRuns), ev.run)
        /\ runningRuns' = RunsAfter(ev, runningRuns)
    BY <1>3, <2>1 DEF AgentEvent
  <2> QED
    BY <1>1, <1>2, <2>2, AgentEventInv
<1>4. CASE UNCHANGED <<runningRuns, seen>>
  <2>1. Reported' = Reported
    BY <1>1, <1>4 DEF Reported
  <2>2. ObserverTypes' /\ HostInv' /\ OnceInv' /\ CreatedInv'
    BY <1>1, <1>2, <1>4, <2>1 DEF ObsInv, ObserverTypes, HostInv, OnceInv, CreatedInv
  <2>3. EndsInv'
    BY <1>1, <2>1 DEF ObsInv, EndsInv, Over
  <2>4. RunsInv'
    BY <1>4 DEF ObsInv, RunsInv, RunInv, Count
  <2> QED
    BY <2>2, <2>3, <2>4 DEF ObsInv
<1> QED
  BY <1>3, <1>4 DEF Fire, RejectsTool, GuardInProc, SyncHook, Submits

LEMMA ObsStill ==
  ASSUME ObsInv, UNCHANGED <<sc, obsVars>>
  PROVE  ObsInv'
<1>1. UNCHANGED <<sc, host, hostSteps, tracked, taskStatus, runningRuns, polls, seen>>
  BY DEF obsVars
<1>2. Reported' = Reported
  BY <1>1 DEF Reported
<1>3. ObserverTypes' /\ HostInv' /\ OnceInv' /\ CreatedInv'
  BY <1>1, <1>2 DEF ObsInv, ObserverTypes, HostInv, OnceInv, CreatedInv
<1>4. EndsInv'
  BY <1>1, <1>2 DEF ObsInv, EndsInv, Over
<1>5. RunsInv'
  BY <1>1 DEF ObsInv, RunsInv, RunInv, Count
<1> QED
  BY <1>3, <1>4, <1>5 DEF ObsInv

LEMMA NextObsInv == BInv /\ ObsInv /\ [Next]_vars => ObsInv'
<1> SUFFICES ASSUME BInv, ObsInv, [Next]_vars PROVE ObsInv'
  OBVIOUS
<1>1. CASE UNCHANGED <<sc, obsVars>>
  BY <1>1, ObsStill
<1>2. CASE BridgeStep
  <2>1. ASSUME NEW l \in DOMAIN lanes, Fire(l) PROVE ObsInv'
    BY <2>1, FireObsInv
  <2>2. CASE ~\E l \in DOMAIN lanes : Fire(l)
    <3>1. UNCHANGED <<sc, obsVars>>
      BY <1>2, <2>2 DEF BridgeStep, SyncLoaded, Answer, Fail, Arrive
    <3> QED
      BY <1>1, <3>1
  <2> QED
    BY <2>1, <2>2
<1>3. CASE ObserverNext /\ UNCHANGED bridgeVars
  BY <1>3, HostStepInv, PollStepInv DEF ObserverNext
<1>4. CASE EffectorNext /\ UNCHANGED <<pyVars, obsVars, bridgeVars>>
  <2>1. UNCHANGED sc
    BY <1>4 DEF EffectorNext, UpsertConcern, TurnWeave, TurnMediate, TurnVerify, TurnAppend
  <2> QED
    BY <1>1, <1>4, <2>1
<1>5. CASE PyNext /\ UNCHANGED <<obsVars, bridgeVars>>
  <2>1. UNCHANGED sc
    BY <1>5 DEF PyNext, Callback, ApplySplit, ApplyWriteBack, guard_tool_call, clear_pending, uninstall
  <2> QED
    BY <1>1, <1>5, <2>1
<1>6. CASE UNCHANGED vars
  BY <1>1, <1>6 DEF vars
<1> QED
  BY <1>2, <1>3, <1>4, <1>5, <1>6 DEF Next, Rest

LEMMA InitObsInv == Init => ObsInv
<1> SUFFICES ASSUME Init PROVE ObsInv
  OBVIOUS
<1>1. /\ sc \in Scenarios /\ tracked = <<>> /\ seen = <<>> /\ hostSteps = sc.hostSteps
      /\ DOMAIN host = Sessions /\ DOMAIN taskStatus = Sessions /\ runningRuns = {}
      /\ \A s \in Sessions : host[s].tasks = EmptyMap /\ taskStatus[s] = EmptyMap
      /\ \A p \in DOMAIN polls : polls[p].stage = 0 /\ polls[p].out = {}
  BY DEF Init, InitObservers
<1>2. DOMAIN EmptyMap = {}
  BY DEF EmptyMap
<1>3. ToSet(seen) = {} /\ DOMAIN seen = {}
  BY <1>1 DEF ToSet
<1>4. Reported = {}
  BY <1>1, <1>3 DEF Reported
<1>5. ObserverTypes
  <2>1. tracked \in Seq(Sessions) /\ seen \in Seq({})
    BY <1>1
  <2>2. hostSteps \in Seq(ToSet(sc.hostSteps))
    BY <1>1, ScenarioAssumption
  <2> QED
    BY <1>1, <1>4, <2>1, <2>2 DEF ObserverTypes
<1>6. HostInv
  BY <1>1, <1>2, ScenarioAssumption DEF HostInv
<1>7. EndsInv /\ OnceInv /\ CreatedInv
  BY <1>1, <1>2, <1>3, <1>4 DEF EndsInv, OnceInv, CreatedInv
<1>8. RunsInv
  <2>1. \A x : {i \in DOMAIN seen : seen[i] = x} = {}
    BY <1>3
  <2>2. \A n, r : Count(n, r) = 0
    BY <2>1, FS_EmptySet DEF Count
  <2> QED
    BY <1>1, <2>2 DEF RunsInv, RunInv
<1> QED
  BY <1>5, <1>6, <1>7, <1>8 DEF ObsInv

(* Overlapping polls report the end of a task at most once and never without *)
(* its creation, and a run is reported running at most as often as it began, *)
(* for any sessions, any polls and any course of the host in which a task    *)
(* that has ended does not go on.                                            *)
THEOREM EndsAreReportedOnce == Spec => []ReportedOnce
<1>1. ObsInv => ReportedOnce
  <2> SUFFICES ASSUME ObsInv, NEW i \in DOMAIN seen
               PROVE  /\ seen[i].name = "task.before_terminal" =>
                           /\ Count("task.before_terminal", seen[i].about) = 1
                           /\ \/ Count("task.before_create", seen[i].about) > 0
                              \/ \E p \in DOMAIN polls : Created(seen[i].about) \in polls[p].out
                      /\ seen[i].name = "reply_run.phase.running" =>
                           Count(seen[i].name, seen[i].about)
                             <= Count("reply_run.before_begin", seen[i].about)
    BY DEF ReportedOnce, Created
  <2>1. seen[i] \in Reported /\ seen[i] = Joinpoint(seen[i].name, seen[i].about)
    BY DEF ObsInv, ObserverTypes, Reported, ToSet
  <2>2. CASE seen[i].name = "reply_run.phase.running"
    <3>1. RunInv(seen[i].about)
      BY DEF ObsInv, RunsInv
    <3> QED
      BY <2>2, <3>1 DEF RunInv
  <2>3. CASE Terminal(seen[i])
    <3>1. {k \in DOMAIN seen : seen[k] = seen[i]} = {i}
      BY <2>3 DEF ObsInv, OnceInv
    <3>2. Joinpoint("task.before_terminal", seen[i].about) = seen[i]
      BY <2>1, <2>3 DEF Terminal
    <3>3. Count("task.before_terminal", seen[i].about) = 1
      BY <3>1, <3>2, FS_Singleton DEF Count
    <3>c. PICK c : c = Created(seen[i].about)
      OBVIOUS
    <3>4. c \in Reported
      BY <2>1, <2>3, <3>c DEF ObsInv, EndsInv
    <3>5. CASE c \in ToSet(seen)
      <4>1. PICK S : seen \in Seq(S)
        BY DEF ObsInv, ObserverTypes
      <4>2. At(seen, c) # {}
        BY <3>5 DEF ToSet, At
      <4>3. IsFiniteSet(At(seen, c)) /\ Cardinality(At(seen, c)) \in Nat
        BY <4>1, CountFacts
      <4>4. Cardinality(At(seen, c)) # 0
        BY <4>2, <4>3, FS_EmptySet
      <4>5. Count("task.before_create", seen[i].about) = Cardinality(At(seen, c))
        BY <3>c DEF Count, At, Created
      <4> QED
        BY <2>3, <3>3, <4>3, <4>4, <4>5 DEF Terminal
    <3>6. CASE c \notin ToSet(seen)
      <4>1. \E p \in DOMAIN polls : c \in polls[p].out
        BY <3>4, <3>6, Zenon DEF Reported
      <4> QED
        BY <2>3, <3>c, <3>3, <4>1 DEF Terminal
    <3> QED
      BY <3>5, <3>6
  <2> QED
    BY <2>2, <2>3 DEF Terminal
<1> QED
  BY <1>1, InitObsInv, NextObsInv, AlwaysBInv, PTL DEF Spec
=============================================================================
