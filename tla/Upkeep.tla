------------------------------- MODULE Upkeep -------------------------------
(***************************************************************************)
(* What keeps the connectome in shape while hosts use it: the heartbeat's   *)
(* maintenance pass (decay, merge and archive, conflict scan, warm and cold *)
(* plasticity), the r_t requests that run the warm and cold steps from RPC  *)
(* threads, and the hosts that edit concerns and weave turns meanwhile.     *)
(*                                                                         *)
(* Both stores lock single calls only.  Every worker takes a snapshot of    *)
(* the catalogue and works it off item by item, so each item is a step (two *)
(* where a write is followed by a lifecycle call) and anyone may run in     *)
(* between.  A call of the lifecycle manager is one step here (see          *)
(* ConcernLifecycle for its parts), as are the sweeps that touch the graph  *)
(* only.  Stores list concerns in the order in which they were inserted,    *)
(* which is left open: a catalogue is a set of copies that is worked off in *)
(* any order.  A store call fails only as the lifecycle makes it fail.      *)
(***************************************************************************)
EXTENDS Plasticity

CONSTANTS Heart,        \* the scheduler's thread
          Clients,      \* RPC threads
          Scenarios,    \* initial catalogues and what clients will ask for
          MaxSamples,   \* ConcernRtBuffer.max_samples
          MinOverlap,   \* merge_min_keyword_overlap
          Nobody_,      \* the consume lock is free
          Torn          \* a line of r_t.jsonl that does not parse

ASSUME UpkeepAssumption ==
    /\ Heart \notin Clients
    /\ Nobody_ \notin Clients \cup {Heart}
    /\ MaxSamples \in Nat \ {0}

ConcernRelationType ==
    {"activates", "suppresses", "constrains", "verifies", "conflicts_with", "depends_on",
     "generalizes", "specializes", "duplicates", "derived_from", "updates", "replaces",
     "supports", "declares_precedence_over"}

(* A row of the concern store, and everything a client may ask for.         *)
Ids == Nat \ {0}
IsRow(row) ==
    /\ {"life", "kw", "jp", "rels"} \subseteq DOMAIN row
    /\ row.life \in Concern
    /\ row.rels \in Seq(ConcernRelationType \X Ids)
Requests == UNION {UNION {ToSet(s.offers[t]) : t \in Clients} : s \in Scenarios}

ASSUME ScenarioAssumption ==
    /\ \A s \in Scenarios :
          /\ \A c \in DOMAIN s.store : c \in Ids /\ IsRow(s.store[c])
          /\ s.offers \in [Clients -> Seq(Requests)]
    /\ \A ask \in Requests : ask.op = "upsert" => ask.id \in Ids /\ IsRow(ask.row)

VARIABLES store,    \* ConcernStore
          graph,    \* DCNStore
          credit,   \* CreditField and ConcernRtBuffer
          turns,    \* _turn_concerns: turn -> ids co-active in it
          orphaned, \* threads that fill a set which is no longer in turns
          pending,  \* _turn_active: turn -> ids, until its record is appended
          log,      \* r_t.jsonl
          cursor,   \* records the reader has consumed
          holder,   \* thread inside _consume_lock
          job,      \* what each thread is doing
          offers,   \* requests each client still has to make
          ticks,    \* heartbeats still to come
          dirty,    \* history: rows others wrote since a thread's snapshot
          coact     \* history: co-activations seen, paired, overtaken

stores == <<store, graph>>
service == <<credit, turns, orphaned, pending, log, cursor, holder>>
vars == <<store, graph, credit, turns, orphaned, pending, log, cursor, holder, job,
          offers, ticks, dirty, coact>>

Threads == {Heart} \cup Clients

(* A thread's frame: where it is, the stages still to run, and the locals.  *)
Resting ==
    [at |-> "idle", prog |-> <<>>, todo |-> <<>>, cat |-> {}, left |-> {},
     self |-> NoId, turn |-> "", pos |-> 0, rank |-> <<>>, seen |-> {}, loser |-> NoId, winner |-> NoId, back |-> "next",
     rows |-> <<>>, view |-> {}, recs |-> <<>>, pairs |-> <<>>,
     ledger |-> <<>>, saw |-> <<>>]

(* build_heartbeat_maintenance: the workers in order. *)
Maintenance ==
    <<"decay", "declared", "heuristic", "cold_archive", "conflict", "consume",
      "cold", "cold_merge", "cold_lift", "prune">>
ColdStep == SubSeq(Maintenance, 7, 10)

Init ==
    \E s \in Scenarios :
       /\ store = s.store
       /\ graph = s.graph
       /\ credit = [sums |-> <<>>, counts |-> <<>>, traces |-> <<>>,
                    ledger |-> <<>>, buffer |-> s.buffer]
       /\ turns = <<>> /\ orphaned = {} /\ pending = <<>> /\ log = s.log /\ cursor = 0
       /\ holder = Nobody_
       /\ job = [t \in Threads |-> Resting]
       /\ offers = s.offers
       /\ ticks = s.ticks
       /\ dirty = [t \in Threads |-> {}]
       /\ coact = [seen |-> {}, paired |-> {}, raced |-> {}]

-----------------------------------------------------------------------------
Is(t, pc) == job[t].at = pc
Entry(id) == [id |-> id, row |-> store[id]]
Entries(P(_)) == {Entry(c) : c \in {d \in DOMAIN store : P(store[d])}}

(* Work through a set of copies or pairs; the next stage when none is left. *)
Work(f, pc, left) ==
    [f EXCEPT !.left = left, !.at = IF left = {} THEN "next" ELSE pc]
Goto(t, f) == job' = [job EXCEPT ![t] = f]
Begins(t, stage) == Is(t, "next") /\ job[t].prog # <<>> /\ Head(job[t].prog) = stage
Stage(t) == [job[t] EXCEPT !.prog = Tail(@)]
Begin(t, cat) == [job[t] EXCEPT !.prog = Tail(@), !.cat = cat]

(* Rows thread t writes become stale in everyone else's snapshot. *)
Writes(t, new) ==
    /\ store' = new
    /\ dirty' = [u \in Threads |->
                   IF u = t THEN dirty[t]
                   ELSE dirty[u] \cup {c \in DOMAIN store \cup DOMAIN new :
                           \/ ~(c \in DOMAIN store /\ c \in DOMAIN new)
                           \/ store[c] # new[c]}]
Snapshots(t) == dirty' = [dirty EXCEPT ![t] = {}]
Abort(t) == Goto(t, [Resting EXCEPT !.at = "aborted"])

(* One call of the lifecycle manager: KeyError or a refused transition.     *)
Accepted(id, req) == id \in DOMAIN store /\ Admits(store[id].life, req)
Called(id, req) ==
    IF IsNoOp(store[id].life, req) THEN store
    ELSE [store EXCEPT ![id].life = Mutated(@, req)]
Synced(g, id, req) == IF req.sync THEN ArchiveNode(g, id) ELSE g

Live == {"created", "active", "reinforced", "weakened", "revived"}

-----------------------------------------------------------------------------
(* HeartbeatLoop.tick, and the end of a pass. *)
HeartTick ==
    /\ Is(Heart, "idle") /\ ticks > 0
    /\ ticks' = ticks - 1
    /\ Goto(Heart, [Resting EXCEPT !.at = "next", !.prog = Maintenance])
    /\ UNCHANGED <<stores, service, offers, dirty, coact>>

Return(t) ==
    /\ \/ Is(t, "next") /\ job[t].prog = <<>>
       \/ Is(t, "aborted")
    /\ Goto(t, Resting)
    /\ UNCHANGED <<stores, service, offers, ticks, dirty, coact>>

(* Mutant: every stored concern decays. *)
DecaysAnyway(row) == TRUE

(* _MAINTENANCE_STATES and decay_step; a reflex concern decays as well. *)
Decays(row) == row.life.state \in Live

StartDecay(t) ==
    /\ Begins(t, "decay")
    /\ Goto(t, Work(Begin(t, {}), "decay", Entries(Decays)))
    /\ Snapshots(t)
    /\ UNCHANGED <<stores, service, offers, ticks, coact>>

(* Mutant: the row is built afresh and its relations are left out. *)
BumpedAfresh(row) ==
    [row EXCEPT !.life.decay = Least(DecayOne, @ + DecayOne \div 20), !.rels = <<>>]

(* _bump_decay writes the snapshot back with a step of decay added. *)
Bumped(row) == [row EXCEPT !.life.decay = Least(DecayOne, @ + DecayOne \div 20)]

BumpDecay(t) ==
    \E x \in job[t].left :
       LET aged == Bumped(x.row)
           rest == job[t].left \ {x}
       IN  /\ Is(t, "decay")
           /\ Writes(t, Put(store, x.id, aged))
           /\ Goto(t, IF 2 * aged.life.decay >= DecayOne
                      THEN [job[t] EXCEPT !.at = "decayed", !.self = x.id,
                                          !.left = rest \cup {[id |-> x.id, row |-> aged]}]
                      ELSE Work(job[t], "decay", rest))
           /\ UNCHANGED <<graph, service, offers, ticks, coact>>

(* should_archive, should_weaken: archive may raise and end the pass, the   *)
(* failure of weaken is swallowed.                                          *)
AgeConcern(t) ==
    \E x \in job[t].left :
       LET req == IF x.row.life.decay >= DecayOne THEN Archive ELSE Weaken(5)
           ok == Accepted(x.id, req)
       IN  /\ Is(t, "decayed") /\ x.id = job[t].self
           /\ Writes(t, IF ok THEN Called(x.id, req) ELSE store)
           /\ graph' = IF ok THEN Synced(graph, x.id, req) ELSE graph
           /\ IF ok \/ ~req.sync THEN Goto(t, Work(job[t], "decay", job[t].left \ {x}))
              ELSE Abort(t)
           /\ UNCHANGED <<service, offers, ticks, coact>>

-----------------------------------------------------------------------------
(* Mutant: the conserved core is part of the catalogue. *)
CatalogableAny(row) == row.life.state \in Live

(* DCNEvolver._active_catalog: live and not reflex. *)
Catalogable(row) == row.life.state \in Live /\ ~row.life.reflex

MergeRelations == {"duplicates", "generalizes", "specializes"}
MergeEntries(x) == SelectSeq(x.row.rels, LAMBDA r : r[1] \in MergeRelations)
CatIds(f) == {x.id : x \in f.cat}

(* The orders in which a store may list some concerns. *)
Ranks(ids) == {r \in [ids -> 1 .. Cardinality(ids)] : IsInjective(r)}

StartDeclared(t) ==
    /\ Begins(t, "declared")
    /\ \E r \in Ranks({x.id : x \in Entries(Catalogable)}) :
          Goto(t, [Begin(t, Entries(Catalogable)) EXCEPT !.at = "declared", !.self = NoId,
                              !.pos = 0, !.rank = r, !.seen = {}, !.todo = <<>>])
    /\ Snapshots(t)
    /\ UNCHANGED <<stores, service, offers, ticks, coact>>

(* Dedupe._pick_loser *)
_pick_loser(id, rel) == IF rel[1] = "generalizes" THEN id ELSE rel[2]

(* _merge_declared.  The list is walked by position and losers are taken    *)
(* out of it on the way, so the concern after a removed one is skipped.     *)
NextDeclared(t) ==
    LET f == job[t]
        Here(x) == Cardinality({y \in f.cat : f.rank[y.id] < f.rank[x.id]}) = f.pos
    IN  /\ Is(t, "declared") /\ f.todo = <<>>
        /\ \/ \E x \in f.cat :
                 /\ Here(x)
                 /\ Goto(t, [f EXCEPT !.pos = @ + 1, !.self = x.id, !.todo = MergeEntries(x)])
           \/ (\A x \in f.cat : ~Here(x)) /\ Goto(t, [f EXCEPT !.at = "next"])
        /\ UNCHANGED <<stores, service, offers, ticks, dirty, coact>>

MergeDeclared(t) ==
    LET f == job[t]
        rel == Head(f.todo)
        pair == {f.self, rel[2]}
        loser == _pick_loser(f.self, rel)
    IN  /\ Is(t, "declared") /\ f.todo # <<>>
        /\ Goto(t, IF rel[2] \notin CatIds(f) \/ pair \in f.seen
                   THEN [f EXCEPT !.todo = Tail(@)]
                   ELSE [f EXCEPT !.at = "merge", !.back = "declared", !.todo = Tail(@),
                                  !.seen = @ \cup {pair}, !.loser = loser,
                                  !.winner = IF loser = f.self THEN rel[2] ELSE f.self])
        /\ UNCHANGED <<stores, service, offers, ticks, dirty, coact>>

ShareJoinpoint(x, y) == x.row.jp \cap y.row.jp # {}
Overlap(x, y) == Cardinality(x.row.kw \cap y.row.kw)
Alike(cat, n) == {p \in cat \X cat : /\ p[1].id < p[2].id
                                    /\ ShareJoinpoint(p[1], p[2]) /\ Overlap(p[1], p[2]) >= n}

StartHeuristic(t) ==
    /\ Begins(t, "heuristic")
    /\ Goto(t, Work([Stage(t) EXCEPT !.rank = <<>>], "heuristic", Alike(job[t].cat, MinOverlap)))
    /\ UNCHANGED <<stores, service, offers, ticks, dirty, coact>>

(* The loser of two entries: the lower score, then the greater id. *)
_pick_by_score(x, y) ==
    LET Score(e) == IF e.row.life.score = NoScore THEN 0 ELSE e.row.life.score
    IN  IF Score(x) > Score(y) THEN y
        ELSE IF Score(y) > Score(x) THEN x
        ELSE IF x.id > y.id THEN x ELSE y

HeuristicMerge(f, p) ==
    LET loser == _pick_by_score(p[1], p[2])
    IN  [f EXCEPT !.at = "merge", !.back = "heuristic", !.left = @ \ {p}, !.loser = loser.id,
                  !.winner = IF loser = p[1] THEN p[2].id ELSE p[1].id]

(* Mutant: a pair is merged although one of it is gone already. *)
MergeHeuristicStale(t) ==
    \E p \in job[t].left :
       /\ Is(t, "heuristic")
       /\ Goto(t, HeuristicMerge(job[t], p))
       /\ UNCHANGED <<stores, service, offers, ticks, dirty, coact>>

MergeHeuristic(t) ==
    \E p \in job[t].left :
       /\ Is(t, "heuristic")
       /\ Goto(t, IF ~({p[1].id, p[2].id} \subseteq CatIds(job[t]))
                  THEN Work(job[t], "heuristic", job[t].left \ {p})
                  ELSE HeuristicMerge(job[t], p))
       /\ UNCHANGED <<stores, service, offers, ticks, dirty, coact>>

(* _apply_merge: get both, refresh their nodes, loser -> merged ... *)
Resume(f) == IF f.back = "heuristic" THEN Work(f, "heuristic", f.left)
             ELSE [f EXCEPT !.at = f.back]

MergeTransition(t) ==
    LET f == job[t]
        req == Transition("merged")
        known == f.loser # f.winner /\ {f.loser, f.winner} \subseteq DOMAIN store
        ok == known /\ Accepted(f.loser, req)
    IN  /\ Is(t, "merge")
        /\ graph' = IF known THEN EnsureNodes(graph, store, {f.loser, f.winner}) ELSE graph
        /\ Writes(t, IF ok THEN Called(f.loser, req) ELSE store)
        /\ Goto(t, IF ok THEN [f EXCEPT !.at = "merge2"] ELSE Resume(f))
        /\ UNCHANGED <<service, offers, ticks, coact>>

(* ... then archived and, in the graph, merged into the winner.  A merge    *)
(* the graph refuses is suppressed.                                         *)
MergeArchive(t) ==
    LET f == job[t]
        ok == Accepted(f.loser, Archive)
    IN  /\ Is(t, "merge2")
        /\ Writes(t, IF ok THEN Called(f.loser, Archive) ELSE store)
        /\ graph' = IF ok THEN MergeNodes(ArchiveNode(graph, f.loser), f.loser, f.winner)
                    ELSE graph
        /\ Goto(t, Resume(IF ok THEN [f EXCEPT !.cat = {x \in @ : x.id # f.loser}] ELSE f))
        /\ UNCHANGED <<service, offers, ticks, coact>>

(* _archive_cold, from the same catalogue: an unknown concern ends the pass *)
(* (KeyError), a refused transition does not.                               *)
IsCold(x) == /\ x.row.life.state = "weakened"
             /\ 100 * x.row.life.decay >= 85 * DecayOne
             /\ x.row.life.score <= 15

StartArchiveCold(t) ==
    /\ Begins(t, "cold_archive")
    /\ Goto(t, Work(Begin(t, {}), "archive", {x \in job[t].cat : IsCold(x)}))
    /\ UNCHANGED <<stores, service, offers, ticks, dirty, coact>>

ArchiveCold(t) ==
    \E x \in job[t].left :
       LET ok == Accepted(x.id, Archive)
       IN  /\ Is(t, "archive")
           /\ Writes(t, IF ok THEN Called(x.id, Archive) ELSE store)
           /\ graph' = IF ok THEN ArchiveNode(graph, x.id) ELSE graph
           /\ IF x.id \in DOMAIN store THEN Goto(t, Work(job[t], "archive", job[t].left \ {x}))
              ELSE Abort(t)
           /\ UNCHANGED <<service, offers, ticks, coact>>

-----------------------------------------------------------------------------
(* ConflictScannerWorker.run: the catalogue, its nodes, the declared edges, *)
Scanned(row) == row.life.state \in Live

StartConflict(t) ==
    /\ Begins(t, "conflict")
    /\ Goto(t, [Begin(t, Entries(Scanned)) EXCEPT !.at = "declare"])
    /\ Snapshots(t)
    /\ UNCHANGED <<stores, service, offers, ticks, coact>>

SyncDeclaredRelations(t) ==
    LET f == job[t]
        ready == FoldSet(LAMBDA x, g : AddNode(g, x.id, x.row), graph, f.cat)
        declared == CatIds(f) \X CatIds(f)
        Stated(e) == \E x \in f.cat : x.id = e[1]
                        /\ <<"conflicts_with", e[2]>> \in ToSet(x.row.rels)
    IN  /\ Is(t, "declare")
        /\ graph' = FoldSet(LAMBDA e, g : AddEdge(g, e[1], e[2], "conflicts_with", One),
                            ready, {e \in declared : Stated(e)})
        /\ Goto(t, Work([f EXCEPT !.cat = {}], "conflict", Alike(f.cat, 2)))
        /\ UNCHANGED <<store, service, offers, ticks, dirty, coact>>

(* Mutant: the new relation takes the place of the others. *)
with_only_conflict_relation(row, other) == [row EXCEPT !.rels = <<<<"conflicts_with", other>>>>]

with_conflict_relation(row, other) ==
    [row EXCEPT !.rels = Append(@, <<"conflicts_with", other>>)]
has_conflict_relation(row, other) == <<"conflicts_with", other>> \in ToSet(row.rels)

(* _link_conflict_pair: the snapshot's copies are written back, each with   *)
(* the one relation of this pair added.                                     *)
Linked(s, x, y) == IF has_conflict_relation(x.row, y.id) THEN s
                   ELSE Put(s, x.id, with_conflict_relation(x.row, y.id))

LinkConflictPair(t) ==
    \E p \in job[t].left :
       /\ Is(t, "conflict")
       /\ Writes(t, Linked(Linked(store, p[1], p[2]), p[2], p[1]))
       /\ graph' = AddEdge(AddEdge(graph, p[1].id, p[2].id, "conflicts_with", One),
                           p[2].id, p[1].id, "conflicts_with", One)
       /\ Goto(t, Work(job[t], "conflict", job[t].left \ {p}))
       /\ UNCHANGED <<service, offers, ticks, coact>>

-----------------------------------------------------------------------------
(* What read_new meets: the lines after the cursor, the last of which may   *)
(* be there in part while its thread still writes it (RtLog has the file    *)
(* in detail).                                                              *)
Unread == SubSeq(log, cursor + 1, Len(log))
BeingWritten == \E u \in Threads : Begins(u, "log")

(* RtPlasticityService.consume, under its lock: read what is new, *)
StartConsume(t) ==
    /\ Begins(t, "consume")
    /\ holder = Nobody_
    /\ Torn \notin ToSet(Unread)
    /\ holder' = t
    /\ cursor' = Len(log)
    /\ Goto(t, [Begin(t, {}) EXCEPT !.at = "gather", !.recs = Unread])
    /\ UNCHANGED <<stores, credit, turns, orphaned, pending, log, offers, ticks, dirty, coact>>

(* or raise on a line that does not parse: neither consume nor the worker   *)
(* nor the maintenance pass catches it, and the cursor stays.               *)
ConsumeRaises(t) ==
    /\ Begins(t, "consume")
    /\ holder = Nobody_
    /\ Torn \in ToSet(Unread) \/ BeingWritten
    /\ Abort(t)
    /\ UNCHANGED <<stores, service, offers, ticks, dirty, coact>>

CoactPairs(f) ==
    FlattenSeq([i \in 1 .. Cardinality(DOMAIN f) |->
                   PairsOf(IdSeq(f[SetToSeq(DOMAIN f)[i]]))])

(* Mutant: the map is emptied before it is read. *)
GatherEmptied(t) ==
    /\ Is(t, "gather")
    /\ Goto(t, [job[t] EXCEPT !.at = "clear", !.pairs = <<>>, !.saw = <<>>])
    /\ turns' = <<>>
    /\ UNCHANGED <<stores, credit, orphaned, pending, log, cursor, holder, offers, ticks, dirty, coact>>

(* pair up the turns' concerns (the map itself is not locked), *)
Gather(t) ==
    /\ Is(t, "gather")
    /\ Goto(t, [job[t] EXCEPT !.at = "clear", !.pairs = CoactPairs(turns), !.saw = turns])
    /\ UNCHANGED <<stores, service, offers, ticks, dirty, coact>>

Couples(f) == UNION {{<<k, c>> : c \in f[k]} : k \in DOMAIN f}

(* and empty it.  Who was about to fill a set of the map fills one that no  *)
(* one will read.  A map that grew meanwhile is emptied all the same, or    *)
(* the iteration over it has raised and the records read are not applied.   *)
ClearTurns(t) ==
    /\ Is(t, "clear")
    /\ turns' = <<>>
    /\ orphaned' = {u \in Threads : Is(u, "record")}
    /\ coact' = [coact EXCEPT !.paired = @ \cup Couples(job[t].saw)]
    /\ Goto(t, [job[t] EXCEPT !.at = "drain"])
    /\ UNCHANGED <<stores, credit, pending, log, cursor, holder, offers, ticks, dirty>>

IterationFails(t) ==
    /\ Is(t, "clear")
    /\ DOMAIN turns # DOMAIN job[t].saw
    /\ holder' = Nobody_
    /\ Abort(t)
    /\ UNCHANGED <<stores, credit, turns, orphaned, pending, log, cursor, offers, ticks, dirty, coact>>

(* drain_synapse_ledger: read, then clear. *)
DrainLedger(t) ==
    /\ Is(t, "drain")
    /\ Goto(t, [job[t] EXCEPT !.at = "wipe", !.ledger = credit.ledger])
    /\ UNCHANGED <<stores, service, offers, ticks, dirty, coact>>

WipeLedger(t) ==
    /\ Is(t, "wipe")
    /\ credit' = [credit EXCEPT !.ledger = <<>>]
    /\ Goto(t, [job[t] EXCEPT !.at = "reweight", !.todo = job[t].recs])
    /\ UNCHANGED <<stores, turns, orphaned, pending, log, cursor, holder, offers, ticks, dirty, coact>>

(* PlasticityEngine.reweight, one record: an archived concern is revived    *)
(* first; whatever raises is skipped.                                       *)
Reweighed(id, dir) ==
    LET d == Least(Percent(Abs(dir), 5), 5)
        req == IF dir > 0 THEN Reinforce(d) ELSE Weaken(d)
        life == store[id].life
        woken == IF life.state = "archived" THEN Mutated(life, Revive) ELSE life
    IN  IF id \notin DOMAIN store \/ dir = 0 THEN store
        ELSE [store EXCEPT ![id].life = IF Admits(woken, req) THEN Mutated(woken, req)
                                        ELSE woken]

Reweight(t) ==
    LET who == _attribute(Head(job[t].todo))
    IN  /\ Is(t, "reweight")
        /\ job[t].todo # <<>>
        /\ Writes(t, Reweighed(who.cid, who.dir))
        /\ Goto(t, [job[t] EXCEPT !.todo = Tail(@)])
        /\ UNCHANGED <<graph, service, offers, ticks, coact>>

(* The rest of the warm step, on the graph, then the drained ledger; the    *)
(* lock is released.                                                        *)
WarmSweep(t) ==
    LET f == job[t]
    IN  /\ Is(t, "reweight")
        /\ f.todo = <<>>
        /\ \E linked \in connect_coactivated(store, graph, f.pairs, credit.buffer) :
           \E pruned \in prune_weak_edges(store, linked) :
              graph' = apply_synapse_kappa_ledger(store,
                          reweight_synapses_from_records(store, pruned, f.recs, f.pairs),
                          f.ledger)
        /\ holder' = Nobody_
        /\ Goto(t, [f EXCEPT !.at = "next"])
        /\ UNCHANGED <<store, credit, turns, orphaned, pending, log, cursor, offers, ticks, dirty, coact>>

-----------------------------------------------------------------------------
(* PlasticityEngine.cold_step: the view, then the list of concerns. *)
Coolable(row) ==
    row.life.state \notin Retired /\ row.life.score # NoScore /\ ~row.life.reflex

StartCold(t) ==
    /\ Begins(t, "cold")
    /\ Goto(t, Work([Begin(t, {}) EXCEPT !.rows = store, !.view = ConnectomeOf(store, graph)],
                    "cold", Entries(Coolable)))
    /\ Snapshots(t)
    /\ UNCHANGED <<stores, service, offers, ticks, coact>>

SamplesOf(id) == At(credit.buffer, id, <<>>)
Children(x) == SplitKeywords(x.id, x.row, SamplesOf(x.id))
Splits(x) == _should_split(x.id, x.row, SamplesOf(x.id)) /\ Children(x) # NoSplit

(* split_with_spec_or_keywords: children and their nodes first ... *)
SplitConcern(t) ==
    \E x \in job[t].left :
       LET a == _child_from_parent(x.row, Children(x)[1])
           b == _child_from_parent(x.row, Children(x)[2])
       IN  /\ Is(t, "cold")
           /\ Splits(x)
           /\ Writes(t, Put(Put(store, ChildA(x.id), a), ChildB(x.id), b))
           /\ graph' = AddNode(AddNode(graph, ChildA(x.id), a), ChildB(x.id), b)
           /\ Goto(t, [job[t] EXCEPT !.at = "split", !.self = x.id])
           /\ UNCHANGED <<service, offers, ticks, coact>>

(* ... then the parent is archived and its samples forgotten. *)
ArchiveParent(t) ==
    \E x \in job[t].left :
       LET ok == Accepted(x.id, Archive)
       IN  /\ Is(t, "split") /\ x.id = job[t].self
           /\ Writes(t, IF ok THEN Called(x.id, Archive) ELSE store)
           /\ graph' = IF ok THEN ArchiveNode(graph, x.id) ELSE graph
           /\ credit' = IF ok THEN [credit EXCEPT !.buffer = Drop(@, x.id)] ELSE credit
           /\ Goto(t, Work(job[t], "cold", job[t].left \ {x}))
           /\ UNCHANGED <<turns, orphaned, pending, log, cursor, holder, offers, ticks, coact>>

(* Reflex lift writes the list's copy back; a weak concern is archived.     *)
ColdConcern(t) ==
    \E x \in job[t].left :
       LET lifts == _should_lift(x.id, x.row, SamplesOf(x.id))
           cold == /\ ~lifts
                   /\ x.row.life.score <= 8 /\ x.row.life.state = "weakened"
                   /\ Accepted(x.id, Archive)
       IN  /\ Is(t, "cold")
           /\ ~Splits(x)
           /\ Writes(t, CASE lifts -> Put(store, x.id, [x.row EXCEPT !.life.reflex = TRUE])
                          [] cold -> Called(x.id, Archive)
                          [] OTHER -> store)
           /\ graph' = IF cold THEN ArchiveNode(graph, x.id) ELSE graph
           /\ Goto(t, Work(job[t], "cold", job[t].left \ {x}))
           /\ UNCHANGED <<service, offers, ticks, coact>>

(* Candidates come from the view taken before the split loop. *)
StartColdMerge(t) ==
    /\ Begins(t, "cold_merge")
    /\ Goto(t, Work(Stage(t), "cold_merge", FirstPairs(find_merge_candidates(job[t].rows), 4)))
    /\ UNCHANGED <<stores, service, offers, ticks, dirty, coact>>

ColdMerge(t) ==
    \E p \in job[t].left :
       /\ Is(t, "cold_merge") /\ ~(\E q \in job[t].left : Before(q, p))
       /\ graph' \in merge_near_duplicate_pair(store, graph, p, credit.buffer)
       /\ Goto(t, Work(job[t], "cold_merge", job[t].left \ {p}))
       /\ UNCHANGED <<store, service, offers, ticks, dirty, coact>>

StartColdLift(t) ==
    /\ Begins(t, "cold_lift")
    /\ Goto(t, Work(Stage(t), "cold_lift", FirstPairs(find_lift_candidates(job[t].view), 2)))
    /\ UNCHANGED <<stores, service, offers, ticks, dirty, coact>>

ColdLift(t) ==
    \E p \in job[t].left :
       /\ Is(t, "cold_lift") /\ ~(\E q \in job[t].left : Before(q, p))
       /\ \E out \in lift_coalition(store, graph, p, credit.buffer) :
             graph' = out.g /\ Writes(t, out.store)
       /\ Goto(t, Work(job[t], "cold_lift", job[t].left \ {p}))
       /\ UNCHANGED <<service, offers, ticks, coact>>

Prune(t) ==
    /\ Begins(t, "prune")
    /\ graph' \in prune_weak_edges(store, graph)
    /\ Goto(t, Stage(t))
    /\ UNCHANGED <<store, service, offers, ticks, dirty, coact>>

-----------------------------------------------------------------------------
(* Requests of the RPC threads. *)
Asks(t, op) == Is(t, "idle") /\ offers[t] # <<>> /\ Head(offers[t]).op = op
Ask(t) == Head(offers[t])
Served(t) == offers' = [offers EXCEPT ![t] = Tail(@)]

HostEdit(t) ==
    /\ \/ Asks(t, "upsert") /\ Writes(t, Put(store, Ask(t).id, Ask(t).row))
       \/ Asks(t, "delete") /\ Writes(t, Drop(store, Ask(t).id))
    /\ Served(t)
    /\ UNCHANGED <<graph, service, job, ticks, coact>>

(* _turn_concerns.setdefault(turn, set()): from here on the thread holds    *)
(* the set itself, in the map or not.                                       *)
TakesSet(t, turn, members) ==
    IF members = <<>> THEN UNCHANGED <<turns, orphaned>>
    ELSE /\ turns' = Put(turns, turn, At(turns, turn, {}))
         /\ orphaned' = orphaned \ {t}
Recording(turn, members, prog) ==
    [Resting EXCEPT !.at = IF members = <<>> THEN "next" ELSE "record",
                    !.turn = turn, !.todo = members, !.prog = prog]
OneByOne(ids) == [i \in DOMAIN ids |-> {ids[i]}]

(* _notify_coactivation: record_coactivation, then record_turn_activations. *)
RecordCoactivation(t) ==
    /\ Asks(t, "coactivation")
    /\ TakesSet(t, Ask(t).turn, Ask(t).ids)
    /\ Goto(t, Recording(Ask(t).turn, OneByOne(Ask(t).ids), <<>>))
    /\ Served(t)
    /\ UNCHANGED <<stores, credit, pending, log, cursor, holder, ticks, dirty, coact>>

RecordTurnActivations(t) ==
    /\ Asks(t, "activations")
    /\ pending' = IF Ask(t).ids = <<>> THEN pending ELSE Put(pending, Ask(t).turn, Ask(t).ids)
    /\ TakesSet(t, Ask(t).turn, Ask(t).ids)
    /\ Goto(t, Recording(Ask(t).turn, OneByOne(Ask(t).ids), <<>>))
    /\ Served(t)
    /\ UNCHANGED <<stores, credit, log, cursor, holder, ticks, dirty, coact>>

(* credit.r_t.append: RtPlasticityService.append, then consume. *)
AppendRecord(t) ==
    LET rec == [Ask(t).rec EXCEPT !.r = reward_from_signal(Ask(t).rec)]
        res == attribute_turn(credit, rec, At(pending, rec.turn, <<>>), MaxSamples)
        line == [rec EXCEPT !.b = res.baseline_b, !.adv = res.advantage]
        members == IF res.members = {} THEN <<>> ELSE <<res.members>>
    IN  /\ Asks(t, "append")
        /\ credit' = res.field
        /\ pending' = Drop(pending, rec.turn)
        /\ TakesSet(t, rec.turn, members)
        /\ Goto(t, [Recording(rec.turn, members, <<"log", "consume">>) EXCEPT !.recs = <<line>>])
        /\ Served(t)
        /\ UNCHANGED <<stores, log, cursor, holder, ticks, dirty, coact>>

(* The set is filled: record_coactivation adds one concern at a time,       *)
(* append all of them.  Co-activations are lost when a consumer is between  *)
(* reading the map and emptying it, or has emptied it since the thread took *)
(* its set.                                                                 *)
Adds(t, turn, ids) ==
    LET new == {turn} \X ids
        late == t \in orphaned \/ \E u \in Threads : Is(u, "clear")
    IN  /\ turns' = IF t \in orphaned THEN turns
                    ELSE Put(turns, turn, At(turns, turn, {}) \cup ids)
        /\ coact' = [coact EXCEPT !.seen = @ \cup new,
                                  !.raced = IF late THEN @ \cup new ELSE @]

AddMembers(t) ==
    LET f == job[t]
    IN  /\ Is(t, "record")
        /\ Adds(t, f.turn, Head(f.todo))
        /\ Goto(t, [f EXCEPT !.todo = Tail(@), !.at = IF Len(f.todo) > 1 THEN "record" ELSE "next"])
        /\ UNCHANGED <<stores, credit, orphaned, pending, log, cursor, holder, offers, ticks, dirty>>

(* The recorder's line is complete. *)
LogRecord(t) ==
    /\ Begins(t, "log")
    /\ log' = log \o job[t].recs
    /\ Goto(t, [Stage(t) EXCEPT !.recs = <<>>])
    /\ UNCHANGED <<stores, credit, turns, orphaned, pending, cursor, holder, offers, ticks,
                   dirty, coact>>

(* credit.r_t.consume and plasticity.cold_step. *)
AskPass(t) ==
    /\ \/ Asks(t, "consume")
          /\ Goto(t, [Resting EXCEPT !.at = "next", !.prog = <<"consume">>])
       \/ Asks(t, "cold")
          /\ Goto(t, [Resting EXCEPT !.at = "next", !.prog = ColdStep])
    /\ Served(t)
    /\ UNCHANGED <<stores, service, ticks, dirty, coact>>

-----------------------------------------------------------------------------
Decaying(t) == StartDecay(t) \/ BumpDecay(t) \/ AgeConcern(t)
Evolving(t) ==
    \/ StartDeclared(t) \/ NextDeclared(t) \/ MergeDeclared(t) \/ StartHeuristic(t) \/ MergeHeuristic(t)
    \/ MergeTransition(t) \/ MergeArchive(t) \/ StartArchiveCold(t) \/ ArchiveCold(t)
Scanning(t) == StartConflict(t) \/ SyncDeclaredRelations(t) \/ LinkConflictPair(t)
Consuming(t) ==
    \/ StartConsume(t) \/ ConsumeRaises(t) \/ Gather(t) \/ ClearTurns(t) \/ IterationFails(t)
    \/ DrainLedger(t) \/ WipeLedger(t) \/ Reweight(t) \/ WarmSweep(t)
Cooling(t) ==
    \/ StartCold(t) \/ SplitConcern(t) \/ ArchiveParent(t) \/ ColdConcern(t)
    \/ StartColdMerge(t) \/ ColdMerge(t) \/ StartColdLift(t) \/ ColdLift(t) \/ Prune(t)
Requesting(t) ==
    \/ HostEdit(t) \/ RecordCoactivation(t) \/ RecordTurnActivations(t)
    \/ AppendRecord(t) \/ AskPass(t)

Passing(t) ==
    \/ Decaying(t) \/ Evolving(t) \/ Scanning(t) \/ Consuming(t) \/ Cooling(t)
    \/ AddMembers(t) \/ LogRecord(t)

AtRest == /\ \A t \in Threads : Is(t, "idle")
          /\ \A t \in Clients : offers[t] = <<>>
          /\ ticks = 0
Rest == AtRest /\ UNCHANGED vars

Next ==
    \/ HeartTick
    \/ \E t \in Threads : Passing(t) \/ Return(t)
    \/ \E t \in Clients : Requesting(t)
    \/ Rest

(* Threads run: some thread that can move does, until all are at rest.      *)
Fairness == <>AtRest \/ []<><<Next>>_vars

Spec == Init /\ [][Next]_vars
FairSpec == Spec /\ Fairness

-----------------------------------------------------------------------------
(* Every row, node and edge has its shape and every edge joins nodes.       *)
TypeOK ==
    /\ \A c \in DOMAIN store : store[c].life \in Concern
    /\ \A c \in DOMAIN graph.nodes : graph.nodes[c] \in LifecycleState
    /\ \A e \in DOMAIN graph.edges : {e[1], e[2]} \subseteq DOMAIN graph.nodes
    /\ holder \in Threads \cup {Nobody_}
    /\ cursor \in 0 .. Len(log)

(* What a host wrote into a concern, as opposed to what upkeep keeps in it. *)
Authored(row) ==
    [kw |-> row.kw, jp |-> row.jp,
     rels |-> [i \in {i \in DOMAIN row.rels : row.rels[i][1] # "conflicts_with"} |->
                 row.rels[i]]]

ByPass(t) == ~Is(t, "idle") /\ job'[t] # job[t]

(* A maintenance pass rewrites rows from copies it took earlier.  It may    *)
(* undo a host's edit, or bring a deleted concern back, only when that      *)
(* write came after the copy was taken (decay_worker.py:82,                 *)
(* conflict_scanner.py:107, plasticity_engine.py:410); every edit made      *)
(* before a worker starts survives it.  Split children are the pass's own.  *)
HostEditsSurvive ==
    [][\A t \in Threads : ByPass(t) =>
         /\ \A c \in DOMAIN store \ dirty[t] :
               \/ IsDerived(c)
               \/ /\ c \in DOMAIN store'
                  /\ Authored(store'[c]) = Authored(store[c])
                  /\ store[c].life.reflex => store'[c].life.reflex
         /\ \A c \in DOMAIN store' \ DOMAIN store : IsDerived(c) \/ c \in dirty[t]]_vars

(* The structural rewrites; decay is not one and does age reflex concerns.  *)
Rewriting(t) == ByPass(t) /\ job[t].at \in {"merge", "merge2", "archive", "cold", "split",
                                            "cold_merge", "cold_lift"}
SplitsInto(t, c) == /\ job[t].at = "cold" /\ job'[t].at = "split"
                    /\ c \in {ChildA(job'[t].self), ChildB(job'[t].self)}
Conserves(c) ==
    store[c].life.reflex =>
       /\ store'[c].life.state = store[c].life.state
       /\ c \in DOMAIN graph.nodes => c \in DOMAIN graph'.nodes

(* The conserved core: merging, cold archiving, splitting and lifting leave *)
(* a concern marked reflex in its state and in the graph, unless it was     *)
(* marked after the pass had taken its catalogue (evolution.py:87), or is   *)
(* the child of a concern that is split again (see ReflexCoreExcluded).     *)
ReflexCoreConserved ==
    [][\A t \in Threads : Rewriting(t) =>
         \A c \in DOMAIN store \ dirty[t] : SplitsInto(t, c) \/ Conserves(c)]_vars

(* ADR 0012: the reflex concerns are excluded from structural rewriting.    *)
(* They are not: a concern that was split, archived and revived splits      *)
(* again, and its children are written afresh although one was lifted to a  *)
(* reflex meanwhile (connectome_plasticity.py:302).                         *)
ReflexCoreExcluded ==
    [][\A t \in Threads : Rewriting(t) =>
         \A c \in DOMAIN store \ dirty[t] : Conserves(c)]_vars

(* Merging near duplicates never buries a concern: the one that survives a  *)
(* heuristic merge is still live when the other is archived into it, also   *)
(* in a chain of merges of one pass (evolution.py:130).                     *)
MergesIntoLive ==
    [][\A t \in Threads :
         LET f == job[t]
         IN  ByPass(t) /\ f.at = "merge2" /\ f.back = "heuristic"
                /\ f.loser \in DOMAIN store /\ store'[f.loser].life.state = "archived"
             => f.winner \in dirty[t] \/ store[f.winner].life.state \in Live]_vars

(* A co-activation that was recorded is waiting in the map or has been      *)
(* paired up, but for two windows in which the map is emptied over it: a    *)
(* consumer stood between reading the map and clearing it, or had cleared   *)
(* it after the recording thread took its set and before it filled it       *)
(* (rt_plasticity_service.py:73-76, 87-89, 108).                            *)
CoactivationsAccounted ==
    coact.seen \subseteq Couples(turns) \cup coact.paired \cup coact.raced

AbortReason(t) ==
    \/ job[t].at \in {"decayed", "archive"} /\ dirty[t] # {}
    \/ job[t].at = "clear" /\ DOMAIN turns # DOMAIN job[t].saw
    \/ Begins(t, "consume") /\ (Torn \in ToSet(Unread) \/ BeingWritten)

(* A pass is abandoned half way for one of three reasons: a concern of its  *)
(* copies was deleted or rewritten by others meanwhile (decay_worker.py:58, *)
(* evolution.py:158), a turn came into the map while a consumer walked it,  *)
(* or the log has a line ahead of the cursor that does not parse, torn by   *)
(* a crash or not finished yet, which no race is needed for                 *)
(* (r_t_reader.py:51).                                                      *)
AbortExplained ==
    [][\A t \in Threads :
         job[t].at # "aborted" /\ job'[t].at = "aborted"
         => AbortReason(t)]_vars

(* Every overlapping pair of live host concerns declares the conflict.      *)
AllDeclared ==
    LET own == {c \in DOMAIN store : ~IsDerived(c) /\ store[c].life.state \in Live}
    IN  \A c, d \in own :
           /\ c # d
           /\ store[c].jp \cap store[d].jp # {}
           /\ Cardinality(store[c].kw \cap store[d].kw) >= 2
           => has_conflict_relation(store[c], d)

(* The scanner writes back stale copies and so loses relations it added a   *)
(* moment ago (conflict_scanner.py:107); over the heartbeats it still ends  *)
(* with every overlapping pair of host concerns declaring the conflict on   *)
(* both sides, when no client interferes.                                   *)
ConflictsDeclared == (\A t \in Clients : offers[t] = <<>>) => <>[]AllDeclared
=============================================================================
