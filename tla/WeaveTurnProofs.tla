--------------------------- MODULE WeaveTurnProofs --------------------------
(***************************************************************************)
(* Weaves over shared attributes, for any number of threads, any requests   *)
(* and any catalogue: who overlaps with nobody finds what it published.     *)
(* And the router, for any edges: those of deleted concerns do not count.   *)
(***************************************************************************)
EXTENDS WeaveTurn, TLAPS

Fields == {"pc", "job", "esc", "seq", "overlap"}
Frame(l) == Fields \subseteq DOMAIN l
FramesInv == DOMAIN loc = Threads /\ \A t \in Threads : Frame(loc[t])

OffersInv == \A t \in Threads : \A r \in offers[t] : r.kind \in RequestKinds

(* Two weaves between the resolver and the telemetry know of each other.    *)
PairInv ==
  \A t, u \in Threads :
    t # u /\ loc[t].pc \in InWeave /\ loc[u].pc \in InWeave => loc[t].overlap /\ loc[u].overlap

(* What a weave that overlaps with nobody has written is still there: its   *)
(* escalations first in the resolver, then in the coordinator, then its     *)
(* vector, then its injection.                                              *)
OwnInv ==
  \A t \in Threads :
    ~loc[t].overlap =>
      /\ loc[t].pc = "coordinate" => resolverEsc = [weave |-> Weave(loc[t]), ids |-> loc[t].esc]
      /\ loc[t].pc \in InWeave \ {"coordinate"} =>
           coordEsc = [weave |-> Weave(loc[t]), ids |-> loc[t].esc]
      /\ loc[t].pc \in InWeave \ {"coordinate", "publish"} => lastVector.weave = Weave(loc[t])
      /\ loc[t].pc \in InWeave \ {"coordinate", "publish", "advise", "weave"} =>
           lastInjection.weave = Weave(loc[t])

WInv == FramesInv /\ OffersInv /\ PairInv /\ OwnInv

-----------------------------------------------------------------------------
(* Frames                                                                   *)
Outside(l) == Frame(l) /\ l.pc \notin InWeave

LEMMA IdleFrame == Outside(Idle)
  BY DEF Outside, Frame, Fields, Idle, InWeave

LEMMA ReplyFrame ==
  ASSUME NEW l, Frame(l), NEW o
  PROVE  Outside(Reply(l, o))
  BY DEF Outside, Frame, Fields, Reply, InWeave

LEMMA StartJobFrame ==
  ASSUME NEW l, Frame(l), NEW jobs
  PROVE  Outside(StartJob(l, jobs))
  BY DEF Outside, Frame, Fields, StartJob, InWeave

LEMMA StartCallFrame ==
  ASSUME NEW l, Frame(l), NEW calls
  PROVE  Outside(StartCall(l, calls))
<1> DEFINE m == [l EXCEPT !.calls = Tail(calls), !.call = Head(calls), !.merged = None,
                          !.advised = FALSE]
<1>1. Frame(m)
  BY DEF Frame, Fields
<1> HIDE DEF m
<1>2. Outside(Reply(l, "internal_error")) /\ Outside(StartJob(m, JobsOf(Head(calls))))
  BY <1>1, ReplyFrame, StartJobFrame
<1> QED
  BY <1>2, Zenon DEF StartCall, m

LEMMA AdvanceFrame ==
  ASSUME NEW l, Frame(l), NEW inj
  PROVE  Outside(Advance(l, inj))
<1>1. ASSUME NEW merged, NEW jobs, NEW calls, NEW o
      PROVE  LET done == [l EXCEPT !.merged = merged]
             IN  /\ Outside(StartJob(done, jobs))
                 /\ Outside(StartJob([done EXCEPT !.advised = TRUE], jobs))
                 /\ Outside(StartCall(done, calls))
                 /\ Outside(Reply(done, o))
  <2> DEFINE done == [l EXCEPT !.merged = merged]
             adv == [done EXCEPT !.advised = TRUE]
  <2>1. Frame(done)
    BY DEF Frame, Fields
  <2>2. Frame(adv)
    BY <2>1 DEF Frame, Fields
  <2> HIDE DEF done, adv
  <2>3. /\ Outside(StartJob(done, jobs)) /\ Outside(StartJob(adv, jobs))
        /\ Outside(StartCall(done, calls)) /\ Outside(Reply(done, o))
    BY <2>1, <2>2, StartJobFrame, StartCallFrame, ReplyFrame
  <2> QED
    BY <2>3, Zenon DEF done, adv
<1> QED
  BY <1>1, Zenon DEF Advance

LEMMA AfterExtractFrame ==
  ASSUME NEW l, Frame(l)
  PROVE  Outside(AfterExtract(l))
  BY StartCallFrame, ReplyFrame, Zenon DEF AfterExtract

LEMMA BeginFrame ==
  ASSUME NEW t, NEW r, r.kind \in RequestKinds
  PROVE  Outside(Begin(t, r))
<1> DEFINE l == [Idle EXCEPT !.req = r, !.seq = left]
           own == [l EXCEPT !.req.notify = FALSE]
<1>1. Frame(l) /\ Frame(own)
  BY DEF Frame, Fields, Idle
<1>2. Outside([l EXCEPT !.pc = "extract"]) /\ Outside([l EXCEPT !.pc = r.kind])
  BY <1>1 DEF Outside, Frame, Fields, InWeave, RequestKinds
<1> HIDE DEF l, own
<1>3. /\ \A o : Outside(Reply(own, o)) /\ Outside(Reply(l, o))
      /\ \A calls : Outside(StartCall(l, calls))
  BY <1>1, ReplyFrame, StartCallFrame
<1> QED
  BY <1>2, <1>3, Zenon DEF Begin, l, own

-----------------------------------------------------------------------------
(* Steps                                                                    *)
Shared == <<last, escs, offers>>

LEMMA StillStep ==
  ASSUME WInv, UNCHANGED <<loc, Shared>>
  PROVE  WInv'
  BY DEF WInv, FramesInv, OffersInv, PairInv, OwnInv, Shared, last, escs

(* A thread that stays outside a weave, or leaves it.                       *)
LEMMA OutsideStep ==
  ASSUME WInv, NEW t \in Threads, NEW l, Outside(l), loc' = [loc EXCEPT ![t] = l],
         UNCHANGED Shared
  PROVE  WInv'
<1>1. DOMAIN loc' = Threads /\ loc'[t] = l /\ \A u \in Threads \ {t} : loc'[u] = loc[u]
  BY DEF WInv, FramesInv
<1>2. UNCHANGED <<lastVector, lastInjection, resolverEsc, coordEsc, offers>>
  BY DEF Shared, last, escs
<1>3. FramesInv' /\ OffersInv'
  BY <1>1, <1>2 DEF WInv, FramesInv, OffersInv, Outside
<1>4. PairInv'
  BY <1>1 DEF WInv, PairInv, Outside
<1>5. OwnInv'
  <2> SUFFICES ASSUME NEW u \in Threads, ~loc'[u].overlap, loc'[u].pc \in InWeave
               PROVE  u # t /\ loc'[u] = loc[u]
    BY <1>2 DEF WInv, OwnInv, Weave, InWeave
  <2> QED
    BY <1>1 DEF Outside
<1> QED
  BY <1>3, <1>4, <1>5 DEF WInv

(* A weave that goes on without publishing anything: what is written stays. *)
LEMMA InsideStep ==
  ASSUME WInv, NEW t \in Threads, NEW l, loc' = [loc EXCEPT ![t] = l], Frame(l),
         l.job = loc[t].job, l.esc = loc[t].esc, l.seq = loc[t].seq,
         l.overlap = loc[t].overlap,
         \/ loc[t].pc \in {"advise", "weave"} /\ l.pc \in {"advise", "weave"}
         \/ /\ loc[t].pc \in {"record", "log", "notify", "telemetry"}
            /\ l.pc \in {"record", "log", "notify", "telemetry"},
         UNCHANGED Shared
  PROVE  WInv'
<1>1. DOMAIN loc' = Threads /\ loc'[t] = l /\ \A u \in Threads \ {t} : loc'[u] = loc[u]
  BY DEF WInv, FramesInv
<1>2. UNCHANGED <<lastVector, lastInjection, resolverEsc, coordEsc, offers>>
  BY DEF Shared, last, escs
<1>3. FramesInv' /\ OffersInv'
  BY <1>1, <1>2 DEF WInv, FramesInv, OffersInv
<1>4. PairInv'
  BY <1>1 DEF WInv, PairInv, InWeave
<1>5. OwnInv'
  BY <1>1, <1>2 DEF WInv, OwnInv, Weave, InWeave
<1> QED
  BY <1>3, <1>4, <1>5 DEF WInv

(* The next stage of a weave, which publishes: whoever else is in a weave   *)
(* overlaps with it.                                                        *)
LEMMA OthersOverlap ==
  ASSUME WInv, NEW t \in Threads, loc[t].pc \in InWeave, NEW u \in Threads \ {t},
         ~loc[u].overlap
  PROVE  loc[u].pc \notin InWeave
  BY DEF WInv, PairInv

-----------------------------------------------------------------------------
(* Requests, extraction, events and ticks                                   *)
LEMMA handleInv ==
  ASSUME WInv, NEW t \in Threads, NEW r \in offers[t], handle(t, r)
  PROVE  WInv'
<1>1. Outside(Begin(t, r))
  BY BeginFrame DEF WInv, OffersInv
<1>2. loc' = [loc EXCEPT ![t] = Begin(t, r)] /\ UNCHANGED Shared
  BY DEF handle, Shared, fixed
<1> QED
  BY <1>1, <1>2, OutsideStep

LEMMA RequestInv ==
  ASSUME WInv, NEW t \in Threads,
         \/ Answer(t) \/ _concern_upsert(t) \/ _concern_delete(t) \/ route_joinpoint(t)
         \/ snapshot(t) \/ SnapshotCount(t) \/ on_event(t)
  PROVE  WInv'
<1>1. /\ Frame(loc[t]) /\ Outside(Idle) /\ \A o : Outside(Reply(loc[t], o))
  BY IdleFrame, ReplyFrame DEF WInv, FramesInv
<1>2. Outside([loc[t] EXCEPT !.pc = "count"])
  BY <1>1 DEF Outside, Frame, Fields, InWeave
<1>3. UNCHANGED Shared
  BY DEF Shared, fixed, Answer, _concern_upsert, _concern_delete, route_joinpoint, snapshot,
         SnapshotCount, on_event
<1>4. \E l : Outside(l) /\ loc' = [loc EXCEPT ![t] = l]
  <2>1. CASE Answer(t)
    BY <1>1, <2>1, Zenon DEF Answer
  <2>2. CASE _concern_upsert(t)
    BY <1>1, <2>2, Zenon DEF _concern_upsert
  <2>3. CASE _concern_delete(t)
    BY <1>1, <2>3, Zenon DEF _concern_delete
  <2>4. CASE route_joinpoint(t)
    BY <1>1, <2>4, Zenon DEF route_joinpoint
  <2>5. CASE snapshot(t)
    BY <1>1, <1>2, <2>5, Zenon DEF snapshot
  <2>6. CASE SnapshotCount(t)
    BY <1>1, <2>6, Zenon DEF SnapshotCount
  <2>7. CASE on_event(t)
    BY <1>1, <2>7, Zenon DEF on_event
  <2> QED
    BY <2>1, <2>2, <2>3, <2>4, <2>5, <2>6, <2>7
<1> QED
  BY <1>3, <1>4, OutsideStep

LEMMA ExtractInv ==
  ASSUME WInv, NEW t \in Threads, _concern_extract(t) \/ BuildLookup(t) \/ BuildUpsert(t)
  PROVE  WInv'
<1>1. Frame(loc[t])
  BY DEF WInv, FramesInv
<1>2. /\ \A o : Outside(Reply(loc[t], o))
      /\ Outside(AfterExtract(loc[t]))
  BY <1>1, ReplyFrame, AfterExtractFrame
<1>3. UNCHANGED Shared
  BY DEF Shared, fixed, _concern_extract, BuildLookup, BuildUpsert
<1>4. \E l : Outside(l) /\ loc' = [loc EXCEPT ![t] = l]
  <2>1. CASE _concern_extract(t)
    <3>1. \A todo : Outside([loc[t] EXCEPT !.pc = "build", !.todo = todo])
      BY <1>1 DEF Outside, Frame, Fields, InWeave
    <3> QED
      BY <1>2, <2>1, <3>1, Zenon DEF _concern_extract
  <2>2. CASE BuildLookup(t)
    <3> DEFINE seen == ById(store, Head(loc[t].todo).id)
               l == [loc[t] EXCEPT !.pc = "put", !.seen = seen]
    <3>1. Outside(l)
      BY <1>1 DEF Outside, Frame, Fields, InWeave
    <3>2. loc' = [loc EXCEPT ![t] = l]
      BY <2>2 DEF BuildLookup
    <3> QED
      BY <3>1, <3>2
  <2>3. CASE BuildUpsert(t)
    <3> DEFINE rest == [loc[t] EXCEPT !.pc = "build", !.todo = Tail(@), !.seen = None]
    <3>1. Outside(rest) /\ Frame(rest)
      BY <1>1 DEF Outside, Frame, Fields, InWeave
    <3>2. Outside(AfterExtract(rest))
      BY <3>1, AfterExtractFrame
    <3> QED
      BY <2>3, <3>1, <3>2, Zenon DEF BuildUpsert
  <2> QED
    BY <2>1, <2>2, <2>3
<1> QED
  BY <1>3, <1>4, OutsideStep

LEMMA tickInv ==
  ASSUME WInv, NEW t \in Threads, tick(t)
  PROVE  WInv'
<1>1. Frame(loc[t])
  BY DEF WInv, FramesInv
<1>2. /\ \A o : Outside(Reply(loc[t], o))
      /\ \A calls : Outside(StartCall(loc[t], calls))
  BY <1>1, ReplyFrame, StartCallFrame
<1>3. UNCHANGED Shared
  BY DEF Shared, fixed, tick
<1>4. \E l : Outside(l) /\ loc' = [loc EXCEPT ![t] = l]
  BY <1>2, Zenon DEF tick
<1> QED
  BY <1>3, <1>4, OutsideStep

-----------------------------------------------------------------------------
(* The run of the pipeline                                                  *)
LEMMA ScanInv ==
  ASSUME WInv, NEW t \in Threads, Scan(t)
  PROVE  WInv'
<1> DEFINE hits == _scan_candidates(store, loc[t].job.jps, loc[t].call.ctx)
           l == [loc[t] EXCEPT !.pc = "route", !.hits = hits]
<1>1. Outside(l)
  BY DEF WInv, FramesInv, Outside, Frame, Fields, InWeave
<1>2. loc' = [loc EXCEPT ![t] = l] /\ UNCHANGED Shared
  BY DEF Scan, Shared, fixed
<1> QED
  BY <1>1, <1>2, OutsideStep

LEMMA TelemetryInv ==
  ASSUME WInv, NEW t \in Threads, _emit_telemetry(t)
  PROVE  WInv'
<1>1. Outside(Advance(loc[t], loc[t].inj))
  BY AdvanceFrame DEF WInv, FramesInv
<1>2. loc' = [loc EXCEPT ![t] = Advance(loc[t], loc[t].inj)] /\ UNCHANGED Shared
  BY DEF _emit_telemetry, Shared, fixed
<1> QED
  BY <1>1, <1>2, OutsideStep

(* What a write to the published state does to the threads.                 *)
LEMMA PublishingLoc ==
  ASSUME FramesInv, NEW t \in Threads, NEW l, Frame(l), loc' = Publishing(t, l)
  PROVE  /\ DOMAIN loc' = Threads
         /\ Frame(loc'[t]) /\ loc'[t].pc = l.pc /\ loc'[t].job = l.job /\ loc'[t].esc = l.esc
         /\ loc'[t].seq = l.seq
         /\ \A u \in Threads \ {t} : loc[u].pc \in InWeave => loc'[t].overlap
         /\ \A u \in Threads \ {t} : Frame(loc'[u]) /\ loc'[u].pc = loc[u].pc
         /\ \A u \in Threads \ {t} : loc[u].pc \in InWeave => loc'[u].overlap
         /\ \A u \in Threads \ {t} : loc[u].pc \notin InWeave \cup {"count"} => loc'[u] = loc[u]
<1>1. DOMAIN loc' = Threads
  BY DEF Publishing
<1>2. loc'[t] = [l EXCEPT !.overlap = @ \/ \E v \in Threads \ {t} : loc[v].pc \in InWeave]
  BY DEF Publishing
<1>3. \A u \in Threads \ {t} :
        loc'[u] = IF loc[u].pc \in InWeave \cup {"count"} THEN [loc[u] EXCEPT !.overlap = TRUE]
                  ELSE loc[u]
  BY DEF Publishing
<1>4. /\ Frame(loc'[t]) /\ loc'[t].pc = l.pc /\ loc'[t].job = l.job /\ loc'[t].esc = l.esc
      /\ loc'[t].seq = l.seq
  BY <1>2 DEF Frame, Fields
<1>5. \A u \in Threads \ {t} : loc[u].pc \in InWeave => loc'[t].overlap
  BY <1>2 DEF Frame, Fields
<1>6. \A u \in Threads \ {t} :
        /\ Frame(loc'[u]) /\ loc'[u].pc = loc[u].pc
        /\ loc[u].pc \in InWeave => loc'[u].overlap
        /\ loc[u].pc \notin InWeave \cup {"count"} => loc'[u] = loc[u]
  BY <1>3 DEF FramesInv, Frame, Fields
<1> QED
  BY <1>1, <1>4, <1>5, <1>6

LEMMA RouteInv ==
  ASSUME WInv, NEW t \in Threads, Route(t)
  PROVE  WInv'
<1> DEFINE l == Advance(loc[t], None)
<1>1. FramesInv /\ Frame(loc[t]) /\ Outside(l) /\ Frame(l)
  BY AdvanceFrame DEF WInv, FramesInv, Outside
<1>2. UNCHANGED <<escs, offers>>
  BY DEF Route, fixed
<1>3. \/ UNCHANGED last /\ loc' = [loc EXCEPT ![t] = l]
      \/ loc' = Publishing(t, l)
      \/ UNCHANGED last /\ \E h : loc' = [loc EXCEPT ![t].pc = "resolve", ![t].hits = h]
  BY DEF Route, last
<1> HIDE DEF l
<1>4. CASE UNCHANGED last /\ loc' = [loc EXCEPT ![t] = l]
  BY <1>1, <1>2, <1>4, OutsideStep DEF Shared
<1>5. CASE loc' = Publishing(t, l)
  <2>1. /\ DOMAIN loc' = Threads /\ Frame(loc'[t]) /\ loc'[t].pc \notin InWeave
        /\ \A u \in Threads \ {t} :
              /\ Frame(loc'[u]) /\ loc'[u].pc = loc[u].pc
              /\ loc[u].pc \in InWeave => loc'[u].overlap
    BY <1>1, <1>5, PublishingLoc DEF Outside
  <2>2. FramesInv' /\ OffersInv'
    BY <1>2, <2>1 DEF WInv, FramesInv, OffersInv
  <2>3. PairInv' /\ OwnInv'
    BY <2>1 DEF PairInv, OwnInv, InWeave
  <2> QED
    BY <2>2, <2>3 DEF WInv
<1>6. CASE UNCHANGED last /\ \E h : loc' = [loc EXCEPT ![t].pc = "resolve", ![t].hits = h]
  <2>1. PICK h : loc' = [loc EXCEPT ![t].pc = "resolve", ![t].hits = h]
    BY <1>6
  <2> DEFINE m == [loc[t] EXCEPT !.pc = "resolve", !.hits = h]
  <2>2. Outside(m)
    BY <1>1 DEF Outside, Frame, Fields, InWeave
  <2>3. loc' = [loc EXCEPT ![t] = m]
    BY <2>1
  <2> HIDE DEF m
  <2> QED
    BY <1>2, <1>6, <2>2, <2>3, OutsideStep DEF Shared
<1> QED
  BY <1>3, <1>4, <1>5, <1>6

LEMMA ResolveInv ==
  ASSUME WInv, NEW t \in Threads, Resolve(t)
  PROVE  WInv'
<1>1. PICK vector, esc :
        /\ resolverEsc' = [weave |-> Weave(loc[t]), ids |-> esc]
        /\ loc' = Publishing(t, [loc[t] EXCEPT !.pc = "coordinate", !.vector = vector, !.esc = esc])
  BY Zenon DEF Resolve
<1> DEFINE l == [loc[t] EXCEPT !.pc = "coordinate", !.vector = vector, !.esc = esc]
<1>2. FramesInv /\ Frame(loc[t])
  BY DEF WInv, FramesInv
<1>3. Frame(l) /\ l.pc = "coordinate" /\ l.job = loc[t].job /\ l.esc = esc /\ l.seq = loc[t].seq
  BY <1>2 DEF Frame, Fields
<1>4. loc' = Publishing(t, l)
  BY <1>1
<1> HIDE DEF l
<1>5. UNCHANGED offers
  BY DEF Resolve, fixed
<1>6. /\ DOMAIN loc' = Threads /\ Frame(loc'[t]) /\ loc'[t].pc = "coordinate"
      /\ loc'[t].esc = esc /\ Weave(loc'[t]) = Weave(loc[t])
      /\ \A u \in Threads \ {t} :
            /\ Frame(loc'[u]) /\ loc'[u].pc = loc[u].pc
            /\ loc[u].pc \in InWeave => loc'[t].overlap /\ loc'[u].overlap
  BY <1>2, <1>3, <1>4, PublishingLoc DEF Weave
<1>7. FramesInv' /\ OffersInv'
  BY <1>5, <1>6 DEF WInv, FramesInv, OffersInv
<1>8. PairInv'
  <2> SUFFICES ASSUME NEW x \in Threads, NEW y \in Threads, x # y,
                      loc'[x].pc \in InWeave, loc'[y].pc \in InWeave
               PROVE  loc'[x].overlap /\ loc'[y].overlap
    BY DEF PairInv
  <2>1. CASE x = t
    BY <1>6, <2>1
  <2>2. CASE y = t
    BY <1>6, <2>2
  <2>3. CASE x # t /\ y # t
    BY <1>6, <2>3
  <2> QED
    BY <2>1, <2>2, <2>3
<1>9. OwnInv'
  <2> SUFFICES ASSUME NEW u \in Threads, ~loc'[u].overlap, loc'[u].pc \in InWeave
               PROVE  u = t
    BY <1>1, <1>6 DEF OwnInv, InWeave
  <2> QED
    BY <1>6
<1> QED
  BY <1>7, <1>8, <1>9 DEF WInv

(* A stage of a weave that moves one thread on and publishes.               *)
LEMMA StageStep ==
  ASSUME WInv, NEW t \in Threads, loc[t].pc \in InWeave, NEW l, Frame(l), l.pc \in InWeave,
         loc' = [loc EXCEPT ![t] = l], l.overlap = loc[t].overlap, UNCHANGED offers,
         ~l.overlap =>
           /\ l.pc = "coordinate" => resolverEsc' = [weave |-> Weave(l), ids |-> l.esc]
           /\ l.pc \in InWeave \ {"coordinate"} => coordEsc' = [weave |-> Weave(l), ids |-> l.esc]
           /\ l.pc \in InWeave \ {"coordinate", "publish"} => lastVector'.weave = Weave(l)
           /\ l.pc \in InWeave \ {"coordinate", "publish", "advise", "weave"} =>
                lastInjection'.weave = Weave(l)
  PROVE  WInv'
<1>1. DOMAIN loc' = Threads /\ loc'[t] = l /\ \A u \in Threads \ {t} : loc'[u] = loc[u]
  BY DEF WInv, FramesInv
<1>2. FramesInv' /\ OffersInv'
  BY <1>1 DEF WInv, FramesInv, OffersInv
<1>3. PairInv'
  BY <1>1 DEF WInv, PairInv
<1>4. OwnInv'
  <2> SUFFICES ASSUME NEW u \in Threads, ~loc'[u].overlap, loc'[u].pc \in InWeave
               PROVE  u = t
    BY <1>1 DEF OwnInv, InWeave
  <2> QED
    BY <1>1, OthersOverlap
<1> QED
  BY <1>2, <1>3, <1>4 DEF WInv

LEMMA coordinateInv ==
  ASSUME WInv, NEW t \in Threads, coordinate(t)
  PROVE  WInv'
<1> DEFINE l == [loc[t] EXCEPT !.pc = "publish"]
<1>1. /\ Frame(l) /\ l.pc = "publish" /\ l.esc = loc[t].esc /\ Weave(l) = Weave(loc[t])
      /\ l.overlap = loc[t].overlap
  BY DEF WInv, FramesInv, Frame, Fields, Weave
<1>2. /\ loc[t].pc = "coordinate" /\ loc' = [loc EXCEPT ![t] = l] /\ UNCHANGED offers
      /\ coordEsc' = resolverEsc
  BY DEF coordinate, fixed
<1> HIDE DEF l
<1> QED
  BY <1>1, <1>2, StageStep DEF WInv, OwnInv, InWeave

LEMMA PublishVectorInv ==
  ASSUME WInv, NEW t \in Threads, PublishVector(t)
  PROVE  WInv'
<1> DEFINE at == IF loc[t].vector = <<>> THEN "weave" ELSE "advise"
           todo == [i \in DOMAIN loc[t].vector |-> loc[t].vector[i].cid]
           l == [loc[t] EXCEPT !.pc = at, !.todo = todo]
<1>1. loc' = [loc EXCEPT ![t] = l]
  BY DEF PublishVector
<1>2. at \in {"weave", "advise"}
  OBVIOUS
<1> HIDE DEF at, todo
<1>3. /\ Frame(l) /\ l.pc \in {"weave", "advise"} /\ l.esc = loc[t].esc
      /\ Weave(l) = Weave(loc[t]) /\ l.overlap = loc[t].overlap
  BY <1>2 DEF WInv, FramesInv, Frame, Fields, Weave
<1>4. /\ loc[t].pc = "publish" /\ UNCHANGED <<offers, coordEsc>>
      /\ lastVector'.weave = Weave(loc[t])
  BY DEF PublishVector, fixed, escs
<1> HIDE DEF l
<1> QED
  BY <1>1, <1>3, <1>4, StageStep DEF WInv, OwnInv, InWeave

LEMMA AdviseInv ==
  ASSUME WInv, NEW t \in Threads, Advise(t)
  PROVE  WInv'
<1>1. PICK todo, advices, at :
        /\ at \in {"weave", loc[t].pc}
        /\ loc' = [loc EXCEPT ![t].todo = todo, ![t].advices = advices, ![t].pc = at]
  BY DEF Advise
<1> DEFINE l == [loc[t] EXCEPT !.todo = todo, !.advices = advices, !.pc = at]
<1>2. loc' = [loc EXCEPT ![t] = l]
  BY <1>1
<1>3. loc[t].pc = "advise" /\ UNCHANGED Shared
  BY DEF Advise, Shared, fixed
<1>4. /\ Frame(l) /\ l.pc = at /\ l.esc = loc[t].esc /\ l.job = loc[t].job
      /\ l.seq = loc[t].seq /\ l.overlap = loc[t].overlap
  BY DEF WInv, FramesInv, Frame, Fields
<1> HIDE DEF l
<1> QED
  BY <1>1, <1>2, <1>3, <1>4, InsideStep

LEMMA WeaveRowsInv ==
  ASSUME WInv, NEW t \in Threads, WeaveRows(t)
  PROVE  WInv'
<1>1. PICK rows, todo, at :
        /\ at \in {"notify", "record"}
        /\ lastInjection' = [weave |-> Weave(loc[t]), rows |-> rows]
        /\ loc' = [loc EXCEPT ![t].inj = rows, ![t].advices = <<>>, ![t].todo = todo, ![t].pc = at]
  BY DEF WeaveRows
<1> DEFINE l == [loc[t] EXCEPT !.inj = rows, !.advices = <<>>, !.todo = todo, !.pc = at]
<1>2. loc' = [loc EXCEPT ![t] = l]
  BY <1>1
<1>3. /\ Frame(l) /\ l.pc = at /\ l.esc = loc[t].esc
      /\ Weave(l) = Weave(loc[t]) /\ l.overlap = loc[t].overlap
  BY DEF WInv, FramesInv, Frame, Fields, Weave
<1>4. loc[t].pc = "weave" /\ UNCHANGED <<offers, coordEsc, lastVector>>
  BY DEF WeaveRows, fixed, escs
<1>5. lastInjection'.weave = Weave(loc[t])
  BY <1>1
<1> HIDE DEF l
<1> QED
  BY <1>1, <1>2, <1>3, <1>4, <1>5, StageStep DEF WInv, OwnInv, InWeave

LEMMA RecordInv ==
  ASSUME WInv, NEW t \in Threads,
         RecordLookup(t) \/ LogActivation(t) \/ _notify_coactivation(t)
  PROVE  WInv'
<1>1. UNCHANGED Shared /\ loc[t].pc \in {"record", "log", "notify"}
  BY DEF RecordLookup, LogActivation, _notify_coactivation, Shared, fixed
<1>2. \/ \E todo, at : /\ at \in {"record", "log", "notify"}
                       /\ loc' = [loc EXCEPT ![t].pc = at, ![t].todo = todo]
      \/ loc' = [loc EXCEPT ![t].pc = "telemetry"]
  <2>1. CASE RecordLookup(t)
    BY <2>1 DEF RecordLookup
  <2>2. CASE LogActivation(t)
    BY <2>2 DEF LogActivation
  <2>3. CASE _notify_coactivation(t)
    BY <2>3 DEF _notify_coactivation
  <2> QED
    BY <2>1, <2>2, <2>3
<1>3. PICK l : /\ loc' = [loc EXCEPT ![t] = l]
               /\ \/ \E todo, at : /\ at \in {"record", "log", "notify"}
                                   /\ l = [loc[t] EXCEPT !.pc = at, !.todo = todo]
                  \/ l = [loc[t] EXCEPT !.pc = "telemetry"]
  <2>1. CASE loc' = [loc EXCEPT ![t].pc = "telemetry"]
    BY <2>1
  <2>2. ASSUME NEW todo, NEW at \in {"record", "log", "notify"},
               loc' = [loc EXCEPT ![t].pc = at, ![t].todo = todo]
        PROVE  loc' = [loc EXCEPT ![t] = [loc[t] EXCEPT !.pc = at, !.todo = todo]]
    BY <2>2
  <2> QED
    BY <1>2, <2>1, <2>2, Zenon
<1>4. /\ Frame(l) /\ l.pc \in {"record", "log", "notify", "telemetry"} /\ l.esc = loc[t].esc
      /\ l.job = loc[t].job /\ l.seq = loc[t].seq /\ l.overlap = loc[t].overlap
  BY <1>3 DEF WInv, FramesInv, Frame, Fields
<1> QED
  BY <1>1, <1>3, <1>4, InsideStep

-----------------------------------------------------------------------------
LEMMA InitWInv == Init => WInv
<1> SUFFICES ASSUME Init PROVE WInv
  OBVIOUS
<1>1. PICK s \in Scenarios : offers = s.offers /\ loc = [t \in Threads |-> Idle]
  BY Zenon DEF Init
<1>2. OffersInv
  BY <1>1, ScenarioAssumption DEF OffersInv
<1>3. DOMAIN loc = Threads /\ \A t \in Threads : Outside(loc[t])
  BY <1>1, IdleFrame
<1>4. FramesInv /\ PairInv /\ OwnInv
  BY <1>3 DEF FramesInv, PairInv, OwnInv, Outside, InWeave
<1> QED
  BY <1>2, <1>4 DEF WInv

LEMMA NextWInv == WInv /\ [Next]_vars => WInv'
<1> SUFFICES ASSUME WInv, [Next]_vars PROVE WInv'
  OBVIOUS
<1>1. ASSUME NEW t \in Threads, ThreadStep(t) PROVE WInv'
  BY <1>1, RequestInv, ExtractInv, tickInv, ScanInv, RouteInv, ResolveInv, coordinateInv,
     PublishVectorInv, AdviseInv, WeaveRowsInv, RecordInv, TelemetryInv, Zenon DEF ThreadStep
<1>2. ASSUME NEW t \in Threads, NEW r \in offers[t], handle(t, r) PROVE WInv'
  BY <1>2, handleInv
<1>3. CASE Rest \/ UNCHANGED vars
  BY <1>3, StillStep DEF Rest, vars, Shared, last, escs
<1> QED
  BY <1>1, <1>2, <1>3, Zenon DEF Next

(* JoinpointPipeline keeps the last vector and injection, and resolver and   *)
(* coordinator their escalations, in attributes that every weave overwrites  *)
(* and no lock guards.  A weave that no other overlaps between the resolver  *)
(* and the telemetry still reads its own, whatever requests came before.     *)
THEOREM AloneReadsItsOwn == Spec => []AloneOwnsPublished
<1>1. WInv => AloneOwnsPublished
  BY DEF WInv, OwnInv, AloneOwnsPublished, InWeave
<1> QED
  BY <1>1, InitWInv, NextWInv, PTL DEF Spec

-----------------------------------------------------------------------------
(* The router and the edges a deleted concern leaves behind                 *)
HitIds(hits) == {h.c.id : h \in ToSet(hits)}
LiveEdges(hits, catalog, edges_) ==
  LET live == HitIds(hits) \cup StoredIds(catalog)
  IN  {e \in edges_ : e.src \in live /\ e.dst \in live}

(* The view of the live edges has the same synapses into a live concern.    *)
LEMMA LiveIncoming ==
  ASSUME NEW hits, NEW catalog, NEW es, NEW id \in HitIds(hits) \cup StoredIds(catalog)
  PROVE  _incoming_activates(id, build_connectome_view(catalog, es))
           = _incoming_activates(id, build_connectome_view(catalog, LiveEdges(hits, catalog, es)))
<1> DEFINE S == StoredIds(catalog)
           live == HitIds(hits) \cup S
           le == {e \in es : e.src \in live /\ e.dst \in live}
           R(e) == [src |-> e.src, dst |-> e.dst, rel |-> e.rel, weight |-> _edge_weight(e)]
<1>1. \A e : R(e).dst = e.dst
  OBVIOUS
<1> HIDE DEF S, R
<1>2. {e \in {R(e) : e \in {d \in es : d.src \in S}} : e.rel = "activates" /\ e.dst = id}
        = {e \in {R(e) : e \in {d \in le : d.src \in S}} : e.rel = "activates" /\ e.dst = id}
  BY <1>1 DEF S
<1> QED
  BY <1>2, Zenon DEF _incoming_activates, build_connectome_view, LiveEdges, R, S

(* And every stored hub has the same members that can be lifted.            *)
LEMMA LiveMembers ==
  ASSUME NEW hits, NEW catalog, NEW es, NEW routed, NEW boost
  PROVE  _expand_lift_hubs(routed, boost, _lift_hub_members(catalog, es), catalog)
           = _expand_lift_hubs(routed, boost,
               _lift_hub_members(catalog, LiveEdges(hits, catalog, es)), catalog)
<1> DEFINE S == StoredIds(catalog)
           H == {c.id : c \in {d \in ToSet(catalog) : d.hub}}
           le == LiveEdges(hits, catalog, es)
           M(ds) == _lift_hub_members(catalog, ds)
           L(ds) == [hub \in DOMAIN M(ds) |->
                       {m \in M(ds)[hub] : ById(catalog, m) # None /\ ~ById(catalog, m).reflex}]
           Out(ds, hub) == {e.dst : e \in {d \in ds : d.src = hub /\ d.rel \in {"depends_on", "activates"}}}
<1>1. \A ds : DOMAIN M(ds) = H /\ \A hub \in H : M(ds)[hub] = Out(ds, hub)
  BY DEF _lift_hub_members
<1>2. H \subseteq S
  BY DEF StoredIds
<1>3. \A m : ById(catalog, m) # None => m \in S
  BY DEF ById
<1>4. ASSUME NEW hub \in H, NEW m \in S PROVE  m \in Out(es, hub) <=> m \in Out(le, hub)
  <2> HIDE DEF H
  <2>1. hub \in S
    BY <1>2
  <2> QED
    BY <2>1 DEF LiveEdges
<1> HIDE DEF H, M, S, le, Out
<1>5. \A hub \in H : {m \in Out(es, hub) : ById(catalog, m) # None /\ ~ById(catalog, m).reflex}
                     = {m \in Out(le, hub) : ById(catalog, m) # None /\ ~ById(catalog, m).reflex}
  BY <1>3, <1>4
<1>6. L(es) = L(le)
  BY <1>1, <1>5
<1> HIDE DEF L
<1>7. LiftInto(routed, boost, L(es), catalog) = LiftInto(routed, boost, L(le), catalog)
  BY <1>6
<1> QED
  BY <1>7, Zenon DEF _expand_lift_hubs, L, M, le

(* Routing with all edges is routing with the live ones.                    *)
LEMMA GhostEdges ==
  ASSUME NEW hits, NEW catalog, NEW es, NEW elig
  PROVE  route(hits, catalog, es, elig) = route(hits, catalog, LiveEdges(hits, catalog, es), elig)
<1> DEFINE le == LiveEdges(hits, catalog, es)
           base == [id \in HitIds(hits) |-> clamp01((CHOOSE h \in ToSet(hits) : h.c.id = id).score)]
           Boost(ds) == [id \in HitIds(hits) \cup StoredIds(catalog) |->
                           _synapse_boost(base, _incoming_activates(id, build_connectome_view(catalog, ds)))]
           R(boost) == [i \in DOMAIN hits |->
                   [c |-> hits[i].c,
                    score |-> clamp01(Weighed(base[hits[i].c.id] + boost[hits[i].c.id],
                                              hits[i].c.id, elig))]]
           X(boost, ds) == _moe_select(_expand_lift_hubs(R(boost), boost, _lift_hub_members(catalog, ds), catalog), catalog)
           F(x) == CASE hits = <<>>     -> <<>>
                     [] ~RoutingEnabled -> [i \in DOMAIN hits |-> [hits[i] EXCEPT !.score = clamp01(@)]]
                     [] OTHER -> x
<1>1. Boost(es) = Boost(le)
  <2> HIDE DEF base
  <2>1. \A id \in HitIds(hits) \cup StoredIds(catalog) :
           _incoming_activates(id, build_connectome_view(catalog, es)) = _incoming_activates(id, build_connectome_view(catalog, le))
    BY LiveIncoming
  <2> QED
    BY <2>1, Zenon
<1>2. X(Boost(es), es) = X(Boost(le), le)
  <2> HIDE DEF Boost, R
  <2>1. X(Boost(le), es) = X(Boost(le), le)
    BY LiveMembers, Zenon
  <2> HIDE DEF X
  <2> QED
    BY <1>1, <2>1
<1>3. \A ds : route(hits, catalog, ds, elig) = F(X(Boost(ds), ds))
  BY Zenon DEF route, HitIds
<1> HIDE DEF F, X, Boost
<1> QED
  BY <1>2, <1>3

\* concern.delete leaves the DCN's nodes and edges behind.  Whatever threads interleave and
\* whatever the store and the DCN hold, an edge with an end that is neither stored nor a hit
\* of this weave changes nothing in the routing.
THEOREM GhostsRouteNothing == Spec => []GhostsDoNotRoute
<1>1. GhostsDoNotRoute
  <2> SUFFICES ASSUME NEW hits
               PROVE  LET live == Ids(hits) \cup {c.id : c \in ToSet(store)}
                      IN  route(hits, store, edges, Elig)
                            = route(hits, store, {e \in edges : e.src \in live /\ e.dst \in live}, Elig)
    BY Zenon DEF GhostsDoNotRoute
  <2>1. LiveEdges(hits, store, edges)
          = LET live == Ids(hits) \cup {c.id : c \in ToSet(store)}
            IN  {e \in edges : e.src \in live /\ e.dst \in live}
    BY Zenon DEF LiveEdges, HitIds, StoredIds, Ids
  <2>2. route(hits, store, edges, Elig) = route(hits, store, LiveEdges(hits, store, edges), Elig)
    BY GhostEdges, Zenon
  <2> QED
    BY <2>1, <2>2, Zenon
<1> QED
  BY <1>1, PTL
=============================================================================
