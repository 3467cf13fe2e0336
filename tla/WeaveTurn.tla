------------------------------ MODULE WeaveTurn ------------------------------
(***************************************************************************)
(* The daemon at work: JSON-RPC requests and heartbeat ticks, each on its  *)
(* own thread of the HTTP server or the scheduler, over one runtime        *)
(* (ipc/jsonrpc_dispatch.py, core/runtime.py, loops/joinpoint_pipeline.py, *)
(* loops/event_loop.py).  Nothing serialises requests: only the stores and *)
(* the event queue have locks, so a weave is a sequence of steps between   *)
(* which any other request may change the stores, the resolver's and       *)
(* coordinator's escalations and the last vector and injection.            *)
(*                                                                         *)
(* A request runs a sequence of calls of on_joinpoint; a call runs one or  *)
(* more jobs, a job being one run of the pipeline.                         *)
(***************************************************************************)
EXTENDS Authoring

CONSTANTS Threads,
          Scenarios,    \* initial catalog, DCN edges, automation settings, the requests
                        \* the hosts send and how many of them
          Elig          \* the eligibility field, or None

\* The dispatcher's methods that run the pipeline or change its stores, what the
\* dispatcher refuses itself, host events and the heartbeat's tick.
RequestKinds == {"submit", "extract", "upsert", "delete", "connectome_route", "snapshot", "event",
                 "tick", "bad_envelope", "unknown_method", "bad_params"}

ASSUME ScenarioAssumption ==
  \A s \in Scenarios : \A t \in Threads : \A r \in s.offers[t] : r.kind \in RequestKinds

VARIABLES
  store,          \* the memory store: concerns in dict order
  db,             \* the sqlite store, driven with the same operations
  edges,          \* the edges of the DCN
  nodes,          \* ids of the DCN's nodes
  log,            \* activation log: set of [weave, cid, jp, score]
  lastVector, lastInjection,      \* JoinpointPipeline._last_*: [weave, rows] or None
  resolverEsc, coordEsc,          \* _last_escalations of resolver and coordinator
  queue,          \* EventLoop._queue
  notified,       \* what the co-activation recorder was told
  auto,           \* JoinpointAutomation
  offers,         \* per thread, the requests the hosts may send it
  left,           \* requests the environment may still send
  loc             \* per thread: the request it serves and where it is

vars == <<store, db, edges, nodes, log, lastVector, lastInjection, resolverEsc, coordEsc,
          queue, notified, auto, offers, left, loc>>
stores == <<store, db>>
dcn == <<nodes, log>>
last == <<lastVector, lastInjection>>
escs == <<resolverEsc, coordEsc>>
fixed == <<edges, auto, offers>>

Idle == [pc |-> "idle", req |-> None, calls |-> <<>>, call |-> None, jobs |-> <<>>,
         job |-> None, hits |-> <<>>, vector |-> <<>>, esc |-> {}, advices |-> <<>>,
         inj |-> None, merged |-> None, advised |-> FALSE, todo |-> <<>>, seen |-> None,
         overlap |-> FALSE, outcome |-> None,
         seq |-> 0]

Init ==
  \E s \in Scenarios :
    /\ store = s.catalog
    /\ db = FoldLeft(SqlUpsert, SqlEmpty, s.catalog)
    /\ edges = s.edges
    /\ nodes = UNION {{e.src, e.dst} : e \in s.edges}
    /\ log = {} /\ lastVector = None /\ lastInjection = None
    /\ resolverEsc = [weave |-> None, ids |-> {}]
    /\ coordEsc = [weave |-> None, ids |-> {}]
    /\ queue = <<>> /\ notified = {}
    /\ auto = s.auto
    /\ offers = s.offers
    /\ left = s.requests
    /\ loc = [t \in Threads |-> Idle]

-----------------------------------------------------------------------------
(* The control of one request: which pipeline run comes next.              *)
Call(jp, ctx, none, preserve, direct) ==
  [jp |-> jp, ctx |-> ctx, none |-> none, preserve |-> preserve, direct |-> direct]

Job(jps, root, surface, none, preserve) ==
  [jps |-> jps, root |-> root, surface |-> surface, none |-> none, preserve |-> preserve]

_should_expand_prompt_surface(jp) ==
  /\ auto.expand
  /\ IF "expand" \in DOMAIN jp.payload THEN jp.payload.expand
     ELSE DOMAIN jp.payload \cap {"messages", "copr"} # {}

Surface(call) == ~call.direct /\ _should_expand_prompt_surface(call.jp)

\* The runs a call starts with: one for the surface, one per child
\* joinpoint, or one for a joinpoint that is not expanded.
JobsOf(call) ==
  LET jp == call.jp
      all == expand(jp, auto)
  IN  CASE ~Surface(call) -> <<Job(<<jp>>, jp, FALSE, call.none, call.preserve)>>
        [] Surface(call) /\ auto.batch -> <<Job(all, jp, TRUE, call.none, FALSE)>>
        [] OTHER -> [i \in DOMAIN all |-> Job(<<all[i]>>, all[i], FALSE, TRUE, TRUE)]

Reply(l, outcome) ==
  [l EXCEPT !.pc = "reply", !.outcome = IF l.req.notify THEN None ELSE outcome,
            !.calls = <<>>, !.call = None, !.jobs = <<>>, !.job = None,
            !.hits = <<>>, !.vector = <<>>, !.advices = <<>>, !.seen = None]

StartJob(l, jobs) ==
  [l EXCEPT !.pc = "scan", !.job = Head(jobs), !.jobs = Tail(jobs), !.hits = <<>>,
            !.vector = <<>>, !.esc = {}, !.advices = <<>>, !.inj = None, !.todo = <<>>,
            !.seen = None, !.overlap = FALSE]

\* A surface that cannot be parsed raises out of the whole request.
StartCall(l, calls) ==
  LET call == Head(calls)
  IN  IF Surface(call) /\ UnparsableSurface(call.jp.payload) THEN Reply(l, "internal_error")
      ELSE StartJob([l EXCEPT !.calls = Tail(calls), !.call = call, !.merged = None,
                              !.advised = FALSE], JobsOf(call))

\* After a run (_run_joinpoint_surface): the remaining children; the root
\* itself when no child gave anything and the host wants an answer; the
\* adviceexecution joinpoint once anything was injected; the next call.
Advance(l, inj) ==
  LET children == Surface(l.call) /\ ~auto.batch /\ ~l.advised /\ l.job.none
      merged == IF children \/ l.advised THEN merge_injections(l.merged, inj) ELSE inj
      done   == [l EXCEPT !.merged = merged]
      root   == l.call.jp
  IN  CASE l.jobs # <<>> -> StartJob(done, l.jobs)
        [] l.jobs = <<>> /\ children /\ merged = None /\ ~l.call.none ->
             StartJob(done, <<Job(<<root>>, root, FALSE, FALSE, FALSE)>>)
        [] l.jobs = <<>> /\ Surface(l.call) /\ auto.emit /\ ~l.advised
             /\ merged # None /\ merged # <<>> ->
             LET ae == adviceexecution_joinpoint(root, {r.cid : r \in ToSet(merged)})
             IN  StartJob([done EXCEPT !.advised = TRUE], <<Job(<<ae>>, ae, FALSE, TRUE, TRUE)>>)
        [] OTHER -> IF l.calls # <<>> THEN StartCall(done, l.calls) ELSE Reply(done, "result")

-----------------------------------------------------------------------------
(* jsonrpc_dispatch.handle: an invalid envelope is always answered, a      *)
(* valid request without an id never is.  A request with invalid params    *)
(* changes nothing.                                                        *)
Begin(t, r) ==
  LET l == [Idle EXCEPT !.req = r, !.seq = left]
      own == [l EXCEPT !.req.notify = FALSE]
      text == CASE r.kind = "submit" -> ChatToExtract(r.jp, r.extract, auto)
                [] r.kind = "extract" -> r.text
                [] OTHER -> <<>>
  IN  CASE r.kind = "bad_envelope" -> Reply(own, "invalid_request")
        [] r.kind = "unknown_method" -> Reply(l, "method_not_found")
        [] r.kind = "bad_params" -> Reply(l, "invalid_params")
        [] r.kind \in {"submit", "extract"} /\ text # <<>> ->
             [l EXCEPT !.pc = "extract"]
        [] r.kind = "submit" /\ text = <<>> ->
             StartCall(l, <<Call(r.jp, r.context, r.none, FALSE, FALSE)>>)
        [] OTHER -> [l EXCEPT !.pc = r.kind]

handle(t, r) ==
  /\ loc[t].pc = "idle"
  /\ left > 0
  /\ left' = left - 1
  /\ loc' = [loc EXCEPT ![t] = Begin(t, r)]
  /\ UNCHANGED <<stores, dcn, last, escs, queue, notified, fixed>>

Answer(t) ==
  /\ loc[t].pc = "reply"
  /\ loc' = [loc EXCEPT ![t] = Idle]
  /\ UNCHANGED <<stores, dcn, last, escs, queue, notified, left, fixed>>

_concern_upsert(t) ==
  /\ loc[t].pc = "upsert"
  /\ LET c == _sync_aop_executable_shape(loc[t].req.c)
     IN  store' = MemUpsert(store, c) /\ db' = SqlUpsert(db, c)
  /\ loc' = [loc EXCEPT ![t] = Reply(@, "result")]
  /\ UNCHANGED <<dcn, last, escs, queue, notified, left, fixed>>

\* The DCN's node and edges stay.
_concern_delete(t) ==
  /\ loc[t].pc = "delete"
  /\ store' = MemDelete(store, loc[t].req.id)
  /\ db' = SqlDelete(db, loc[t].req.id)
  /\ loc' = [loc EXCEPT ![t] = Reply(@, "result")]
  /\ UNCHANGED <<dcn, last, escs, queue, notified, left, fixed>>

\* connectome.route: a scan and a route that publish nothing.
route_joinpoint(t) ==
  /\ loc[t].pc = "connectome_route"
  /\ loc' = [loc EXCEPT ![t] = Reply(@, "result")]
  /\ UNCHANGED <<stores, dcn, last, escs, queue, notified, left, fixed>>

\* runtime.snapshot reads _last_vector twice: once to test it, once to count.
snapshot(t) ==
  /\ loc[t].pc = "snapshot"
  /\ loc' = [loc EXCEPT ![t] = IF lastVector = None THEN Reply(@, "result")
                               ELSE [@ EXCEPT !.pc = "count"]]
  /\ UNCHANGED <<stores, dcn, last, escs, queue, notified, left, fixed>>

SnapshotCount(t) ==
  /\ loc[t].pc = "count"
  /\ loc' = [loc EXCEPT ![t] = Reply(@, IF lastVector = None THEN "internal_error" ELSE "result")]
  /\ UNCHANGED <<stores, dcn, last, escs, queue, notified, left, fixed>>

-----------------------------------------------------------------------------
(* concern.extract, and joinpoint.submit with extract_from_chat.           *)
AfterExtract(l) ==
  IF l.req.kind = "submit" THEN StartCall(l, <<Call(l.req.jp, l.req.context, l.req.none, FALSE, FALSE)>>)
  ELSE Reply(l, "result")

_concern_extract(t) ==
  /\ loc[t].pc = "extract"
  /\ LET l == loc[t]
         submit == l.req.kind = "submit"
         text == IF submit THEN ChatToExtract(l.req.jp, l.req.extract, auto) ELSE l.req.text
         result == extract(text, IF submit THEN "user_input" ELSE l.req.origin, l.req.ref)
         wanted == result.candidates # <<>> /\ (submit \/ ~l.req.dryRun)
     IN  loc' = [loc EXCEPT ![t] = IF result = None THEN Reply(l, "invalid_params")
                                   ELSE IF wanted
                                   THEN [l EXCEPT !.pc = "build", !.todo = result.candidates]
                                   ELSE AfterExtract(l)]
  /\ UNCHANGED <<stores, dcn, last, escs, queue, notified, left, fixed>>

\* build_or_update: the lookup and the upsert are two steps.
BuildLookup(t) ==
  /\ loc[t].pc = "build"
  /\ loc' = [loc EXCEPT ![t].pc = "put", ![t].seen = ById(store, Head(loc[t].todo).id)]
  /\ UNCHANGED <<stores, dcn, last, escs, queue, notified, left, fixed>>

BuildUpsert(t) ==
  /\ loc[t].pc = "put"
  /\ LET l == loc[t]
         c == Merged(l.seen, Head(l.todo))
         rest == [l EXCEPT !.pc = "build", !.todo = Tail(@), !.seen = None]
     IN  /\ store' = MemUpsert(store, c)
         /\ db' = SqlUpsert(db, c)
         /\ loc' = [loc EXCEPT ![t] = IF Len(l.todo) = 1 THEN AfterExtract(rest) ELSE rest]
  /\ UNCHANGED <<dcn, last, escs, queue, notified, left, fixed>>

-----------------------------------------------------------------------------
(* Events and ticks.                                                       *)
on_event(t) ==
  /\ loc[t].pc = "event"
  /\ queue' = Append(queue, loc[t].req.event)
  /\ loc' = [loc EXCEPT ![t] = Reply(@, "result")]
  /\ UNCHANGED <<stores, dcn, last, escs, notified, left, fixed>>

\* The heartbeat report, the drained events of known types, then the tick's
\* own joinpoint.  (Maintenance is the subject of other modules.)
tick(t) ==
  /\ loc[t].pc = "tick"
  /\ LET drained == IF auto.onEvents THEN queue ELSE <<>>
         jps == SelectSeq([i \in DOMAIN drained |-> joinpoint_from_event(drained[i])],
                          LAMBDA jp : jp # None)
         events == [i \in DOMAIN jps |-> Call(jps[i], <<>>, TRUE, FALSE, FALSE)]
         own == IF auto.onTick
                THEN <<Call(runtime_tick_joinpoint(loc[t].seq, Len(store)), <<>>, TRUE, TRUE, TRUE)>>
                ELSE <<>>
         calls == events \o own
     IN  /\ queue' = IF auto.onEvents THEN <<>> ELSE queue
         /\ loc' = [loc EXCEPT ![t] = IF calls = <<>> THEN Reply(@, "result")
                                      ELSE StartCall(@, calls)]
  /\ UNCHANGED <<stores, dcn, last, escs, notified, left, fixed>>

-----------------------------------------------------------------------------
(* One run of the pipeline (JoinpointPipeline.run and run_surface).        *)
Weave(l) == <<l.seq, l.job.root.id>>
_build_context(jp, extra) == extra @@ jp.payload
InWeave == {"coordinate", "publish", "advise", "weave", "record", "log", "notify", "telemetry"}

\* A write to the shared published state: weaves under way overlap.
Publishing(t, l) ==
  [u \in Threads |->
     IF u = t THEN [l EXCEPT !.overlap = @ \/ \E v \in Threads \ {t} : loc[v].pc \in InWeave]
     ELSE IF loc[u].pc \in InWeave \cup {"count"} THEN [loc[u] EXCEPT !.overlap = TRUE] ELSE loc[u]]

\* Per stored concern the best joinpoint of the surface, the first of equals.
BestHit(c, jps, extra) ==
  LET score == [i \in DOMAIN jps |-> match(primary_pointcut(c), jps[i],
                                           _build_context(jps[i], extra))]
      hits  == {i \in DOMAIN jps : score[i] # Miss}
      best  == {i \in hits : \A j \in hits : score[j] <= score[i]}
  IN  IF ~has_executable_pointcut(c) \/ hits = {} THEN None
      ELSE [c |-> c, score |-> score[Min(best)], jp |-> jps[Min(best)].id]

_scan_candidates(catalog, jps, extra) ==
  SelectSeq([i \in DOMAIN catalog |-> BestHit(catalog[i], jps, extra)], LAMBDA h : h # None)

Scan(t) ==
  /\ loc[t].pc = "scan"
  /\ loc' = [loc EXCEPT ![t].pc = "route",
                        ![t].hits = _scan_candidates(store, loc[t].job.jps, loc[t].call.ctx)]
  /\ UNCHANGED <<stores, dcn, last, escs, queue, notified, left, fixed>>

\* A surface run keeps only what it scanned itself; a plain run also the
\* members a lift hub brings in, which have no joinpoint of their own.
Routed(l) ==
  LET plain == [i \in DOMAIN l.hits |-> [c |-> l.hits[i].c, score |-> l.hits[i].score]]
      out   == route(plain, store, edges, Elig)
      score == [id \in Ids(out) |-> (CHOOSE r \in ToSet(out) : r.c.id = id).score]
      kept  == SelectSeq(l.hits, LAMBDA h : h.c.id \in Ids(out))
  IN  IF l.job.surface
      THEN [i \in DOMAIN kept |-> [kept[i] EXCEPT !.score = score[kept[i].c.id]]]
      ELSE [i \in DOMAIN out |-> [c |-> out[i].c, score |-> out[i].score, jp |-> l.job.root.id]]

Route(t) ==
  /\ loc[t].pc = "route"
  /\ LET l == loc[t]
         routed == Routed(l)
         empty == routed = <<>> /\ l.job.none
     IN  IF empty
         THEN /\ lastVector' = IF l.job.preserve THEN lastVector ELSE None
              /\ lastInjection' = IF l.job.preserve THEN lastInjection ELSE None
              /\ loc' = IF l.job.preserve THEN [loc EXCEPT ![t] = Advance(l, None)]
                        ELSE Publishing(t, Advance(l, None))
         ELSE /\ loc' = [loc EXCEPT ![t].pc = "resolve", ![t].hits = routed]
              /\ UNCHANGED last
  /\ UNCHANGED <<stores, dcn, escs, queue, notified, left, fixed>>

\* Coordinator.coordinate with the catalog read now: rank, resolve (which
\* leaves its escalations in the resolver), budget.
Resolve(t) ==
  /\ loc[t].pc = "resolve"
  /\ LET l == loc[t]
         resolved == resolve(rank(l.hits, _build_context(l.job.root, l.call.ctx)), store)
         new == [l EXCEPT !.pc = "coordinate", !.vector = ActiveOf(resolved),
                          !.esc = escalations(resolved)]
     IN  /\ resolverEsc' = [weave |-> Weave(l), ids |-> escalations(resolved)]
         /\ loc' = Publishing(t, new)
  /\ UNCHANGED <<stores, dcn, last, coordEsc, queue, notified, left, fixed>>

coordinateSticky(t) ==
  /\ loc[t].pc = "coordinate"
  /\ coordEsc' = IF resolverEsc.ids = {} THEN coordEsc ELSE resolverEsc
  /\ loc' = [loc EXCEPT ![t].pc = "publish"]
  /\ UNCHANGED <<stores, dcn, last, resolverEsc, queue, notified, left, fixed>>

coordinate(t) ==
  /\ loc[t].pc = "coordinate"
  /\ coordEsc' = resolverEsc
  /\ loc' = [loc EXCEPT ![t].pc = "publish"]
  /\ UNCHANGED <<stores, dcn, last, resolverEsc, queue, notified, left, fixed>>

PublishVector(t) ==
  /\ loc[t].pc = "publish"
  /\ lastVector' = [weave |-> Weave(loc[t]), rows |-> loc[t].vector]
  /\ loc' = [loc EXCEPT ![t].pc = IF loc[t].vector = <<>> THEN "weave" ELSE "advise",
                        ![t].todo = [i \in DOMAIN loc[t].vector |-> loc[t].vector[i].cid]]
  /\ UNCHANGED <<stores, dcn, lastInjection, escs, queue, notified, left, fixed>>

\* _generate_advices: each active concern is read again; one that vanished
\* gets no advice.
Advise(t) ==
  /\ loc[t].pc = "advise"
  /\ LET l == loc[t]
         c == ById(store, Head(l.todo))
     IN  loc' = [loc EXCEPT ![t].todo = Tail(@),
                            ![t].advices = IF c = None THEN @ ELSE @ @@ (c.id :> generate(c)),
                            ![t].pc = IF Len(l.todo) = 1 THEN "weave" ELSE @]
  /\ UNCHANGED <<stores, dcn, last, escs, queue, notified, left, fixed>>

UniqueCids(rows) ==
  FoldLeft(LAMBDA acc, r : IF r.cid \in ToSet(acc) THEN acc ELSE Append(acc, r.cid), <<>>, rows)

\* The weaver renders the concerns as they were scanned with the advice as it
\* is now.
WeaveRows(t) ==
  /\ loc[t].pc = "weave"
  /\ LET l == loc[t]
         concerns == [id \in Ids(l.hits) |-> (CHOOSE h \in ToSet(l.hits) : h.c.id = id).c]
         rows == build(l.vector, concerns, l.advices)
     IN  /\ lastInjection' = [weave |-> Weave(l), rows |-> rows]
         /\ loc' = [loc EXCEPT ![t].inj = rows, ![t].advices = <<>>,
                               ![t].todo = UniqueCids(rows),
                               ![t].pc = IF rows = <<>> THEN "notify" ELSE "record"]
  /\ UNCHANGED <<stores, dcn, lastVector, escs, queue, notified, left, fixed>>

\* _record_activations: a concern that vanished is skipped; the lookup and the
\* two writes to the DCN are separate steps.
RecordLookup(t) ==
  /\ loc[t].pc = "record"
  /\ LET l == loc[t]
         gone == ById(store, Head(l.todo)) = None
         rest == Tail(l.todo)
     IN  loc' = [loc EXCEPT ![t].pc = IF ~gone THEN "log" ELSE IF rest = <<>> THEN "notify" ELSE @,
                            ![t].todo = IF gone THEN rest ELSE @]
  /\ UNCHANGED <<stores, dcn, last, escs, queue, notified, left, fixed>>

LogActivation(t) ==
  /\ loc[t].pc = "log"
  /\ LET l == loc[t]
         cid == Head(l.todo)
         jp == (CHOOSE h \in ToSet(l.hits) : h.c.id = cid).jp
         score == (CHOOSE a \in ToSet(l.vector) : a.cid = cid).score
     IN  /\ nodes' = nodes \cup {cid}
         /\ log' = log \cup {[weave |-> Weave(l), cid |-> cid, jp |-> jp, score |-> score]}
         /\ loc' = [loc EXCEPT ![t].pc = IF Len(l.todo) = 1 THEN "notify" ELSE "record",
                               ![t].todo = Tail(@)]
  /\ UNCHANGED <<stores, last, escs, queue, notified, left, fixed>>

\* The recorders are told the vector, injected or not; the reflex flag of each
\* is read from the store as it is now.
_notify_coactivation(t) ==
  /\ loc[t].pc = "notify"
  /\ LET l == loc[t]
         ids == {a.cid : a \in ToSet(l.vector)}
         hard == {id \in ids : ById(store, id) # None /\ ById(store, id).reflex}
     IN  notified' = IF ids = {} THEN notified
                     ELSE notified \cup {[weave |-> Weave(l), ids |-> ids, hard |-> hard]}
  /\ loc' = [loc EXCEPT ![t].pc = "telemetry"]
  /\ UNCHANGED <<stores, dcn, last, escs, queue, left, fixed>>

_emit_telemetry(t) ==
  /\ loc[t].pc = "telemetry"
  /\ loc' = [loc EXCEPT ![t] = Advance(@, @.inj)]
  /\ UNCHANGED <<stores, dcn, last, escs, queue, notified, left, fixed>>

-----------------------------------------------------------------------------
ThreadStep(t) ==
  \/ Answer(t) \/ _concern_upsert(t) \/ _concern_delete(t) \/ route_joinpoint(t)
  \/ snapshot(t) \/ SnapshotCount(t) \/ _concern_extract(t) \/ BuildLookup(t)
  \/ BuildUpsert(t) \/ on_event(t) \/ tick(t)
  \/ Scan(t) \/ Route(t) \/ Resolve(t) \/ coordinate(t) \/ PublishVector(t) \/ Advise(t)
  \/ WeaveRows(t) \/ RecordLookup(t) \/ LogActivation(t) \/ _notify_coactivation(t)
  \/ _emit_telemetry(t)

\* The hosts have nothing more to ask.
Rest == /\ \A t \in Threads : loc[t].pc = "idle" /\ (left = 0 \/ offers[t] = {})
        /\ UNCHANGED vars

Next == Rest \/ \E t \in Threads : ThreadStep(t) \/ \E r \in offers[t] : handle(t, r)

Spec == Init /\ [][Next]_vars

-----------------------------------------------------------------------------
(* Properties.                                                             *)

\* Threads are at labels of the code, and the store has one row per concern.
TypeOK ==
  /\ \A t \in Threads : loc[t].pc \in InWeave \cup
       {"idle", "reply", "upsert", "delete", "connectome_route", "snapshot", "count", "extract",
        "build", "put", "event", "tick", "scan", "route", "resolve"}
  /\ left \in Nat
  /\ Cardinality({c.id : c \in ToSet(store)}) = Len(store)

Version(hits, id) == (CHOOSE h \in ToSet(hits) : h.c.id = id).c

Contradict(a, b, hits, catalog) ==
  \/ b \in Targets(Version(hits, a), "suppresses")
  \/ b \in Targets(Version(hits, a), "conflicts_with")
  \/ <<a, b>> \in ToSet(build_precedence_beats(catalog))
  \/ \E r \in ToSet(Version(hits, a).relations) :
       r.target = b /\ r.type \in {"generalizes", "specializes"} /\ 2 * r.weight >= Unit

\* coordinator and resolver: whatever relations the candidates declare, cycles of
\* precedence, suppression and conflict across the four passes included, and in
\* whatever order they rank, the vector never holds two concerns of which one
\* duplicates, beats, suppresses or conflicts with the other.  A concern that relates
\* so to itself is never in it, and only such a candidate lets the passes eliminate
\* everybody: it drops itself after it has dropped the others, or is the only one.
ResolvesSoundly ==
  [][\A t \in Threads : loc[t].pc = "resolve" /\ loc'[t].pc = "coordinate" =>
       LET hits == loc[t].hits
           chosen == {x.cid : x \in ToSet(loc'[t].vector)}
       IN  /\ \A a, b \in chosen : ~Contradict(a, b, hits, store)
           /\ hits # <<>> /\ chosen = {} =>
                \E e \in ToSet(hits) : Contradict(e.c.id, e.c.id, hits, store)]_vars

\* budget.py calls its estimate an upper bound of what the weaver emits.  Where
\* a concern has its own advice, unchanged since the scan and not cut, it is:
\* the weaver's budget drops nothing the coordinator's budget admitted.
AdmittedIsWoven ==
  [][\A t \in Threads : loc[t].pc = "weave" /\ loc'[t].pc # "weave" =>
       LET l == loc[t]
           Faithful(id) == LET c == Version(l.hits, id)
                               cap == IF primary_weaving(c) = None THEN DefaultPolicy.max
                                      ELSE primary_weaving(c).max
                           IN  /\ c.advice # None
                               /\ id \in DOMAIN l.advices
                               /\ l.advices[id] = c.advice
                               /\ c.advice.chars <= 4 * cap
                               /\ c.advice.max # None => c.advice.chars <= 4 * c.advice.max
       IN  (\A a \in ToSet(l.vector) : Faithful(a.cid)) => Len(loc'[t].inj) = Len(l.vector)]_vars

\* Resolver, coordinator and pipeline keep what the last weave published in
\* plain attributes.  A weave that no other weave overlapped finds its own
\* escalations when it emits telemetry, and leaves a vector and an injection
\* of the same weave behind.
AloneOwnsPublished ==
  \A t \in Threads :
    LET l == loc[t] IN
    ~l.overlap =>
      /\ l.pc \in {"publish", "advise", "weave", "record", "log", "notify", "telemetry"} =>
           coordEsc = [weave |-> Weave(l), ids |-> l.esc]
      /\ l.pc \in {"record", "log", "notify", "telemetry"} =>
           lastVector.weave = Weave(l) /\ lastInjection.weave = Weave(l)

\* concern.delete leaves the DCN's nodes and edges: an edge with an end that is
\* neither stored nor a hit of this weave changes nothing in the routing.
GhostsDoNotRoute ==
  \A t \in Threads : loc[t].pc = "route" =>
    LET hits == [i \in DOMAIN loc[t].hits |-> [c |-> loc[t].hits[i].c, score |-> loc[t].hits[i].score]]
        live == Ids(hits) \cup {c.id : c \in ToSet(store)}
    IN  route(hits, store, edges, Elig)
          = route(hits, store, {e \in edges : e.src \in live /\ e.dst \in live}, Elig)

Agree(mem, sql) ==
  LET View(c) == <<c.id, primary_pointcut(c), primary_advice(c), primary_weaving(c)>>
      Same(s, q) == [i \in DOMAIN s |-> View(s[i])] = [i \in DOMAIN q |-> View(q[i])]
      Filters == [kind : {None, "meta_concern"}, state : {None, "active"}, tag : {None, "tool"},
                  limit : {None, 1}]
      Folds(c) == \A w \in SearchedText(c) : sqlite_lower(w) = py_lower(w)
      Folded(s) == SelectSeq(s, Folds)
  IN  /\ Same(mem, SqlIterAll(sql))
      /\ ToSet(build_precedence_beats(mem)) = ToSet(build_precedence_beats(SqlIterAll(sql)))
      /\ \A f \in Filters : Same(MemList(mem, f), SqlList(sql, f))
      /\ \A w \in {"Alpha", "beta", "omega"}, limit \in {0, 1, 20} :
           LET m == MemSearch(mem, w, limit)
               q == SqlSearch(sql, w, limit)
           IN  /\ (\A c \in ToSet(mem) : Folds(c)) => Same(m, q)
               /\ limit = 20 => /\ Same(Folded(m), Folded(q))
                                /\ {c.id : c \in ToSet(q)} \subseteq {c.id : c \in ToSet(m)}

\* The two store backends give the same concerns in the same order to list and
\* iter_all after every write, and a row, validated again when it is read, matches,
\* advises, weaves and beats as the memory store's copy does.  search answers alike
\* as long as no text has a capital outside ASCII; with one, the sqlite store finds
\* nothing that the memory store does not, and misses only concerns with such a text.
StoresAgree == [][store' # store \/ db' # db => Agree(store', db')]_vars

\* Re-extraction: when nobody wrote the concern between the builder's lookup
\* and its upsert, a pointcut, advice or policy the store has is kept and the
\* lifecycle state does not go back, unless it was created or deleted.
ExtractKeepsCustomisation ==
  [][\A t \in Threads :
       LET l == loc[t] IN
       l.pc = "put" /\ loc'[t].pc # "put" /\ l.seen # None
         /\ ById(store, Head(l.todo).id) = l.seen =>
         LET new == ById(store', Head(l.todo).id)
         IN  /\ \A f \in {"pointcut", "advice", "policy"} : l.seen[f] # None => new[f] = l.seen[f]
             /\ new.relations = l.seen.relations
             /\ l.seen.state \notin {"created", "deleted"} => new.state = l.seen.state]_vars

=============================================================================
