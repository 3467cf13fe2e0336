-------------------------- MODULE OpenClawBridge --------------------------
(***************************************************************************)
(* The OpenClaw bridge (integrations/openclaw-opencoat-bridge, index.ts,   *)
(* daemon.ts, hook-bindings.ts) with the daemon, the Python plugin and the *)
(* observers of the modules below it.                                      *)
(*                                                                         *)
(* The host calls hooks in lanes: the hooks of a lane one after the other, *)
(* lanes concurrently.  A handler runs without interruption up to its      *)
(* `await` and from there to its end, so a step of a lane is the part      *)
(* before the daemon's answer or the part after it.  The answer may also   *)
(* be an error or a timeout, and then the daemon may have woven or not.    *)
(* A hook event is [hook, run, session, tool, words, cut, fields, opaque,  *)
(* error, messages, message, depth, stream, phase].                        *)
(***************************************************************************)
EXTENDS Observers

CONSTANT Scenarios              \* what the environment does; sc is one of them

ASSUME ScenarioAssumption ==
  \A s \in Scenarios :
    /\ s.pyEvents \in Seq(ToSet(s.pyEvents)) /\ s.hostSteps \in Seq(ToSet(s.hostSteps))
    \* a task that has ended has ended for good
    /\ \A i, j \in DOMAIN s.hostSteps :
         i < j /\ s.hostSteps[i].session = s.hostSteps[j].session =>
           \A t \in DOMAIN s.hostSteps[i].tasks \cap DOMAIN s.hostSteps[j].tasks :
             Ended(s.hostSteps[i].tasks[t]) => Ended(s.hostSteps[j].tasks[t])
    /\ \A l \in DOMAIN s.lanes : \A i \in DOMAIN s.lanes[l] :
         s.lanes[l][i].session \in Sessions \cup {None}
    /\ \A l \in DOMAIN s.lanes : s.lanes[l] \in Seq(ToSet(s.lanes[l]))
    /\ \A rows \in s.replies : /\ rows \in Seq(ToSet(rows))
                               /\ \A i \in DOMAIN rows : "weave" \in DOMAIN rows[i]

ASSUME NoneAssumption == None # "reply_run.before_begin"

VARIABLES
  runtime,        \* reflexState.runtime: the policies of the monitor, or None
  loading,        \* loadReflexRuntime is under way
  pendingByRun,   \* run key -> rows waiting for a prompt (<<>>: no entry)
  lastReflex,     \* lastReflexByRunTool: <<run, tool>> -> record or None
  lanes,          \* lane -> [pos, pc, result]: next event, idle or waiting, last result
  posts,          \* fire-and-forget requests under way
  remembered,     \* history: the weaves whose rows were remembered for a prompt
  folded,         \* history: [weave, run, prompt] of the rows folded into prompts
  outcomes        \* history: tool outcomes with the guard decision they credit

bridgeVars == <<runtime, loading, pendingByRun, lastReflex, lanes, posts, remembered,
                folded, outcomes>>
vars == <<sc, daemonVars, rt, pyVars, obsVars, bridgeVars>>

cfg == sc.cfg
Event(l) == sc.lanes[l][lanes[l].pos]
Ctx(ev) == [run |-> ev.run, session |-> ev.session]

\* daemon.ts
runKey(ev) ==
  IF ev.run # None THEN ev.run ELSE IF ev.session # None THEN ev.session ELSE "default"

\* The code joins the two with a colon, which tells two pairs apart as long as no tool
\* name has one.
reflexToolKey(run, tool) == <<run, tool>>

RunKeys == {runKey(ev) : ev \in UNION {ToSet(sc.lanes[l]) : l \in DOMAIN sc.lanes}}
Tools == {ev.tool : ev \in UNION {ToSet(sc.lanes[l]) : l \in DOMAIN sc.lanes}}

inProcReflexEnabled == cfg.inproc
parseInlineReflexPolicies == parseReflexPolicyExport(cfg.inline)
Config == [inline |-> parseInlineReflexPolicies, demo |-> cfg.demo]

\* hook-bindings.ts; every hook that is not listed is observed.
Kind(hook) ==
  CASE hook = "message_received"     -> "buffer_input"
    [] hook = "before_prompt_build"  -> "prompt_fold"
    [] hook = "before_tool_call"     -> "tool_guard"
    [] hook = "message_sending"      -> "message_out"
    [] hook = "subagent_spawning"    -> "subagent_spawn"
    [] hook = "queue_before_enqueue" -> "queue_guard"
    [] hook = "before_message_write" -> "memory_write"
    [] hook = "tool_result_persist"  -> "tool_result_persist"
    [] hook = "agent_event"          -> "agent_event"
    [] hook = "session_compact"      -> "compact"
    [] OTHER                         -> "observe"

GuardKinds == {"tool_guard", "message_out", "subagent_spawn", "queue_guard"}

Init ==
  /\ sc \in Scenarios
  /\ InitDaemon /\ InitPy /\ InitObservers
  \* register
  /\ runtime = IF inProcReflexEnabled THEN buildReflexRuntime(Config, <<>>) ELSE None
  /\ loading = inProcReflexEnabled
  /\ pendingByRun = [r \in RunKeys |-> <<>>]
  /\ lastReflex = [k \in RunKeys \X Tools |-> None]
  /\ lanes = [l \in DOMAIN sc.lanes |-> [pos |-> 1, pc |-> "idle", result |-> Unchanged]]
  /\ posts = {} /\ remembered = {} /\ folded = {} /\ outcomes = {}

-----------------------------------------------------------------------------
(* loadReflexRuntime: once, after registration.  A request that fails      *)
(* counts as an empty export; an answer that is no JSON is thrown, and the *)
(* runtime stays.                                                          *)
Fetches == cfg.enabled /\ cfg.sync

_reflex_policies_export == export_reflex_policies(concerns)

SyncLoaded ==
  /\ loading
  /\ \/ /\ Fetches
        /\ runtime' = buildReflexRuntime(Config,
                        parseReflexPolicyExport(_reflex_policies_export))
     \/ /\ ~Fetches \/ sc.faults
        /\ runtime' = buildReflexRuntime(Config, <<>>)
     \/ /\ Fetches /\ sc.faults
        /\ UNCHANGED runtime
  /\ loading' = FALSE
  /\ UNCHANGED <<sc, daemonVars, rt, pyVars, obsVars, pendingByRun, lastReflex, lanes, posts,
                 remembered, folded, outcomes>>

-----------------------------------------------------------------------------
(* Handlers up to their await                                              *)
Done(l, result) == [lanes EXCEPT ![l] = [pos |-> @.pos + 1, pc |-> "idle", result |-> result]]
Awaiting(l) == [lanes EXCEPT ![l] = [pos |-> @.pos, pc |-> "await", result |-> @.result]]

\* The weave, guard decision or record of lane l's current event.
Mark(l) == <<l, lanes[l].pos>>

\* appendRtRecord, the audit and the observer: nothing is sent by a disabled bridge.
Post(l, kind, rec) ==
  IF /\ cfg.enabled
     /\ kind = "audit" => cfg.audit
     /\ kind = "r_t" => cfg.emitRt
  THEN {[mark |-> Mark(l), kind |-> kind, rec |-> rec]} ELSE {}

\* The tool call whose parameters cannot be serialised: the payload is built before
\* the try, so the handler rejects.
Rejected == Result(FALSE, <<"rejected">>, None)
Rejects(ev) == Kind(ev.hook) = "tool_guard" /\ ev.opaque

RejectsTool(l) ==
  /\ Rejects(Event(l))
  /\ lanes' = Done(l, Rejected)
  /\ UNCHANGED <<posts, lastReflex, queueDepth, runningRuns, seen>>

\* The in-process guards of index.ts.  The tool guard is audited, reports a block
\* and remembers any other verdict of a policy for the outcome of the call.
GuardAction(ev) ==
  LET payload == buildPayloadForHook(ev.hook, ev)
  IN  CASE Kind(ev.hook) = "tool_guard"     -> buildToolCallAction(ev)
        [] Kind(ev.hook) = "message_out"    -> buildPayloadAction("message_out", payload)
        [] Kind(ev.hook) = "subagent_spawn" -> buildPayloadAction("spawn", payload)
        [] Kind(ev.hook) = "queue_guard"    -> buildPayloadAction("queue_enqueue", payload)

GuardResult(kind, d) ==
  CASE kind = "tool_guard"  -> reflexToolGuardDecision(d)
    [] kind = "message_out" -> reflexMessageGuardDecision(d)
    [] kind \in {"subagent_spawn", "queue_guard"} -> reflexDenyDecision(d)

GuardInProc(l) ==
  LET ev     == Event(l)
      kind   == Kind(ev.hook)
      action == GuardAction(ev)
      d      == mediate(runtime, action)
      record == DecisionRecord(d, action)
      closed == runtime = None \/ ~Serialises(ev.hook, ev)
      key    == reflexToolKey(runKey(ev), ev.tool)
      tool   == kind = "tool_guard" /\ ~closed
  IN  /\ kind \in GuardKinds /\ inProcReflexEnabled /\ ~Rejects(ev)
      /\ lanes' = Done(l, IF closed THEN FailClosed ELSE GuardResult(kind, d))
      /\ posts' = posts \cup
           (IF tool THEN Post(l, "audit", None) \cup
                         (IF d.kind = "deny"
                          THEN Post(l, "r_t", buildToolBlockedRt(Ctx(ev), ev.tool, record))
                          ELSE {})
            ELSE {})
      /\ lastReflex' = IF tool /\ d.kind = "rewrite"
                       THEN [lastReflex EXCEPT ![key] = [mark |-> Mark(l), record |-> record]]
                       ELSE lastReflex
      /\ UNCHANGED <<queueDepth, runningRuns, seen>>

\* The two synchronous hooks are registered with the in-process guards only.
SyncHook(l) ==
  LET ev == Event(l)
  IN  /\ Kind(ev.hook) \in {"memory_write", "tool_result_persist"}
      /\ lanes' = Done(l, IF ~inProcReflexEnabled THEN Unchanged
                          ELSE IF Kind(ev.hook) = "memory_write"
                          THEN handleBeforeMessageWriteSync(runtime, ev.message)
                          ELSE handleToolResultPersistSync(runtime, ev.message, ev.tool))
      /\ UNCHANGED <<posts, lastReflex, queueDepth, runningRuns, seen>>

AgentEvent(l) ==
  LET ev == Event(l)
  IN  /\ Kind(ev.hook) = "agent_event"
      /\ lanes' = Done(l, Unchanged)
      /\ seen' = Noted(Noted(seen, agentEventJoinpoint(ev), ev.run),
                       RunningJoinpoint(ev, runningRuns), ev.run)
      /\ runningRuns' = RunsAfter(ev, runningRuns)
      /\ posts' = posts \cup UNION {Post(l, "observe", jp) : jp \in AgentJoinpoints(ev, runningRuns)}
      /\ UNCHANGED <<lastReflex, queueDepth>>

\* Every other hook goes to the daemon; a blank user message does not.
Submits(l) ==
  LET ev == Event(l)
      blank == ev.hook = "message_received" /\ ev.words = {}
  IN  /\ \/ Kind(ev.hook) \in {"buffer_input", "prompt_fold", "observe", "compact"}
         \/ Kind(ev.hook) \in GuardKinds /\ ~inProcReflexEnabled /\ ~Rejects(ev)
      /\ lanes' = IF blank THEN Done(l, Unchanged) ELSE Awaiting(l)
      /\ queueDepth' = IF ev.hook = "queue_after_enqueue"
                       THEN recordQueueDepthSnapshot(ev.session, ev.depth) ELSE queueDepth
      /\ UNCHANGED <<posts, lastReflex, runningRuns, seen>>

Fire(l) ==
  /\ lanes[l].pc = "idle" /\ lanes[l].pos <= Len(sc.lanes[l])
  /\ RejectsTool(l) \/ GuardInProc(l) \/ SyncHook(l) \/ AgentEvent(l) \/ Submits(l)
  /\ tracked' = IF Kind(Event(l).hook) \in {"memory_write", "tool_result_persist"}
                THEN tracked ELSE trackSessionKey(Event(l).session, tracked)
  /\ UNCHANGED <<sc, daemonVars, rt, pyVars, host, hostSteps, taskStatus, polls, runtime,
                 loading, pendingByRun, remembered, folded, outcomes>>

-----------------------------------------------------------------------------
(* Handlers after their await                                              *)
rememberInjection(run, rows) == [pendingByRun EXCEPT ![run] = mergeInjections(@, rows)]

\* What a prompt folds, and what it leaves waiting.
takePending(run) == pendingByRun[run]

\* Mutant of PendingAfterFold: the entry of the run is not deleted.
PendingKept(run, rows) == rememberInjection(run, rows)

PendingAfterFold(run, rows) == [pendingByRun EXCEPT ![run] = <<>>]

Remembers(rows) == remembered' = remembered \cup {r.weave : r \in ToSet(rows)}

DaemonGuard(kind, rows) ==
  LET of(d) == Result(d.block, d.reason, None)
      queue == queueBeforeEnqueueDecision(rows)
  IN  CASE kind = "tool_guard"     -> of(guardToolCall(rows))
        [] kind = "message_out"    -> of(messageSendingDecision(rows))
        [] kind = "subagent_spawn" -> of(subagentSpawnDecision(rows))
        [] kind = "queue_guard"    -> [of(queue) EXCEPT !.new = <<queue.prompt, queue.summary>>]

AnswerBuffer(l, rows) ==
  LET run == runKey(Event(l))
  IN  /\ Kind(Event(l).hook) = "buffer_input"
      /\ pendingByRun' = rememberInjection(run, rows)
      /\ Remembers(rows)
      /\ lanes' = Done(l, Unchanged)
      /\ UNCHANGED <<lastReflex, posts, folded, outcomes>>

\* The rows of this weave are both remembered and merged: the fold drops the copy.
AnswerPrompt(l, rows) ==
  LET run    == runKey(Event(l))
      merged == mergeInjections(mergeInjections(takePending(run), rows), rows)
      chunks == foldPromptInjection(merged)
  IN  /\ Kind(Event(l).hook) = "prompt_fold"
      /\ pendingByRun' = PendingAfterFold(run, rows)
      /\ Remembers(rows)
      /\ folded' = folded \cup {[weave |-> r.weave, run |-> run, prompt |-> Mark(l)] :
                                  r \in ToSet(merged)}
      /\ lanes' = Done(l, Result(FALSE, <<>>, chunks))
      /\ UNCHANGED <<lastReflex, posts, outcomes>>

AnswerGuard(l, rows) ==
  /\ Kind(Event(l).hook) \in GuardKinds
  /\ lanes' = Done(l, DaemonGuard(Kind(Event(l).hook), rows))
  /\ UNCHANGED <<pendingByRun, lastReflex, posts, remembered, folded, outcomes>>

\* Mutant of Forgotten: the record stays.
NotForgotten(key) == lastReflex

\* The outcome of a tool call takes the verdict remembered for its run and tool.
Forgotten(key) == [lastReflex EXCEPT ![key] = None]

AnswerObserve(l) ==
  LET ev   == Event(l)
      key  == reflexToolKey(runKey(ev), ev.tool)
      last == lastReflex[key]
      reflex == IF last = None THEN None ELSE last.record
      rec  == CASE ev.hook = "after_tool_call" -> buildToolOutcomeRt(Ctx(ev), ev, reflex)
                [] ev.hook = "llm_output"      -> buildLlmOutputRt(Ctx(ev))
                [] ev.hook = "agent_end"       -> buildTurnCompleteRt(Ctx(ev), ev)
      credits == cfg.emitRt /\ ev.hook = "after_tool_call"
  IN  /\ Kind(ev.hook) \in {"observe", "compact"}
      /\ posts' = posts \cup
           (IF cfg.emitRt /\ ev.hook \in {"after_tool_call", "llm_output", "agent_end"}
            THEN Post(l, "r_t", rec) ELSE {})
      /\ lastReflex' = IF credits THEN Forgotten(key) ELSE lastReflex
      /\ outcomes' = IF credits /\ last # None
                     THEN outcomes \cup {[of |-> Mark(l), credits |-> last.mark]} ELSE outcomes
      /\ lanes' = Done(l, Unchanged)
      /\ UNCHANGED <<pendingByRun, remembered, folded>>

Tagged(l, rows) == [i \in DOMAIN rows |-> [rows[i] EXCEPT !.weave = Mark(l)]]

\* submitJoinpoint returned: the daemon has woven, or the bridge is disabled.
Answer(l) ==
  /\ lanes[l].pc = "await" /\ Serialises(Event(l).hook, Event(l))
  /\ \E rows \in IF cfg.enabled THEN sc.replies ELSE {<<>>} :
       \/ AnswerBuffer(l, Tagged(l, rows)) \/ AnswerPrompt(l, Tagged(l, rows))
       \/ AnswerGuard(l, rows) \/ AnswerObserve(l)
  /\ \/ cfg.enabled /\ \E v \in sc.vectors : Weave(v)
     \/ ~cfg.enabled /\ UNCHANGED <<last_vector, turns>>
  /\ UNCHANGED <<sc, concerns, edits, rt, pyVars, obsVars, runtime, loading>>

\* submitJoinpoint threw (a payload that is no JSON, a refused connection, the
\* timeout, an HTTP or RPC error): the hook lets the host go on, pending advice stays.
Fail(l) ==
  /\ lanes[l].pc = "await"
  /\ ~Serialises(Event(l).hook, Event(l)) \/ (sc.faults /\ cfg.enabled)
  /\ lanes' = Done(l, Unchanged)
  /\ \/ UNCHANGED <<last_vector, turns>>
     \/ sc.faults /\ \E v \in sc.vectors : Weave(v)
  /\ UNCHANGED <<sc, concerns, edits, rt, pyVars, obsVars, runtime, loading, pendingByRun,
                 lastReflex, posts, remembered, folded, outcomes>>

-----------------------------------------------------------------------------
(* Fire-and-forget requests arrive in any order, or never.                 *)
Arrive(post) ==
  /\ posts' = posts \ {post}
  /\ \/ post.kind = "r_t" /\ rt' = Append(rt, post.rec) /\ UNCHANGED <<last_vector, turns>>
     \/ post.kind \in {"audit", "observe"} /\ UNCHANGED rt /\ \E v \in sc.vectors : Weave(v)
     \/ sc.faults /\ UNCHANGED <<rt, last_vector, turns>>
  /\ UNCHANGED <<sc, concerns, edits, pyVars, obsVars, runtime, loading, pendingByRun,
                 lastReflex, lanes, remembered, folded, outcomes>>

AtRest ==
  /\ \A l \in DOMAIN lanes : lanes[l].pos > Len(sc.lanes[l])
  /\ ~loading /\ posts = {} /\ edits = <<>> /\ hostSteps = <<>>
  /\ \A t \in DOMAIN turns : turns[t].pc \in {"done", "raised"}
  /\ pyEvents = <<>> /\ pyOps = <<>>
  /\ \A p \in DOMAIN polls : polls[p].stage = -1

Rest == AtRest /\ UNCHANGED vars

BridgeStep ==
  \/ SyncLoaded
  \/ \E l \in DOMAIN lanes : Fire(l) \/ Answer(l) \/ Fail(l)
  \/ \E post \in posts : Arrive(post)

Next ==
  \/ BridgeStep
  \/ EffectorNext /\ UNCHANGED <<pyVars, obsVars, bridgeVars>>
  \/ PyNext /\ UNCHANGED <<obsVars, bridgeVars>>
  \/ ObserverNext /\ UNCHANGED bridgeVars
  \/ Rest

Spec == Init /\ [][Next]_vars

-----------------------------------------------------------------------------
(* Properties                                                              *)

\* The bridge's variables hold values of their kinds: positions are within the lanes, the
\* monitor has at most one policy per id, and only rewrites are remembered for an outcome.
TypeOK ==
  /\ \A l \in DOMAIN lanes : /\ lanes[l].pos \in 1..Len(sc.lanes[l]) + 1
                             /\ lanes[l].pc \in {"idle", "await"}
  /\ runtime # None => \A i, j \in DOMAIN runtime : runtime[i].id = runtime[j].id => i = j
  /\ \A k \in DOMAIN lastReflex : lastReflex[k] # None => lastReflex[k].record.decision = "rewrite"
  /\ \A s \in Sessions : queueDepth[s] \in Nat
  /\ pyTaken \subseteq pyCaptured /\ Tags(pyPending) \subseteq pyCaptured

EventOf(mark) == sc.lanes[mark[1]][mark[2]]
Weaves(rows) == {r.weave : r \in ToSet(rows)}

\* Advice woven for a host is neither lost nor given twice (rememberInjection, takePending
\* and the fold of index.ts, with requests that fail in between): the rows of a remembered
\* weave wait under the key of their own run, or were folded into exactly one prompt of that
\* run.
AdviceConserved ==
  \A w \in remembered :
    LET run == runKey(EventOf(w))
        uses == {f \in folded : f.weave = w}
    IN  /\ \A f \in uses : f.run = run
        /\ Cardinality(uses) + Cardinality({r \in DOMAIN pendingByRun :
                                             w \in Weaves(pendingByRun[r])}) = 1
        /\ uses = {} => w \in Weaves(pendingByRun[run])

\* The same in the Python plugin (hooks.py): a captured entry is waiting or has been taken,
\* never both, and disappears only when it is captured while apply_to is between its two
\* halves.
BufferConserved ==
  pyApply.pc = "idle" =>
    /\ Tags(pyPending) \cap pyTaken = {}
    /\ ~pyRaced => pyCaptured = Tags(pyPending) \cup pyTaken

\* lastReflexByRunTool of index.ts: the verdict of a guard is credited to the outcome of
\* at most one tool call, and to one of the same run and tool (no tool name has the colon
\* of reflexToolKey in it).
CreditedOnce ==
  \A o \in outcomes :
    /\ runKey(EventOf(o.of)) = runKey(EventOf(o.credits))
    /\ EventOf(o.of).tool = EventOf(o.credits).tool
    /\ \A q \in outcomes : q.credits = o.credits => q = o

\* The lane has just handled its event without waiting for the daemon.
Handled(l) == lanes[l].pc = "idle" /\ lanes'[l].pos > lanes[l].pos

\* mergeDecisions of reflex-monitor.ts: a hook guarded in process is blocked exactly when
\* one of the monitor's policies that applies denies, wherever it comes in the order and
\* whatever the others say; without a monitor it is blocked too, and so is a message, spawn
\* or enqueue whose payload is no JSON.  A tool call whose parameters are no JSON is neither
\* let through nor blocked: the payload is built outside the try, the handler rejects, and
\* the host decides what that means.
StrictestWins ==
  [][\A l \in DOMAIN lanes :
       Handled(l) /\ inProcReflexEnabled /\ Kind(Event(l).hook) \in GuardKinds =>
         IF Kind(Event(l).hook) = "tool_guard" /\ Event(l).opaque
         THEN lanes'[l].result = Rejected
         ELSE lanes'[l].result.block <=>
                \/ runtime = None \/ ~Serialises(Event(l).hook, Event(l))
                \/ \E p \in ToSet(runtime) : /\ Applies(p, GuardAction(Event(l)))
                                             /\ p.effect # "rewrite"]_vars

\* tool_guard.py against injector.ts: the same rows block the same tool call, when the
\* rows about it name a part of it.
GuardsAgree ==
  pyOutcome # None
  /\ (\A r \in ToSet(pyOutcome.rows) : Head(r.target) = "tool_call" => Len(r.target) > 1)
  => pyOutcome.outcome.blocked = guardToolCall(pyOutcome.rows).block

\* What only the kernel's, and what only the bridge's, text of the arguments can hold.
PyOnly == {"spaced"} \cup {UnicodeEscape[w] : w \in DOMAIN UnicodeEscape}
TsOnly == {"compact"} \cup DOMAIN UnicodeEscape

\* What is written twice decides alike, as far as it reads alike.  reflex_monitor.py
\* ("mirror" of reflex-monitor.ts), over the policies of one export, if every policy id is
\* exported once: the kernel's monitor and the bridge's reach the same kind of verdict on
\* arguments that are JSON, if no needle spans the punctuation of JSON and none that occurs
\* in them has a letter outside ASCII.  With such needles, but for those in json.dumps' own
\* spelling, the kernel is never stricter than the bridge; on arguments that are no JSON
\* the bridge is never stricter than the kernel.  The two tool guards block alike.
TwinsAgree ==
  [][/\ GuardsAgree'
     /\ \A t \in DOMAIN turns :
          LET action  == turns[t].action
              rows    == export_reflex_policies(concerns)
              needles == UNION {r.terms : r \in ToSet(rows)}
              py      == turns'[t].decision
              ts      == mediate(buildReflexRuntime([inline |-> <<>>, demo |-> FALSE],
                                                    parseReflexPolicyExport(rows)),
                                 action).kind
          IN  /\ turns[t].pc = "mediate" /\ turns'[t].pc = "verify"
              /\ \A i, j \in DOMAIN rows : rows[i].id = rows[j].id => i = j
              => IF action.form # "json" THEN DECISION_RANK[ts] <= DECISION_RANK[py]
                 ELSE needles \cap PyOnly = {} =>
                        /\ DECISION_RANK[py] <= DECISION_RANK[ts]
                        /\ needles \cap TsOnly \cap serializeArgs(action) = {} => py = ts]_vars

\* kernel.py: the concern on whose account the kernel repairs a message was activated by
\* that turn, unless another weave replaced the pipeline's last vector meanwhile, and a
\* message into which a reflex policy wrote is not overwritten by the repair.
RepairsOwnTurn ==
  \A t \in DOMAIN turns : turns[t].repairedBy # None =>
    /\ turns[t].raced \/ turns[t].repairedBy \in turns[t].own
    /\ turns[t].policy = None

Count(name, about) == Cardinality({i \in DOMAIN seen : seen[i] = Joinpoint(name, about)})

\* runtime-observers.ts: overlapping polls report the end of a task at most once, and an end
\* only of a task whose creation some poll has reported or is reporting; a reply run is
\* reported as running at most once for each time it was reported to begin.
ReportedOnce ==
  \A i \in DOMAIN seen :
    /\ seen[i].name = "task.before_terminal" =>
         /\ Count("task.before_terminal", seen[i].about) = 1
         /\ \/ Count("task.before_create", seen[i].about) > 0
            \/ \E p \in DOMAIN polls :
                 Joinpoint("task.before_create", seen[i].about) \in polls[p].out
    /\ seen[i].name = "reply_run.phase.running" =>
         Count(seen[i].name, seen[i].about) <= Count("reply_run.before_begin", seen[i].about)
=============================================================================
