----------------------------- MODULE Observers -----------------------------
(***************************************************************************)
(* The bridge's runtime observers (runtime-observers.ts, emit-joinpoint.ts *)
(* and openclaw-internals.ts): agent events, and the poll of queue depths  *)
(* and task registries.  A poll is started by a timer whether or not the   *)
(* one before it has finished, and awaits the daemon between its stages.   *)
(* Observing never fails: errors are logged and swallowed.                 *)
(***************************************************************************)
EXTENDS HostHooks

CONSTANT Sessions               \* the session keys of the host

VARIABLES
  host,           \* the host's side: session -> [depth, tasks]
  hostSteps,      \* changes of the host's side still to come
  tracked,        \* trackedSessionKeys, in insertion order
  queueDepth,     \* queueDepthByKey (0: no entry)
  taskStatus,     \* taskStatusBySession: session -> (task -> status)
  runningRuns,
  polls,          \* the ticks of the timer: number -> [stage, out]
  seen            \* history: the joinpoints handed to observe, a sequence

obsVars == <<host, hostSteps, tracked, queueDepth, taskStatus, runningRuns, polls, seen>>

TERMINAL_TASK_STATUSES == {"succeeded", "failed", "timed_out", "cancelled", "lost"}

EmptyMap == [t \in {} |-> None]

InitObservers ==
  /\ host = [s \in Sessions |-> [depth |-> 0, tasks |-> EmptyMap]]
  /\ hostSteps = sc.hostSteps
  /\ tracked = <<>>
  /\ queueDepth = [s \in Sessions |-> 0]
  /\ taskStatus = [s \in Sessions |-> EmptyMap]
  /\ runningRuns = {}
  /\ polls = [p \in 1..sc.polls |-> [stage |-> 0, out |-> {}]]
  /\ seen = <<>>

trackSessionKey(session, keys) ==
  IF session = None \/ session \in ToSet(keys) THEN keys ELSE Append(keys, session)

\* The hook queue_after_enqueue reports the depth itself.
recordQueueDepthSnapshot(session, depth) ==
  IF session = None \/ depth = None THEN queueDepth ELSE [queueDepth EXCEPT ![session] = depth]

Joinpoint(name, about) == [name |-> name, about |-> about]

-----------------------------------------------------------------------------
(* Agent events: [stream, phase, run].                                     *)
agentEventJoinpoint(ev) ==
  CASE ev.stream = "lifecycle" /\ ev.phase = "start" -> "reply_run.before_begin"
    [] ev.stream = "lifecycle" /\ ev.phase = "error" -> "error.detected"
    [] ev.stream = "command_output" -> "command.output_stream"
    [] ev.stream = "patch" -> "patch.summary_created"
    [] ev.stream = "plan" -> "planning.plan_updated"
    [] ev.stream = "compaction" /\ ev.phase = "start" -> "before_memory_write"
    [] ev.stream = "compaction" /\ ev.phase = "end" -> "after_memory_write"
    [] ev.stream = "approval" /\ ev.phase = "requested" -> "approval.requested"
    [] OTHER -> None

agentEventRunningJoinpoint(ev) ==
  IF ev.stream \in {"assistant", "tool"} \/ (ev.stream = "item" /\ ev.phase = "start")
  THEN "reply_run.phase.running" ELSE None

\* The first sign of activity after a start is reported, once.
RunsAfter(ev, runs) ==
  CASE ev.stream = "lifecycle" /\ ev.phase = "start" -> runs \cup {ev.run}
    [] ev.stream = "lifecycle" /\ ev.phase \in {"end", "error"} -> runs \ {ev.run}
    [] ev.stream # "lifecycle" /\ agentEventRunningJoinpoint(ev) # None -> runs \ {ev.run}
    [] OTHER -> runs

RunningJoinpoint(ev, runs) ==
  IF ev.stream # "lifecycle" /\ ev.run \in runs THEN agentEventRunningJoinpoint(ev) ELSE None

\* The joinpoints of one agent event, and the history with one of them added.
AgentJoinpoints(ev, runs) ==
  {Joinpoint(name, ev.run) :
     name \in {agentEventJoinpoint(ev), RunningJoinpoint(ev, runs)} \ {None}}

Noted(hist, name, run) == IF name = None THEN hist ELSE Append(hist, Joinpoint(name, run))

-----------------------------------------------------------------------------
(* The poll.  Its stages are the queue and then the tasks of each tracked  *)
(* session; a stage with nothing to report runs on into the next.  What a  *)
(* stage reports is a set, observed one by one in the order of the host's  *)
(* list, which is any order.                                               *)
diffQueueDepth(session, prev, next) ==
  IF next > prev THEN {Joinpoint("queue.before_enqueue", session)}
  ELSE IF next < prev THEN {Joinpoint("queue.before_collect", session)}
  ELSE {}

Ended(status) == status \in TERMINAL_TASK_STATUSES

\* Mutant of diffTaskSnapshots: an end is reported whatever the status before it.
diffTaskSnapshotsAgain(session, prev, next) ==
  (UNION {{Joinpoint("task.before_create", <<session, t>>),
           Joinpoint("task.after_create", <<session, t>>)} : t \in DOMAIN next \ DOMAIN prev})
    \cup {Joinpoint("task.before_terminal", <<session, t>>) :
            t \in {u \in DOMAIN next \cap DOMAIN prev : Ended(next[u])}}

diffTaskSnapshots(session, prev, next) ==
  (UNION {{Joinpoint("task.before_create", <<session, t>>),
           Joinpoint("task.after_create", <<session, t>>)} : t \in DOMAIN next \ DOMAIN prev})
    \cup {Joinpoint("task.before_terminal", <<session, t>>) :
            t \in {u \in DOMAIN next \cap DOMAIN prev : ~Ended(prev[u]) /\ Ended(next[u])}}

\* A depth that cannot be read counts as 0, tasks that cannot be listed as none.
DepthRead(s, broken) == IF broken THEN 0 ELSE host[s].depth
listTasksForSession(s, broken) == IF broken THEN EmptyMap ELSE host[s].tasks

Report(j, broken) ==
  LET s == tracked[(j + 1) \div 2]
  IN  IF j % 2 = 1 THEN diffQueueDepth(s, queueDepth[s], DepthRead(s, broken))
      ELSE diffTaskSnapshots(s, taskStatus[s], listTasksForSession(s, broken))

\* The sessions whose queues or tasks the stages i to j look at.
Looked(i, j, odd) ==
  {tracked[(k + 1) \div 2] : k \in {n \in i..j : n <= 2 * Len(tracked) /\ n % 2 = odd}}

\* What is observed next: a task's after_create follows its before_create at once.
Observable(out) ==
  LET begun == {j \in out : /\ j.name = "task.after_create"
                            /\ Joinpoint("task.before_create", j.about) \notin out}
  IN  IF begun # {} THEN begun ELSE {j \in out : j.name # "task.after_create"}

\* Poll p hands one joinpoint of out to observe, and awaits it.
Observe(p, stage, out) ==
  \E j \in Observable(out) :
    /\ polls' = [polls EXCEPT ![p] = [stage |-> stage, out |-> out \ {j}]]
    /\ seen' = Append(seen, j)

\* From stage i to the first stage with something to report, or to the end: each
\* stage on the way takes over what it has read.
pollObservers(p, i, broken) ==
  \E j \in i..2 * Len(tracked) + 1 :
    /\ \A k \in i..j - 1 : Report(k, broken) = {}
    /\ queueDepth' = [s \in Sessions |-> IF s \in Looked(i, j, 1)
                                         THEN DepthRead(s, broken) ELSE queueDepth[s]]
    /\ taskStatus' = [s \in Sessions |-> IF s \in Looked(i, j, 0)
                                         THEN listTasksForSession(s, broken) ELSE taskStatus[s]]
    /\ \/ j <= 2 * Len(tracked) /\ Observe(p, j, Report(j, broken))
       \/ /\ j > 2 * Len(tracked)
          /\ polls' = [polls EXCEPT ![p] = [stage |-> -1, out |-> {}]]
          /\ UNCHANGED seen

\* A tick of the timer (stage 0), or the answer to the observation before: the poll
\* goes on with what is left to report, or with its next stage.
PollStep(p) ==
  /\ polls[p].stage >= 0
  /\ polls[p].stage = 0 => \A q \in 1..p - 1 : polls[q].stage # 0     \* ticks in order
  /\ \/ /\ polls[p].out # {}
        /\ Observe(p, polls[p].stage, polls[p].out)
        /\ UNCHANGED <<queueDepth, taskStatus>>
     \/ /\ polls[p].out = {}
        /\ \E broken \in IF sc.faults THEN BOOLEAN ELSE {FALSE} :
             pollObservers(p, polls[p].stage + 1, broken)
  \* the daemon has woven for the observation before, or the request has failed
  /\ \/ polls[p].stage > 0 /\ sc.cfg.enabled /\ \E v \in sc.vectors : Weave(v)
     \/ /\ polls[p].stage = 0 \/ ~sc.cfg.enabled \/ sc.faults
        /\ UNCHANGED <<last_vector, turns>>
  /\ UNCHANGED <<sc, concerns, edits, rt, pyVars, host, hostSteps, tracked, runningRuns>>

\* The host moves on: a queue grows or drains, a task starts or ends.
HostStep ==
  /\ hostSteps # <<>>
  /\ host' = [host EXCEPT ![Head(hostSteps).session] =
                [depth |-> Head(hostSteps).depth, tasks |-> Head(hostSteps).tasks]]
  /\ hostSteps' = Tail(hostSteps)
  /\ UNCHANGED <<sc, daemonVars, rt, pyVars, tracked, queueDepth, taskStatus, runningRuns,
                 polls, seen>>

ObserverNext == HostStep \/ \E p \in DOMAIN polls : PollStep(p)
=============================================================================
