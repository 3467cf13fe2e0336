----------------------------- MODULE HostHooks -----------------------------
(***************************************************************************)
(* The Python OpenClaw plugin (opencoat_runtime_host_openclaw): hooks.py   *)
(* with the adapter's event map and the memory bridge.  The host calls the *)
(* subscribed callbacks from its event thread and picks the buffered       *)
(* advice up from its prompt thread; nothing locks the buffer.             *)
(*                                                                         *)
(* A host event is [name, valid, body, concern]: its event name, whether  *)
(* it passes the adapter's validation, whether its memory body does, and   *)
(* the concern a memory write names.  An operation of the prompt thread is *)
(* [op, joinpoint, drain, args].                                           *)
(***************************************************************************)
EXTENDS Effector

VARIABLES
  pyEvents,       \* events the host has still to emit
  pyOps,          \* operations of the prompt thread still to come
  pyPending,      \* InstalledHooks._pending, a list in the order of the tags: [joinpoint, rows, tag]
  pyInstalled,    \* the callbacks are subscribed
  pyApply,        \* apply_to: [pc, kept, drain], at "write_back" between its two halves
  pyContext,      \* the host context apply_to folds into
  pyOutcome,      \* the last guard_tool_call: its rows and its outcome, or None
  pyTaken,        \* history: tags applied, guarded or cleared
  pyCaptured,     \* history: tags buffered
  pyRaced,        \* history: something was buffered during an apply_to
  pyActivations   \* concerns the memory bridge logged an activation for

pyVars == <<pyEvents, pyOps, pyPending, pyInstalled, pyApply, pyContext, pyOutcome, pyTaken,
            pyCaptured, pyRaced, pyActivations>>

\* joinpoint_map.py
OPENCLAW_EVENT_MAP ==
  [n \in {"agent.started"}         |-> "runtime_start"] @@
  [n \in {"agent.user_message"}    |-> "on_user_input"] @@
  [n \in {"agent.before_llm_call"} |-> "before_reasoning"] @@
  [n \in {"agent.after_llm_call"}  |-> "after_reasoning"] @@
  [n \in {"agent.before_tool"}     |-> "before_tool_call"] @@
  [n \in {"agent.after_tool"}      |-> "after_tool_call"] @@
  [n \in {"agent.before_response"} |-> "before_response"] @@
  [n \in {"agent.after_response"}  |-> "after_response"] @@
  [n \in {"agent.memory_write"}    |-> "before_memory_write"] @@
  [n \in {"agent.error"}           |-> "on_error"]

_TOOL_GUARD_JOINPOINTS == {"before_tool_call"}

map_host_event(ev) ==
  IF ev.name \in DOMAIN OPENCLAW_EVENT_MAP THEN OPENCLAW_EVENT_MAP[ev.name] ELSE None

NotApplying == [pc |-> "idle", kept |-> {}, drain |-> FALSE]

InitPy ==
  /\ pyEvents = sc.pyEvents
  /\ pyOps = sc.pyOps
  /\ pyPending = {}
  /\ pyInstalled = TRUE
  /\ pyApply = NotApplying
  /\ pyContext = sc.pyContext /\ pyOutcome = None
  /\ pyTaken = {} /\ pyCaptured = {} /\ pyRaced = FALSE
  /\ pyActivations = {}

-----------------------------------------------------------------------------
(* The event thread                                                        *)

\* bridge.sync: a concern the DCN does not know is a soft miss.
sync(ev) ==
  IF ev.name = "agent.memory_write" /\ ev.body /\ ev.concern \in {c.id : c \in concerns}
  THEN pyActivations \cup {ev.concern} ELSE pyActivations

Tag == Len(sc.pyEvents) - Len(pyEvents) + 1

Buffer(jp, rows) ==
  IF rows = <<>> THEN UNCHANGED <<pyPending, pyCaptured, pyRaced>>
  ELSE /\ pyPending' = pyPending \cup {[joinpoint |-> jp, rows |-> rows, tag |-> Tag]}
       /\ pyCaptured' = pyCaptured \cup {Tag}
       /\ pyRaced' = (pyRaced \/ pyApply.pc = "write_back")

\* The callback of one event.  It raises out of the callback when the envelope is
\* invalid or the runtime raises; the memory event is then not mirrored.
Callback ==
  /\ pyEvents # <<>>
  /\ LET ev == Head(pyEvents)
         jp == map_host_event(ev)
     IN  \/ /\ ~pyInstalled \/ ~ev.valid
            /\ UNCHANGED <<pyPending, pyCaptured, pyRaced, pyActivations, last_vector, turns>>
         \/ /\ pyInstalled /\ ev.valid
            /\ IF jp = None
               THEN UNCHANGED <<pyPending, pyCaptured, pyRaced, last_vector, turns>>
               ELSE \E rows \in sc.replies, v \in sc.vectors : Buffer(jp, rows) /\ Weave(v)
            /\ pyActivations' = sync(ev)
         \/ /\ pyInstalled /\ ev.valid /\ jp # None /\ sc.faults
            /\ UNCHANGED <<pyPending, pyCaptured, pyRaced, pyActivations, last_vector, turns>>
  /\ pyEvents' = Tail(pyEvents)
  /\ UNCHANGED <<sc, concerns, edits, rt, pyOutcome, pyOps, pyInstalled, pyApply, pyContext,
                 pyTaken>>

-----------------------------------------------------------------------------
(* The prompt thread                                                       *)
Tags(entries) == {e.tag : e \in entries}
InOrder(entries) == SetToSortSeq(entries, LAMBDA d, e : d.tag < e.tag)

Applicable(op, entry) ==
  /\ op.joinpoint = None \/ entry.joinpoint = op.joinpoint
  /\ entry.joinpoint \notin _TOOL_GUARD_JOINPOINTS

\* Mutant of Kept: what was applied stays.
KeptAll(op, entries) == entries

Kept(op, entries) == {e \in entries : ~Applicable(op, e)}

\* apply_to splits the buffer and folds the applicable rows into the context...
ApplySplit ==
  /\ pyOps # <<>> /\ Head(pyOps).op = "apply" /\ pyApply.pc = "idle"
  /\ LET op == Head(pyOps)
         applicable == {e \in pyPending : Applicable(op, e)}
     IN  /\ pyApply' = [pc |-> "write_back", kept |-> Kept(op, pyPending), drain |-> op.drain]
         /\ pyContext' = FoldLeft(LAMBDA c, e : apply_injection(c, e.rows, sc.promptLocked),
                                  pyContext, InOrder(applicable))
         /\ pyTaken' = IF op.drain THEN pyTaken \cup Tags(applicable) ELSE pyTaken
  /\ UNCHANGED <<sc, daemonVars, rt, pyOutcome, pyEvents, pyOps, pyPending, pyInstalled, pyCaptured,
                 pyRaced, pyActivations>>

\* ... and then overwrites the buffer with what it kept.
ApplyWriteBack ==
  /\ pyApply.pc = "write_back"
  /\ pyPending' = IF pyApply.drain THEN pyApply.kept ELSE pyPending
  /\ pyApply' = NotApplying
  /\ pyOps' = Tail(pyOps)
  /\ UNCHANGED <<sc, daemonVars, rt, pyOutcome, pyEvents, pyInstalled, pyContext, pyTaken, pyCaptured,
                 pyRaced, pyActivations>>

\* The newest tool-guard entry, whichever call it was captured for.
Guards == {e \in pyPending : e.joinpoint \in _TOOL_GUARD_JOINPOINTS}
NewestGuard(e) == e \in Guards /\ \A d \in Guards : d.tag <= e.tag

guard_tool_call ==
  /\ pyOps # <<>> /\ Head(pyOps).op = "guard"
  /\ \/ /\ Guards = {}
        /\ pyOutcome' = None
        /\ UNCHANGED <<pyPending, pyTaken>>
     \/ \E e \in Guards :
          /\ NewestGuard(e)
          /\ pyOutcome' = [rows |-> e.rows, outcome |-> guard(Head(pyOps).args, e.rows)]
          /\ IF Head(pyOps).drain
             THEN pyPending' = pyPending \ {e} /\ pyTaken' = pyTaken \cup {e.tag}
             ELSE UNCHANGED <<pyPending, pyTaken>>
  /\ pyOps' = Tail(pyOps)
  /\ UNCHANGED <<sc, daemonVars, rt, pyEvents, pyInstalled, pyApply, pyContext, pyCaptured,
                 pyRaced, pyActivations>>

clear_pending ==
  /\ pyOps # <<>> /\ Head(pyOps).op = "clear"
  /\ pyPending' = {}
  /\ pyTaken' = pyTaken \cup Tags(pyPending)
  /\ pyOps' = Tail(pyOps)
  /\ UNCHANGED <<sc, daemonVars, rt, pyOutcome, pyEvents, pyInstalled, pyApply, pyContext, pyCaptured,
                 pyRaced, pyActivations>>

\* Idempotent; the buffer is left for the host.
uninstall ==
  /\ pyOps # <<>> /\ Head(pyOps).op = "uninstall"
  /\ pyInstalled' = FALSE
  /\ pyOps' = Tail(pyOps)
  /\ UNCHANGED <<sc, daemonVars, rt, pyOutcome, pyEvents, pyPending, pyApply, pyContext, pyTaken,
                 pyCaptured, pyRaced, pyActivations>>

PyNext ==
  Callback \/ ApplySplit \/ ApplyWriteBack \/ guard_tool_call \/ clear_pending \/ uninstall
=============================================================================
