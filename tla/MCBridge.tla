------------------------------ MODULE MCBridge ------------------------------
(***************************************************************************)
(* Scenarios for OpenClawBridge: each gives the lanes of hook calls, the    *)
(* catalogue, the daemon's possible answers and whether requests may fail.  *)
(***************************************************************************)
EXTENDS OpenClawBridge

MCLower == [w \in {"Rm", "rm", "ok", "new", "bad", "wipe", "hold", "regex", "t1", "t2",
                    "compact", "accent"} |->
              IF w = "Rm" THEN "rm" ELSE w]
MCEscape == "accent" :> "escaped accent"

-----------------------------------------------------------------------------
(* Concerns                                                                *)
Pc(jps, words) == [joinpoints |-> jps, expr |-> {}, any |-> words]
Adv(template, mode, target, content) ==
  [template |-> template, effect |-> [mode |-> mode, target |-> target], content |-> content]
Concern(id, pointcuts, advices) ==
  [id |-> id, state |-> "active", desc |-> "desc", pointcuts |-> pointcuts, pointcut |-> None,
   advices |-> advices, advice |-> None, policy |-> None]

TOOL == {"before_tool_call"}
ARGS == <<"tool_call", "arguments">>
DenyTool(id) ==
  Concern(id, <<Pc(TOOL, {"rm"})>>, <<Adv("tool_guard", "block", ARGS, "stop")>>)
RewriteTool(id) ==
  Concern(id, <<Pc(TOOL, {"rm", "ok"})>>, <<Adv("tool_guard", "rewrite", ARGS, "new")>>)
Legacy(id) ==
  [Concern(id, <<>>, <<>>) EXCEPT
     !.pointcut = [joinpoints |-> TOOL, any |-> {"bad"}],
     !.advice = [type |-> "tool_guard", content |-> None, rule |-> None],
     !.policy = [mode |-> "escalate", target |-> ARGS]]
DenyOut(id) ==
  Concern(id, <<Pc({"before_response"}, {"bad"})>>,
          <<Adv("memory_guard", "warn", <<"response">>, "x"),
            Adv("memory_guard", "suppress", <<"response", "text">>, None)>>)
RewriteOut(id) ==
  Concern(id, <<Pc({"before_response"}, {"rm"})>>,
          <<Adv("memory_guard", "rewrite", <<"response", "text">>, "new")>>)
DenyMemory(id) ==
  Concern(id, <<Pc({"before_message_write"}, {"bad"})>>,
          <<Adv("memory_guard", "block", <<"memory_write", "text">>, "stop")>>)
RewriteMemory(id) ==
  Concern(id, <<Pc({"before_message_write"}, {"rm"})>>,
          <<Adv("memory_guard", "rewrite", <<"memory_write", "text">>, "new")>>)
DenyResult(id) ==
  Concern(id, <<Pc({"tool_result_persist"}, {"bad"})>>,
          <<Adv("memory_guard", "block", <<"tool_result", "text">>, "stop")>>)
RewriteResult(id) ==
  Concern(id, <<Pc({"tool_result_persist"}, {"rm"})>>,
          <<Adv("memory_guard", "rewrite", <<"tool_result", "text">>, "new")>>)
Rule(regex, must, mustnot) ==
  [regex |-> regex, must |-> must, mustnot |-> mustnot, llm |-> FALSE, cs |-> FALSE]
Checks(c, rule) ==
  [c EXCEPT !.advice = [type |-> "verification_rule", content |-> "c", rule |-> rule]]
Archived(c) == [c EXCEPT !.state = "archived"]

-----------------------------------------------------------------------------
(* Hook events, advice rows, configurations                                *)
Ev(hook, run) ==
  [hook |-> hook, run |-> run, session |-> "s1", tool |-> "exec", words |-> {"ok"}, cut |-> {},
   fields |-> {}, opaque |-> FALSE, error |-> FALSE, messages |-> <<>>, message |-> None,
   depth |-> None, stream |-> None, phase |-> None]
Saying(ev, words) == [ev EXCEPT !.words = words]
Opaque(ev) == [ev EXCEPT !.opaque = TRUE]
Persist(hook, shape, parts) ==
  [Ev(hook, "r1") EXCEPT !.message = [role |-> "user", shape |-> shape, parts |-> parts]]
Agent(stream, phase) == [Ev("agent_event", "r1") EXCEPT !.stream = stream, !.phase = phase]
Chat(role, words, sections) ==
  [role |-> role, content |-> <<words>>, text |-> <<{}>>, raw |-> <<{"ok"}>>,
   sections |-> sections]

RowFor(cid, target, mode, content) ==
  [cid |-> cid, type |-> "note", target |-> target, mode |-> mode, content |-> content,
   weave |-> <<0, 0>>]
PromptRow == RowFor(1, <<"runtime_prompt", "note">>, "insert", "a")

Cfg == [inproc |-> FALSE, inline |-> <<>>, demo |-> FALSE, sync |-> TRUE, audit |-> FALSE,
        emitRt |-> TRUE, enabled |-> TRUE]
InProc == [Cfg EXCEPT !.inproc = TRUE]

Base ==
  [cfg |-> Cfg, concerns |-> {}, edits |-> <<>>, lanes |-> <<>>, replies |-> {<<>>},
   vectors |-> {{}}, faults |-> FALSE, jobs |-> <<>>, pyEvents |-> <<>>, pyOps |-> <<>>,
   pyContext |-> [p \in {<<"llm", "system">>, <<"llm", "user">>, <<"note">>} |-> <<"old">>],
   promptLocked |-> FALSE, hostSteps |-> <<>>, polls |-> 0]

-----------------------------------------------------------------------------
(* Advice buffered by three messages and two prompts of two runs.          *)
Buffering ==
  [Base EXCEPT !.faults = TRUE, !.replies = {<<>>, <<PromptRow>>},
     !.lanes = <<<<Ev("message_received", "r1"), Ev("before_prompt_build", "r1"),
                   Ev("before_prompt_build", "r1")>>,
                 <<Ev("message_received", "r1"), Ev("before_prompt_build", "r2")>>,
                 <<Saying(Ev("message_received", "r2"), {}), Ev("message_received", None)>>>>]

\* Guards answered by the daemon, and payloads of every kind.
DaemonGuards ==
  [Base EXCEPT
     !.faults = TRUE,
     !.replies = {<<RowFor(1, <<"tool_call", "arguments">>, "escalate", "a"),
                    RowFor(2, <<"queue", "prompt">>, "rewrite", "b"),
                    RowFor(2, <<"queue", "summary_line">>, "rewrite", "c"), PromptRow>>,
                  <<RowFor(2, <<"queue", "prompt">>, "rewrite", "b")>>},
     !.lanes = <<<<Ev("before_tool_call", "r1"), Ev("message_sending", "r1"),
                   Ev("subagent_spawning", "r1")>>,
                 <<Opaque(Ev("before_tool_call", "r1")), Ev("queue_before_enqueue", "r1"),
                   [Ev("before_prompt_build", "r1") EXCEPT
                      !.messages = <<Chat("user", {"ok"}, <<>>),
                                     Chat("robot", {}, <<[path |-> "p", words |-> {}]>>),
                                     Chat("tool", {}, <<>>)>>]>>>>]

Disabled ==
  [Base EXCEPT !.cfg.enabled = FALSE, !.cfg.inproc = TRUE, !.cfg.demo = TRUE, !.cfg.audit = TRUE,
     !.lanes = <<<<Saying(Ev("before_tool_call", "r1"), {"wipe"}), Ev("after_tool_call", "r1")>>,
                 <<Saying(Ev("queue_before_enqueue", "r1"), {"hold"}),
                   Ev("before_compaction", "r1"), Ev("session_compact", "r1")>>>>]

\* The in-process guards while the policies are loaded and the catalogue is edited.
InProcess ==
  [Base EXCEPT
     !.cfg = [InProc EXCEPT !.demo = TRUE, !.audit = TRUE,
                !.inline = <<[id |-> 4, crit |-> "advisory", kind |-> "spawn",
                              pred |-> "text_contains", terms |-> {"Rm"}, ci |-> TRUE,
                              effect |-> "deny", reason |-> "inline", content |-> None],
                             [id |-> 6, crit |-> "advisory", kind |-> "tool_call",
                              pred |-> "tool_name", terms |-> {"shell"}, ci |-> FALSE,
                              effect |-> "deny", reason |-> None, content |-> None]>>],
     !.concerns = {DenyTool(1), RewriteTool(3), Legacy(2), DenyOut(4), RewriteOut(5)},
     !.edits = <<Archived(DenyTool(1)), RewriteTool(1)>>,
     !.faults = TRUE,
     !.lanes = <<<<Saying(Ev("before_tool_call", "r1"), {"rm"}),
                   Saying(Ev("message_sending", "r1"), {"rm", "bad"}),
                   Saying(Ev("message_sending", "r1"), {"rm"})>>,
                 <<Saying(Ev("subagent_spawning", "r1"), {"rm"}),
                   Opaque(Ev("queue_before_enqueue", "r1")),
                   Opaque(Ev("before_tool_call", "r1"))>>>>]

\* The two hooks that may not wait.
Persisting ==
  [Base EXCEPT
     !.cfg = InProc,
     !.concerns = {DenyMemory(1), RewriteMemory(2), DenyResult(3), RewriteResult(4)},
     !.lanes = <<<<Persist("before_message_write", "array", <<<<"rm">>, None, <<"rm", "ok">>>>),
                   Persist("before_message_write", "string", <<<<"ok", "bad">>>>),
                   Persist("tool_result_persist", "array", <<None, <<"ok">>, <<"bad">>>>)>>,
                 <<Persist("tool_result_persist", "string", <<<<"rm">>>>),
                   Persist("tool_result_persist", "other", <<>>),
                   Ev("before_message_write", "r1")>>>>]

\* Two calls of the same tool in the same run, and one of another run.
Crediting ==
  [Base EXCEPT
     !.cfg = [InProc EXCEPT !.audit = TRUE], !.concerns = {RewriteTool(1), DenyTool(2)},
     !.faults = TRUE,
     !.lanes = <<<<Ev("before_tool_call", "r1"), Ev("after_tool_call", "r1"),
                   Ev("agent_end", "r1")>>,
                 <<Ev("before_tool_call", "r1"), Ev("after_tool_call", "r1")>>,
                 <<Saying(Ev("before_tool_call", "r2"), {"rm"}), Ev("after_tool_call", "r2")>>>>]

\* Kernel turns, with another client's weaves and edits.
Job(kind, words, output) ==
  [action |-> [kind |-> kind, name |-> "exec", args |-> [content |-> words], form |-> "json"],
   output |-> output]
Formed(form, job) == [job EXCEPT !.action.form = form]

Kernel ==
  [Base EXCEPT
     !.concerns = {Checks(DenyTool(1), Rule({"rm"}, None, None)),
                   Checks(RewriteOut(2), Rule(None, {"ok"}, None)),
                   Checks(RewriteTool(3), Rule(None, None, {"Rm"})), DenyOut(4)},
     !.edits = <<Checks(DenyOut(4), Rule({}, None, None))>>,
     !.vectors = {{1}, {2, 4}}, !.faults = TRUE,
     !.jobs = <<Job("message_out", {"ok"}, {"ok"}), Job("message_out", {"rm"}, {"bad"})>>,
     !.lanes = <<<<Ev("llm_output", "r1")>>>>]

KernelTools ==
  [Base EXCEPT
     !.concerns = {DenyTool(1), RewriteTool(3), Checks(Legacy(2), Rule(None, None, None))},
     !.edits = <<Archived(DenyTool(1))>>,
     !.vectors = {{2}, {3}},
     !.jobs = <<Job("tool_call", {"rm"}, {"ok"}), Formed("circular", Job("tool_call", {"ok"}, None)),
                Job("queue_enqueue", {"rm"}, {"ok"})>>]

\* Needles and arguments that the two monitors spell differently.
DenyWord(id, word) ==
  Concern(id, <<Pc(TOOL, {word})>>, <<Adv("tool_guard", "block", ARGS, "stop")>>)

KernelSpelling ==
  [Base EXCEPT
     !.concerns = {DenyWord(1, "accent"), RewriteTool(3)},
     !.edits = <<DenyWord(2, "compact"), Archived(DenyWord(2, "compact")), DenyWord(4, "spaced")>>,
     !.vectors = {{3}},
     !.jobs = <<Job("tool_call", {"accent", "rm"}, None), Job("tool_call", {"ok"}, None),
                Formed("foreign", Job("tool_call", {"accent"}, None))>>]

\* The Python plugin: events of its thread against the prompt thread.
PyEv(name) == [name |-> name, valid |-> TRUE, body |-> TRUE, concern |-> 1]
Op(op, joinpoint, drain) ==
  [op |-> op, joinpoint |-> joinpoint, drain |-> drain,
   args |-> [p \in {<<"cmd">>, <<"opts", "force">>} |-> <<"old">>]]

PyPrompt ==
  [Base EXCEPT
     !.concerns = {DenyTool(1)}, !.faults = TRUE,
     !.replies = {<<>>, <<RowFor(1, <<"llm", "*">>, "insert", "a"),
                          RowFor(1, <<"note">>, "replace", "b"),
                          RowFor(2, <<"runtime_prompt", "note">>, "warn", "c")>>},
     !.pyEvents = <<PyEv("agent.user_message"), PyEv("agent.before_llm_call"),
                    PyEv("agent.memory_write"), PyEv("agent.unknown")>>,
     !.pyOps = <<Op("apply", "before_reasoning", TRUE), Op("apply", None, FALSE),
                 Op("apply", None, TRUE), Op("uninstall", None, FALSE)>>]

PyTools ==
  [Base EXCEPT
     !.promptLocked = TRUE,
     !.replies = {<<RowFor(1, <<"tool_call", "arguments", "cmd">>, "replace", "a"),
                    RowFor(1, <<"tool_call", "arguments">>, "warn", "w"),
                    RowFor(2, <<"tool_call", "arguments">>, "block", "b")>>,
                  <<RowFor(2, <<"tool_call", "arguments">>, "rewrite", "c"),
                    RowFor(2, <<"runtime_prompt", "note">>, "insert", "d")>>},
     !.pyEvents = <<PyEv("agent.before_tool"), PyEv("agent.before_tool"),
                    [PyEv("agent.after_tool") EXCEPT !.valid = FALSE],
                    PyEv("agent.before_response")>>,
     !.pyOps = <<Op("guard", None, TRUE), Op("apply", None, TRUE), Op("guard", None, FALSE),
                 Op("clear", None, FALSE)>>]

\* The observers: overlapping polls while queues and tasks move on.
Host(session, depth, tasks) == [session |-> session, depth |-> depth, tasks |-> tasks]
Tasks(a, b) == ("t1" :> a) @@ ("t2" :> b)

Polling ==
  [Base EXCEPT
     !.faults = TRUE, !.polls = 3,
     !.hostSteps = <<Host("s1", 2, Tasks("running", "running")),
                     Host("s1", 1, Tasks("succeeded", "failed"))>>,
     !.lanes = <<<<[Ev("queue_after_enqueue", "r1") EXCEPT !.depth = 1]>>>>]

Running ==
  [Base EXCEPT
     !.lanes = <<<<Agent("lifecycle", "start"), Agent("assistant", None), Agent("tool", None),
                   Agent("lifecycle", "error")>>,
                 <<Agent("item", "start"), Agent("plan", None), Agent("lifecycle", "start"),
                   Agent("lifecycle", "end")>>>>]

MCScenarios ==
  {Buffering, DaemonGuards, Disabled, InProcess, Persisting, Crediting, Kernel, KernelTools,
   KernelSpelling, PyPrompt, PyTools, Polling, Running}
=============================================================================
