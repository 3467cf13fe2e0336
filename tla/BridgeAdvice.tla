--------------------------- MODULE BridgeAdvice ---------------------------
(***************************************************************************)
(* What a host is told to do with advice and verdicts: the decisions of    *)
(* the TypeScript bridge (injector.ts, reflex-tool-guard.ts,               *)
(* sync-reflex-guards.ts, r-t-emit.ts), and the injector and tool guard of *)
(* the Python plugin (opencoat_runtime_host_openclaw).                     *)
(*                                                                         *)
(* An injection is its sequence of rows, <<>> also when the daemon         *)
(* answered null.  A row is [cid, type, target, mode, content, weave];     *)
(* `weave` names the weave it came from and no code reads it; the target   *)
(* is a path of keys, which may contain "*".                               *)
(***************************************************************************)
EXTENDS BridgePayloads

APPEND_MODES == {"insert", "annotate", "warn", "verify", "defer"}
OVERWRITE_MODES == {"replace", "rewrite", "compress"}

Blocking(row) == row.mode \in BLOCK_MODES
Contents(rows) == [i \in DOMAIN rows |-> rows[i].content]

-----------------------------------------------------------------------------
(* injector.ts                                                             *)
Foldable(row) ==
  Head(row.target) = "runtime_prompt" /\ row.mode \in APPEND_MODES \cup BLOCK_MODES

\* One chunk for each concern and content.
foldPromptInjection(rows) ==
  LET Same(r, s) == r.cid = s.cid /\ r.content = s.content
      Add(chunks, r) == IF ~Foldable(r) \/ \E i \in DOMAIN chunks : Same(chunks[i], r)
                        THEN chunks ELSE Append(chunks, r)
  IN  FoldLeft(Add, <<>>, rows)

blockReasonFromInjection(rows) ==
  SelectSeq(Contents(SelectSeq(rows, Blocking)), IsText)

guardToolCall(rows) ==
  LET mine == SelectSeq(rows, LAMBDA r : Head(r.target) = "tool_call")
  IN  [block |-> \E r \in ToSet(mine) : Blocking(r), reason |-> blockReasonFromInjection(mine)]

hasBlockingAdvice(rows) == \E r \in ToSet(rows) : Blocking(r)

messageSendingDecision(rows) ==
  [block |-> hasBlockingAdvice(rows),
   reason |-> IF hasBlockingAdvice(rows) THEN blockReasonFromInjection(rows) ELSE <<>>]

subagentSpawnDecision(rows) == messageSendingDecision(rows)

\* A blocking row of any target blocks; the last rewrite of each field is kept.
queueBeforeEnqueueDecision(rows) ==
  LET Rewrites(targets) ==
        SelectSeq(rows, LAMBDA r : /\ r.target \in targets
                                   /\ r.mode = "rewrite" /\ IsText(r.content))
      LastOf(s) == IF s = <<>> THEN None ELSE Last(s).content
  IN  [block |-> hasBlockingAdvice(rows), reason |-> blockReasonFromInjection(rows),
       prompt |-> LastOf(Rewrites({<<"queue", "prompt">>})),
       summary |-> LastOf(Rewrites({<<"queue", "summary_line">>, <<"queue", "summaryLine">>}))]

mergeInjections(a, b) == a \o b

-----------------------------------------------------------------------------
(* reflex-tool-guard.ts: verdicts as hook results.  A result says whether  *)
(* the host's step is blocked, the reason given, and the text or           *)
(* parameters that replace the host's (None: unchanged).                   *)
Result(block, reason, new) == [block |-> block, reason |-> reason, new |-> new]
Unchanged == Result(FALSE, <<>>, None)

reflexToolGuardDecision(d) ==
  CASE d.kind = "deny"    -> Result(TRUE, d.reason, None)
    [] d.kind = "rewrite" -> Result(FALSE, <<>>, d.action.args)
    [] d.kind = "allow"   -> Unchanged

reflexMessageGuardDecision(d) ==
  CASE d.kind = "deny"    -> Result(TRUE, d.reason, None)
    [] d.kind = "rewrite" -> Result(FALSE, <<>>, d.action.args["content"])
    [] d.kind = "allow"   -> Unchanged

\* A rewrite cannot be carried out by these hooks: the step goes through as it is.
reflexDenyDecision(d) == IF d.kind = "deny" THEN Result(TRUE, d.reason, None) ELSE Unchanged

reflexMemoryWriteDecision(d, m) ==
  CASE d.kind = "deny"    -> Result(TRUE, <<>>, None)
    [] d.kind = "rewrite" -> Result(FALSE, <<>>, applyAgentMessageContent(m, RewriteText(d)))
    [] d.kind = "allow"   -> Unchanged

\* A tool result is always persisted; a denied one is replaced by the reason.
reflexToolResultPersistDecision(d, m) ==
  CASE d.kind = "deny"    -> Result(FALSE, d.reason, applyAgentMessageContent(m, d.reason))
    [] d.kind = "rewrite" -> Result(FALSE, <<>>, applyAgentMessageContent(m, RewriteText(d)))
    [] d.kind = "allow"   -> Unchanged

\* Mutant of FailClosed: an error lets the step through.
FailOpen == Unchanged

FailClosed == Result(TRUE, <<"fail_closed">>, None)
failClosedToolResultPersistGuard(m) ==
  Result(FALSE, <<>>, applyAgentMessageContent(m, <<"fail_closed">>))

\* sync-reflex-guards.ts: the two hooks that may not await.
handleBeforeMessageWriteSync(runtime, m) ==
  IF runtime = None THEN FailClosed
  ELSE reflexMemoryWriteDecision(mediate(runtime, buildMemoryWriteAction(m)), m)

handleToolResultPersistSync(runtime, m, tool) ==
  IF runtime = None THEN failClosedToolResultPersistGuard(m)
  ELSE reflexToolResultPersistDecision(mediate(runtime, ToolResultAction(m, tool)), m)

-----------------------------------------------------------------------------
(* r-t-emit.ts.  A record names its turn; `reflex` is the monitor's record *)
(* or None, and r is 1 for success.                                        *)
turnId(ctx) == IF ctx.run # None THEN ctx.run ELSE ctx.session

RtRecord(kind, ctx, tool, reflex, r) ==
  [kind |-> kind, turn |-> turnId(ctx), tool |-> tool, reflex |-> reflex, r |-> r]

buildToolBlockedRt(ctx, tool, reflex) == RtRecord("tool_blocked", ctx, tool, reflex, 0)

buildToolOutcomeRt(ctx, ev, reflex) ==
  LET denied == reflex # None /\ reflex.decision = "deny"
  IN  RtRecord("tool_outcome", ctx, ev.tool, reflex, IF ev.error \/ denied THEN 0 ELSE 1)

buildLlmOutputRt(ctx) == RtRecord("llm_output", ctx, None, None, 1)
buildTurnCompleteRt(ctx, ev) ==
  RtRecord("turn_complete", ctx, None, None, IF ev.error THEN 0 ELSE 1)

-----------------------------------------------------------------------------
(* injector.py.  A host context is a function from the paths of its string *)
(* leaves to the contents written there, oldest first; a proper prefix of  *)
(* a leaf is a dict (an empty dict is not represented).                    *)
IsDict(ctx, path) == \E p \in DOMAIN ctx : IsStrictPrefix(path, p)
Under(ctx, path) == {p \in DOMAIN ctx : IsPrefix(path, p)}
KeysAt(ctx, path) == {p[Len(path) + 1] : p \in {q \in DOMAIN ctx : IsStrictPrefix(path, q)}}

\* One segment down: a star goes into every child that is a dict, a key into a
\* dict that is made when it is missing or is a leaf.
Descend(acc, segment) ==
  LET Below(keys) == UNION {{Append(p, k) : k \in keys[p]} : p \in acc.nodes}
      named == Below([p \in acc.nodes |-> {segment}])
  IN  IF segment = "*"
      THEN [acc EXCEPT !.nodes = {q \in Below([p \in @ |-> KeysAt(acc.ctx, p)]) :
                                    IsDict(acc.ctx, q)}]
      ELSE [ctx |-> [p \in DOMAIN acc.ctx \ named |-> acc.ctx[p]], nodes |-> named]

\* Writing at a path replaces what is below it; append keeps the string there.
_write_leaf(ctx, path, row) ==
  LET kept == DOMAIN ctx \ Under(ctx, path)
      old  == IF path \in DOMAIN ctx /\ row.mode \notin OVERWRITE_MODES \cup BLOCK_MODES
              THEN ctx[path] ELSE <<>>
  IN  [p \in kept \cup {path} |-> IF p = path THEN Append(old, row.content) ELSE ctx[p]]

_apply_segments(ctx, segments, row) ==
  LET at   == FoldLeft(Descend, [ctx |-> ctx, nodes |-> {<<>>}], Front(segments))
      Keys(p) == IF Last(segments) = "*" THEN KeysAt(at.ctx, p) ELSE {Last(segments)}
      paths == UNION {{Append(p, k) : k \in Keys(p)} : p \in at.nodes}
  IN  FoldSet(LAMBDA p, c : _write_leaf(c, p, row), at.ctx, paths)

_apply_one(ctx, row, promptLocked) ==
  IF promptLocked /\ Len(row.target) > 1 /\ Head(row.target) = "runtime_prompt" THEN ctx
  ELSE _apply_segments(ctx, row.target, row)

apply_injection(ctx, rows, promptLocked) ==
  FoldLeft(LAMBDA c, r : _apply_one(c, r, promptLocked), ctx, rows)

\* tool_guard.py: blocks, rewrites of the arguments, and notes.
_mutate_arguments(args, row) ==
  LET rest == SubSeq(row.target, 3, Len(row.target))
  IN  _apply_segments(args, IF rest = <<>> THEN <<"*">> ELSE rest, row)

_dispatch(outcome, row) ==
  CASE row.mode \in BLOCK_MODES ->
             [outcome EXCEPT !.blocked = TRUE, !.reason = Append(@, row.content)]
        [] row.mode \in OVERWRITE_MODES ->
             IF row.target[2] = "arguments"
             THEN [outcome EXCEPT !.args = _mutate_arguments(@, row)] ELSE outcome
        [] row.mode \notin BLOCK_MODES \cup OVERWRITE_MODES ->
             [outcome EXCEPT !.notes = Append(@, row.content)]

\* Rows for the bare "tool_call" are not looked at.
guard(args, rows) ==
  FoldLeft(_dispatch, [blocked |-> FALSE, reason |-> <<>>, args |-> args, notes |-> <<>>],
           SelectSeq(rows, LAMBDA r : Head(r.target) = "tool_call" /\ Len(r.target) > 1))

=============================================================================
