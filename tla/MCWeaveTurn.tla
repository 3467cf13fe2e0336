---------------------------- MODULE MCWeaveTurn ----------------------------
(* Small catalogs, joinpoints and requests for WeaveTurn.                  *)
EXTENDS WeaveTurn

CONSTANTS t1, t2

MCMinted == [k \in {"user_input", "feedback"} \X {"s1"} \X {"alpha", "beta"} |->
               IF k[3] = "alpha" THEN 1 ELSE 4]
MCElig == [id \in 1..5 |-> IF id = 3 THEN 15 ELSE Unit]

-----------------------------------------------------------------------------
Bare == [joinpoints |-> {"before_response"}, selectors |-> {}, match |-> None, preds |-> {}]
Where(block) == [Bare EXCEPT !.match = block]
Adv(type, chars) == [type |-> type, chars |-> chars, space |-> 3, rationale |-> 0, max |-> None]
Pol(priority) == [mode |-> None, level |-> None, target |-> None, max |-> 4, priority |-> priority]

Base(id) ==
  [id |-> id, name |-> "alpha", desc |-> <<>>, gtype |-> {}, tags |-> <<>>,
   origin |-> "user_input", bodyChars |-> 8, state |-> "active", pointcut |-> Bare,
   advice |-> Adv("response_requirement", 8), policy |-> None, pointcuts |-> <<>>,
   advices |-> <<>>, declarations |-> <<>>, relations |-> <<>>, trust |-> None,
   kind |-> "concern", reflex |-> FALSE, inhibitory |-> FALSE, hub |-> FALSE]

Rel(type, target) == [type |-> type, target |-> target, weight |-> 30]
Validated(s) == [i \in DOMAIN s |-> _sync_aop_executable_shape(s[i])]

Jp(n, name, words, payload) ==
  [id |-> <<n, 0, 0, 0>>, name |-> name, level |-> "lifecycle", words |-> words,
   payload |-> payload]

Plain == Jp(1, "response.before_final", {"alpha", "deploy"},
            [risk_level |-> "high", confidence |-> 20, tool |-> "sh", text |-> "t"])
Quiet == Jp(2, "on_feedback", {"beta"}, [text |-> "t"])

Auto == [expand |-> TRUE, batch |-> TRUE, spans |-> TRUE, tokens |-> FALSE, tokenCap |-> 2,
         maxDiscovered |-> 3, emit |-> TRUE, onTick |-> TRUE, onEvents |-> TRUE,
         chatExtract |-> FALSE]

Submit(jp, none) == [kind |-> "submit", notify |-> FALSE, jp |-> jp, context |-> <<>>,
                     none |-> none, extract |-> FALSE, ref |-> "s1"]
Req(kind) == [kind |-> kind, notify |-> FALSE]
Upsert(c) == [kind |-> "upsert", notify |-> FALSE, c |-> c]
Delete(id) == [kind |-> "delete", notify |-> TRUE, id |-> id]

\* One request is enough of one thread; more of them go to both.
Scenario(catalog, edg, au, n, offered) ==
  [catalog |-> Validated(catalog), edges |-> edg, auto |-> au, requests |-> n,
   offers |-> [t \in {t1, t2} |-> IF n = 1 /\ t = t2 THEN {} ELSE offered]]

-----------------------------------------------------------------------------
(* Every way three matching concerns can each relate to one other, the     *)
(* first, which ranks high or low, to itself too, and every way it can     *)
(* relate to two concerns that relate back.                                *)
RelTypes == {"suppresses", "conflicts_with", "declares_precedence_over", "generalizes",
             "specializes"}
RelOptions(targets) == {<<>>} \cup {<<Rel(ty, x)>> : ty \in RelTypes, x \in targets}
RelPairs(x, y) == {<<Rel(ty, x), Rel(tz, y)>> : ty \in RelTypes, tz \in RelTypes}

Relating(r1, r2, r3, tr) ==
  Scenario(<<[Base(1) EXCEPT !.relations = r1, !.trust = tr],
             [Base(2) EXCEPT !.relations = r2, !.policy = Pol(54)],
             [Base(3) EXCEPT !.relations = r3, !.advice = Adv("escalation_notice", 20)]>>,
           {}, Auto, 1, {Submit(Plain, FALSE)})

Related ==
  {Relating(r1, r2, r3, tr) : r1 \in RelOptions(1..3), r2 \in RelOptions({1, 3}),
                              r3 \in RelOptions({1, 2}), tr \in {None, 60}}
    \cup {Relating(r1, r2, r3, None) :
             r1 \in RelPairs(2, 3) \cup RelPairs(3, 2) \cup RelPairs(2, 1),
             r2 \in RelOptions({1}), r3 \in RelOptions({1})}

(* Two threads over a catalog with an escalation and edges to a ghost.     *)
Edge(src, dst, rel, w) == [src |-> src, dst |-> dst, rel |-> rel, weight |-> w]
RaceCatalog == <<[Base(1) EXCEPT !.relations = <<Rel("suppresses", 2)>>, !.tags = <<"tool">>,
                    !.pointcut.match = [any |-> {"alpha", "zeta"}]],
                 [Base(2) EXCEPT !.advice = Adv("escalation_notice", 17), !.policy = Pol(48)],
                 [Base(3) EXCEPT !.hub = TRUE, !.name = "beta",
                    !.pointcut.joinpoints = {"before_response", "after_tool_call"}]>>
RaceEdges == {Edge(3, 1, "activates", 0), Edge(5, 1, "activates", 30), Edge(3, 5, "depends_on", 60)}
Raced == {Scenario(RaceCatalog, RaceEdges, Auto, 3,
            {Submit(Plain, FALSE), Submit(Quiet, TRUE), Delete(1), Req("snapshot"),
             Upsert([Base(2) EXCEPT !.pointcut = None, !.advice = None, !.kind = "meta_concern",
                       !.desc = <<"Beta", "Omega">>,
                       !.pointcuts = <<[joinpoints |-> {}, selectors |-> {}, match |-> None,
                                        preds |-> {}, expr |-> [calls |-> {"before_response"},
                                                                args |-> {"deploy"}]]>>,
                       !.advices = <<[template |-> None, chars |-> 40, space |-> 14,
                                      rationale |-> 4, max |-> 3, effect |-> Pol(60)]>>])})}

(* Pointcut criteria of every kind, against one joinpoint.                 *)
Blocks == { [any |-> {"alpha", "beta"}, all |-> {"deploy"}], [any |-> {"beta"}, all |-> {"alpha"}],
            [regex |-> {"deploy"}, risk |-> [op |-> ">=", level |-> "medium"]],
            [intent |-> "alpha", confidence |-> [op |-> "<", threshold |-> 30]],
            [structure |-> [field |-> "tool", op |-> "==", value |-> "sh"], any |-> {"zeta"}],
            [claim |-> [type |-> "fact"], any |-> {"alpha"}], [any |-> {}],
            [history |-> [min_activations |-> 2], all |-> {"alpha"}] }
Matched == {Scenario(<<[Base(1) EXCEPT !.pointcut = Where(b)],
                       [Base(2) EXCEPT !.pointcut.selectors = {[level |-> "lifecycle", match |-> {"alpha"}]},
                                       !.pointcut.joinpoints = {},
                                       !.pointcut.preds = {[key |-> "confidence", op |-> "<", value |-> 30]}]>>,
                     {}, Auto, 1,
                     {[Submit([Plain EXCEPT !.payload = @ @@ [claims |-> {[type |-> "fact", evidence |-> "no"]}]],
                              TRUE) EXCEPT !.context = [total_activations |-> 3]]}) : b \in Blocks}

-----------------------------------------------------------------------------
(* Surfaces: batch and child by child, with and without tokens.            *)
Sent(words, imp) == [words |-> words, imperative |-> imp]
Message(role, ps) == [role |-> role, text |-> ps, spans |-> None, pieces |-> <<>>,
                      sections |-> <<[path |-> "system_prompt.rules", words |-> {}],
                                     [path |-> None, words |-> {"zeta"}]>>]
Prompt == Jp(3, "on_user_input", {"hello"},
             [messages |-> <<Message("bot", <<[long |-> TRUE, sentences |->
                                <<Sent(<<"alpha">>, TRUE), Sent(<<"beta", "gamma">>, FALSE)>>]>>)>>])
SurfaceCatalog == <<[Base(1) EXCEPT !.pointcut.joinpoints = {"semantic_span", "token"},
                                    !.pointcut.match = [any |-> {"alpha"}]],
                    [Base(2) EXCEPT !.pointcut.joinpoints = {"adviceexecution", "user_message"}],
                    [Base(3) EXCEPT !.pointcut.joinpoints = {"prompt.system.rules"},
                                    !.relations = <<Rel("conflicts_with", 2)>>]>>
Surfaced == {Scenario(cat, {}, [Auto EXCEPT !.batch = b, !.tokens = tk, !.maxDiscovered = m], 1,
                      {Submit(Prompt, n)}) :
               b \in BOOLEAN, tk \in BOOLEAN, m \in {2, 6}, n \in BOOLEAN,
               cat \in {SurfaceCatalog, <<[Base(1) EXCEPT !.pointcut = None]>>}}

(* Extraction, its races with upserts and deletes, and the rest.           *)
Emitted(id, c) == [kind |-> "object", id |-> id, valid |-> TRUE, c |-> c]
Failed(kind) == [kind |-> kind, id |-> None, valid |-> FALSE, c |-> Base(1)]
Fresh == [Base(1) EXCEPT !.pointcut = None, !.advice = None, !.gtype = {"tool"},
                         !.tags = <<"style", "tool">>, !.state = "created", !.desc = <<"beta">>]
Text == << [chars |-> 20, reply |-> Failed("error")], [chars |-> 4, reply |-> Emitted(None, Fresh)],
           [chars |-> 20, reply |-> Emitted(None, Fresh)], [chars |-> 20, reply |-> Failed("empty")],
           [chars |-> 20, reply |-> Emitted(3, Fresh)],
           [chars |-> 20, reply |-> Emitted(None, [Fresh EXCEPT !.name = "beta", !.gtype = {}])] >>
Extract(dry) == [kind |-> "extract", notify |-> FALSE, text |-> Text, origin |-> "feedback",
                 ref |-> "s1", dryRun |-> dry]
Chat == Jp(4, "on_user_input", {"alpha"},
           [pieces |-> Text, messages |-> <<>>, expand |-> FALSE])
Extracted == {Scenario(<<[Base(1) EXCEPT !.policy = Pol(20), !.state = st]>>, {}, Auto, 2,
                {Extract(FALSE), Extract(TRUE), [Submit(Chat, TRUE) EXCEPT !.extract = TRUE],
                 Upsert([Base(1) EXCEPT !.policy = Pol(30), !.state = "archived"]), Delete(1)}) :
                st \in {"created", "active", "deleted"}}

Event(n, type, payload) == [id |-> n, type |-> type, words |-> {"alpha"}, payload |-> payload]
Notice(e) == [kind |-> "event", notify |-> FALSE, event |-> e]
Ticked == {Scenario(RaceCatalog, RaceEdges, [Auto EXCEPT !.onEvents = e], 3,
             {Req("tick"), Notice(Event(7, "tool_result", [text |-> "t"])),
              Notice(Event(8, "error", [messages |-> None])), Notice(Event(9, "other", [text |-> "t"]))}) :
             e \in BOOLEAN}
Answered == {Scenario(<<Base(1)>>, {}, Auto, 1,
               {[Extract(FALSE) EXCEPT !.origin = "host_explicit_plan"], Req("bad_envelope"), Req("unknown_method"), Req("bad_params"), Req("connectome_route")})}

MCScenarios == Related \cup Raced \cup Matched \cup Surfaced \cup Extracted \cup Ticked \cup Answered
=============================================================================
