------------------------------ MODULE MCUpkeep ------------------------------
(***************************************************************************)
(* Small catalogues for Upkeep: three concerns, one or two heartbeats and   *)
(* one RPC thread with a few requests each.                                 *)
(***************************************************************************)
EXTENDS Upkeep

CONSTANTS Rpc

A == 100
B == 200
C == 300

K(n) == {{ToString(i)} : i \in 1 .. n}     \* n keywords
Row(state, score, decay, kw) ==
    [life |-> [state |-> state, score |-> score, active |-> state \notin {"archived", "deleted"},
               decay |-> decay, activations |-> 3, reflex |-> FALSE],
     kw |-> kw, jp |-> {"before_response"}, rels |-> <<>>]
Reflexive(row) == [row EXCEPT !.life.reflex = TRUE]
Relating(row, rels) == [row EXCEPT !.rels = rels]
Calm(n) == Row("active", 50, 0, {{"only", ToString(n)}})
Rows(a, b, c) == (A :> a) @@ (B :> b) @@ (C :> c)

Bare == [nodes |-> <<>>, edges |-> <<>>]
Wired(rows, edges) == [nodes |-> [c \in DOMAIN rows |-> rows[c].life.state], edges |-> edges]

Upsert(id, row) == [op |-> "upsert", id |-> id, row |-> row]
Delete(id) == [op |-> "delete", id |-> id]
Coactivation(turn, ids) == [op |-> "coactivation", turn |-> turn, ids |-> ids]
Activations(turn, ids) == [op |-> "activations", turn |-> turn, ids |-> ids]
AppendReq(rec) == [op |-> "append", rec |-> rec]
Consume == [op |-> "consume"]
Cold == [op |-> "cold"]

Scenario(rows, g, buffer, n, reqs) ==
    [store |-> rows, graph |-> g, buffer |-> buffer, log |-> <<>>, ticks |-> n,
     offers |-> [t \in Clients |-> reqs]]

(* One aged, one middle-aged, one deleted; the host edits meanwhile. *)
Aging == Rows(Row("active", 50, 19, K(1)), Reflexive(Row("active", 50, 9, K(2))),
              Row("deleted", 50, 19, {}))
(* Near duplicates whose order of merging matters. *)
Twins == Rows(Row("active", 50, 0, K(3)), Row("active", 80, 0, K(3)),
              Row("reinforced", 20, 0, K(3)))
TwinsReflex == [Twins EXCEPT ![C] = Reflexive(@)]
Declared == Rows(Relating(Row("active", 50, 0, K(1)),
                          <<<<"generalizes", B>>, <<"specializes", C>>>>),
                 Calm(2), Calm(3))
ColdOnes == Rows(Row("weakened", 10, 17, K(1)), Row("weakened", 5, 0, K(2)), Calm(3))
Quarrel == Rows(Row("active", 50, 0, K(2)), Row("active", 50, 0, K(2)), Row("active", 50, 0, K(2)))
(* All but one of the conflicts are declared already. *)
AlmostDeclared ==
    LET Quarrels(c, others) ==
            Relating(Quarrel[c], [i \in DOMAIN others |-> <<"conflicts_with", others[i]>>])
    IN  Rows(Quarrels(A, <<B>>), Quarrels(B, <<A, C>>), Quarrels(C, <<A, B>>))
Strong(kw) == Row("reinforced", 80, 0, kw)

Sample(r, f) == [r |-> r, feature |-> f]
Mixed == <<Sample(0, {"deploy"}), Sample(0, {"deploy"}), Sample(600, {"test"}), Sample(600, {"lint"})>>
Tokens == <<Sample(0, {"prod", "deploy"}), Sample(0, {"prod", "drop"}), Sample(600, {"test", "x1"}),
            Sample(600, {"test", "x2"}), Sample(600, {"lint"})>>
Blank == <<Sample(0, {}), Sample(0, {}), Sample(600, {}), Sample(600, {})>>
Steady == <<Sample(100, {"deploy"}), Sample(100, {"test"}), Sample(100, {"test"}), Sample(100, {"test"})>>

Trio == Rows(Row("active", 50, 0, K(1)), Calm(2), Reflexive(Calm(3)))
Edge(a, b) == <<a, b, "activates">>
Weak == (Edge(A, B) :> 7) @@ (Edge(B, A) :> 50) @@ (Edge(A, C) :> 8)
Mutual == (Edge(A, B) :> 60) @@ (Edge(B, A) :> 60)

Outcome(turn) == WireRecord(turn, "tool_outcome", A)
Failure(turn) == [Outcome(turn) EXCEPT !.error = TRUE]
Blocked(turn) == WireRecord(turn, "tool_blocked", A)
TurnDone(turn, reward) ==
    [WireRecord(turn, "turn_complete", NoId) EXCEPT !.reward = reward,
        !.aspects = <<[cid |-> A, score |-> 5, plastic |-> FALSE],
                      [cid |-> B, score |-> 3, plastic |-> TRUE]>>]

CalmScenarios ==
    {Scenario(Aging, Wired(Aging, <<>>), <<>>, 1, reqs) :
        reqs \in {<<Delete(A)>>, <<Upsert(A, Calm(1)), Delete(B)>>}}
    \cup
    {Scenario(rows, Wired(Twins, <<>>), <<>>, 1, reqs) :
        rows \in {Twins, TwinsReflex},
        reqs \in {<<Delete(B)>>, <<Upsert(C, Calm(3))>>, <<Cold>>}}
    \cup {Scenario(Declared, Wired(Declared, Mutual), <<>>, 1, <<Delete(C)>>)}
    \cup {Scenario(ColdOnes, Bare, <<>>, 1, reqs) : reqs \in {<<Delete(A)>>, <<Delete(B), Cold>>}}
    \cup {Scenario(Quarrel, Bare, <<>>, 2, <<>>), Scenario(Quarrel, Bare, <<>>, 1, <<Upsert(A, Calm(1))>>)}
    \cup
    {Scenario(Rows(Strong(K(3)), Calm(2), Calm(3)), Bare, A :> samples, 1, reqs) :
        samples \in {<<>>, Mixed, Tokens, Blank, Steady},
        reqs \in {<<Delete(A)>>, <<AppendReq(Outcome("t"))>>}}
    \cup
    {Scenario(Trio, g, <<>>, 1,
              <<Coactivation("t", <<A, B>>), Activations("t", <<A, B>>)>> \o reqs) :
        g \in {Bare, Wired(Trio, Weak), Wired(Trio, Mutual)},
        reqs \in {<<AppendReq(Outcome("t")), AppendReq(Failure("t"))>>,
                  <<AppendReq(TurnDone("t", 0)), AppendReq(Blocked("u"))>>,
                  <<AppendReq(TurnDone("t", 100)), Consume>>,
                  <<Coactivation("u", <<B, C>>), Consume>>}}
    \cup {Scenario(Trio, Wired(Trio, Edge(B, A) :> 16), <<>>, 1,
                   <<AppendReq(TurnDone("t", 600)), Activations("u", <<A, B>>),
                     AppendReq(TurnDone("u", 0))>>)}

(* The same with a log that an earlier crash has torn. *)
TornScenarios ==
    {[s EXCEPT !.log = <<Torn>>] : s \in
        {Scenario(AlmostDeclared, Bare, <<>>, 1, <<>>), Scenario(Quarrel, Bare, <<>>, 2, <<>>),
         Scenario(Trio, Bare, <<>>, 1, <<Coactivation("t", <<A, B>>), AppendReq(Outcome("t"))>>)}}

MCScenarios == CalmScenarios \cup TornScenarios

(* A concern that has been split: one child has earned its lift to a        *)
(* reflex, and a late outcome still names the archived parent.              *)
Offspring == (A :> Row("archived", 80, 0, K(3))) @@ (ChildA(A) :> Strong(K(1)))
             @@ (ChildB(A) :> Strong(K(2)))
SplitScenarios ==
    {Scenario(Offspring, Bare, ChildA(A) :> Steady, 0,
              <<Cold, AppendReq(Outcome("t")), Cold>>)}
=============================================================================
