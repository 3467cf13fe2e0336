---------------------------- MODULE UpkeepProofs ----------------------------
(***************************************************************************)
(* Upkeep, for any catalogue, any number of RPC threads and whatever they   *)
(* ask for: the map of co-activations loses nothing but what was added      *)
(* between a consumer's reading it and its emptying it, or to a set taken   *)
(* before it was emptied; a worker that writes rows back from the copies of *)
(* its catalogue undoes nothing but what was written since it took them;    *)
(* and a pass is abandoned for the reasons listed only.                     *)
(***************************************************************************)
EXTENDS Upkeep, TLAPS

Fields == {"at", "back", "saw", "cat", "left", "self", "loser", "winner"}
Frame(f) == Fields \subseteq DOMAIN f /\ f.back \in {"next", "declared", "heuristic"}

FramesInv == DOMAIN job = Threads /\ \A t \in Threads : Frame(job[t])

(* What a consumer is about to clear it has seen, or it came too late.      *)
SawInv == \A t \in Threads :
             Is(t, "clear") => Couples(turns) \subseteq Couples(job[t].saw) \cup coact.raced

UInv == /\ FramesInv
        /\ DOMAIN coact = {"seen", "paired", "raced"}
        /\ SawInv
        /\ CoactivationsAccounted

(* What a worker knows of the rows it copied, in the store s and but for    *)
(* the ids d that others have written since: a copy agrees with its row in  *)
(* what the host wrote, a concern is not reflex, a concern is live.         *)
Twin(x, s, d) ==
    \/ x.id \in d
    \/ /\ x.id \in DOMAIN s
       /\ Authored(x.row) = Authored(s[x.id])
       /\ x.row.life.reflex = s[x.id].life.reflex
Plain(c, s, d) == c \in d \/ c \notin DOMAIN s \/ ~s[c].life.reflex
Alive(c, s, d) == c \in d \/ (c \in DOMAIN s /\ s[c].life.state \in Live)

Shaped(row) ==
    /\ {"life", "kw", "jp", "rels"} \subseteq DOMAIN row
    /\ {"state", "decay", "reflex"} \subseteq DOMAIN row.life
    /\ row.rels \in Seq(ConcernRelationType \X Ids)
IsCopy(x) == x.id \in Ids /\ Shaped(x.row)
Unique(left) == \A x, y \in left : x.id = y.id => x = y

(* The catalogue of the evolver and of the scanner. *)
CatOK(f, s, d) ==
    /\ f.at \in {"idle", "decay", "decayed", "archive", "conflict", "gather", "clear", "drain",
                 "wipe", "reweight", "record", "cold", "split"} => f.cat = {}
    /\ \A x \in f.cat :
          /\ IsCopy(x) /\ Twin(x, s, d)
          /\ f.at # "declare" =>
                /\ ~x.row.life.reflex
                /\ Alive(x.id, s, d) \/ (f.at = "merge2" /\ x.id = f.loser)

(* What each worker still has to do. *)
DecayOK(f, s, d) ==
    f.at \in {"decay", "decayed"} =>
       /\ Unique(f.left)
       /\ \A x \in f.left : /\ IsCopy(x) /\ Twin(x, s, d) /\ Alive(x.id, s, d)
                            /\ x.row.life.state \in Live
ArchiveOK(f, s, d) ==
    f.at = "archive" => \A x \in f.left : x.id \in d \/ (x.id \in DOMAIN s /\ ~s[x.id].life.reflex)
ConflictOK(f, s, d) ==
    f.at = "conflict" =>
       \A p \in f.left : /\ p[1].id # p[2].id
                         /\ IsCopy(p[1]) /\ IsCopy(p[2])
                         /\ Twin(p[1], s, d) /\ Twin(p[2], s, d)
ColdOK(f, s, d) ==
    f.at \in {"cold", "split"} =>
       /\ Unique(f.left)
       /\ \A x \in f.left : /\ IsCopy(x) /\ Plain(x.id, s, d)
                            /\ IsDerived(x.id) \/ Twin(x, s, d)
LiftOK(f) == f.at = "cold_lift" => \A p \in f.left : \E a, b : p = <<a, b>>

(* The merge in hand. *)
MergeOK(f, s, d) ==
    /\ f.at \in {"merge", "merge2"} =>
          Plain(f.loser, s, d) /\ (f.back = "heuristic" => f.winner \in CatIds(f))
    /\ f.at = "merge2" =>
          /\ f.loser # f.winner
          /\ f.loser \in d \/ (f.loser \in DOMAIN s /\ s[f.loser].life.state = "merged")
    /\ f.at = "declared" \/ (f.at \in {"merge", "merge2"} /\ f.back = "declared")
          => Plain(f.self, s, d)

Informed(f, s, d) ==
    /\ CatOK(f, s, d) /\ DecayOK(f, s, d) /\ ArchiveOK(f, s, d) /\ ConflictOK(f, s, d)
    /\ ColdOK(f, s, d) /\ LiftOK(f) /\ MergeOK(f, s, d)

RowsOK(s) == \A c \in DOMAIN s : c \in Ids /\ Shaped(s[c])

WInv == /\ RowsOK(store)
        /\ DOMAIN dirty = Threads
        /\ offers \in [Clients -> Seq(Requests)]
        /\ \A t \in Threads : Informed(job[t], store, dirty[t])

-----------------------------------------------------------------------------
(* Frames: g is f at pc, with the catalogue cat and the work left. *)
Moved(f, g, pc, cat, left) ==
    /\ Frame(g) /\ g.at = pc /\ g.cat = cat /\ g.left = left
    /\ g.self = f.self /\ g.loser = f.loser /\ g.winner = f.winner /\ g.back = f.back

Fresh(f, pc) == Frame(f) /\ f.at = pc /\ f.cat = {} /\ f.left = {}

LEMMA RestingFrame ==
  /\ Fresh(Resting, "idle")
  /\ \A pc, prog : Fresh([Resting EXCEPT !.at = pc, !.prog = prog], pc)
  /\ \A pc : Fresh([Resting EXCEPT !.at = pc], pc)
  BY DEF Fresh, Frame, Fields, Resting

LEMMA WorkMoves ==
  ASSUME NEW f, Frame(f), NEW pc, NEW left
  PROVE  Moved(f, Work(f, pc, left), IF left = {} THEN "next" ELSE pc, f.cat, left)
  BY DEF Moved, Frame, Fields, Work

LEMMA AtMoves ==
  ASSUME NEW f, Frame(f), NEW pc
  PROVE  Moved(f, [f EXCEPT !.at = pc], pc, f.cat, f.left)
  BY DEF Moved, Frame, Fields

LEMMA StageMoves ==
  ASSUME FramesInv, NEW t \in Threads
  PROVE  /\ Moved(job[t], Stage(t), job[t].at, job[t].cat, job[t].left)
         /\ \A cat : Moved(job[t], Begin(t, cat), job[t].at, cat, job[t].left)
  BY DEF FramesInv, Moved, Frame, Fields, Stage, Begin

LEMMA MovedTwice ==
  ASSUME NEW f, NEW g, NEW h, NEW pc, NEW cat, NEW left, NEW pc2, NEW cat2, NEW left2,
         Moved(f, g, pc, cat, left), Moved(g, h, pc2, cat2, left2)
  PROVE  Moved(f, h, pc2, cat2, left2)
  BY DEF Moved

(* A stage that begins with a set of copies or pairs to work off. *)
LEMMA BeginWork ==
  ASSUME FramesInv, NEW t \in Threads, NEW cat, NEW pc, NEW left
  PROVE  Moved(job[t], Work(Begin(t, cat), pc, left), IF left = {} THEN "next" ELSE pc, cat, left)
<1>1. Moved(job[t], Begin(t, cat), job[t].at, cat, job[t].left)
  BY StageMoves
<1>2. Frame(Begin(t, cat)) /\ Begin(t, cat).cat = cat
  BY <1>1 DEF Moved
<1>3. Moved(Begin(t, cat), Work(Begin(t, cat), pc, left), IF left = {} THEN "next" ELSE pc, cat, left)
  BY <1>2, WorkMoves
<1> QED
  BY <1>1, <1>3, MovedTwice

LEMMA StageWork ==
  ASSUME FramesInv, NEW t \in Threads, NEW pc, NEW left
  PROVE  Moved(job[t], Work(Stage(t), pc, left), IF left = {} THEN "next" ELSE pc, job[t].cat, left)
<1>1. Moved(job[t], Stage(t), job[t].at, job[t].cat, job[t].left)
  BY StageMoves
<1>2. Frame(Stage(t)) /\ Stage(t).cat = job[t].cat
  BY <1>1 DEF Moved
<1>3. Moved(Stage(t), Work(Stage(t), pc, left), IF left = {} THEN "next" ELSE pc, job[t].cat, left)
  BY <1>2, WorkMoves
<1> QED
  BY <1>1, <1>3, MovedTwice

-----------------------------------------------------------------------------
(* Rows and copies *)

(* The store s and the stale ids d become s2 and d2, and what changed in     *)
(* the store is stale.                                                       *)
Elsewhere(s, d, s2, d2) ==
    /\ d \subseteq d2
    /\ \A c : c \notin d2 => /\ c \in DOMAIN s <=> c \in DOMAIN s2
                             /\ c \in DOMAIN s => s2[c] = s[c]

LEMMA OthersKeep ==
  ASSUME NEW f, NEW s, NEW d, NEW s2, NEW d2, Informed(f, s, d), Elsewhere(s, d, s2, d2)
  PROVE  Informed(f, s2, d2)
<1>1. \A x : Twin(x, s, d) => Twin(x, s2, d2)
  BY DEF Twin, Elsewhere
<1>2. \A c : (Plain(c, s, d) => Plain(c, s2, d2)) /\ (Alive(c, s, d) => Alive(c, s2, d2))
  BY DEF Plain, Alive, Elsewhere
<1>3. CatOK(f, s2, d2) /\ DecayOK(f, s2, d2)
  BY <1>1, <1>2 DEF Informed, CatOK, DecayOK
<1>4. ArchiveOK(f, s2, d2)
  BY DEF Informed, ArchiveOK, Elsewhere
<1>5. ConflictOK(f, s2, d2) /\ ColdOK(f, s2, d2)
  BY <1>1, <1>2 DEF Informed, ConflictOK, ColdOK
<1>6. MergeOK(f, s2, d2)
  BY <1>2 DEF Informed, MergeOK, Elsewhere
<1> QED
  BY <1>3, <1>4, <1>5, <1>6 DEF Informed

LEMMA WritesElsewhere ==
  ASSUME NEW t \in Threads, NEW new, Writes(t, new)
  PROVE  /\ store' = new /\ DOMAIN dirty' = Threads /\ dirty'[t] = dirty[t]
         /\ \A u \in Threads \ {t} : Elsewhere(store, dirty[u], new, dirty'[u])
  BY DEF Writes, Elsewhere

-----------------------------------------------------------------------------
(* A step that moves one thread, not to the clearing, and leaves the map and *)
(* its history alone.                                                        *)
LEMMA QuietStep ==
  ASSUME UInv, NEW t \in Threads, NEW f, Goto(t, f), Frame(f), f.at # "clear",
         UNCHANGED <<turns, coact>>
  PROVE  UInv'
<1>1. DOMAIN job' = Threads /\ job'[t] = f /\ \A u \in Threads \ {t} : job'[u] = job[u]
  BY DEF UInv, FramesInv, Goto
<1>2. FramesInv'
  BY <1>1 DEF UInv, FramesInv
<1>3. SawInv'
  BY <1>1 DEF UInv, SawInv, Is
<1> QED
  BY <1>2, <1>3 DEF UInv, CoactivationsAccounted

LEMMA StillStep ==
  ASSUME UInv, UNCHANGED <<job, turns, coact>>
  PROVE  UInv'
  BY DEF UInv, FramesInv, SawInv, Is, CoactivationsAccounted

(* A step of one thread and what it writes or copies. *)
LEMMA WriteStep ==
  ASSUME FramesInv, WInv, NEW t \in Threads, NEW f, Goto(t, f), NEW new, Writes(t, new),
         RowsOK(new), Informed(f, new, dirty[t]), UNCHANGED offers
  PROVE  WInv'
<1>1. DOMAIN job' = Threads /\ job'[t] = f /\ \A u \in Threads \ {t} : job'[u] = job[u]
  BY DEF FramesInv, Goto
<1>2. ASSUME NEW u \in Threads PROVE Informed(job'[u], store', dirty'[u])
  BY <1>1, WritesElsewhere, OthersKeep DEF WInv
<1> QED
  BY <1>2, WritesElsewhere DEF WInv

LEMMA CopyStep ==
  ASSUME FramesInv, WInv, NEW t \in Threads, NEW f, Goto(t, f), Snapshots(t),
         Informed(f, store, {}), UNCHANGED <<store, offers>>
  PROVE  WInv'
<1>1. DOMAIN job' = Threads /\ job'[t] = f /\ \A u \in Threads \ {t} : job'[u] = job[u]
  BY DEF FramesInv, Goto
<1>2. /\ DOMAIN dirty' = Threads /\ dirty'[t] = {}
      /\ \A u \in Threads \ {t} : dirty'[u] = dirty[u]
  BY DEF WInv, Snapshots
<1>3. ASSUME NEW u \in Threads PROVE Informed(job'[u], store', dirty'[u])
  BY <1>1, <1>2 DEF WInv
<1> QED
  BY <1>2, <1>3 DEF WInv

LEMMA FrameStep ==
  ASSUME FramesInv, WInv, NEW t \in Threads, NEW f, Goto(t, f),
         Informed(f, store, dirty[t]), UNCHANGED <<store, dirty>>,
         offers' \in [Clients -> Seq(Requests)]
  PROVE  WInv'
<1>1. DOMAIN job' = Threads /\ job'[t] = f /\ \A u \in Threads \ {t} : job'[u] = job[u]
  BY DEF FramesInv, Goto
<1>2. ASSUME NEW u \in Threads PROVE Informed(job'[u], store', dirty'[u])
  BY <1>1 DEF WInv
<1> QED
  BY <1>2 DEF WInv

-----------------------------------------------------------------------------
(* What one step of a worker may do: the bodies of the four properties.      *)
Survives(s, new, d) ==
    /\ \A c \in DOMAIN s \ d :
          \/ IsDerived(c)
          \/ /\ c \in DOMAIN new
             /\ Authored(new[c]) = Authored(s[c])
             /\ s[c].life.reflex => new[c].life.reflex
    /\ \A c \in DOMAIN new \ DOMAIN s : IsDerived(c) \/ c \in d

RewritesAt == {"merge", "merge2", "archive", "cold", "split", "cold_merge", "cold_lift"}
CoreKept(t) ==
    job[t].at \in RewritesAt =>
       \A c \in DOMAIN store \ dirty[t] : SplitsInto(t, c) \/ Conserves(c)
MergedIntoLive(t) ==
    LET f == job[t]
    IN  f.at = "merge2" /\ f.back = "heuristic"
           /\ f.loser \in DOMAIN store /\ store'[f.loser].life.state = "archived"
        => f.winner \in dirty[t] \/ store[f.winner].life.state \in Live
AbortsRaced(t) ==
    job[t].at # "aborted" /\ job'[t].at = "aborted" => AbortReason(t)

Effects(t) == /\ Survives(store, store', dirty[t])
              /\ CoreKept(t) /\ MergedIntoLive(t) /\ AbortsRaced(t)

(* A step that leaves the rows as they are and takes no node out. *)
LEMMA RowsUntouched ==
  ASSUME NEW t \in Threads, UNCHANGED store, job[t].at # "merge2", job'[t].at # "aborted",
         job[t].at \in RewritesAt => DOMAIN graph.nodes \subseteq DOMAIN graph'.nodes
  PROVE  Effects(t)
  BY DEF Effects, Survives, CoreKept, Conserves, MergedIntoLive, AbortsRaced

(* A step that changes a thread's frame and the graph, one that changes      *)
(* nothing but the frame, and one that takes the copies of a catalogue.      *)
LEMMA GraphStep ==
  ASSUME UInv, WInv, NEW t \in Threads, NEW g, Goto(t, g), Frame(g),
         g.at \notin {"clear", "aborted"}, Informed(g, store, dirty[t]), job[t].at # "merge2",
         job[t].at \in RewritesAt => DOMAIN graph.nodes \subseteq DOMAIN graph'.nodes,
         UNCHANGED <<store, dirty, turns, coact, offers>>
  PROVE  UInv' /\ WInv' /\ Effects(t)
<1>1. FramesInv /\ DOMAIN job = Threads /\ offers' \in [Clients -> Seq(Requests)]
      /\ dirty' = dirty /\ store' = store
  BY DEF UInv, WInv, FramesInv
<1>2. UInv' /\ WInv'
  BY <1>1, QuietStep, FrameStep
<1>3. job'[t].at # "aborted"
  BY <1>1 DEF Goto
<1> QED
  BY <1>1, <1>2, <1>3, RowsUntouched

LEMMA PureStep ==
  ASSUME UInv, WInv, NEW t \in Threads, NEW g, Goto(t, g), Frame(g),
         g.at \notin {"clear", "aborted"}, Informed(g, store, dirty[t]), job[t].at # "merge2",
         UNCHANGED <<store, graph, dirty, turns, coact, offers>>
  PROVE  UInv' /\ WInv' /\ Effects(t)
  BY GraphStep

LEMMA PureCopyStep ==
  ASSUME UInv, WInv, NEW t \in Threads, NEW g, Goto(t, g), Frame(g),
         g.at \notin {"clear", "aborted"}, Informed(g, store, {}), job[t].at = "next",
         Snapshots(t), UNCHANGED <<store, graph, turns, coact, offers>>
  PROVE  UInv' /\ WInv' /\ Effects(t)
<1>1. FramesInv /\ DOMAIN job = Threads
  BY DEF UInv, FramesInv
<1>2. UInv' /\ WInv'
  BY <1>1, QuietStep, CopyStep
<1>3. job'[t].at # "aborted"
  BY <1>1 DEF Goto
<1> QED
  BY <1>2, <1>3, RowsUntouched DEF RewritesAt

(* A row of which only the lifecycle record moves: Called, Reweighed.        *)
SameRows(s, new, id) ==
    /\ DOMAIN new = DOMAIN s /\ RowsOK(new)
    /\ \A c \in DOMAIN s : /\ c # id => new[c] = s[c]
                           /\ Authored(new[c]) = Authored(s[c])
                           /\ new[c].life.reflex = s[c].life.reflex

LEMMA SameIsSame ==
  ASSUME NEW s, RowsOK(s), NEW id
  PROVE  SameRows(s, s, id)
  BY DEF SameRows

LEMMA SameSurvives ==
  ASSUME NEW s, NEW new, NEW id, SameRows(s, new, id), NEW d
  PROVE  /\ Survives(s, new, d)
         /\ \A x : Twin(x, s, d) => Twin(x, new, d)
         /\ \A c : Plain(c, s, d) => Plain(c, new, d)
         /\ \A c : c # id /\ Alive(c, s, d) => Alive(c, new, d)
<1>1. Survives(s, new, d)
  BY DEF SameRows, Survives
<1>2. \A x : Twin(x, s, d) => Twin(x, new, d)
  BY DEF SameRows, Twin
<1>3. \A c : Plain(c, s, d) => Plain(c, new, d)
  BY DEF SameRows, Plain
<1>4. \A c : c # id /\ Alive(c, s, d) => Alive(c, new, d)
  BY DEF SameRows, Alive
<1> QED
  BY <1>1, <1>2, <1>3, <1>4

Relived(s, id, life) == [s EXCEPT ![id].life = life]

LEMMA LifeMoves ==
  ASSUME NEW s, RowsOK(s), NEW id \in DOMAIN s, NEW life,
         {"state", "decay", "reflex"} \subseteq DOMAIN life, life.reflex = s[id].life.reflex,
         NEW new, new = Relived(s, id, life)
  PROVE  SameRows(s, new, id) /\ new[id].life = life
<1>0. new = [s EXCEPT ![id].life = life]
  BY DEF Relived
<1>1. DOMAIN new = DOMAIN s /\ \A c \in DOMAIN s : c # id => new[c] = s[c]
  BY <1>0
<1>2. new[id] = [s[id] EXCEPT !.life = life]
  BY <1>0
<1>3. Shaped(s[id])
  BY DEF RowsOK
<1> DEFINE row == [s[id] EXCEPT !.life = life]
<1>4. /\ DOMAIN row = DOMAIN s[id] /\ row.life = life /\ row.kw = s[id].kw
      /\ row.jp = s[id].jp /\ row.rels = s[id].rels
  BY <1>3 DEF Shaped
<1>5. new[id] = row
  BY <1>2
<1> HIDE DEF row
<1>6. Shaped(row)
  BY <1>3, <1>4 DEF Shaped
<1>7. Authored(row) = Authored(s[id])
  BY <1>4 DEF Authored
<1>8. RowsOK(new)
  BY <1>1, <1>5, <1>6 DEF RowsOK
<1> QED
  BY <1>1, <1>4, <1>5, <1>7, <1>8 DEF SameRows

LEMMA CalledMoves ==
  ASSUME RowsOK(store), NEW id \in DOMAIN store, NEW req
  PROVE  SameRows(store, Called(id, req), id) /\ Called(id, req)[id].life.state = req.target
<1>1. CASE IsNoOp(store[id].life, req)
  BY <1>1, SameIsSame DEF Called, IsNoOp
<1>2. CASE ~IsNoOp(store[id].life, req)
  <2> DEFINE life == Mutated(store[id].life, req)
  <2>1. /\ {"state", "decay", "reflex"} \subseteq DOMAIN life
        /\ life.reflex = store[id].life.reflex /\ life.state = req.target
    BY DEF Mutated
  <2>2. Called(id, req) = Relived(store, id, life)
    BY <1>2 DEF Called, Relived
  <2> HIDE DEF life
  <2> QED
    BY <2>1, <2>2, LifeMoves
<1> QED
  BY <1>1, <1>2

-----------------------------------------------------------------------------
(* A frame without a catalogue that is in no worker's loop. *)
Aside == {"next", "idle", "aborted", "gather", "clear", "drain", "wipe", "reweight", "record",
          "cold_merge"}

LEMMA AsideInformed ==
  ASSUME NEW g, g.cat = {}, g.at \in Aside, NEW s, NEW d
  PROVE  Informed(g, s, d)
  BY DEF Aside, Informed, CatOK, DecayOK, ArchiveOK, ConflictOK, ColdOK, LiftOK, MergeOK

LEMMA Copies ==
  ASSUME RowsOK(store), NEW S, S \subseteq DOMAIN store, NEW E, E = {Entry(c) : c \in S}
  PROVE  /\ Unique(E)
         /\ \A x \in E : /\ x.id \in S /\ x.row = store[x.id]
                         /\ IsCopy(x) /\ Twin(x, store, {})
<1>1. ASSUME NEW x \in E PROVE x.id \in S /\ x.row = store[x.id] /\ x = Entry(x.id)
  BY <1>1 DEF Entry
<1>2. Unique(E)
  BY <1>1 DEF Unique
<1>3. ASSUME NEW x \in E PROVE IsCopy(x) /\ Twin(x, store, {})
  BY <1>1, <1>3 DEF IsCopy, Twin, RowsOK
<1> QED
  BY <1>1, <1>2, <1>3

(* The decay worker *)
LEMMA DecayInformed ==
  ASSUME NEW g, g.cat = {}, g.at \in {"next", "decay", "decayed"}, NEW s, NEW d,
         g.at # "next" => DecayOK(g, s, d)
  PROVE  Informed(g, s, d)
  BY DEF Informed, CatOK, DecayOK, ArchiveOK, ConflictOK, ColdOK, LiftOK, MergeOK

LEMMA StartDecayStep ==
  ASSUME UInv, WInv, NEW t \in Threads, StartDecay(t)
  PROVE  UInv' /\ WInv' /\ Effects(t)
<1> DEFINE E == Entries(Decays)
           g == Work(Begin(t, {}), "decay", E)
<1>0. FramesInv /\ RowsOK(store) /\ DOMAIN job = Threads
  BY DEF UInv, WInv, FramesInv
<1>1. Moved(job[t], g, IF E = {} THEN "next" ELSE "decay", {}, E)
  BY <1>0, BeginWork
<1>2. /\ Unique(E)
      /\ \A x \in E : /\ IsCopy(x) /\ Twin(x, store, {}) /\ x.id \in DOMAIN store
                      /\ x.row = store[x.id] /\ x.row.life.state \in Live
  <2> DEFINE S == {c \in DOMAIN store : Decays(store[c])}
  <2>1. E = {Entry(c) : c \in S}
    BY DEF Entries
  <2>2. S \subseteq DOMAIN store /\ \A c \in S : store[c].life.state \in Live
    BY DEF Decays
  <2> HIDE DEF S, E
  <2> QED
    BY <1>0, <2>1, <2>2, Copies
<1>3. Goto(t, g) /\ Snapshots(t) /\ UNCHANGED <<store, graph, turns, coact, offers>>
  BY DEF StartDecay, stores, service
<1> HIDE DEF E, g
<1>4. DecayOK(g, store, {})
  BY <1>1, <1>2 DEF DecayOK, Moved, Alive
<1>5. Informed(g, store, {})
  BY <1>1, <1>4, DecayInformed DEF Moved
<1>6. Frame(g) /\ g.at \notin {"clear", "aborted"} /\ job[t].at = "next"
  BY <1>1 DEF StartDecay, Begins, Is, Moved
<1> QED
  BY <1>3, <1>5, <1>6, PureCopyStep

LEMMA BumpedShape ==
  ASSUME NEW row, Shaped(row)
  PROVE  /\ Shaped(Bumped(row)) /\ Authored(Bumped(row)) = Authored(row)
         /\ Bumped(row).life.reflex = row.life.reflex
         /\ Bumped(row).life.state = row.life.state
<1> DEFINE life == [row.life EXCEPT !.decay = Least(DecayOne, @ + DecayOne \div 20)]
           new == [row EXCEPT !.life = life]
<1>1. Bumped(row) = new
  BY DEF Bumped
<1>2. DOMAIN life = DOMAIN row.life /\ life.reflex = row.life.reflex /\ life.state = row.life.state
  BY DEF Shaped
<1> HIDE DEF life
<1>3. /\ DOMAIN new = DOMAIN row /\ new.life = life /\ new.kw = row.kw /\ new.jp = row.jp
      /\ new.rels = row.rels
  BY DEF Shaped
<1> HIDE DEF new
<1>4. Shaped(new) /\ Authored(new) = Authored(row)
  BY <1>2, <1>3 DEF Shaped, Authored
<1> QED
  BY <1>1, <1>2, <1>3, <1>4

(* A copy is written back with what the host wrote unchanged. *)
LEMMA TwinWritten ==
  ASSUME NEW s, RowsOK(s), NEW d, NEW x, x.id \in Ids, Twin(x, s, d), NEW row, Shaped(row),
         Authored(row) = Authored(x.row), row.life.reflex = x.row.life.reflex,
         NEW new, new = Put(s, x.id, row)
  PROVE  /\ RowsOK(new) /\ Survives(s, new, d)
         /\ \A y : Twin(y, s, d) => Twin(y, new, d)
         /\ \A c : c # x.id /\ Alive(c, s, d) => Alive(c, new, d)
         /\ new[x.id] = row
<1>1. /\ DOMAIN new = DOMAIN s \cup {x.id} /\ new[x.id] = row
      /\ \A c \in DOMAIN s \ {x.id} : new[c] = s[c]
  BY DEF Put
<1>2. RowsOK(new)
  BY <1>1 DEF RowsOK
<1>3. Survives(s, new, d)
  BY <1>1 DEF Survives, Twin
<1>4. ASSUME NEW y, Twin(y, s, d) PROVE Twin(y, new, d)
  BY <1>1, <1>4 DEF Twin
<1>5. ASSUME NEW c, c # x.id, Alive(c, s, d) PROVE Alive(c, new, d)
  BY <1>1, <1>5 DEF Alive
<1> QED
  BY <1>1, <1>2, <1>3, <1>4, <1>5

LEMMA BumpDecayStep ==
  ASSUME UInv, WInv, NEW t \in Threads, BumpDecay(t)
  PROVE  UInv' /\ WInv' /\ Effects(t)
<1> DEFINE f == job[t]
<1>0. FramesInv /\ RowsOK(store) /\ DOMAIN job = Threads /\ Frame(f)
      /\ Informed(f, store, dirty[t])
  BY DEF UInv, WInv, FramesInv
<1>1. PICK x \in f.left :
         /\ Is(t, "decay")
         /\ Writes(t, Put(store, x.id, Bumped(x.row)))
         /\ Goto(t, IF 2 * Bumped(x.row).life.decay >= DecayOne
                    THEN [f EXCEPT !.at = "decayed", !.self = x.id,
                                   !.left = (f.left \ {x}) \cup {[id |-> x.id, row |-> Bumped(x.row)]}]
                    ELSE Work(f, "decay", f.left \ {x}))
         /\ UNCHANGED <<graph, service, offers, ticks, coact>>
  BY DEF BumpDecay
<1>2. UNCHANGED <<graph, turns, offers, coact>>
  BY <1>1 DEF service
<1>3. f.at = "decay" /\ f.cat = {} /\ DecayOK(f, store, dirty[t])
  BY <1>0, <1>1 DEF Is, Informed, CatOK
<1>4. /\ Unique(f.left) /\ IsCopy(x) /\ Twin(x, store, dirty[t]) /\ x.row.life.state \in Live
      /\ \A y \in f.left : /\ IsCopy(y) /\ Twin(y, store, dirty[t]) /\ Alive(y.id, store, dirty[t])
                           /\ y.row.life.state \in Live
  BY <1>1, <1>3 DEF DecayOK
<1> DEFINE row == Bumped(x.row)
           z == [id |-> x.id, row |-> row]
           rest == f.left \ {x}
           new == Put(store, x.id, row)
           d == dirty[t]
<1>5. /\ Shaped(row) /\ Authored(row) = Authored(x.row) /\ row.life.reflex = x.row.life.reflex
      /\ row.life.state = x.row.life.state
  BY <1>4, BumpedShape DEF IsCopy
<1>6. z.id = x.id /\ z.row = row
  OBVIOUS
<1>7. PICK g : /\ Goto(t, g)
               /\ \/ g = [f EXCEPT !.at = "decayed", !.self = x.id, !.left = rest \cup {z}]
                  \/ g = Work(f, "decay", rest)
  BY <1>1
<1>8. \/ Frame(g) /\ g.at = "decayed" /\ g.cat = {} /\ g.left = rest \cup {z}
      \/ Moved(f, g, IF rest = {} THEN "next" ELSE "decay", {}, rest)
  <2>1. CASE g = Work(f, "decay", rest)
    BY <1>0, <1>3, <2>1, WorkMoves
  <2>2. CASE g = [f EXCEPT !.at = "decayed", !.self = x.id, !.left = rest \cup {z}]
    BY <1>0, <1>3, <2>2 DEF Frame, Fields
  <2> QED
    BY <1>7, <2>1, <2>2
<1>9. Writes(t, new)
  BY <1>1
<1> HIDE DEF row, z, new, rest, f
<1>10. /\ RowsOK(new) /\ Survives(store, new, d) /\ new[x.id] = row
       /\ \A y : Twin(y, store, d) => Twin(y, new, d)
       /\ \A c : c # x.id /\ Alive(c, store, d) => Alive(c, new, d)
  BY <1>0, <1>4, <1>5, TwinWritten DEF new, IsCopy
<1>11. x.id \in DOMAIN new
  BY DEF Put, new
<1>12. Alive(x.id, new, d) /\ Twin(z, new, d) /\ IsCopy(z) /\ z.row.life.state \in Live
  BY <1>4, <1>5, <1>6, <1>10, <1>11 DEF Alive, Twin, IsCopy
<1>13. \A y \in rest : /\ y \in f.left /\ y.id # x.id
                       /\ IsCopy(y) /\ Twin(y, new, d) /\ Alive(y.id, new, d)
                       /\ y.row.life.state \in Live
  BY <1>1, <1>4, <1>10 DEF rest, Unique
<1>14. Unique(rest) /\ Unique(rest \cup {z})
  BY <1>4, <1>6, <1>13 DEF rest, Unique
<1>15. DecayOK(g, new, d)
  BY <1>6, <1>8, <1>12, <1>13, <1>14 DEF DecayOK, Moved
<1>16. Informed(g, new, d) /\ Frame(g) /\ g.at \in {"next", "decay", "decayed"}
  BY <1>8, <1>15, DecayInformed DEF Moved
<1>17. UInv' /\ WInv'
  BY <1>0, <1>2, <1>7, <1>9, <1>10, <1>16, QuietStep, WriteStep
<1>18. job'[t] = g /\ store' = new
  BY <1>0, <1>7, <1>9 DEF Goto, Writes
<1> QED
  BY <1>3, <1>10, <1>16, <1>17, <1>18
     DEF Effects, CoreKept, MergedIntoLive, AbortsRaced, RewritesAt, f

(* A call of the lifecycle manager, or none. *)
MaybeCalled(ok, id, req) == IF ok THEN Called(id, req) ELSE store

LEMMA MaybeCalledMoves ==
  ASSUME RowsOK(store), NEW id, NEW req, NEW ok, ok => Accepted(id, req)
  PROVE  /\ SameRows(store, MaybeCalled(ok, id, req), id)
         /\ ok => id \in DOMAIN store /\ MaybeCalled(ok, id, req)[id].life.state = req.target
         /\ ~ok => MaybeCalled(ok, id, req) = store
<1>1. CASE ok
  BY <1>1, CalledMoves DEF MaybeCalled, Accepted
<1>2. CASE ~ok
  BY <1>2, SameIsSame DEF MaybeCalled
<1> QED
  BY <1>1, <1>2

(* Every live state may be archived, and weakened. *)
LEMMA LiveArchives ==
  ASSUME NEW id \in DOMAIN store, store[id].life.state \in Live \cup {"merged"}
  PROVE  Accepted(id, Archive)
  BY DEF Accepted, Admits, Archive, AllowedTransitions, Live, LifecycleState

LEMMA AgeConcernStep ==
  ASSUME UInv, WInv, NEW t \in Threads, AgeConcern(t)
  PROVE  UInv' /\ WInv' /\ Effects(t)
<1> DEFINE f == job[t]
           d == dirty[t]
<1>0. FramesInv /\ RowsOK(store) /\ DOMAIN job = Threads /\ Frame(f) /\ Informed(f, store, d)
  BY DEF UInv, WInv, FramesInv
<1>1. PICK x \in f.left, req \in {Archive, Weaken(5)} :
         LET ok == Accepted(x.id, req)
         IN  /\ Is(t, "decayed")
             /\ Writes(t, MaybeCalled(ok, x.id, req))
             /\ IF ok \/ ~req.sync THEN Goto(t, Work(f, "decay", f.left \ {x}))
                ELSE Abort(t)
             /\ UNCHANGED <<service, offers, ticks, coact>>
  BY DEF AgeConcern, MaybeCalled
<1> DEFINE ok == Accepted(x.id, req)
           new == MaybeCalled(ok, x.id, req)
           rest == f.left \ {x}
<1>2. UNCHANGED <<turns, offers, coact>> /\ Writes(t, new)
  BY <1>1 DEF service
<1>3. f.at = "decayed" /\ f.cat = {} /\ DecayOK(f, store, d)
  BY <1>0, <1>1 DEF Is, Informed, CatOK
<1>4. /\ Unique(f.left) /\ Alive(x.id, store, d)
      /\ \A y \in f.left : /\ IsCopy(y) /\ Twin(y, store, d) /\ Alive(y.id, store, d)
                           /\ y.row.life.state \in Live
  BY <1>1, <1>3 DEF DecayOK
<1>5. SameRows(store, new, x.id)
  BY <1>0, MaybeCalledMoves
<1>6. PICK g : /\ Goto(t, g)
               /\ \/ g = Work(f, "decay", rest)
                  \/ ~ok /\ req = Archive /\ g = [Resting EXCEPT !.at = "aborted"]
  BY <1>1 DEF Abort, Weaken
<1>7. \/ Moved(f, g, IF rest = {} THEN "next" ELSE "decay", {}, rest)
      \/ ~ok /\ req = Archive /\ Fresh(g, "aborted")
  <2>1. Moved(f, Work(f, "decay", rest), IF rest = {} THEN "next" ELSE "decay", {}, rest)
    BY <1>0, <1>3, WorkMoves
  <2>2. Fresh([Resting EXCEPT !.at = "aborted"], "aborted")
    BY RestingFrame
  <2> QED
    BY <1>6, <2>1, <2>2, Zenon
<1> HIDE DEF ok, new, rest, f
<1>8. /\ Survives(store, new, d) /\ RowsOK(new)
      /\ \A y : Twin(y, store, d) => Twin(y, new, d)
      /\ \A c : c # x.id /\ Alive(c, store, d) => Alive(c, new, d)
  BY <1>5, SameSurvives DEF SameRows
<1>9. \A y \in rest : y \in f.left /\ y.id # x.id
  BY <1>1, <1>4 DEF rest, Unique
<1>10. \A y \in rest : /\ IsCopy(y) /\ Twin(y, new, d) /\ Alive(y.id, new, d)
                       /\ y.row.life.state \in Live
  BY <1>4, <1>8, <1>9
<1>11. Unique(rest)
  BY <1>4, <1>9 DEF Unique
<1>12. Informed(g, new, d) /\ Frame(g) /\ g.at # "clear"
  <2>1. CASE Fresh(g, "aborted")
    BY <2>1, AsideInformed DEF Fresh, Aside
  <2>2. CASE Moved(f, g, IF rest = {} THEN "next" ELSE "decay", {}, rest)
    <3>1. DecayOK(g, new, d)
      BY <1>10, <1>11, <2>2 DEF DecayOK, Moved
    <3> QED
      BY <2>2, <3>1, DecayInformed DEF Moved
  <2> QED
    BY <1>7, <2>1, <2>2
<1>13. UInv' /\ WInv'
  BY <1>0, <1>2, <1>6, <1>8, <1>12, QuietStep, WriteStep
<1>14. job'[t] = g /\ store' = new
  BY <1>0, <1>2, <1>6 DEF Goto, Writes
<1>15. g.at = "aborted" => d # {}
  <2> SUFFICES ASSUME g.at = "aborted", d = {} PROVE FALSE
    OBVIOUS
  <2>1. ~Accepted(x.id, Archive)
    BY <1>7 DEF Moved, ok
  <2> QED
    BY <1>4, <2>1, LiveArchives DEF Alive
<1> QED
  BY <1>3, <1>8, <1>13, <1>14, <1>15
     DEF Effects, CoreKept, MergedIntoLive, AbortsRaced, AbortReason, RewritesAt, f

-----------------------------------------------------------------------------
(* The evolver *)
LEMMA CatInformed ==
  ASSUME NEW f, NEW g, NEW s, NEW d, CatOK(f, s, d), f.at \notin {"declare", "merge2"},
         g.cat = f.cat, g.at \in {"next", "heuristic", "declared", "cold_merge", "cold_lift"},
         g.at = "declared" => Plain(g.self, s, d), LiftOK(g)
  PROVE  Informed(g, s, d)
  BY DEF Informed, CatOK, DecayOK, ArchiveOK, ConflictOK, ColdOK, LiftOK, MergeOK

LEMMA CatPlain ==
  ASSUME NEW f, NEW s, NEW d, CatOK(f, s, d), f.at # "declare"
  PROVE  \A c \in CatIds(f) : Plain(c, s, d)
<1> SUFFICES ASSUME NEW c \in CatIds(f) PROVE Plain(c, s, d)
  OBVIOUS
<1>1. PICK x \in f.cat : x.id = c
  BY DEF CatIds
<1> QED
  BY <1>1 DEF CatOK, Twin, Plain

LEMMA StartDeclaredStep ==
  ASSUME UInv, WInv, NEW t \in Threads, StartDeclared(t)
  PROVE  UInv' /\ WInv' /\ Effects(t)
<1> DEFINE E == Entries(Catalogable)
           b == Begin(t, E)
<1>0. FramesInv /\ RowsOK(store) /\ DOMAIN job = Threads
  BY DEF UInv, WInv, FramesInv
<1>r. PICK r : Goto(t, [b EXCEPT !.at = "declared", !.self = NoId, !.pos = 0, !.rank = r,
                                 !.seen = {}, !.todo = <<>>])
  BY Zenon DEF StartDeclared
<1> DEFINE g == [b EXCEPT !.at = "declared", !.self = NoId, !.pos = 0, !.rank = r,
                          !.seen = {}, !.todo = <<>>]
<1>1. Frame(b) /\ b.cat = E
  BY <1>0, StageMoves DEF Moved
<1>2. \A x \in E : /\ IsCopy(x) /\ Twin(x, store, {}) /\ x.id \in DOMAIN store
                   /\ x.row = store[x.id] /\ x.row.life.state \in Live /\ ~x.row.life.reflex
  <2> DEFINE S == {c \in DOMAIN store : Catalogable(store[c])}
  <2>1. E = {Entry(c) : c \in S}
    BY DEF Entries
  <2>2. S \subseteq DOMAIN store
        /\ \A c \in S : store[c].life.state \in Live /\ ~store[c].life.reflex
    BY DEF Catalogable
  <2> HIDE DEF S, E
  <2> QED
    BY <1>0, <2>1, <2>2, Copies
<1>3. Goto(t, g) /\ Snapshots(t) /\ UNCHANGED <<store, graph, turns, coact, offers>>
  BY <1>r DEF StartDeclared, stores, service
<1> HIDE DEF E, b
<1>4. Frame(g) /\ g.cat = E /\ g.at = "declared" /\ g.self = NoId
  BY <1>1 DEF Frame, Fields
<1> HIDE DEF g
<1>5. CatOK(g, store, {})
  BY <1>2, <1>4 DEF CatOK, Alive
<1>6. Plain(NoId, store, {})
  BY <1>0 DEF Plain, RowsOK, Ids, NoId
<1>7. Informed(g, store, {})
  BY <1>4, <1>5, <1>6, CatInformed DEF LiftOK
<1>8. job[t].at = "next" /\ g.at \notin {"clear", "aborted"}
  BY <1>4 DEF StartDeclared, Begins, Is
<1> QED
  BY <1>3, <1>4, <1>7, <1>8, PureCopyStep

LEMMA NextDeclaredStep ==
  ASSUME UInv, WInv, NEW t \in Threads, NextDeclared(t)
  PROVE  UInv' /\ WInv' /\ Effects(t)
<1> DEFINE f == job[t]
           d == dirty[t]
<1>0. FramesInv /\ RowsOK(store) /\ DOMAIN job = Threads /\ Frame(f) /\ Informed(f, store, d)
  BY DEF UInv, WInv, FramesInv
<1>1. f.at = "declared" /\ UNCHANGED <<store, graph, dirty, turns, coact, offers>>
      /\ CatOK(f, store, d)
  BY <1>0 DEF NextDeclared, Is, stores, service, Informed
<1>2. PICK g : /\ Goto(t, g)
               /\ \/ \E x \in f.cat : \E todo, n : g = [f EXCEPT !.pos = n, !.self = x.id, !.todo = todo]
                  \/ g = [f EXCEPT !.at = "next"]
  <2>1. CASE \E x \in f.cat : Goto(t, [f EXCEPT !.pos = @ + 1, !.self = x.id, !.todo = MergeEntries(x)])
    BY <2>1, Zenon
  <2>2. CASE Goto(t, [f EXCEPT !.at = "next"])
    BY <2>2, Zenon
  <2> QED
    BY <2>1, <2>2, Zenon DEF NextDeclared
<1>3. Frame(g) /\ g.cat = f.cat /\ (g.at = "next" \/ (g.at = "declared" /\ g.self \in CatIds(f)))
  <2>1. ASSUME NEW x \in f.cat, NEW todo, NEW n,
               g = [f EXCEPT !.pos = n, !.self = x.id, !.todo = todo]
        PROVE  Frame(g) /\ g.cat = f.cat /\ g.at = "declared" /\ g.self = x.id
    BY <1>0, <1>1, <2>1 DEF Frame, Fields
  <2>2. CASE g = [f EXCEPT !.at = "next"]
    BY <1>0, <2>2 DEF Frame, Fields
  <2> QED
    BY <1>2, <2>1, <2>2 DEF CatIds
<1> HIDE DEF f
<1>4. Informed(g, store, d)
  BY <1>1, <1>3, CatPlain, CatInformed DEF LiftOK
<1>5. g.at \notin {"clear", "aborted"}
  BY <1>3
<1> QED
  BY <1>1, <1>2, <1>3, <1>4, <1>5, PureStep DEF f

(* The two ends of the merge in hand. *)
LEMMA MergeInformed ==
  ASSUME NEW f, NEW g, NEW s, NEW d, CatOK(f, s, d), f.at \notin {"declare", "merge2"},
         g.cat = f.cat, g.at = "merge", Plain(g.loser, s, d),
         g.back = "heuristic" => g.winner \in CatIds(f),
         g.back = "declared" => Plain(g.self, s, d)
  PROVE  Informed(g, s, d)
  BY DEF Informed, CatOK, DecayOK, ArchiveOK, ConflictOK, ColdOK, LiftOK, MergeOK, CatIds

LEMMA MergeDeclaredStep ==
  ASSUME UInv, WInv, NEW t \in Threads, MergeDeclared(t)
  PROVE  UInv' /\ WInv' /\ Effects(t)
<1> DEFINE f == job[t]
           d == dirty[t]
           rel == Head(f.todo)
<1>0. FramesInv /\ RowsOK(store) /\ DOMAIN job = Threads /\ Frame(f) /\ Informed(f, store, d)
  BY DEF UInv, WInv, FramesInv
<1>1. f.at = "declared" /\ UNCHANGED <<store, graph, dirty, turns, coact, offers>>
      /\ CatOK(f, store, d) /\ Plain(f.self, store, d)
  BY <1>0 DEF MergeDeclared, Is, stores, service, Informed, MergeOK
<1> DEFINE lost == _pick_loser(f.self, rel)
           A == [f EXCEPT !.todo = Tail(@)]
           B == [f EXCEPT !.at = "merge", !.back = "declared", !.todo = Tail(@),
                          !.seen = @ \cup {{f.self, rel[2]}}, !.loser = lost,
                          !.winner = IF lost = f.self THEN rel[2] ELSE f.self]
<1>2. Goto(t, A) \/ (Goto(t, B) /\ rel[2] \in CatIds(f))
  BY DEF MergeDeclared
<1>3. /\ Frame(A) /\ A.cat = f.cat /\ A.self = f.self /\ A.at = "declared"
      /\ Frame(B) /\ B.cat = f.cat /\ B.self = f.self /\ B.at = "merge"
      /\ B.back = "declared" /\ B.loser = lost
  BY <1>0, <1>1 DEF Frame, Fields
<1> HIDE DEF A, B
<1>4. PICK g : /\ Goto(t, g) /\ Frame(g) /\ g.cat = f.cat /\ g.self = f.self
                /\ \/ g.at = "declared"
                   \/ /\ g.at = "merge" /\ rel[2] \in CatIds(f) /\ g.back = "declared"
                      /\ g.loser = lost
  BY <1>2, <1>3
<1>5. g.at = "merge" => Plain(g.loser, store, d)
  <2>1. lost \in {f.self, rel[2]}
    BY DEF _pick_loser
  <2> QED
    BY <1>1, <1>4, <2>1, CatPlain
<1> HIDE DEF f, rel, lost
<1>6. Informed(g, store, d)
  <2>1. CASE g.at = "declared"
    BY <1>1, <1>4, <2>1, CatInformed DEF LiftOK
  <2>2. CASE g.at = "merge"
    BY <1>1, <1>4, <1>5, <2>2, MergeInformed
  <2> QED
    BY <1>4, <2>1, <2>2
<1>7. g.at \notin {"clear", "aborted"}
  BY <1>4
<1> QED
  BY <1>1, <1>6, <1>7, <1>4, PureStep DEF f

LEMMA StartHeuristicStep ==
  ASSUME UInv, WInv, NEW t \in Threads, StartHeuristic(t)
  PROVE  UInv' /\ WInv' /\ Effects(t)
<1> DEFINE f == job[t]
           E == Alike(f.cat, MinOverlap)
           b == [Stage(t) EXCEPT !.rank = <<>>]
           g == Work(b, "heuristic", E)
<1>0. FramesInv /\ Informed(f, store, dirty[t])
  BY DEF UInv, WInv
<1>1. Moved(f, g, IF E = {} THEN "next" ELSE "heuristic", f.cat, E)
  <2>1. Moved(f, Stage(t), f.at, f.cat, f.left)
    BY <1>0, StageMoves
  <2>2. Moved(f, b, f.at, f.cat, f.left)
    BY <2>1 DEF Moved, Frame, Fields
  <2> HIDE DEF b, E
  <2>3. Moved(b, g, IF E = {} THEN "next" ELSE "heuristic", b.cat, E) /\ b.cat = f.cat
    BY <2>2, WorkMoves DEF Moved
  <2> QED
    BY <2>2, <2>3, MovedTwice
<1>2. Goto(t, g) /\ f.at = "next" /\ UNCHANGED <<store, graph, dirty, turns, coact, offers>>
  BY DEF StartHeuristic, Begins, Is, stores, service
<1> HIDE DEF f, E, g
<1>3. Frame(g) /\ g.at \in {"next", "heuristic"} /\ g.cat = f.cat
  BY <1>1 DEF Moved
<1>4. Informed(g, store, dirty[t])
  BY <1>0, <1>2, <1>3, CatInformed DEF Informed, LiftOK
<1> QED
  BY <1>2, <1>3, <1>4, PureStep DEF f

LEMMA HeuristicMergeMoves ==
  ASSUME NEW f, Frame(f), NEW p
  PROVE  LET g == HeuristicMerge(f, p)
         IN  /\ Frame(g) /\ g.at = "merge" /\ g.back = "heuristic" /\ g.cat = f.cat
             /\ {g.loser, g.winner} \subseteq {p[1].id, p[2].id}
<1> DEFINE x == _pick_by_score(p[1], p[2])
           w == IF x = p[1] THEN p[2].id ELSE p[1].id
           g == [f EXCEPT !.at = "merge", !.back = "heuristic", !.left = @ \ {p}, !.loser = x.id,
                          !.winner = w]
<1>1. x \in {p[1], p[2]}
  BY DEF _pick_by_score
<1>2. w \in {p[1].id, p[2].id}
  OBVIOUS
<1>3. HeuristicMerge(f, p) = g
  BY DEF HeuristicMerge
<1> HIDE DEF x, w
<1>4. /\ Frame(g) /\ g.at = "merge" /\ g.back = "heuristic" /\ g.cat = f.cat
      /\ g.loser = x.id /\ g.winner = w
  BY DEF Frame, Fields
<1> HIDE DEF g
<1> QED
  BY <1>1, <1>2, <1>3, <1>4

LEMMA MergeHeuristicStep ==
  ASSUME UInv, WInv, NEW t \in Threads, MergeHeuristic(t)
  PROVE  UInv' /\ WInv' /\ Effects(t)
<1> DEFINE f == job[t]
           d == dirty[t]
<1>0. FramesInv /\ Frame(f) /\ Informed(f, store, d) /\ CatOK(f, store, d)
  BY DEF UInv, WInv, FramesInv, Informed
<1>1. f.at = "heuristic" /\ UNCHANGED <<store, graph, dirty, turns, coact, offers>>
  BY DEF MergeHeuristic, Is, stores, service
<1>2. PICK p \in f.left :
         Goto(t, IF ~({p[1].id, p[2].id} \subseteq CatIds(f))
                 THEN Work(f, "heuristic", f.left \ {p})
                 ELSE HeuristicMerge(f, p))
  BY DEF MergeHeuristic
<1> DEFINE A == Work(f, "heuristic", f.left \ {p})
           B == HeuristicMerge(f, p)
<1>3. Goto(t, A) \/ (Goto(t, B) /\ {p[1].id, p[2].id} \subseteq CatIds(f))
  BY <1>2
<1>4. Frame(A) /\ A.cat = f.cat /\ A.at \in {"next", "heuristic"}
  BY <1>0, WorkMoves DEF Moved
<1>5. /\ Frame(B) /\ B.at = "merge" /\ B.back = "heuristic" /\ B.cat = f.cat
      /\ {B.loser, B.winner} \subseteq {p[1].id, p[2].id}
  BY <1>0, HeuristicMergeMoves
<1> HIDE DEF A, B, f
<1>6. CASE Goto(t, A)
  <2>1. Informed(A, store, d)
    BY <1>0, <1>1, <1>4, CatInformed DEF LiftOK
  <2> QED
    BY <1>1, <1>4, <1>6, <2>1, PureStep DEF f
<1>7. CASE Goto(t, B) /\ {p[1].id, p[2].id} \subseteq CatIds(f)
  <2>1. {B.loser, B.winner} \subseteq CatIds(f)
    BY <1>5, <1>7
  <2>2. Informed(B, store, d)
    BY <1>0, <1>1, <1>5, <2>1, CatPlain, MergeInformed
  <2> QED
    BY <1>1, <1>5, <1>7, <2>2, PureStep DEF f
<1> QED
  BY <1>3, <1>6, <1>7

LEMMA ResumeMoves ==
  ASSUME NEW f, Frame(f)
  PROVE  LET g == Resume(f)
         IN  /\ Frame(g) /\ g.cat = f.cat /\ g.self = f.self
             /\ g.at \in {"next", "heuristic"} \/ (g.at = "declared" /\ f.back = "declared")
<1>1. CASE f.back = "heuristic"
  BY <1>1, WorkMoves DEF Resume, Moved
<1>2. CASE f.back # "heuristic"
  <2>1. Resume(f) = [f EXCEPT !.at = f.back]
    BY <1>2 DEF Resume
  <2> QED
    BY <1>2, <2>1, AtMoves DEF Moved, Frame
<1> QED
  BY <1>1, <1>2

(* The steps of a merge touch the loser, which is not reflex.                *)
LEMMA PlainRowMoves ==
  ASSUME NEW t \in Threads, NEW id, Plain(id, store, dirty[t]), SameRows(store, store', id),
         DOMAIN graph.nodes \ {id} \subseteq DOMAIN graph'.nodes,
         job[t].at # "aborted" => job'[t].at # "aborted", MergedIntoLive(t)
  PROVE  Effects(t)
<1>1. Survives(store, store', dirty[t])
  BY SameSurvives
<1>2. \A c \in DOMAIN store \ dirty[t] : Conserves(c)
  BY DEF Conserves, Plain, SameRows
<1> QED
  BY <1>1, <1>2 DEF Effects, CoreKept, AbortsRaced

LEMMA NodesKept ==
  ASSUME NEW g, NEW a, NEW b, NEW s, NEW ids
  PROVE  /\ DOMAIN g.nodes \subseteq DOMAIN EnsureNodes(g, s, ids).nodes
         /\ DOMAIN g.nodes \subseteq DOMAIN ArchiveNode(g, a).nodes
         /\ DOMAIN g.nodes \ {a} \subseteq DOMAIN MergeNodes(g, a, b).nodes
<1>1. DOMAIN g.nodes \subseteq DOMAIN EnsureNodes(g, s, ids).nodes
  BY DEF EnsureNodes
<1>2. DOMAIN g.nodes \subseteq DOMAIN ArchiveNode(g, a).nodes
  BY DEF ArchiveNode, Put
<1>3. DOMAIN g.nodes \ {a} \subseteq DOMAIN MergeNodes(g, a, b).nodes
  BY DEF MergeNodes, Drop, Restrict
<1> QED
  BY <1>1, <1>2, <1>3

LEMMA MergeTransitionStep ==
  ASSUME UInv, WInv, NEW t \in Threads, MergeTransition(t)
  PROVE  UInv' /\ WInv' /\ Effects(t)
<1> DEFINE f == job[t]
           d == dirty[t]
           req == Transition("merged")
           known == f.loser # f.winner /\ {f.loser, f.winner} \subseteq DOMAIN store
           ok == known /\ Accepted(f.loser, req)
           new == MaybeCalled(ok, f.loser, req)
           A == [f EXCEPT !.at = "merge2"]
           B == Resume(f)
<1>0. FramesInv /\ RowsOK(store) /\ DOMAIN job = Threads /\ Frame(f) /\ Informed(f, store, d)
      /\ CatOK(f, store, d)
  BY DEF UInv, WInv, FramesInv, Informed
<1>1. f.at = "merge" /\ UNCHANGED <<turns, coact, offers>> /\ Writes(t, new)
      /\ DOMAIN graph.nodes \subseteq DOMAIN graph'.nodes
  <2>1. \/ graph' = EnsureNodes(graph, store, {f.loser, f.winner})
        \/ graph' = graph
    BY DEF MergeTransition
  <2>2. Writes(t, new)
    BY DEF MergeTransition, MaybeCalled
  <2>3. DOMAIN graph.nodes \subseteq DOMAIN graph'.nodes
    BY <2>1, NodesKept
  <2> QED
    BY <2>2, <2>3 DEF MergeTransition, Is, service
<1>2. (ok /\ Goto(t, A)) \/ (~ok /\ Goto(t, B))
  BY DEF MergeTransition
<1>3. Moved(f, A, "merge2", f.cat, f.left)
  BY <1>0, AtMoves
<1>4. /\ Frame(B) /\ B.cat = f.cat /\ B.self = f.self
      /\ B.at \in {"next", "heuristic"} \/ (B.at = "declared" /\ f.back = "declared")
  BY <1>0, ResumeMoves
<1>5. /\ SameRows(store, new, f.loser)
      /\ ok => f.loser \in DOMAIN store /\ new[f.loser].life.state = "merged"
      /\ ~ok => new = store
  <2>1. req.target = "merged"
    BY DEF Transition
  <2>2. ok => Accepted(f.loser, req)
    OBVIOUS
  <2> HIDE DEF f, req, ok
  <2> QED
    BY <1>0, <2>1, <2>2, MaybeCalledMoves
<1>6. /\ Plain(f.loser, store, d) /\ (f.back = "heuristic" => f.winner \in CatIds(f))
      /\ (f.back = "declared" => Plain(f.self, store, d))
  BY <1>0, <1>1 DEF Informed, MergeOK
<1>7. ok => f.loser # f.winner
  OBVIOUS
<1> HIDE DEF f, req, known, ok, new, A, B
<1>8. /\ \A x : Twin(x, store, d) => Twin(x, new, d)
      /\ \A c : Plain(c, store, d) => Plain(c, new, d)
      /\ \A c : c # f.loser /\ Alive(c, store, d) => Alive(c, new, d)
  BY <1>5, SameSurvives
<1>9. CASE ok /\ Goto(t, A)
  <2>1. /\ Frame(A) /\ A.at = "merge2" /\ A.cat = f.cat /\ A.loser = f.loser
        /\ A.winner = f.winner /\ A.back = f.back /\ A.self = f.self
    BY <1>3 DEF Moved
  <2>2. CatOK(A, new, d)
    BY <1>0, <1>1, <1>8, <2>1 DEF CatOK
  <2>3. MergeOK(A, new, d)
    BY <1>5, <1>6, <1>7, <1>8, <1>9, <2>1 DEF MergeOK, CatIds, SameRows
  <2>4. Informed(A, new, d)
    BY <2>1, <2>2, <2>3 DEF Informed, DecayOK, ArchiveOK, ConflictOK, ColdOK, LiftOK
  <2>5. UInv' /\ WInv'
    BY <1>0, <1>1, <1>5, <1>9, <2>1, <2>4, QuietStep, WriteStep DEF SameRows
  <2>6. job'[t].at # "aborted" /\ store' = new
    BY <1>0, <1>1, <1>9, <2>1 DEF Goto, Writes
  <2>7. MergedIntoLive(t)
    BY <1>1 DEF MergedIntoLive, f
  <2> QED
    BY <1>1, <1>5, <1>6, <2>5, <2>6, <2>7, PlainRowMoves
<1>10. CASE ~ok /\ Goto(t, B)
  <2>1. Informed(B, store, d)
    BY <1>0, <1>1, <1>4, <1>6, CatInformed DEF LiftOK
  <2>2. new = store /\ B.at \notin {"clear", "aborted"}
    BY <1>4, <1>5, <1>10
  <2>3. UInv' /\ WInv'
    BY <1>0, <1>1, <1>4, <1>10, <2>1, <2>2, QuietStep, WriteStep
  <2>4. job'[t].at # "aborted" /\ store' = store
    BY <1>0, <1>1, <1>10, <2>2 DEF Goto, Writes
  <2> QED
    BY <1>1, <2>3, <2>4, RowsUntouched DEF f
<1> QED
  BY <1>2, <1>9, <1>10

LEMMA MergeArchiveStep ==
  ASSUME UInv, WInv, NEW t \in Threads, MergeArchive(t)
  PROVE  UInv' /\ WInv' /\ Effects(t)
<1> DEFINE f == job[t]
           d == dirty[t]
           ok == Accepted(f.loser, Archive)
           new == MaybeCalled(ok, f.loser, Archive)
           cat == {x \in f.cat : x.id # f.loser}
           h == IF ok THEN [f EXCEPT !.cat = cat] ELSE f
           g == Resume(h)
<1>0. FramesInv /\ RowsOK(store) /\ DOMAIN job = Threads /\ Frame(f) /\ Informed(f, store, d)
      /\ CatOK(f, store, d) /\ MergeOK(f, store, d)
  BY DEF UInv, WInv, FramesInv, Informed
<1>1. f.at = "merge2" /\ UNCHANGED <<turns, coact, offers>> /\ Writes(t, new) /\ Goto(t, g)
  BY DEF MergeArchive, Is, service, MaybeCalled
<1>2. DOMAIN graph.nodes \ {f.loser} \subseteq DOMAIN graph'.nodes
  <2>1. \/ graph' = MergeNodes(ArchiveNode(graph, f.loser), f.loser, f.winner)
        \/ graph' = graph
    BY DEF MergeArchive
  <2>2. DOMAIN graph.nodes \subseteq DOMAIN ArchiveNode(graph, f.loser).nodes
    BY NodesKept
  <2> QED
    BY <2>1, <2>2, NodesKept
<1>3. Frame(h) /\ h.cat = (IF ok THEN cat ELSE f.cat) /\ h.self = f.self /\ h.back = f.back
  BY <1>0 DEF Frame, Fields
<1>4. /\ SameRows(store, new, f.loser)
      /\ ~ok => new = store
  BY <1>0, MaybeCalledMoves
<1>5. /\ Plain(f.loser, store, d) /\ (f.back = "heuristic" => f.winner \in CatIds(f))
      /\ f.loser # f.winner /\ (f.back = "declared" => Plain(f.self, store, d))
      /\ f.loser \in d \/ (f.loser \in DOMAIN store /\ store[f.loser].life.state = "merged")
  BY <1>0, <1>1 DEF MergeOK
<1>6. ~ok => f.loser \in d
  BY <1>5, LiveArchives
<1> HIDE DEF h, new, ok
<1>7. /\ Frame(g) /\ g.cat = h.cat /\ g.self = f.self
      /\ g.at \in {"next", "heuristic"} \/ (g.at = "declared" /\ f.back = "declared")
  BY <1>3, ResumeMoves
<1> HIDE DEF f, g
<1>8. /\ \A x : Twin(x, store, d) => Twin(x, new, d)
      /\ \A c : Plain(c, store, d) => Plain(c, new, d)
      /\ \A c : c # f.loser /\ Alive(c, store, d) => Alive(c, new, d)
  BY <1>4, SameSurvives
<1>9. \A x \in g.cat : /\ x \in f.cat /\ IsCopy(x) /\ ~x.row.life.reflex
                       /\ Twin(x, new, d) /\ Alive(x.id, new, d)
  <2> SUFFICES ASSUME NEW x \in g.cat
               PROVE  /\ x \in f.cat /\ IsCopy(x) /\ ~x.row.life.reflex
                      /\ Twin(x, new, d) /\ Alive(x.id, new, d)
    OBVIOUS
  <2>1. x \in f.cat /\ (ok => x.id # f.loser)
    BY <1>3, <1>7
  <2>2. /\ IsCopy(x) /\ ~x.row.life.reflex /\ Twin(x, store, d)
        /\ Alive(x.id, store, d) \/ x.id = f.loser
    BY <1>0, <1>1, <2>1 DEF CatOK
  <2>3. Alive(x.id, new, d)
    BY <1>6, <1>8, <2>1, <2>2 DEF Alive
  <2> QED
    BY <1>8, <2>1, <2>2, <2>3
<1>10. Informed(g, new, d)
  BY <1>5, <1>7, <1>8, <1>9
     DEF Informed, CatOK, DecayOK, ArchiveOK, ConflictOK, ColdOK, LiftOK, MergeOK
<1>11. UInv' /\ WInv'
  BY <1>0, <1>1, <1>4, <1>7, <1>10, QuietStep, WriteStep DEF SameRows
<1>12. job'[t].at # "aborted" /\ store' = new
  BY <1>0, <1>1, <1>7 DEF Goto, Writes
<1>13. f.back = "heuristic" => f.winner \in d \/ store[f.winner].life.state \in Live
  <2> SUFFICES ASSUME f.back = "heuristic"
               PROVE  f.winner \in d \/ store[f.winner].life.state \in Live
    OBVIOUS
  <2>1. PICK x \in f.cat : x.id = f.winner
    BY <1>5 DEF CatIds
  <2> QED
    BY <1>0, <1>1, <1>5, <2>1 DEF CatOK, Alive
<1>14. MergedIntoLive(t)
  BY <1>13 DEF MergedIntoLive, f
<1> QED
  BY <1>2, <1>4, <1>5, <1>11, <1>12, <1>14, PlainRowMoves

LEMMA StartArchiveColdStep ==
  ASSUME UInv, WInv, NEW t \in Threads, StartArchiveCold(t)
  PROVE  UInv' /\ WInv' /\ Effects(t)
<1> DEFINE f == job[t]
           d == dirty[t]
           E == {x \in f.cat : IsCold(x)}
           g == Work(Begin(t, {}), "archive", E)
<1>0. FramesInv /\ CatOK(f, store, d)
  BY DEF UInv, WInv, Informed
<1>1. Moved(f, g, IF E = {} THEN "next" ELSE "archive", {}, E)
  BY <1>0, BeginWork
<1>2. Goto(t, g) /\ f.at = "next" /\ UNCHANGED <<store, graph, dirty, turns, coact, offers>>
  BY DEF StartArchiveCold, Begins, Is, stores, service
<1>3. \A x \in E : x.id \in d \/ (x.id \in DOMAIN store /\ ~store[x.id].life.reflex)
  BY <1>0, <1>2 DEF CatOK, Twin
<1> HIDE DEF f, E, g
<1>4. Frame(g) /\ g.at \in {"next", "archive"} /\ g.cat = {} /\ g.left = E
  BY <1>1 DEF Moved
<1>5. Informed(g, store, d)
  BY <1>3, <1>4 DEF Informed, CatOK, DecayOK, ArchiveOK, ConflictOK, ColdOK, LiftOK, MergeOK
<1> QED
  BY <1>2, <1>4, <1>5, PureStep DEF f

LEMMA ArchiveColdStep ==
  ASSUME UInv, WInv, NEW t \in Threads, ArchiveCold(t)
  PROVE  UInv' /\ WInv' /\ Effects(t)
<1> DEFINE f == job[t]
           d == dirty[t]
<1>0. FramesInv /\ RowsOK(store) /\ DOMAIN job = Threads /\ Frame(f) /\ Informed(f, store, d)
  BY DEF UInv, WInv, FramesInv
<1>1. PICK x \in f.left :
         LET ok == Accepted(x.id, Archive)
         IN  /\ Is(t, "archive")
             /\ Writes(t, MaybeCalled(ok, x.id, Archive))
             /\ graph' = IF ok THEN ArchiveNode(graph, x.id) ELSE graph
             /\ IF x.id \in DOMAIN store THEN Goto(t, Work(f, "archive", f.left \ {x}))
                ELSE Abort(t)
             /\ UNCHANGED <<service, offers, ticks, coact>>
  BY DEF ArchiveCold, MaybeCalled
<1> DEFINE new == MaybeCalled(Accepted(x.id, Archive), x.id, Archive)
           rest == f.left \ {x}
           A == Work(f, "archive", rest)
           B == [Resting EXCEPT !.at = "aborted"]
<1>2. UNCHANGED <<turns, offers, coact>> /\ Writes(t, new)
  BY <1>1 DEF service
<1>3. DOMAIN graph.nodes \subseteq DOMAIN graph'.nodes
  BY <1>1, NodesKept
<1>4. f.at = "archive" /\ f.cat = {}
      /\ \A y \in f.left : y.id \in d \/ (y.id \in DOMAIN store /\ ~store[y.id].life.reflex)
  BY <1>0, <1>1 DEF Is, Informed, CatOK, ArchiveOK
<1>5. SameRows(store, new, x.id)
  BY <1>0, MaybeCalledMoves
<1>6. (x.id \in DOMAIN store /\ Goto(t, A)) \/ (x.id \notin DOMAIN store /\ Goto(t, B))
  BY <1>1 DEF Abort
<1>7. Moved(f, A, IF rest = {} THEN "next" ELSE "archive", {}, rest) /\ Fresh(B, "aborted")
  <2>1. Moved(f, A, IF rest = {} THEN "next" ELSE "archive", {}, rest)
    BY <1>0, <1>4, WorkMoves
  <2> QED
    BY <2>1, RestingFrame
<1> HIDE DEF new, f, A, B
<1>8. \A y \in rest : y.id \in d \/ (y.id \in DOMAIN new /\ ~new[y.id].life.reflex)
  BY <1>4, <1>5 DEF SameRows
<1>9. PICK g : /\ Goto(t, g) /\ Frame(g) /\ g.cat = {}
               /\ \/ g.at \in {"next", "archive"} /\ g.left = rest
                  \/ x.id \notin DOMAIN store /\ g.at = "aborted"
  BY <1>6, <1>7 DEF Moved, Fresh
<1>10. Informed(g, new, d)
  BY <1>8, <1>9 DEF Informed, CatOK, DecayOK, ArchiveOK, ConflictOK, ColdOK, LiftOK, MergeOK
<1>11. UInv' /\ WInv'
  BY <1>0, <1>2, <1>5, <1>9, <1>10, QuietStep, WriteStep DEF SameRows
<1>12. job'[t] = g /\ store' = new
  BY <1>0, <1>2, <1>9 DEF Goto, Writes
<1>13. Survives(store, store', d) /\ \A c \in DOMAIN store \ d : Conserves(c)
  BY <1>1, <1>3, <1>4, <1>5, <1>12, SameSurvives DEF Conserves, SameRows
<1>14. g.at = "aborted" => d # {}
  BY <1>1, <1>4, <1>9
<1> QED
  BY <1>4, <1>11, <1>12, <1>13, <1>14
     DEF Effects, CoreKept, MergedIntoLive, AbortsRaced, AbortReason, f

-----------------------------------------------------------------------------
(* The conflict scanner *)
LEMMA StartConflictStep ==
  ASSUME UInv, WInv, NEW t \in Threads, StartConflict(t)
  PROVE  UInv' /\ WInv' /\ Effects(t)
<1> DEFINE E == Entries(Scanned)
           b == Begin(t, E)
           g == [b EXCEPT !.at = "declare"]
<1>0. FramesInv /\ RowsOK(store)
  BY DEF UInv, WInv
<1>1. Frame(b) /\ b.cat = E
  BY <1>0, StageMoves DEF Moved
<1>2. \A x \in E : IsCopy(x) /\ Twin(x, store, {})
  <2> DEFINE S == {c \in DOMAIN store : Scanned(store[c])}
  <2>1. E = {Entry(c) : c \in S}
    BY DEF Entries
  <2>2. S \subseteq DOMAIN store
    OBVIOUS
  <2> HIDE DEF S, E
  <2> QED
    BY <1>0, <2>1, <2>2, Copies
<1>3. Goto(t, g) /\ Snapshots(t) /\ UNCHANGED <<store, graph, turns, coact, offers>>
      /\ job[t].at = "next"
  BY DEF StartConflict, Begins, Is, stores, service
<1> HIDE DEF E, b
<1>4. Moved(b, g, "declare", E, b.left)
  BY <1>1, AtMoves
<1> HIDE DEF g
<1>5. Frame(g) /\ g.at = "declare" /\ g.cat = E
  BY <1>4 DEF Moved
<1>6. Informed(g, store, {})
  BY <1>2, <1>5 DEF Informed, CatOK, DecayOK, ArchiveOK, ConflictOK, ColdOK, LiftOK, MergeOK
<1> QED
  BY <1>3, <1>5, <1>6, PureCopyStep

LEMMA SyncDeclaredRelationsStep ==
  ASSUME UInv, WInv, NEW t \in Threads, SyncDeclaredRelations(t)
  PROVE  UInv' /\ WInv' /\ Effects(t)
<1> DEFINE f == job[t]
           d == dirty[t]
           E == Alike(f.cat, 2)
           h == [f EXCEPT !.cat = {}]
           g == Work(h, "conflict", E)
<1>0. FramesInv /\ Frame(f) /\ CatOK(f, store, d)
  BY DEF UInv, WInv, FramesInv, Informed
<1>1. Frame(h) /\ h.cat = {}
  BY <1>0 DEF Frame, Fields
<1>2. Goto(t, g) /\ f.at = "declare" /\ UNCHANGED <<store, dirty, turns, coact, offers>>
  BY DEF SyncDeclaredRelations, Is, service
<1>3. ASSUME NEW p \in E
      PROVE  /\ p[1].id # p[2].id /\ IsCopy(p[1]) /\ IsCopy(p[2])
             /\ Twin(p[1], store, d) /\ Twin(p[2], store, d)
  <2>1. p[1] \in f.cat /\ p[2] \in f.cat /\ p[1].id < p[2].id
    BY <1>3 DEF Alike
  <2>2. /\ IsCopy(p[1]) /\ IsCopy(p[2])
        /\ Twin(p[1], store, d) /\ Twin(p[2], store, d)
    BY <1>0, <2>1 DEF CatOK
  <2>3. p[1].id \in Nat /\ p[2].id \in Nat
    BY <2>2 DEF IsCopy, Ids
  <2> QED
    BY <2>1, <2>2, <2>3
<1> HIDE DEF f, h, E
<1>4. Moved(h, g, IF E = {} THEN "next" ELSE "conflict", {}, E)
  BY <1>1, WorkMoves
<1> HIDE DEF g
<1>5. Frame(g) /\ g.at \in {"next", "conflict"} /\ g.cat = {} /\ g.left = E
  BY <1>4 DEF Moved
<1>6. Informed(g, store, d)
  BY <1>3, <1>5 DEF Informed, CatOK, DecayOK, ArchiveOK, ConflictOK, ColdOK, LiftOK, MergeOK
<1>7. job[t].at \notin RewritesAt /\ job[t].at # "merge2"
  BY <1>2 DEF RewritesAt, f
<1> QED
  BY <1>2, <1>5, <1>6, <1>7, GraphStep

LEMMA ConflictRelationShape ==
  ASSUME NEW row, Shaped(row), NEW other \in Ids, NEW new,
         new = with_conflict_relation(row, other)
  PROVE  Shaped(new) /\ Authored(new) = Authored(row) /\ new.life = row.life
<1> DEFINE r == <<"conflicts_with", other>>
           rels == Append(row.rels, r)
           S == {i \in DOMAIN row.rels : row.rels[i][1] # "conflicts_with"}
           T == {i \in DOMAIN rels : rels[i][1] # "conflicts_with"}
<1>1. /\ DOMAIN new = DOMAIN row /\ new.life = row.life /\ new.kw = row.kw /\ new.jp = row.jp
      /\ new.rels = rels
  BY DEF with_conflict_relation, Shaped
<1>2. r \in ConcernRelationType \X Ids /\ r[1] = "conflicts_with"
  <2>1. "conflicts_with" \in ConcernRelationType
    BY DEF ConcernRelationType
  <2> QED
    BY <2>1
<1> HIDE DEF r
<1>3. rels \in Seq(ConcernRelationType \X Ids)
  BY <1>2 DEF Shaped
<1>4. /\ DOMAIN rels = DOMAIN row.rels \cup {Len(row.rels) + 1}
      /\ rels[Len(row.rels) + 1] = r
      /\ \A i \in DOMAIN row.rels : rels[i] = row.rels[i]
  BY <1>2 DEF Shaped
<1> HIDE DEF rels
<1>5. S = T /\ \A i \in S : rels[i] = row.rels[i]
  BY <1>2, <1>4
<1>6. [i \in T |-> rels[i]] = [i \in S |-> row.rels[i]]
  BY <1>5
<1>7. Authored(new) = Authored(row)
  BY <1>1, <1>6 DEF Authored
<1> QED
  BY <1>1, <1>3, <1>7 DEF Shaped

LEMMA SurvivesTwice ==
  ASSUME NEW s, NEW s1, NEW s2, NEW d, Survives(s, s1, d), Survives(s1, s2, d)
  PROVE  Survives(s, s2, d)
  BY DEF Survives

LEMMA LinkedKeeps ==
  ASSUME NEW s, RowsOK(s), NEW d, NEW x, NEW y, IsCopy(x), IsCopy(y), Twin(x, s, d),
         NEW new, new = Linked(s, x, y)
  PROVE  /\ RowsOK(new) /\ Survives(s, new, d)
         /\ \A z : Twin(z, s, d) => Twin(z, new, d)
<1>1. CASE has_conflict_relation(x.row, y.id)
  BY <1>1 DEF Linked, Survives
<1>2. CASE ~has_conflict_relation(x.row, y.id)
  <2> DEFINE row == with_conflict_relation(x.row, y.id)
  <2>1. Shaped(row) /\ Authored(row) = Authored(x.row) /\ row.life = x.row.life
    BY ConflictRelationShape DEF IsCopy
  <2>2. new = Put(s, x.id, row)
    BY <1>2 DEF Linked
  <2> HIDE DEF row
  <2>3. x.id \in Ids /\ row.life.reflex = x.row.life.reflex
    BY <2>1 DEF IsCopy
  <2> QED
    BY <2>1, <2>2, <2>3, TwinWritten
<1> QED
  BY <1>1, <1>2

LEMMA LinkConflictPairStep ==
  ASSUME UInv, WInv, NEW t \in Threads, LinkConflictPair(t)
  PROVE  UInv' /\ WInv' /\ Effects(t)
<1> DEFINE f == job[t]
           d == dirty[t]
<1>0. FramesInv /\ RowsOK(store) /\ DOMAIN job = Threads /\ Frame(f) /\ Informed(f, store, d)
  BY DEF UInv, WInv, FramesInv
<1>1. PICK p \in f.left :
         /\ Is(t, "conflict")
         /\ Writes(t, Linked(Linked(store, p[1], p[2]), p[2], p[1]))
         /\ Goto(t, Work(f, "conflict", f.left \ {p}))
         /\ UNCHANGED <<service, offers, ticks, coact>>
  BY DEF LinkConflictPair
<1> DEFINE mid == Linked(store, p[1], p[2])
           new == Linked(mid, p[2], p[1])
           rest == f.left \ {p}
           g == Work(f, "conflict", rest)
<1>2. UNCHANGED <<turns, offers, coact>> /\ Writes(t, new) /\ Goto(t, g)
  BY <1>1 DEF service
<1>3. /\ f.at = "conflict" /\ f.cat = {}
      /\ \A q \in f.left : /\ q[1].id # q[2].id /\ IsCopy(q[1]) /\ IsCopy(q[2])
                           /\ Twin(q[1], store, d) /\ Twin(q[2], store, d)
  BY <1>0, <1>1 DEF Is, Informed, CatOK, ConflictOK
<1>4. Moved(f, g, IF rest = {} THEN "next" ELSE "conflict", {}, rest)
  BY <1>0, <1>3, WorkMoves
<1> HIDE DEF f, mid, new, g
<1>5. RowsOK(mid) /\ Survives(store, mid, d) /\ \A z : Twin(z, store, d) => Twin(z, mid, d)
  <2>1. IsCopy(p[1]) /\ IsCopy(p[2]) /\ Twin(p[1], store, d)
    BY <1>1, <1>3
  <2> QED
    BY <1>0, <2>1, LinkedKeeps DEF mid
<1>6. RowsOK(new) /\ Survives(mid, new, d) /\ \A z : Twin(z, mid, d) => Twin(z, new, d)
  <2>1. IsCopy(p[1]) /\ IsCopy(p[2]) /\ Twin(p[2], mid, d)
    BY <1>1, <1>3, <1>5
  <2> QED
    BY <1>5, <2>1, LinkedKeeps DEF new
<1>7. Frame(g) /\ g.at \in {"next", "conflict"} /\ g.cat = {} /\ g.left = rest
  BY <1>4 DEF Moved
<1>8. Informed(g, new, d)
  BY <1>3, <1>5, <1>6, <1>7
     DEF Informed, CatOK, DecayOK, ArchiveOK, ConflictOK, ColdOK, LiftOK, MergeOK
<1>9. UInv' /\ WInv'
  BY <1>0, <1>2, <1>6, <1>7, <1>8, QuietStep, WriteStep
<1>10. job'[t] = g /\ store' = new
  BY <1>0, <1>2 DEF Goto, Writes
<1>11. Survives(store, store', d)
  BY <1>5, <1>6, <1>10, SurvivesTwice
<1> QED
  BY <1>3, <1>7, <1>9, <1>10, <1>11
     DEF Effects, CoreKept, MergedIntoLive, AbortsRaced, RewritesAt, f

-----------------------------------------------------------------------------
(* The cold step *)
LEMMA ColdInformed ==
  ASSUME NEW g, g.cat = {}, g.at \in {"next", "cold", "split"}, NEW s, NEW d,
         g.at # "next" => ColdOK(g, s, d)
  PROVE  Informed(g, s, d)
  BY DEF Informed, CatOK, DecayOK, ArchiveOK, ConflictOK, ColdOK, LiftOK, MergeOK

LEMMA StartColdStep ==
  ASSUME UInv, WInv, NEW t \in Threads, StartCold(t)
  PROVE  UInv' /\ WInv' /\ Effects(t)
<1> DEFINE E == Entries(Coolable)
           b == Begin(t, {})
           h == [b EXCEPT !.rows = store, !.view = ConnectomeOf(store, graph)]
           g == Work(h, "cold", E)
<1>0. FramesInv /\ RowsOK(store)
  BY DEF UInv, WInv
<1>1. Frame(b) /\ b.cat = {}
  BY <1>0, StageMoves DEF Moved
<1>2. Unique(E) /\ \A x \in E : IsCopy(x) /\ Twin(x, store, {}) /\ Plain(x.id, store, {})
  <2> DEFINE S == {c \in DOMAIN store : Coolable(store[c])}
  <2>1. E = {Entry(c) : c \in S}
    BY DEF Entries
  <2>2. S \subseteq DOMAIN store /\ \A c \in S : ~store[c].life.reflex
    BY DEF Coolable
  <2> HIDE DEF S, E
  <2> QED
    BY <1>0, <2>1, <2>2, Copies DEF Plain
<1>3. Goto(t, g) /\ Snapshots(t) /\ UNCHANGED <<store, graph, turns, coact, offers>>
      /\ job[t].at = "next"
  BY DEF StartCold, Begins, Is, stores, service
<1> HIDE DEF E, b
<1>4. Frame(h) /\ h.cat = {}
  BY <1>1 DEF Frame, Fields
<1> HIDE DEF h
<1>5. Moved(h, g, IF E = {} THEN "next" ELSE "cold", {}, E)
  BY <1>4, WorkMoves
<1> HIDE DEF g
<1>6. Frame(g) /\ g.at \in {"next", "cold"} /\ g.cat = {} /\ g.left = E
  BY <1>5 DEF Moved
<1>7. ColdOK(g, store, {})
  BY <1>2, <1>6 DEF ColdOK
<1>8. Informed(g, store, {})
  BY <1>6, <1>7, ColdInformed
<1> QED
  BY <1>3, <1>6, <1>8, PureCopyStep

LEMMA ChildShape ==
  ASSUME NEW row, Shaped(row), NEW kw, NEW new, new = _child_from_parent(row, kw)
  PROVE  Shaped(new) /\ ~new.life.reflex
<1> DEFINE mid == [row EXCEPT !.kw = kw]
           life1 == [row.life EXCEPT !.state = "created"]
           life == [life1 EXCEPT !.reflex = FALSE]
           out == [[mid EXCEPT !.life = life1] EXCEPT !.life = life]
<1>1. new = out
  BY DEF _child_from_parent, Shaped
<1>2. DOMAIN life = DOMAIN row.life /\ life.reflex = FALSE
  BY DEF Shaped
<1> HIDE DEF life, life1
<1>3. DOMAIN out = DOMAIN row /\ out.life = life /\ out.rels = row.rels
  BY DEF Shaped
<1> HIDE DEF out
<1> QED
  BY <1>1, <1>2, <1>3 DEF Shaped

LEMMA OnlyHostConcernsSplit ==
  ASSUME NEW x, x.id \in Ids, Splits(x)
  PROVE  /\ ~IsDerived(x.id) /\ IsDerived(ChildA(x.id)) /\ IsDerived(ChildB(x.id))
         /\ ChildA(x.id) \in Ids /\ ChildB(x.id) \in Ids
<1>1. ~IsDerived(x.id)
  <2> SUFFICES ASSUME IsDerived(x.id) PROVE FALSE
    OBVIOUS
  <2>1. Children(x) = NoSplit
    BY DEF Children, SplitKeywords, KeywordsAlong
  <2> QED
    BY <2>1 DEF Splits
<1>2. x.id \in Nat /\ x.id # 0 /\ x.id % 100 = 0
  BY <1>1 DEF IsDerived, Ids
<1>3. ChildA(x.id) % 100 = 1 /\ ChildB(x.id) % 100 = 2
  BY <1>2 DEF ChildA, ChildB
<1> QED
  BY <1>1, <1>2, <1>3 DEF IsDerived, Ids, ChildA, ChildB

(* A row of the pass's own making. *)
LEMMA DerivedWritten ==
  ASSUME NEW s, RowsOK(s), NEW d, NEW c \in Ids, IsDerived(c), NEW row, Shaped(row),
         ~row.life.reflex, NEW new, new = Put(s, c, row)
  PROVE  /\ RowsOK(new) /\ Survives(s, new, d)
         /\ \A k : Plain(k, s, d) => Plain(k, new, d)
         /\ \A y : Twin(y, s, d) /\ ~IsDerived(y.id) => Twin(y, new, d)
         /\ \A k \in DOMAIN s : k # c => new[k] = s[k]
<1>1. DOMAIN new = DOMAIN s \cup {c} /\ new[c] = row /\ \A k \in DOMAIN s \ {c} : new[k] = s[k]
  BY DEF Put
<1>2. RowsOK(new)
  BY <1>1 DEF RowsOK
<1>3. Survives(s, new, d)
  BY <1>1 DEF Survives
<1>4. \A k : Plain(k, s, d) => Plain(k, new, d)
  BY <1>1 DEF Plain
<1>5. \A y : Twin(y, s, d) /\ ~IsDerived(y.id) => Twin(y, new, d)
  BY <1>1 DEF Twin
<1> QED
  BY <1>1, <1>2, <1>3, <1>4, <1>5

LEMMA AddNodeKeeps ==
  ASSUME NEW g, NEW id, NEW row
  PROVE  DOMAIN g.nodes \subseteq DOMAIN AddNode(g, id, row).nodes
  BY DEF AddNode, Put

LEMMA SplitConcernStep ==
  ASSUME UInv, WInv, NEW t \in Threads, SplitConcern(t)
  PROVE  UInv' /\ WInv' /\ Effects(t)
<1> DEFINE f == job[t]
           d == dirty[t]
<1>0. FramesInv /\ RowsOK(store) /\ DOMAIN job = Threads /\ Frame(f) /\ Informed(f, store, d)
  BY DEF UInv, WInv, FramesInv
<1>1. PICK x \in f.left :
         LET a == _child_from_parent(x.row, Children(x)[1])
             b == _child_from_parent(x.row, Children(x)[2])
         IN  /\ Is(t, "cold") /\ Splits(x)
             /\ Writes(t, Put(Put(store, ChildA(x.id), a), ChildB(x.id), b))
             /\ graph' = AddNode(AddNode(graph, ChildA(x.id), a), ChildB(x.id), b)
             /\ Goto(t, [f EXCEPT !.at = "split", !.self = x.id])
             /\ UNCHANGED <<service, offers, ticks, coact>>
  BY DEF SplitConcern
<1> DEFINE g == [f EXCEPT !.at = "split", !.self = x.id]
           a == _child_from_parent(x.row, Children(x)[1])
           b == _child_from_parent(x.row, Children(x)[2])
           ca == ChildA(x.id)
           cb == ChildB(x.id)
           mid == Put(store, ca, a)
           new == Put(mid, cb, b)
<1>2. UNCHANGED <<turns, offers, coact>> /\ Writes(t, new) /\ Goto(t, g) /\ f.at = "cold"
  BY <1>1 DEF service, Is
<1>3. /\ f.cat = {} /\ Unique(f.left)
      /\ \A y \in f.left : /\ IsCopy(y) /\ Plain(y.id, store, d)
                           /\ IsDerived(y.id) \/ Twin(y, store, d)
  BY <1>0, <1>2 DEF Informed, CatOK, ColdOK
<1>4. Frame(g) /\ g.at = "split" /\ g.cat = {} /\ g.left = f.left /\ g.self = x.id
  BY <1>0, <1>3 DEF Frame, Fields
<1>copy. x.id \in Ids /\ Shaped(x.row) /\ Splits(x)
  BY <1>1, <1>3 DEF IsCopy
<1>5. Shaped(a) /\ ~a.life.reflex /\ Shaped(b) /\ ~b.life.reflex
  BY <1>copy, ChildShape
<1>6. IsDerived(ca) /\ IsDerived(cb) /\ ca \in Ids /\ cb \in Ids
  BY <1>copy, OnlyHostConcernsSplit
<1>7. DOMAIN graph.nodes \subseteq DOMAIN graph'.nodes
  <2>1. graph' = AddNode(AddNode(graph, ca, a), cb, b)
    BY <1>1
  <2> HIDE DEF a, b, ca, cb
  <2> QED
    BY <2>1, AddNodeKeeps
<1>puts. mid = Put(store, ca, a) /\ new = Put(mid, cb, b)
  OBVIOUS
<1> HIDE DEF f, g, d, a, b, ca, cb, mid, new
<1>8. /\ RowsOK(mid) /\ Survives(store, mid, d)
      /\ \A k : Plain(k, store, d) => Plain(k, mid, d)
      /\ \A y : Twin(y, store, d) /\ ~IsDerived(y.id) => Twin(y, mid, d)
      /\ \A k \in DOMAIN store : k # ca => mid[k] = store[k]
  BY <1>0, <1>puts, <1>5, <1>6, DerivedWritten
<1>9. /\ RowsOK(new) /\ Survives(mid, new, d)
      /\ \A k : Plain(k, mid, d) => Plain(k, new, d)
      /\ \A y : Twin(y, mid, d) /\ ~IsDerived(y.id) => Twin(y, new, d)
      /\ \A k \in DOMAIN mid : k # cb => new[k] = mid[k]
  BY <1>puts, <1>5, <1>6, <1>8, DerivedWritten
<1>10. Frame(g) /\ g.at = "split" /\ g.cat = {} /\ g.left = f.left
  BY <1>4
<1>11. ColdOK(g, new, d)
  BY <1>3, <1>8, <1>9, <1>10 DEF ColdOK
<1>12. Informed(g, new, d)
  BY <1>10, <1>11, ColdInformed
<1>13. UInv' /\ WInv'
  BY <1>0, <1>2, <1>9, <1>10, <1>12, QuietStep, WriteStep DEF d
<1>14. job'[t] = g /\ store' = new
  BY <1>0, <1>2 DEF Goto, Writes
<1>15. Survives(store, store', d)
  BY <1>8, <1>9, <1>14, SurvivesTwice
<1>16. \A c \in DOMAIN store : c \notin {ca, cb} => store'[c] = store[c]
  <2>1. DOMAIN store \subseteq DOMAIN mid
    BY DEF mid, Put
  <2> QED
    BY <1>8, <1>9, <1>14, <2>1
<1>17. SplitsInto(t, ca) /\ SplitsInto(t, cb)
  BY <1>2, <1>4, <1>14 DEF SplitsInto, ca, cb, f
<1> QED
  BY <1>2, <1>7, <1>10, <1>13, <1>14, <1>15, <1>16, <1>17
     DEF Effects, CoreKept, Conserves, MergedIntoLive, AbortsRaced, f, d

LEMMA ArchiveParentStep ==
  ASSUME UInv, WInv, NEW t \in Threads, ArchiveParent(t)
  PROVE  UInv' /\ WInv' /\ Effects(t)
<1> DEFINE f == job[t]
           d == dirty[t]
<1>0. FramesInv /\ RowsOK(store) /\ DOMAIN job = Threads /\ Frame(f) /\ Informed(f, store, d)
  BY DEF UInv, WInv, FramesInv
<1>1. PICK x \in f.left :
         LET ok == Accepted(x.id, Archive)
         IN  /\ Is(t, "split")
             /\ Writes(t, MaybeCalled(ok, x.id, Archive))
             /\ graph' = IF ok THEN ArchiveNode(graph, x.id) ELSE graph
             /\ Goto(t, Work(f, "cold", f.left \ {x}))
             /\ UNCHANGED <<turns, offers, coact>>
  BY DEF ArchiveParent, MaybeCalled
<1> DEFINE new == MaybeCalled(Accepted(x.id, Archive), x.id, Archive)
           rest == f.left \ {x}
           g == Work(f, "cold", rest)
<1>2. UNCHANGED <<turns, offers, coact>> /\ Writes(t, new) /\ Goto(t, g) /\ f.at = "split"
  BY <1>1 DEF Is
<1>3. DOMAIN graph.nodes \subseteq DOMAIN graph'.nodes
  BY <1>1, NodesKept
<1>4. /\ f.cat = {} /\ Unique(f.left)
      /\ \A y \in f.left : /\ IsCopy(y) /\ Plain(y.id, store, d)
                           /\ IsDerived(y.id) \/ Twin(y, store, d)
  BY <1>0, <1>2 DEF Informed, CatOK, ColdOK
<1>5. SameRows(store, new, x.id)
  BY <1>0, MaybeCalledMoves
<1>6. Moved(f, g, IF rest = {} THEN "next" ELSE "cold", {}, rest)
  BY <1>0, <1>4, WorkMoves
<1> HIDE DEF f, g, new
<1>7. Frame(g) /\ g.at \in {"next", "cold"} /\ g.cat = {} /\ g.left = rest
  BY <1>6 DEF Moved
<1>8. /\ \A y : Twin(y, store, d) => Twin(y, new, d)
      /\ \A c : Plain(c, store, d) => Plain(c, new, d)
  BY <1>5, SameSurvives
<1>9. ColdOK(g, new, d)
  BY <1>4, <1>7, <1>8 DEF ColdOK, Unique
<1>10. Informed(g, new, d)
  BY <1>7, <1>9, ColdInformed
<1>11. UInv' /\ WInv'
  BY <1>0, <1>2, <1>5, <1>7, <1>10, QuietStep, WriteStep DEF SameRows
<1>12. job'[t] = g /\ store' = new
  BY <1>0, <1>2 DEF Goto, Writes
<1>13. job'[t].at # "aborted" /\ MergedIntoLive(t)
  BY <1>2, <1>7, <1>12 DEF MergedIntoLive, f
<1>14. SameRows(store, store', x.id) /\ Plain(x.id, store, d)
  BY <1>1, <1>4, <1>5, <1>12
<1> QED
  BY <1>3, <1>11, <1>13, <1>14, PlainRowMoves

(* Reflex lift: the copy is written back, now reflex. *)
Reflexed(row) == [row EXCEPT !.life.reflex = TRUE]

LEMMA ReflexWritten ==
  ASSUME NEW s, RowsOK(s), NEW d, NEW x, IsCopy(x), IsDerived(x.id) \/ Twin(x, s, d),
         NEW new, new = Put(s, x.id, Reflexed(x.row))
  PROVE  /\ RowsOK(new) /\ Survives(s, new, d)
         /\ \A c : c # x.id /\ Plain(c, s, d) => Plain(c, new, d)
         /\ \A y : y.id # x.id /\ Twin(y, s, d) => Twin(y, new, d)
         /\ \A c \in DOMAIN s : c # x.id => new[c] = s[c]
<1> DEFINE life == [x.row.life EXCEPT !.reflex = TRUE]
           row == [x.row EXCEPT !.life = life]
<1>1. new = Put(s, x.id, row)
  BY DEF Reflexed
<1>2. x.id \in Ids /\ Shaped(x.row)
  BY DEF IsCopy
<1>3. DOMAIN life = DOMAIN x.row.life /\ life.reflex = TRUE
  BY <1>2 DEF Shaped
<1> HIDE DEF life
<1>4. /\ DOMAIN row = DOMAIN x.row /\ row.life = life /\ row.kw = x.row.kw /\ row.jp = x.row.jp
      /\ row.rels = x.row.rels
  BY <1>2 DEF Shaped
<1> HIDE DEF row
<1>5. Shaped(row) /\ Authored(row) = Authored(x.row) /\ row.life.reflex
  BY <1>2, <1>3, <1>4 DEF Shaped, Authored
<1>6. /\ DOMAIN new = DOMAIN s \cup {x.id} /\ new[x.id] = row
      /\ \A c \in DOMAIN s \ {x.id} : new[c] = s[c]
  BY <1>1 DEF Put
<1>7. RowsOK(new)
  BY <1>2, <1>5, <1>6 DEF RowsOK
<1>8. Survives(s, new, d)
  BY <1>5, <1>6 DEF Survives, Twin
<1>9. \A c : c # x.id /\ Plain(c, s, d) => Plain(c, new, d)
  BY <1>6 DEF Plain
<1>10. \A y : y.id # x.id /\ Twin(y, s, d) => Twin(y, new, d)
  BY <1>6 DEF Twin
<1> QED
  BY <1>6, <1>7, <1>8, <1>9, <1>10

LEMMA ColdConcernStep ==
  ASSUME UInv, WInv, NEW t \in Threads, ColdConcern(t)
  PROVE  UInv' /\ WInv' /\ Effects(t)
<1> DEFINE f == job[t]
           d == dirty[t]
<1>0. FramesInv /\ RowsOK(store) /\ DOMAIN job = Threads /\ Frame(f) /\ Informed(f, store, d)
  BY DEF UInv, WInv, FramesInv
<1>1. PICK x \in f.left :
         LET lifts == _should_lift(x.id, x.row, SamplesOf(x.id))
             cold == /\ ~lifts
                     /\ x.row.life.score <= 8 /\ x.row.life.state = "weakened"
                     /\ Accepted(x.id, Archive)
         IN  /\ Is(t, "cold")
             /\ Writes(t, CASE lifts -> Put(store, x.id, [x.row EXCEPT !.life.reflex = TRUE])
                            [] cold -> Called(x.id, Archive)
                            [] OTHER -> store)
             /\ graph' = IF cold THEN ArchiveNode(graph, x.id) ELSE graph
             /\ Goto(t, Work(f, "cold", f.left \ {x}))
             /\ UNCHANGED <<service, offers, ticks, coact>>
  BY DEF ColdConcern
<1> DEFINE lifts == _should_lift(x.id, x.row, SamplesOf(x.id))
           cold == /\ ~lifts
                   /\ x.row.life.score <= 8 /\ x.row.life.state = "weakened"
                   /\ Accepted(x.id, Archive)
           lifted == Put(store, x.id, [x.row EXCEPT !.life.reflex = TRUE])
           new == CASE lifts -> lifted [] cold -> Called(x.id, Archive) [] OTHER -> store
           rest == f.left \ {x}
           g == Work(f, "cold", rest)
<1>2. UNCHANGED <<turns, offers, coact>> /\ Writes(t, new) /\ Goto(t, g) /\ f.at = "cold"
  BY <1>1 DEF Is, service
<1>3. DOMAIN graph.nodes \subseteq DOMAIN graph'.nodes
  <2>1. graph' = graph \/ graph' = ArchiveNode(graph, x.id)
    BY <1>1
  <2> QED
    BY <2>1, NodesKept
<1>4. /\ f.cat = {} /\ Unique(f.left)
      /\ \A y \in f.left : /\ IsCopy(y) /\ Plain(y.id, store, d)
                           /\ IsDerived(y.id) \/ Twin(y, store, d)
  BY <1>0, <1>2 DEF Informed, CatOK, ColdOK
<1>5. IsCopy(x) /\ Plain(x.id, store, d) /\ (IsDerived(x.id) \/ Twin(x, store, d))
  BY <1>1, <1>4
<1>6. Moved(f, g, IF rest = {} THEN "next" ELSE "cold", {}, rest)
  BY <1>0, <1>4, WorkMoves
<1>7. \A y \in rest : y \in f.left /\ y.id # x.id
  BY <1>1, <1>4 DEF Unique
<1>puts. lifted = Put(store, x.id, Reflexed(x.row))
      /\ (cold => ~lifts /\ Accepted(x.id, Archive))
  BY DEF Reflexed
<1> HIDE DEF f, g, d, rest, lifts, cold, lifted
<1>cases. new = lifted \/ new = store \/ (Accepted(x.id, Archive) /\ new = Called(x.id, Archive))
  BY <1>puts
<1> HIDE DEF new
<1>8. /\ RowsOK(new) /\ Survives(store, new, d)
      /\ \A c : c # x.id /\ Plain(c, store, d) => Plain(c, new, d)
      /\ \A y : y.id # x.id /\ Twin(y, store, d) => Twin(y, new, d)
      /\ \A c \in DOMAIN store : c # x.id => new[c] = store[c]
  <2>1. CASE new = lifted
    <3>1. new = Put(store, x.id, Reflexed(x.row))
      BY <1>puts, <2>1
    <3> QED
      BY <1>0, <1>5, <3>1, ReflexWritten
  <2>2. CASE new = store \/ (Accepted(x.id, Archive) /\ new = Called(x.id, Archive))
    <3>1. SameRows(store, new, x.id)
      BY <1>0, <2>2, CalledMoves, SameIsSame DEF Accepted
    <3> QED
      BY <3>1, SameSurvives DEF SameRows
  <2> QED
    BY <1>cases, <2>1, <2>2
<1>9. Frame(g) /\ g.at \in {"next", "cold"} /\ g.cat = {} /\ g.left = rest
  BY <1>6 DEF Moved
<1>10. ColdOK(g, new, d)
  BY <1>4, <1>7, <1>8, <1>9 DEF ColdOK, Unique
<1>11. Informed(g, new, d)
  BY <1>9, <1>10, ColdInformed
<1>12. UInv' /\ WInv'
  BY <1>0, <1>2, <1>8, <1>9, <1>11, QuietStep, WriteStep DEF d
<1>13. job'[t] = g /\ store' = new
  BY <1>0, <1>2 DEF Goto, Writes
<1>14. \A c \in DOMAIN store \ d : Conserves(c)
  BY <1>3, <1>5, <1>8, <1>13 DEF Conserves, Plain
<1> QED
  BY <1>2, <1>8, <1>9, <1>12, <1>13, <1>14
     DEF Effects, CoreKept, MergedIntoLive, AbortsRaced, f, d

LEMMA StartColdMergeStep ==
  ASSUME UInv, WInv, NEW t \in Threads, StartColdMerge(t)
  PROVE  UInv' /\ WInv' /\ Effects(t)
<1> DEFINE f == job[t]
           d == dirty[t]
           E == FirstPairs(find_merge_candidates(f.rows), 4)
           g == Work(Stage(t), "cold_merge", E)
<1>0. FramesInv /\ CatOK(f, store, d)
  BY DEF UInv, WInv, Informed
<1>1. Moved(f, g, IF E = {} THEN "next" ELSE "cold_merge", f.cat, E)
  BY <1>0, StageWork
<1>2. Goto(t, g) /\ f.at = "next" /\ UNCHANGED <<store, graph, dirty, turns, coact, offers>>
  BY DEF StartColdMerge, Begins, Is, stores, service
<1> HIDE DEF f, E, g
<1>3. Frame(g) /\ g.at \in {"next", "cold_merge"} /\ g.cat = f.cat
  BY <1>1 DEF Moved
<1>4. Informed(g, store, d)
  BY <1>0, <1>2, <1>3, CatInformed DEF LiftOK
<1> QED
  BY <1>2, <1>3, <1>4, PureStep DEF f

LEMMA ColdMergeStep ==
  ASSUME UInv, WInv, NEW t \in Threads, ColdMerge(t)
  PROVE  UInv' /\ WInv' /\ Effects(t)
<1> DEFINE f == job[t]
           d == dirty[t]
<1>0. FramesInv /\ DOMAIN job = Threads /\ Frame(f) /\ CatOK(f, store, d)
      /\ offers \in [Clients -> Seq(Requests)]
  BY DEF UInv, WInv, FramesInv, Informed
<1>1. PICK p \in f.left :
         /\ Is(t, "cold_merge")
         /\ graph' \in merge_near_duplicate_pair(store, graph, p, credit.buffer)
         /\ Goto(t, Work(f, "cold_merge", f.left \ {p}))
         /\ UNCHANGED <<store, service, offers, ticks, dirty, coact>>
  BY DEF ColdMerge
<1> DEFINE rest == f.left \ {p}
           g == Work(f, "cold_merge", rest)
<1>2. Goto(t, g) /\ f.at = "cold_merge" /\ UNCHANGED <<store, dirty, turns, coact, offers>>
  BY <1>1 DEF Is, service
<1>3. \/ graph' = graph
      \/ /\ p[2] \in DOMAIN store /\ ~store[p[2]].life.reflex
         /\ graph' = MergeNodes(EnsureNodes(graph, store, {p[1], p[2]}), p[2], p[1])
  BY <1>1 DEF merge_near_duplicate_pair
<1>4. DOMAIN graph.nodes \ {p[2]} \subseteq DOMAIN graph'.nodes
  <2>1. DOMAIN graph.nodes \subseteq DOMAIN EnsureNodes(graph, store, {p[1], p[2]}).nodes
    BY NodesKept
  <2> QED
    BY <1>3, <2>1, NodesKept
<1>5. \A c \in DOMAIN store : store[c].life.reflex /\ c \in DOMAIN graph.nodes
                              => c \in DOMAIN graph'.nodes
  BY <1>3, <1>4
<1>6. Moved(f, g, IF rest = {} THEN "next" ELSE "cold_merge", f.cat, rest)
  BY <1>0, WorkMoves
<1> HIDE DEF f, g
<1>7. Frame(g) /\ g.at \in {"next", "cold_merge"} /\ g.cat = f.cat
  BY <1>6 DEF Moved
<1>8. Informed(g, store, d)
  BY <1>0, <1>2, <1>7, CatInformed DEF LiftOK
<1>9. UInv' /\ WInv'
  BY <1>0, <1>2, <1>7, <1>8, QuietStep, FrameStep
<1>10. job'[t] = g /\ store' = store
  BY <1>0, <1>2 DEF Goto
<1> QED
  BY <1>2, <1>5, <1>7, <1>9, <1>10
     DEF Effects, Survives, CoreKept, Conserves, MergedIntoLive, AbortsRaced, f

LEMMA StartColdLiftStep ==
  ASSUME UInv, WInv, NEW t \in Threads, StartColdLift(t)
  PROVE  UInv' /\ WInv' /\ Effects(t)
<1> DEFINE f == job[t]
           d == dirty[t]
           E == FirstPairs(find_lift_candidates(f.view), 2)
           g == Work(Stage(t), "cold_lift", E)
<1>0. FramesInv /\ CatOK(f, store, d)
  BY DEF UInv, WInv, Informed
<1>1. Moved(f, g, IF E = {} THEN "next" ELSE "cold_lift", f.cat, E)
  BY <1>0, StageWork
<1>2. Goto(t, g) /\ f.at = "next" /\ UNCHANGED <<store, graph, dirty, turns, coact, offers>>
  BY DEF StartColdLift, Begins, Is, stores, service
<1>3. \A p \in E : \E a, b : p = <<a, b>>
  BY DEF FirstPairs, find_lift_candidates
<1> HIDE DEF f, E, g
<1>4. Frame(g) /\ g.at \in {"next", "cold_lift"} /\ g.cat = f.cat /\ g.left = E
  BY <1>1 DEF Moved
<1>5. Informed(g, store, d)
  BY <1>0, <1>2, <1>3, <1>4, CatInformed DEF LiftOK
<1> QED
  BY <1>2, <1>4, <1>5, PureStep DEF f

LEMMA LiftIsDerived ==
  ASSUME NEW a \in Ids, NEW b \in Ids
  PROVE  LiftId(<<a, b>>) \in Ids /\ IsDerived(LiftId(<<a, b>>))
<1> DEFINE sum == a + b
           sq == sum * sum
           n == sq + a
<1>1. a \in Nat /\ b \in Nat /\ sum \in Nat
  BY DEF Ids
<1>2. LiftId(<<a, b>>) = 100 * n + 3
  BY DEF LiftId
<1> HIDE DEF sum
<1>3. sq \in Nat
  BY <1>1
<1> HIDE DEF sq
<1>4. n \in Nat
  BY <1>1, <1>3
<1> HIDE DEF n
<1>5. 100 * n + 3 \in Nat /\ 100 * n + 3 # 0 /\ (100 * n + 3) % 100 = 3
  BY <1>4
<1> QED
  BY <1>2, <1>5 DEF Ids, IsDerived

LEMMA LiftRowShape ==
  ASSUME NEW rows, NEW row, row = LiftRow(rows)
  PROVE  Shaped(row) /\ ~row.life.reflex
<1>1. /\ DOMAIN row = {"life", "kw", "jp", "rels"} /\ row.rels = <<>>
      /\ DOMAIN row.life = {"state", "score", "active", "decay", "activations", "reflex"}
      /\ row.life.reflex = FALSE
  BY DEF LiftRow
<1> QED
  BY <1>1 DEF Shaped

LEMMA AddEdgeKeeps ==
  ASSUME NEW g, NEW s, NEW d, NEW rel, NEW w
  PROVE  AddEdge(g, s, d, rel, w).nodes = g.nodes
  BY DEF AddEdge

(* What a lift leaves alone: every row and node there was. *)
LiftKeeping(out, d) ==
  /\ RowsOK(out.store) /\ Survives(store, out.store, d)
  /\ DOMAIN graph.nodes \subseteq DOMAIN out.g.nodes
  /\ \A c \in DOMAIN store : c \in DOMAIN out.store /\ out.store[c] = store[c]

(* A lift adds at most one concern, its own, and takes no node out. *)
LEMMA LiftKeeps ==
  ASSUME RowsOK(store), NEW a, NEW b, NEW buffer, NEW d,
         NEW out \in lift_coalition(store, graph, <<a, b>>, buffer)
  PROVE  LiftKeeping(out, d)
<1> SUFFICES /\ RowsOK(out.store) /\ Survives(store, out.store, d)
             /\ DOMAIN graph.nodes \subseteq DOMAIN out.g.nodes
             /\ \A c \in DOMAIN store : c \in DOMAIN out.store /\ out.store[c] = store[c]
  BY Zenon DEF LiftKeeping
<1> DEFINE p == <<a, b>>
           id == LiftId(p)
           meta == LiftRow({store[m] : m \in ToSet(p)})
           Link(acc, m) == AddEdge(AddEdge(AddNode(acc, m, store[m]),
                                           id, m, "depends_on", 90), id, m, "activates", 50)
           g0 == AddNode(graph, id, meta)
           g1 == Link(g0, p[1])
           g2 == Link(g1, p[2])
           new == Put(store, id, meta)
<1>1. \/ out = [store |-> store, g |-> graph]
      \/ /\ ToSet(p) \subseteq DOMAIN store /\ id \notin DOMAIN store
         /\ out = [store |-> new, g |-> g2]
  BY DEF lift_coalition
<1>2. CASE out = [store |-> store, g |-> graph]
  BY <1>2 DEF Survives
<1>3. CASE /\ ToSet(p) \subseteq DOMAIN store /\ id \notin DOMAIN store
           /\ out = [store |-> new, g |-> g2]
  <2>1. a \in Ids /\ b \in Ids
    BY <1>3 DEF ToSet, RowsOK
  <2>2. id \in Ids /\ IsDerived(id)
    BY <2>1, LiftIsDerived
  <2>3. Shaped(meta) /\ ~meta.life.reflex
    BY LiftRowShape
  <2>4. \A g, m : DOMAIN g.nodes \subseteq DOMAIN Link(g, m).nodes
    BY AddNodeKeeps, AddEdgeKeeps
  <2>5. DOMAIN graph.nodes \subseteq DOMAIN g2.nodes
    <3>1. DOMAIN graph.nodes \subseteq DOMAIN g0.nodes
      BY AddNodeKeeps
    <3>2. DOMAIN g0.nodes \subseteq DOMAIN g1.nodes
      BY <2>4
    <3>3. DOMAIN g1.nodes \subseteq DOMAIN g2.nodes
      BY <2>4
    <3> HIDE DEF g0, g1, g2
    <3> QED
      BY <3>1, <3>2, <3>3
  <2>6. out.store = new /\ out.g = g2 /\ id \notin DOMAIN store
    BY <1>3
  <2>7. new = Put(store, id, meta)
    OBVIOUS
  <2> HIDE DEF id, meta, g2, new
  <2>8. DOMAIN new = DOMAIN store \cup {id} /\ new[id] = meta
    BY <2>7 DEF Put
  <2>9. /\ RowsOK(new) /\ Survives(store, new, d)
        /\ \A k \in DOMAIN store : k # id => new[k] = store[k]
    BY <2>2, <2>3, <2>7, DerivedWritten
  <2> QED
    BY <2>3, <2>5, <2>6, <2>8, <2>9
<1> QED
  BY <1>1, <1>2, <1>3

LEMMA ColdLiftStep ==
  ASSUME UInv, WInv, NEW t \in Threads, ColdLift(t)
  PROVE  UInv' /\ WInv' /\ Effects(t)
<1> DEFINE f == job[t]
           d == dirty[t]
<1>0. FramesInv /\ RowsOK(store) /\ DOMAIN job = Threads /\ Frame(f)
      /\ CatOK(f, store, d) /\ LiftOK(f)
  BY DEF UInv, WInv, FramesInv, Informed
<1>1. PICK p \in f.left :
         /\ Is(t, "cold_lift")
         /\ \E out \in lift_coalition(store, graph, p, credit.buffer) :
               graph' = out.g /\ Writes(t, out.store)
         /\ Goto(t, Work(f, "cold_lift", f.left \ {p}))
         /\ UNCHANGED <<service, offers, ticks, coact>>
  BY DEF ColdLift
<1> DEFINE rest == f.left \ {p}
           g == Work(f, "cold_lift", rest)
<1>2. Goto(t, g) /\ f.at = "cold_lift" /\ UNCHANGED <<turns, coact, offers>>
  BY <1>1 DEF Is, service
<1>3. PICK out \in lift_coalition(store, graph, p, credit.buffer) :
         graph' = out.g /\ Writes(t, out.store)
  BY <1>1
<1>4. PICK a, b : p = <<a, b>>
  BY <1>0, <1>1, <1>2 DEF LiftOK
<1> DEFINE new == out.store
<1>5. /\ RowsOK(new) /\ Survives(store, new, d)
      /\ DOMAIN graph.nodes \subseteq DOMAIN graph'.nodes
      /\ \A c \in DOMAIN store : c \in DOMAIN new /\ new[c] = store[c]
  <2>1. out \in lift_coalition(store, graph, <<a, b>>, credit.buffer)
    BY <1>3, <1>4
  <2>2. LiftKeeping(out, d)
    <3>1. RowsOK(store)
      BY <1>0
    <3> HIDE DEF d
    <3> QED
      BY <2>1, <3>1, LiftKeeps, Zenon
  <2> QED
    BY <1>3, <2>2 DEF LiftKeeping
<1>6. Moved(f, g, IF rest = {} THEN "next" ELSE "cold_lift", f.cat, rest)
  BY <1>0, WorkMoves
<1>7. Writes(t, new)
  BY <1>3
<1> HIDE DEF f, g, new
<1>8. Frame(g) /\ g.at \in {"next", "cold_lift"} /\ g.cat = f.cat /\ g.left = rest
  BY <1>6 DEF Moved
<1>9. CatOK(f, new, d)
  <2>1. \A x : Twin(x, store, d) => Twin(x, new, d)
    BY <1>5 DEF Twin
  <2>2. \A c : Alive(c, store, d) => Alive(c, new, d)
    BY <1>5 DEF Alive
  <2> QED
    BY <1>0, <2>1, <2>2 DEF CatOK
<1>10. LiftOK(g)
  BY <1>0, <1>2, <1>8 DEF LiftOK
<1>11. Informed(g, new, d)
  BY <1>2, <1>8, <1>9, <1>10, CatInformed
<1>12. UInv' /\ WInv'
  BY <1>0, <1>2, <1>5, <1>7, <1>8, <1>11, QuietStep, WriteStep
<1>13. job'[t] = g /\ store' = new
  BY <1>0, <1>2, <1>7 DEF Goto, Writes
<1> QED
  BY <1>2, <1>5, <1>8, <1>12, <1>13
     DEF Effects, CoreKept, Conserves, MergedIntoLive, AbortsRaced, f

LEMMA PruneStep ==
  ASSUME UInv, WInv, NEW t \in Threads, Prune(t)
  PROVE  UInv' /\ WInv' /\ Effects(t)
<1> DEFINE f == job[t]
           d == dirty[t]
           g == Stage(t)
<1>0. FramesInv /\ CatOK(f, store, d)
  BY DEF UInv, WInv, Informed
<1>1. Moved(f, g, f.at, f.cat, f.left)
  BY <1>0, StageMoves
<1>2. Goto(t, g) /\ f.at = "next" /\ UNCHANGED <<store, dirty, turns, coact, offers>>
  BY DEF Prune, Begins, Is, service
<1> HIDE DEF f, g
<1>3. Frame(g) /\ g.at = "next" /\ g.cat = f.cat
  BY <1>1, <1>2 DEF Moved
<1>4. Informed(g, store, d)
  BY <1>0, <1>2, <1>3, CatInformed DEF LiftOK
<1>5. job[t].at \notin RewritesAt /\ job[t].at # "merge2"
  BY <1>2 DEF RewritesAt, f
<1> QED
  BY <1>2, <1>3, <1>4, <1>5, GraphStep

-----------------------------------------------------------------------------
(* The consumer.  Reading the map and emptying it are the steps that matter: *)
(* what is emptied was read, or was recorded in between.                     *)
ConsumerAt == {"gather", "clear", "drain", "wipe", "reweight"}

LEMMA ConsumerAside ==
  ASSUME UInv, WInv, NEW t \in Threads, job[t].at \in ConsumerAt, NEW g, Frame(g), Goto(t, g),
         g.cat = job[t].cat, g.at \in ConsumerAt \cup {"next"},
         UNCHANGED <<store, graph, dirty, offers>>
  PROVE  WInv' /\ Effects(t)
<1>1. FramesInv /\ DOMAIN job = Threads /\ offers' \in [Clients -> Seq(Requests)] /\ job[t].cat = {}
  BY DEF UInv, WInv, FramesInv, Informed, CatOK, ConsumerAt
<1>2. Informed(g, store, dirty[t])
  BY <1>1, AsideInformed DEF ConsumerAt, Aside
<1>3. WInv'
  BY <1>1, <1>2, FrameStep
<1>4. job'[t].at # "aborted"
  BY <1>1 DEF Goto, ConsumerAt
<1> QED
  BY <1>3, <1>4, RowsUntouched DEF ConsumerAt, RewritesAt

LEMMA StartConsumeStep ==
  ASSUME UInv, WInv, NEW t \in Threads, StartConsume(t)
  PROVE  UInv' /\ WInv' /\ Effects(t)
<1> DEFINE b == Begin(t, {})
<1>0. FramesInv
  BY DEF UInv
<1>1. Frame(b) /\ b.cat = {}
  BY <1>0, StageMoves DEF Moved
<1>2. PICK recs : Goto(t, [b EXCEPT !.at = "gather", !.recs = recs])
  BY Zenon DEF StartConsume
<1>3. UNCHANGED <<store, graph, dirty, turns, coact, offers>> /\ job[t].at = "next"
  BY DEF StartConsume, Begins, Is, stores
<1> HIDE DEF b
<1> DEFINE g == [b EXCEPT !.at = "gather", !.recs = recs]
<1>4. Frame(g) /\ g.at = "gather" /\ g.cat = {}
  BY <1>1 DEF Frame, Fields
<1> HIDE DEF g
<1>5. Informed(g, store, dirty[t])
  BY <1>4, AsideInformed DEF Aside
<1>6. Goto(t, g)
  BY <1>2 DEF g
<1> QED
  BY <1>3, <1>4, <1>5, <1>6, PureStep

LEMMA GatherStep ==
  ASSUME UInv, WInv, NEW t \in Threads, Gather(t)
  PROVE  UInv' /\ WInv' /\ Effects(t)
<1> DEFINE f == job[t]
<1>0. FramesInv /\ DOMAIN job = Threads /\ Frame(f)
  BY DEF UInv, FramesInv
<1>1. PICK pairs : Goto(t, [f EXCEPT !.at = "clear", !.pairs = pairs, !.saw = turns])
  BY Zenon DEF Gather
<1>2. UNCHANGED <<store, graph, dirty, offers, turns, coact>> /\ f.at = "gather"
  BY DEF Gather, Is, stores, service
<1> DEFINE g == [f EXCEPT !.at = "clear", !.pairs = pairs, !.saw = turns]
<1>3. Frame(g) /\ g.at = "clear" /\ g.cat = f.cat /\ g.saw = turns
  BY <1>0 DEF Frame, Fields
<1>4. Goto(t, g)
  BY <1>1
<1> HIDE DEF g, f
<1>5. DOMAIN job' = Threads /\ job'[t] = g /\ \A u \in Threads \ {t} : job'[u] = job[u]
  BY <1>0, <1>4 DEF Goto
<1>6. FramesInv'
  BY <1>3, <1>5 DEF UInv, FramesInv
<1>7. SawInv'
  BY <1>2, <1>3, <1>5 DEF UInv, SawInv, Is
<1>8. UInv'
  BY <1>2, <1>6, <1>7 DEF UInv, CoactivationsAccounted
<1>9. WInv' /\ Effects(t)
  BY <1>2, <1>3, <1>4, ConsumerAside DEF ConsumerAt, f
<1> QED
  BY <1>8, <1>9

LEMMA ClearTurnsStep ==
  ASSUME UInv, WInv, NEW t \in Threads, ClearTurns(t)
  PROVE  UInv' /\ WInv' /\ Effects(t)
<1> DEFINE f == job[t]
           g == [f EXCEPT !.at = "drain"]
<1>0. FramesInv /\ DOMAIN job = Threads /\ Frame(f)
  BY DEF UInv, FramesInv
<1>1. /\ turns' = <<>> /\ f.at = "clear" /\ Goto(t, g)
      /\ UNCHANGED <<store, graph, dirty, offers>>
  BY DEF ClearTurns, Is, stores
<1>2. /\ DOMAIN coact' = {"seen", "paired", "raced"}
      /\ coact'.paired = coact.paired \cup Couples(f.saw)
      /\ coact'.seen = coact.seen /\ coact'.raced = coact.raced
  BY DEF ClearTurns, UInv
<1>3. Couples(turns)' = {}
  BY <1>1 DEF Couples
<1>4. Couples(turns) \subseteq Couples(f.saw) \cup coact.raced
  BY <1>1 DEF UInv, SawInv, Is
<1>5. Moved(f, g, "drain", f.cat, f.left)
  BY <1>0, AtMoves
<1> HIDE DEF f, g
<1>6. Frame(g) /\ g.at = "drain" /\ g.cat = f.cat
  BY <1>5 DEF Moved
<1>7. CoactivationsAccounted'
  BY <1>2, <1>3, <1>4 DEF UInv, CoactivationsAccounted
<1>8. DOMAIN job' = Threads /\ job'[t] = g /\ \A u \in Threads \ {t} : job'[u] = job[u]
  BY <1>0, <1>1 DEF Goto
<1>9. FramesInv'
  BY <1>6, <1>8 DEF UInv, FramesInv
<1>10. SawInv'
  BY <1>3 DEF SawInv
<1>11. WInv' /\ Effects(t)
  BY <1>1, <1>6, ConsumerAside DEF ConsumerAt, f
<1> QED
  BY <1>2, <1>7, <1>9, <1>10, <1>11 DEF UInv

(* The two ways in which a consumer gives up. *)
LEMMA ConsumerAbortStep ==
  ASSUME UInv, WInv, NEW t \in Threads, IterationFails(t) \/ ConsumeRaises(t)
  PROVE  UInv' /\ WInv' /\ Effects(t)
<1> DEFINE g == [Resting EXCEPT !.at = "aborted"]
<1>0. FramesInv /\ DOMAIN job = Threads /\ offers' \in [Clients -> Seq(Requests)]
  BY DEF IterationFails, ConsumeRaises, UInv, WInv, FramesInv
<1>1. /\ Goto(t, g) /\ AbortReason(t) /\ job[t].at \in {"clear", "next"}
      /\ UNCHANGED <<store, graph, dirty, turns, coact>>
  BY DEF IterationFails, ConsumeRaises, AbortReason, Abort, Begins, Is, stores, service
<1>2. Fresh(g, "aborted")
  BY RestingFrame
<1> HIDE DEF g
<1>3. Frame(g) /\ Informed(g, store, dirty[t]) /\ g.at # "clear"
  BY <1>2, AsideInformed DEF Fresh, Aside
<1>4. UInv' /\ WInv'
  BY <1>0, <1>1, <1>3, QuietStep, FrameStep
<1> QED
  BY <1>1, <1>4 DEF Effects, Survives, CoreKept, RewritesAt, MergedIntoLive, AbortsRaced

LEMMA LedgerStep ==
  ASSUME UInv, WInv, NEW t \in Threads, DrainLedger(t) \/ WipeLedger(t)
  PROVE  UInv' /\ WInv' /\ Effects(t)
<1> DEFINE f == job[t]
<1>0. FramesInv /\ Frame(f)
  BY DEF UInv, FramesInv
<1>1. /\ UNCHANGED <<store, graph, dirty, offers, turns, coact>>
      /\ f.at \in ConsumerAt
  BY DEF DrainLedger, WipeLedger, Is, ConsumerAt, stores, service
<1>2. PICK g : /\ Goto(t, g)
               /\ \/ \E x : g = [f EXCEPT !.at = "wipe", !.ledger = x]
                  \/ \E x : g = [f EXCEPT !.at = "reweight", !.todo = x]
  BY Zenon DEF DrainLedger, WipeLedger
<1>3. Frame(g) /\ g.at \in {"wipe", "reweight"} /\ g.cat = f.cat
  BY <1>0, <1>2 DEF Frame, Fields
<1>4. UInv'
  BY <1>1, <1>2, <1>3, QuietStep
<1>5. WInv' /\ Effects(t)
  BY <1>1, <1>2, <1>3, ConsumerAside DEF ConsumerAt
<1> QED
  BY <1>4, <1>5

(* Strengthening, weakening and reviving a concern move its lifecycle only.  *)
LEMMA ReweighedMoves ==
  ASSUME RowsOK(store), NEW id, NEW dir
  PROVE  SameRows(store, Reweighed(id, dir), id)
<1> DEFINE d == Least(Percent(Abs(dir), 5), 5)
           req == IF dir > 0 THEN Reinforce(d) ELSE Weaken(d)
           life == store[id].life
           woken == IF life.state = "archived" THEN Mutated(life, Revive) ELSE life
           out == IF Admits(woken, req) THEN Mutated(woken, req) ELSE woken
<1>1. CASE id \notin DOMAIN store \/ dir = 0
  <2>1. Reweighed(id, dir) = store
    BY <1>1 DEF Reweighed
  <2> QED
    BY <2>1, SameIsSame
<1>2. CASE id \in DOMAIN store /\ dir # 0
  <2>1. Reweighed(id, dir) = Relived(store, id, out)
    BY <1>2 DEF Reweighed, Relived
  <2>2. {"state", "decay", "reflex"} \subseteq DOMAIN life
    BY <1>2 DEF RowsOK, Shaped
  <2>3. \A l, r : /\ {"state", "decay", "reflex"} \subseteq DOMAIN Mutated(l, r)
                  /\ Mutated(l, r).reflex = l.reflex
    BY DEF Mutated
  <2> HIDE DEF req, life
  <2>4. {"state", "decay", "reflex"} \subseteq DOMAIN woken /\ woken.reflex = life.reflex
    BY <2>2, <2>3
  <2> HIDE DEF woken
  <2>5. {"state", "decay", "reflex"} \subseteq DOMAIN out /\ out.reflex = life.reflex
    BY <2>3, <2>4
  <2> HIDE DEF out
  <2>6. out.reflex = store[id].life.reflex
    BY <2>5 DEF life
  <2> QED
    BY <1>2, <2>1, <2>5, <2>6, LifeMoves
<1> QED
  BY <1>1, <1>2

LEMMA ReweightStep ==
  ASSUME UInv, WInv, NEW t \in Threads, Reweight(t)
  PROVE  UInv' /\ WInv' /\ Effects(t)
<1> DEFINE f == job[t]
           d == dirty[t]
           g == [f EXCEPT !.todo = Tail(@)]
<1>0. FramesInv /\ RowsOK(store) /\ DOMAIN job = Threads /\ Frame(f) /\ Informed(f, store, d)
  BY DEF UInv, WInv, FramesInv
<1>1. PICK id, dir : Writes(t, Reweighed(id, dir))
  BY DEF Reweight
<1>2. Goto(t, g) /\ f.at = "reweight" /\ UNCHANGED <<turns, coact, offers>>
  BY DEF Reweight, Is, service
<1>3. Frame(g) /\ g.at = "reweight" /\ g.cat = {}
  BY <1>0, <1>2 DEF Frame, Fields, Informed, CatOK
<1> DEFINE new == Reweighed(id, dir)
<1>4. SameRows(store, new, id)
  BY <1>0, ReweighedMoves
<1>5. Writes(t, new)
  BY <1>1
<1> HIDE DEF f, g, new
<1>6. Informed(g, new, d)
  BY <1>3, AsideInformed DEF Aside
<1>7. UInv' /\ WInv'
  BY <1>0, <1>2, <1>3, <1>4, <1>5, <1>6, QuietStep, WriteStep DEF SameRows
<1>8. job'[t] = g /\ store' = new
  BY <1>0, <1>2, <1>5 DEF Goto, Writes
<1>9. Survives(store, store', d)
  BY <1>4, <1>8, SameSurvives
<1> QED
  BY <1>2, <1>3, <1>7, <1>8, <1>9
     DEF Effects, CoreKept, RewritesAt, MergedIntoLive, AbortsRaced, f

LEMMA WarmSweepStep ==
  ASSUME UInv, WInv, NEW t \in Threads, WarmSweep(t)
  PROVE  UInv' /\ WInv' /\ Effects(t)
<1> DEFINE f == job[t]
           g == [f EXCEPT !.at = "next"]
<1>0. Frame(f) /\ CatOK(f, store, dirty[t])
  BY DEF UInv, WInv, FramesInv, Informed
<1>1. Goto(t, g) /\ f.at = "reweight" /\ UNCHANGED <<store, dirty, turns, coact, offers>>
  BY DEF WarmSweep, Is
<1>2. Moved(f, g, "next", f.cat, f.left) /\ f.cat = {}
  BY <1>0, <1>1, AtMoves DEF CatOK
<1> HIDE DEF f, g
<1>3. Frame(g) /\ g.at = "next" /\ Informed(g, store, dirty[t])
  BY <1>2, AsideInformed DEF Moved, Aside
<1>4. job[t].at \notin RewritesAt /\ job[t].at # "merge2"
  BY <1>1 DEF RewritesAt, f
<1> QED
  BY <1>1, <1>3, <1>4, GraphStep

-----------------------------------------------------------------------------
(* The requests *)
LEMMA CouplesGrow ==
  ASSUME NEW f, NEW k, NEW ids
  PROVE  Couples(Put(f, k, At(f, k, {}) \cup ids)) = Couples(f) \cup ({k} \X ids)
<1> DEFINE g == Put(f, k, At(f, k, {}) \cup ids)
<1>1. /\ DOMAIN g = DOMAIN f \cup {k}
      /\ g[k] = At(f, k, {}) \cup ids
      /\ \A x \in DOMAIN f \ {k} : g[x] = f[x]
  BY DEF Put
<1>2. \A p : p \in Couples(g) <=> \E x \in DOMAIN f \cup {k} : \E c \in g[x] : p = <<x, c>>
  BY <1>1 DEF Couples
<1>3. \A p : p \in Couples(f) <=> \E x \in DOMAIN f : \E c \in f[x] : p = <<x, c>>
  BY DEF Couples
<1>4. \A p : p \in {k} \X ids <=> \E c \in ids : p = <<k, c>>
  OBVIOUS
<1> HIDE DEF g
<1>5. \A c : c \in g[k] <=> c \in ids \/ (k \in DOMAIN f /\ c \in f[k])
  BY <1>1 DEF At
<1>6. \A p : p \in Couples(g) <=> p \in Couples(f) \/ p \in {k} \X ids
  BY <1>1, <1>2, <1>3, <1>4, <1>5
<1>7. Couples(g) = Couples(f) \cup ({k} \X ids)
  BY <1>6
<1> QED
  BY <1>7 DEF g

(* Taking a set adds at most an empty one. *)
LEMMA TakesSetStep ==
  ASSUME NEW t, NEW turn, NEW members, TakesSet(t, turn, members)
  PROVE  Couples(turns)' = Couples(turns)
<1>1. CASE members = <<>>
  BY <1>1 DEF TakesSet, Couples
<1>2. CASE members # <<>>
  <2>1. turns' = Put(turns, turn, At(turns, turn, {}) \cup {})
    BY <1>2 DEF TakesSet
  <2>2. Couples(turns') = Couples(turns) \cup ({turn} \X {})
    BY <2>1, CouplesGrow
  <2>3. {turn} \X {} = {}
    OBVIOUS
  <2>4. Couples(turns') = Couples(turns)
    BY <2>2, <2>3
  <2> QED
    BY <2>4 DEF Couples
<1> QED
  BY <1>1, <1>2

(* A step that moves one thread and leaves what the map holds. *)
LEMMA KeptStep ==
  ASSUME UInv, NEW t \in Threads, NEW f, Goto(t, f), Frame(f), f.at # "clear",
         Couples(turns)' = Couples(turns), UNCHANGED coact
  PROVE  UInv'
<1>1. DOMAIN job' = Threads /\ job'[t] = f /\ \A u \in Threads \ {t} : job'[u] = job[u]
  BY DEF UInv, FramesInv, Goto
<1>2. FramesInv'
  BY <1>1 DEF UInv, FramesInv
<1>3. SawInv'
  BY <1>1 DEF UInv, SawInv, Is
<1> QED
  BY <1>2, <1>3 DEF UInv, CoactivationsAccounted

LEMMA AddsStep ==
  ASSUME UInv, NEW t \in Threads, NEW turn, NEW ids, Adds(t, turn, ids), FramesInv',
         \A u \in Threads : Is(u, "clear")' => job'[u] = job[u]
  PROVE  UInv'
<1>1. /\ Couples(turns)' \subseteq Couples(turns) \cup ({turn} \X ids)
      /\ Couples(turns) \subseteq Couples(turns)'
      /\ t \in orphaned \/ {turn} \X ids \subseteq Couples(turns)'
  <2>1. CASE t \in orphaned
    BY <2>1 DEF Adds, Couples
  <2>2. CASE t \notin orphaned
    <3>1. turns' = Put(turns, turn, At(turns, turn, {}) \cup ids)
      BY <2>2 DEF Adds
    <3>2. Couples(turns') = Couples(turns) \cup ({turn} \X ids)
      BY <3>1, CouplesGrow
    <3> QED
      BY <3>2 DEF Couples
  <2> QED
    BY <2>1, <2>2
<1>2. /\ DOMAIN coact' = {"seen", "paired", "raced"}
      /\ coact'.seen = coact.seen \cup ({turn} \X ids)
      /\ coact'.paired = coact.paired
      /\ coact.raced \subseteq coact'.raced
      /\ t \in orphaned \/ (\E u \in Threads : Is(u, "clear"))
            => {turn} \X ids \subseteq coact'.raced
  BY DEF Adds, UInv
<1>3. CoactivationsAccounted'
  BY <1>1, <1>2 DEF UInv, CoactivationsAccounted
<1>4. SawInv'
  <2> SUFFICES ASSUME NEW u \in Threads, Is(u, "clear")'
               PROVE  Couples(turns)' \subseteq Couples(job'[u].saw) \cup coact'.raced
    BY DEF SawInv
  <2>1. job'[u] = job[u] /\ Is(u, "clear")
    BY DEF Is
  <2>2. Couples(turns) \subseteq Couples(job[u].saw) \cup coact.raced
    BY <2>1 DEF UInv, SawInv
  <2> QED
    BY <1>1, <1>2, <2>1, <2>2
<1> QED
  BY <1>2, <1>3, <1>4 DEF UInv

LEMMA AddMembersStep ==
  ASSUME UInv, WInv, NEW t \in Threads, AddMembers(t)
  PROVE  UInv' /\ WInv' /\ Effects(t)
<1> DEFINE f == job[t]
<1>0. FramesInv /\ Frame(f) /\ CatOK(f, store, dirty[t]) /\ DOMAIN job = Threads
      /\ offers' \in [Clients -> Seq(Requests)]
  BY DEF UInv, WInv, FramesInv, Informed, AddMembers
<1>1. /\ UNCHANGED <<store, graph, dirty>> /\ f.at = "record"
      /\ Adds(t, f.turn, Head(f.todo))
  BY DEF AddMembers, Is, stores
<1>2. PICK rest, pc : /\ Goto(t, [f EXCEPT !.todo = rest, !.at = pc])
                      /\ pc \in {"record", "next"}
  BY Zenon DEF AddMembers
<1> DEFINE g == [f EXCEPT !.todo = rest, !.at = pc]
<1>3. Frame(g) /\ g.at \in {"record", "next"} /\ g.cat = {}
  BY <1>0, <1>1, <1>2 DEF Frame, Fields, CatOK
<1>4. Goto(t, g)
  BY <1>2
<1> HIDE DEF g, f
<1>5. DOMAIN job' = Threads /\ job'[t] = g /\ \A u \in Threads \ {t} : job'[u] = job[u]
  BY <1>0, <1>4 DEF Goto
<1>6. FramesInv' /\ \A u \in Threads : Is(u, "clear")' => job'[u] = job[u]
  BY <1>0, <1>3, <1>5 DEF FramesInv, Is
<1>7. UInv'
  BY <1>1, <1>6, AddsStep
<1>8. Informed(g, store, dirty[t])
  BY <1>3, AsideInformed DEF Aside
<1>9. WInv'
  BY <1>0, <1>1, <1>4, <1>8, FrameStep
<1>10. job'[t].at # "aborted" /\ job[t].at = "record"
  BY <1>1, <1>3, <1>5 DEF f
<1> QED
  BY <1>1, <1>7, <1>9, <1>10, RowsUntouched DEF RewritesAt

LEMMA LogRecordStep ==
  ASSUME UInv, WInv, NEW t \in Threads, LogRecord(t)
  PROVE  UInv' /\ WInv' /\ Effects(t)
<1> DEFINE b == Stage(t)
           g == [b EXCEPT !.recs = <<>>]
<1>0. FramesInv /\ Informed(job[t], store, dirty[t])
  BY DEF UInv, WInv
<1>1. Moved(job[t], b, job[t].at, job[t].cat, job[t].left)
  BY <1>0, StageMoves
<1>2. /\ UNCHANGED <<store, graph, dirty, turns, coact, offers>> /\ job[t].at = "next"
      /\ Goto(t, g)
  BY DEF LogRecord, Begins, Is, stores
<1> HIDE DEF b
<1>3. Moved(job[t], g, "next", job[t].cat, job[t].left)
  BY <1>1, <1>2 DEF Moved, Frame, Fields
<1> HIDE DEF g
<1>4. Frame(g) /\ g.at = "next" /\ Informed(g, store, dirty[t])
  BY <1>0, <1>2, <1>3 DEF Moved, Informed, CatOK, DecayOK, ArchiveOK, ConflictOK, ColdOK,
     LiftOK, MergeOK
<1> QED
  BY <1>2, <1>4, PureStep

(* Every step of a pass. *)
LEMMA PassingStep ==
  ASSUME UInv, WInv, NEW t \in Threads, Passing(t)
  PROVE  UInv' /\ WInv' /\ Effects(t)
<1>1. CASE Decaying(t)
  BY <1>1, StartDecayStep, BumpDecayStep, AgeConcernStep DEF Decaying
<1>2. CASE Evolving(t)
  BY <1>2, StartDeclaredStep, NextDeclaredStep, MergeDeclaredStep, StartHeuristicStep,
     MergeHeuristicStep, MergeTransitionStep, MergeArchiveStep, StartArchiveColdStep,
     ArchiveColdStep DEF Evolving
<1>3. CASE Scanning(t)
  BY <1>3, StartConflictStep, SyncDeclaredRelationsStep, LinkConflictPairStep DEF Scanning
<1>4. CASE Consuming(t)
  BY <1>4, StartConsumeStep, GatherStep, ClearTurnsStep, ConsumerAbortStep, LedgerStep,
     ReweightStep, WarmSweepStep DEF Consuming
<1>5. CASE Cooling(t)
  BY <1>5, StartColdStep, SplitConcernStep, ArchiveParentStep, ColdConcernStep,
     StartColdMergeStep, ColdMergeStep, StartColdLiftStep, ColdLiftStep, PruneStep DEF Cooling
<1>6. CASE AddMembers(t) \/ LogRecord(t)
  BY <1>6, AddMembersStep, LogRecordStep
<1> QED
  BY <1>1, <1>2, <1>3, <1>4, <1>5, <1>6 DEF Passing

LEMMA RequestTaken ==
  ASSUME WInv, NEW t \in Clients, offers[t] # <<>>, Served(t)
  PROVE  offers' \in [Clients -> Seq(Requests)] /\ Ask(t) \in Requests
<1>1. offers \in [Clients -> Seq(Requests)] /\ offers[t] \in Seq(Requests)
  BY DEF WInv
<1>2. Tail(offers[t]) \in Seq(Requests) /\ Head(offers[t]) \in Requests
  BY <1>1
<1>3. offers' = [offers EXCEPT ![t] = Tail(offers[t])]
  BY DEF Served
<1> QED
  BY <1>1, <1>2, <1>3 DEF Ask

LEMMA HostRowsOK ==
  ASSUME NEW row, IsRow(row)
  PROVE  Shaped(row)
  BY DEF IsRow, Shaped, Concern

LEMMA HostEditStep ==
  ASSUME UInv, WInv, NEW t \in Clients, HostEdit(t)
  PROVE  UInv' /\ WInv'
<1>0. t \in Threads /\ RowsOK(store) /\ FramesInv /\ Informed(job[t], store, dirty[t])
  BY DEF Threads, UInv, WInv
<1>1. UNCHANGED <<job, turns, coact>> /\ Served(t) /\ offers[t] # <<>> /\ job[t].at = "idle"
  BY DEF HostEdit, Asks, Is, service
<1>2. Ask(t) \in Requests /\ offers' \in [Clients -> Seq(Requests)]
  BY <1>1, RequestTaken
<1>3. PICK new : Writes(t, new) /\ RowsOK(new)
  <2> DEFINE id == Ask(t).id
             row == Ask(t).row
  <2>1. CASE Asks(t, "upsert") /\ Writes(t, Put(store, id, row))
    <3>1. id \in Ids /\ IsRow(row)
      BY <1>2, <2>1, ScenarioAssumption DEF Asks, Ask
    <3>2. Shaped(row)
      BY <3>1, HostRowsOK
    <3> HIDE DEF id, row
    <3>3. RowsOK(Put(store, id, row))
      BY <1>0, <3>1, <3>2 DEF RowsOK, Put
    <3> QED
      BY <2>1, <3>3
  <2>2. CASE Writes(t, Drop(store, id))
    <3> HIDE DEF id
    <3>1. RowsOK(Drop(store, id))
      BY <1>0 DEF RowsOK, Drop, Restrict
    <3> QED
      BY <2>2, <3>1
  <2> QED
    BY <2>1, <2>2 DEF HostEdit
<1>4. Informed(job[t], new, dirty[t])
  <2>1. job[t].cat = {}
    BY <1>0, <1>1 DEF Informed, CatOK
  <2> QED
    BY <1>1, <2>1, AsideInformed DEF Aside
<1>5. ASSUME NEW u \in Threads PROVE Informed(job'[u], store', dirty'[u])
  BY <1>0, <1>1, <1>3, <1>4, WritesElsewhere, OthersKeep DEF WInv
<1>6. WInv'
  BY <1>0, <1>2, <1>3, <1>5, WritesElsewhere DEF WInv
<1> QED
  BY <1>1, <1>6, StillStep

(* A request that leaves its thread with something to do. *)
Starting(t) == RecordCoactivation(t) \/ RecordTurnActivations(t) \/ AppendRecord(t) \/ AskPass(t)
Setting(g) == Frame(g) /\ g.at \in {"next", "record"} /\ g.cat = {}

LEMMA RecordingFrame ==
  ASSUME NEW turn, NEW members, NEW prog
  PROVE  /\ Setting(Recording(turn, members, prog))
         /\ \A recs : Setting([Recording(turn, members, prog) EXCEPT !.recs = recs])
  BY DEF Setting, Recording, Frame, Fields, Resting

LEMMA StartingFrame ==
  ASSUME NEW t \in Clients, Starting(t)
  PROVE  \E g : Goto(t, g) /\ Setting(g)
<1>1. CASE RecordCoactivation(t) \/ RecordTurnActivations(t)
  <2>1. PICK turn, members, prog : Goto(t, Recording(turn, members, prog))
    BY <1>1, Zenon DEF RecordCoactivation, RecordTurnActivations
  <2> QED
    BY <2>1, RecordingFrame, Zenon
<1>2. CASE AppendRecord(t)
  <2>1. PICK turn, members, prog, recs :
           Goto(t, [Recording(turn, members, prog) EXCEPT !.recs = recs])
    BY <1>2, Zenon DEF AppendRecord
  <2> QED
    BY <2>1, RecordingFrame, Zenon
<1>3. CASE AskPass(t)
  <2>1. PICK prog : Goto(t, [Resting EXCEPT !.at = "next", !.prog = prog])
    BY <1>3, Zenon DEF AskPass
  <2>2. PICK g : Goto(t, g) /\ Fresh(g, "next")
    BY <2>1, RestingFrame, Zenon
  <2> QED
    BY <2>2 DEF Fresh, Setting
<1> QED
  BY <1>1, <1>2, <1>3 DEF Starting

LEMMA RequestingStep ==
  ASSUME UInv, WInv, NEW t \in Clients, Requesting(t)
  PROVE  UInv' /\ WInv'
<1>0. t \in Threads /\ DOMAIN job = Threads /\ FramesInv
  BY DEF Threads, UInv, FramesInv
<1>1. CASE HostEdit(t)
  BY <1>1, HostEditStep
<1>2. CASE Starting(t)
  <2>1. PICK g : Goto(t, g) /\ Setting(g)
    BY <1>2, StartingFrame
  <2>2. /\ UNCHANGED <<store, dirty, coact>>
        /\ Served(t) /\ offers[t] # <<>>
    BY <1>2 DEF Starting, RecordCoactivation, RecordTurnActivations, AppendRecord, AskPass,
       Asks, stores
  <2>3. Frame(g) /\ g.at # "clear" /\ Informed(g, store, dirty[t])
        /\ offers' \in [Clients -> Seq(Requests)]
    BY <2>1, <2>2, AsideInformed, RequestTaken DEF Setting, Aside
  <2>4. WInv'
    BY <1>0, <2>1, <2>2, <2>3, FrameStep
  <2>5. Couples(turns)' = Couples(turns)
    <3>1. (\E turn, members : TakesSet(t, turn, members)) \/ UNCHANGED turns
      BY <1>2 DEF Starting, RecordCoactivation, RecordTurnActivations, AppendRecord, AskPass,
         service
    <3> QED
      BY <3>1, TakesSetStep DEF Couples
  <2>6. UInv'
    BY <1>0, <2>1, <2>2, <2>3, <2>5, KeptStep
  <2> QED
    BY <2>4, <2>6
<1> QED
  BY <1>1, <1>2 DEF Requesting, Starting

-----------------------------------------------------------------------------
(* The start and the end of a pass *)
LEMMA InitInv == Init => UInv /\ WInv
<1> SUFFICES ASSUME Init PROVE UInv /\ WInv
  OBVIOUS
<1>1. /\ turns = <<>> /\ job = [t \in Threads |-> Resting]
      /\ coact = [seen |-> {}, paired |-> {}, raced |-> {}]
      /\ dirty = [t \in Threads |-> {}]
  BY DEF Init
<1>2. \A t \in Threads : Frame(job[t]) /\ job[t].at = "idle" /\ job[t].cat = {}
  BY <1>1, RestingFrame DEF Fresh
<1>3. UInv
  BY <1>1, <1>2 DEF UInv, FramesInv, SawInv, Is, CoactivationsAccounted
<1>4. PICK s \in Scenarios : store = s.store /\ offers = s.offers
  BY DEF Init
<1>5. RowsOK(store) /\ offers \in [Clients -> Seq(Requests)]
  BY <1>4, ScenarioAssumption, HostRowsOK DEF RowsOK
<1>6. \A t \in Threads : Informed(job[t], store, dirty[t])
  BY <1>2, AsideInformed DEF Aside
<1> QED
  BY <1>1, <1>3, <1>5, <1>6 DEF WInv

LEMMA RestStep ==
  ASSUME UInv, WInv, NEW t \in Threads, NEW g, Goto(t, g), Frame(g), g.cat = {},
         g.at \in {"idle", "next"}, job[t].at # "merge2", job[t].at \notin RewritesAt,
         UNCHANGED <<store, graph, dirty, turns, coact, offers>>
  PROVE  UInv' /\ WInv' /\ Effects(t)
<1>1. Informed(g, store, dirty[t]) /\ g.at \notin {"clear", "aborted"}
  BY AsideInformed DEF Aside
<1> QED
  BY <1>1, PureStep

LEMMA HeartTickStep ==
  ASSUME UInv, WInv, HeartTick
  PROVE  UInv' /\ WInv' /\ Effects(Heart)
<1>1. Heart \in Threads
  BY DEF Threads
<1>2. PICK prog : Goto(Heart, [Resting EXCEPT !.at = "next", !.prog = prog])
  BY Zenon DEF HeartTick
<1>3. PICK g : Goto(Heart, g) /\ Fresh(g, "next")
  BY <1>2, RestingFrame, Zenon
<1>4. UNCHANGED <<store, graph, dirty, turns, coact, offers>> /\ job[Heart].at = "idle"
  BY DEF HeartTick, Is, stores, service
<1> QED
  BY <1>1, <1>3, <1>4, RestStep DEF Fresh, RewritesAt

LEMMA ReturnStep ==
  ASSUME UInv, WInv, NEW t \in Threads, Return(t)
  PROVE  UInv' /\ WInv' /\ Effects(t)
<1>1. UNCHANGED <<store, graph, dirty, turns, coact, offers>> /\ job[t].at \in {"next", "aborted"}
      /\ Goto(t, Resting)
  BY DEF Return, Is, stores, service
<1>2. Fresh(Resting, "idle")
  BY RestingFrame
<1> QED
  BY <1>1, <1>2, RestStep DEF Fresh, RewritesAt

LEMMA NextInv == UInv /\ WInv /\ [Next]_vars => UInv' /\ WInv'
<1> SUFFICES ASSUME UInv, WInv, [Next]_vars PROVE UInv' /\ WInv'
  OBVIOUS
<1>1. CASE HeartTick
  BY <1>1, HeartTickStep
<1>2. ASSUME NEW t \in Threads, Passing(t) \/ Return(t) PROVE UInv' /\ WInv'
  BY <1>2, PassingStep, ReturnStep
<1>3. ASSUME NEW t \in Clients, Requesting(t) PROVE UInv' /\ WInv'
  BY <1>3, RequestingStep
<1>4. CASE Rest \/ UNCHANGED vars
  <2>1. UNCHANGED <<job, turns, coact, store, dirty, offers>>
    BY <1>4 DEF Rest, vars
  <2>2. UInv'
    BY <2>1, StillStep
  <2> QED
    BY <2>1, <2>2 DEF WInv
<1> QED
  BY <1>1, <1>2, <1>3, <1>4 DEF Next

LEMMA InvHolds == Spec => [](UInv /\ WInv)
  BY InitInv, NextInv, PTL DEF Spec

(* A step that moves a thread out of its frame is that thread's own. *)
LEMMA OneMoves ==
  ASSUME FramesInv, NEW u \in Threads, NEW f, Goto(u, f)
  PROVE  \A t \in Threads : t # u => job'[t] = job[t]
  BY DEF FramesInv, Goto

LEMMA OwnStep ==
  ASSUME UInv, WInv, [Next]_vars, NEW t \in Threads, job'[t] # job[t]
  PROVE  Effects(t) \/ (Is(t, "idle") /\ job'[t].at # "aborted")
<1>0. FramesInv /\ DOMAIN job = Threads
  BY DEF UInv, FramesInv
<1>1. CASE HeartTick
  <2>1. Heart \in Threads /\ \E f : Goto(Heart, f)
    BY <1>1 DEF HeartTick, Threads
  <2>2. t = Heart
    BY <1>0, <2>1, OneMoves
  <2> QED
    BY <1>1, <2>2, HeartTickStep
<1>2. ASSUME NEW u \in Threads, Passing(u) \/ Return(u) PROVE Effects(t)
  <2>1. \E f : Goto(u, f)
    BY <1>2, Zenon DEF Passing, Return, Decaying, Evolving, Scanning, Consuming, Cooling,
       StartDecay, BumpDecay, AgeConcern, StartDeclared, NextDeclared, MergeDeclared,
       StartHeuristic, MergeHeuristic, MergeTransition, MergeArchive, StartArchiveCold,
       ArchiveCold, StartConflict, SyncDeclaredRelations, LinkConflictPair, StartConsume,
       Gather, ClearTurns, IterationFails, DrainLedger, WipeLedger, Reweight, WarmSweep,
       StartCold, SplitConcern, ArchiveParent, ColdConcern, StartColdMerge, ColdMerge,
       StartColdLift, ColdLift, Prune, ConsumeRaises, AddMembers, LogRecord, Abort
  <2>2. t = u
    BY <1>0, <2>1, OneMoves
  <2> QED
    BY <1>2, <2>2, PassingStep, ReturnStep
<1>3. ASSUME NEW u \in Clients, Requesting(u) PROVE Is(t, "idle") /\ job'[t].at # "aborted"
  <2>1. Starting(u)
    BY <1>3 DEF Requesting, Starting, HostEdit
  <2>3. PICK g : Goto(u, g) /\ Setting(g)
    BY <2>1, StartingFrame
  <2>4. u \in Threads /\ t = u
    BY <1>0, <2>3, OneMoves DEF Threads
  <2>5. Is(u, "idle")
    BY <2>1 DEF Starting, RecordCoactivation, RecordTurnActivations, AppendRecord, AskPass, Asks
  <2> QED
    BY <1>0, <2>3, <2>4, <2>5 DEF Setting, Goto
<1>4. CASE Rest \/ UNCHANGED vars
  BY <1>4 DEF Rest, vars
<1> QED
  BY <1>1, <1>2, <1>3, <1>4 DEF Next

-----------------------------------------------------------------------------
(* A co-activation waits in _turn_concerns or was paired up by the consumer  *)
(* that emptied the map, unless it was added while a consumer was between    *)
(* reading and emptying the map, or to a set that had been taken from the    *)
(* map before it was emptied (rt_plasticity_service.py).                     *)
THEOREM NoCoactivationLost == Spec => []CoactivationsAccounted
<1>1. UInv => CoactivationsAccounted
  BY DEF UInv
<1> QED
  BY <1>1, InvHolds, PTL

(* What a host wrote before a worker took its copies survives everything     *)
(* that worker writes back, a reflex concern stays reflex, and no deleted    *)
(* concern comes back (decay_worker.py, conflict_scanner.py,                 *)
(* plasticity_engine.py).                                                    *)
THEOREM EditsSurvive == Spec => HostEditsSurvive
<1>1. UInv /\ WInv /\ [Next]_vars =>
        [\A t \in Threads : ByPass(t) =>
           /\ \A c \in DOMAIN store \ dirty[t] :
                 \/ IsDerived(c)
                 \/ /\ c \in DOMAIN store'
                    /\ Authored(store'[c]) = Authored(store[c])
                    /\ store[c].life.reflex => store'[c].life.reflex
           /\ \A c \in DOMAIN store' \ DOMAIN store : IsDerived(c) \/ c \in dirty[t]]_vars
  BY OwnStep DEF ByPass, Effects, Survives
<1> QED
  BY <1>1, InvHolds, PTL DEF Spec, HostEditsSurvive

(* Merging, cold archiving, splitting and lifting leave a reflex concern in  *)
(* its state and in the graph, but for one that was marked after the pass    *)
(* took its copies and for the children of a concern that splits again       *)
(* (evolution.py, connectome_plasticity.py).                                 *)
THEOREM ReflexCoreIsConserved == Spec => ReflexCoreConserved
<1>1. UInv /\ WInv /\ [Next]_vars =>
        [\A t \in Threads : Rewriting(t) =>
           \A c \in DOMAIN store \ dirty[t] : SplitsInto(t, c) \/ Conserves(c)]_vars
  BY OwnStep DEF Rewriting, ByPass, Effects, CoreKept, RewritesAt
<1> QED
  BY <1>1, InvHolds, PTL DEF Spec, ReflexCoreConserved

(* A heuristic merge archives a concern into one that is still live, also at *)
(* the end of a chain of merges (evolution.py).                              *)
THEOREM MergesKeepALiveConcern == Spec => MergesIntoLive
<1>1. UInv /\ WInv /\ [Next]_vars =>
        [\A t \in Threads :
           LET f == job[t]
           IN  ByPass(t) /\ f.at = "merge2" /\ f.back = "heuristic"
                  /\ f.loser \in DOMAIN store /\ store'[f.loser].life.state = "archived"
               => f.winner \in dirty[t] \/ store[f.winner].life.state \in Live]_vars
  BY OwnStep DEF ByPass, Effects, MergedIntoLive
<1> QED
  BY <1>1, InvHolds, PTL DEF Spec, MergesIntoLive

(* A pass is abandoned half way only because a concern of its copies was     *)
(* written by others, because a turn came into the map while it walked it,   *)
(* or because the log ahead of the cursor has a line that does not parse     *)
(* (decay_worker.py, evolution.py, rt_plasticity_service.py, r_t_reader.py). *)
THEOREM AbortsHaveReasons == Spec => AbortExplained
<1>1. UInv /\ WInv /\ [Next]_vars =>
        [\A t \in Threads :
           job[t].at # "aborted" /\ job'[t].at = "aborted" => AbortReason(t)]_vars
  BY OwnStep DEF Effects, AbortsRaced
<1> QED
  BY <1>1, InvHolds, PTL DEF Spec, AbortExplained
=============================================================================
