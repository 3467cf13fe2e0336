-------------------------- MODULE ConcernLifecycle --------------------------
(***************************************************************************)
(* The lifecycle manager at work on the two stores it keeps consistent.     *)
(*                                                                         *)
(* ConcernStore and DCNStore each lock one call at a time, and _mutate is   *)
(* three such calls: get, upsert, and (for archive) DCNStore.archive.  A    *)
(* call of the manager is therefore up to three steps, Fetch, Persist and   *)
(* SyncDcn, and anything else in the process may run in between: another    *)
(* caller (the heartbeat thread, an RPC thread that consumes r_t records),  *)
(* a host's concern.upsert or concern.delete, and the joinpoint pipeline,   *)
(* which copies the concern it has read into the DCN when it records an     *)
(* activation.  Both stores survive a crash (sqlite backend); the calls in  *)
(* flight do not.                                                          *)
(*                                                                         *)
(* A call that raises (unknown concern, a gate that refuses) and the no-op  *)
(* without DCN sync change nothing and are stuttering steps.                *)
(***************************************************************************)
EXTENDS ConcernRules

CONSTANTS Concerns,        \* concern ids
          Callers,         \* threads that call the lifecycle manager
          Weavers,         \* threads that run the joinpoint pipeline
          HostRecords,     \* the concerns a host submits with concern.upsert
          Deltas,          \* amounts callers pass to reinforce and weaken
          MaxActivations,  \* bound on metrics.activations
          Absent,          \* no row / no node
          Idle             \* no call in flight

VARIABLES store,   \* ConcernStore: id -> Concern, or Absent
          node,    \* DCNStore: id -> lifecycle_state of the node, or Absent
          call,    \* what each caller of the manager is doing
          weave,   \* what each pipeline thread has read and not yet added
          torn,    \* history: a crash cut the concern's archive before its
                   \* DCN write
          drifted  \* history: a weaver put a live node back after the
                   \* concern had been archived

vars == <<store, node, call, weave, torn, drifted>>

PersistCall == [pc : {"persist"}, cid : Concerns, updated : Concern, sync : BOOLEAN]
SyncCall    == [pc : {"sync"}, cid : Concerns]
AddCall     == [pc : {"add"}, cid : Concerns, state : LifecycleState]

ASSUME LifecycleAssumption ==
    /\ HostRecords \subseteq
         {r \in Concern : IsCoherent(r) /\ r.state # "archived"}
    /\ Deltas \subseteq 0 .. ScoreOne
    /\ MaxActivations \in Nat
    /\ Absent \notin Concern
    /\ Absent \notin LifecycleState
    /\ Idle \notin PersistCall \cup SyncCall \cup AddCall

Requests ==
    {Reinforce(d) : d \in Deltas} \cup {Weaken(d) : d \in Deltas}
        \cup {Archive, Revive} \cup {Transition(t) : t \in LifecycleState}

StoredArchived(c) == store[c] # Absent /\ store[c].state = "archived"

TypeOK ==
    /\ store \in [Concerns -> Concern \cup {Absent}]
    /\ node \in [Concerns -> LifecycleState \cup {Absent}]
    /\ call \in [Callers -> PersistCall \cup SyncCall \cup {Idle}]
    /\ weave \in [Weavers -> AddCall \cup {Idle}]
    /\ torn \subseteq Concerns
    /\ drifted \subseteq Concerns

(***************************************************************************)
(* A daemon starts over stores that earlier runs, or a bootstrap script,    *)
(* filled: rows a host wrote, and a node for some of them.                  *)
(***************************************************************************)
Init ==
    /\ store \in [Concerns -> HostRecords \cup {Absent}]
    /\ node \in [Concerns -> LifecycleState \cup {Absent}]
    /\ \A c \in Concerns :
          node[c] # Absent => store[c] # Absent /\ node[c] = store[c].state
    /\ call = [t \in Callers |-> Idle]
    /\ weave = [w \in Weavers |-> Idle]
    /\ torn = {}
    /\ drifted = {}

-----------------------------------------------------------------------------
(* concern.upsert: the row is replaced, the DCN is not told. *)
HostUpsert(c) ==
    /\ \E r \in HostRecords : store' = [store EXCEPT ![c] = r]
    /\ UNCHANGED <<node, call, weave, torn, drifted>>

(* concern.delete: the row goes, the DCN node stays. *)
HostDelete(c) ==
    /\ store[c] # Absent
    /\ store' = [store EXCEPT ![c] = Absent]
    /\ UNCHANGED <<node, call, weave, torn, drifted>>

-----------------------------------------------------------------------------
(* _mutate up to the write: get, the two gates, the fast path, which still  *)
(* goes on to the DCN when the request asks for it, and the record computed *)
(* from the snapshot that get returned.                                     *)
Fetch(t, c, q) ==
    /\ call[t] = Idle
    /\ store[c] # Absent
    /\ Admits(store[c], q)
    /\ q.reinforcement => store[c].activations < MaxActivations
    /\ IF IsNoOp(store[c], q)
       THEN /\ q.sync
            /\ call' = [call EXCEPT ![t] = [pc |-> "sync", cid |-> c]]
       ELSE call' = [call EXCEPT ![t] =
                        [pc |-> "persist", cid |-> c,
                         updated |-> Mutated(store[c], q),
                         sync |-> q.sync]]
    /\ UNCHANGED <<store, node, weave, torn, drifted>>

(* _mutate: upsert. *)
Persist(t) ==
    /\ call[t] # Idle
    /\ call[t].pc = "persist"
    /\ store' = [store EXCEPT ![call[t].cid] = call[t].updated]
    /\ call' = [call EXCEPT ![t] =
                   IF call[t].sync
                   THEN [pc |-> "sync", cid |-> call[t].cid]
                   ELSE Idle]
    /\ UNCHANGED <<node, weave, torn, drifted>>

(* DCNStore.archive: a node that exists is flagged, a missing one ignored. *)
ArchivedNode(nodes, c) ==
    IF nodes[c] = Absent THEN nodes ELSE [nodes EXCEPT ![c] = "archived"]

(* _mutate: the DCN half of an archive. *)
SyncDcn(t) ==
    /\ call[t] # Idle
    /\ call[t].pc = "sync"
    /\ node' = ArchivedNode(node, call[t].cid)
    /\ call' = [call EXCEPT ![t] = Idle]
    /\ torn' = torn \ {call[t].cid}
    /\ drifted' = drifted \ {call[t].cid}
    /\ UNCHANGED <<store, weave>>

-----------------------------------------------------------------------------
(* _record_activations: get ... *)
WeaveRead(w, c) ==
    /\ weave[w] = Idle
    /\ store[c] # Absent
    /\ weave' = [weave EXCEPT ![w] =
                    [pc |-> "add", cid |-> c, state |-> store[c].state]]
    /\ UNCHANGED <<store, node, call, torn, drifted>>

(* ... and add_node, which replaces the node by the copy that was read.     *)
WeaveAdd(w) ==
    /\ weave[w] # Idle
    /\ node' = [node EXCEPT ![weave[w].cid] = weave[w].state]
    /\ weave' = [weave EXCEPT ![w] = Idle]
    /\ drifted' = IF weave[w].state # "archived" /\ StoredArchived(weave[w].cid)
                  THEN drifted \cup {weave[w].cid} ELSE drifted
    /\ UNCHANGED <<store, call, torn>>

-----------------------------------------------------------------------------
(* Concerns for which caller t has the DCN half of an archive still to do. *)
OwesSync(t, c) == /\ call[t] # Idle
                  /\ call[t].pc = "sync"
                  /\ call[t].cid = c

(* The daemon dies; what the threads held in memory is gone. *)
Crash ==
    /\ \E t \in Callers : call[t] # Idle
    /\ torn' = torn \cup {c \in Concerns : \E t \in Callers : OwesSync(t, c)}
    /\ call' = [t \in Callers |-> Idle]
    /\ weave' = [w \in Weavers |-> Idle]
    /\ UNCHANGED <<store, node, drifted>>

-----------------------------------------------------------------------------
HostNext == \E c \in Concerns : HostUpsert(c) \/ HostDelete(c)

ManagerNext ==
    \/ \E t \in Callers, c \in Concerns, q \in Requests : Fetch(t, c, q)
    \/ \E t \in Callers : Persist(t)
    \/ \E t \in Callers : SyncDcn(t)

WeaverNext ==
    \/ \E w \in Weavers, c \in Concerns : WeaveRead(w, c)
    \/ \E w \in Weavers : WeaveAdd(w)

Next == HostNext \/ ManagerNext \/ WeaverNext \/ Crash

Spec == Init /\ [][Next]_vars

(***************************************************************************)
(* A host that uses the library from one thread: a new call, and a write of *)
(* the host's own, starts only when no call is in flight.                   *)
(***************************************************************************)
Quiescent == \A t \in Callers : call[t] = Idle

SerialNext ==
    \/ Quiescent /\ HostNext
    \/ Quiescent /\ \E t \in Callers, c \in Concerns, q \in Requests :
                        Fetch(t, c, q)
    \/ \E t \in Callers : Persist(t)
    \/ \E t \in Callers : SyncDcn(t)
    \/ Crash
SerialSpec == Init /\ [][SerialNext]_vars

-----------------------------------------------------------------------------
(* A concern that was merged, frozen, archived, deleted or just revived is  *)
(* stored as inactive, however the calls that moved it interleaved: no      *)
(* write mixes the fields of two snapshots (_mutate's deactivate, and       *)
(* transition() to revived, which relies on the archived row being inactive *)
(* already).                                                               *)
ActivationCoherent ==
    \A c \in Concerns : store[c] # Absent => IsCoherent(store[c])

(* A concern stored as archived has no live DCN node, unless the call that  *)
(* archived it still owes the DCN write, a crash took that call away, or a  *)
(* weaver put back a copy it had read before: callers racing each other on  *)
(* _mutate never lose the DCN half of an archive, and the fast path of a    *)
(* second archive() repairs what a crash or a weaver left behind.           *)
ArchiveReachesDcn ==
    \A c \in Concerns :
        StoredArchived(c) /\ node[c] \notin {Absent, "archived"}
            => \/ c \in torn \cup drifted
               \/ \E t \in Callers : OwesSync(t, c)

(* Used by one thread, the manager is the abstract machine: every write     *)
(* follows the matrix from the state then stored, and no score moves        *)
(* outside the states reinforce and weaken accept.                          *)
PhaseOf(c) == IF store[c] = Absent THEN Absent ELSE store[c].state
PointsOf(c) == IF store[c] = Absent THEN NoScore ELSE store[c].score

Machine == INSTANCE ConcernMachine
    WITH AdmittedStates <- {r.state : r \in HostRecords},
         phase <- [c \in Concerns |-> PhaseOf(c)],
         points <- [c \in Concerns |-> PointsOf(c)]

ImplementsMachine == Machine!MSpec
=============================================================================
