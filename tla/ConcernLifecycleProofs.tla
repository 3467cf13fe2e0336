----------------------- MODULE ConcernLifecycleProofs -----------------------
(***************************************************************************)
(* Proofs about ConcernLifecycle: type correctness, the coherence of stored *)
(* concerns and the propagation of archives to the DCN, for any number of   *)
(* concerns, callers and weavers.                                           *)
(***************************************************************************)
EXTENDS ConcernLifecycle, TLAPS

(* Every wrapper of _mutate passes well-formed arguments. *)
LEMMA RequestsAreRequests == Requests \subseteq Request
  <1>1. ASSUME NEW d \in Deltas PROVE Reinforce(d) \in Request
    BY LifecycleAssumption, RulesAssumption
       DEF Request, Reinforce, LifecycleState, ReinforceFrom
  <1>2. ASSUME NEW d \in Deltas PROVE Weaken(d) \in Request
    BY LifecycleAssumption, RulesAssumption
       DEF Request, Weaken, LifecycleState, ReinforceFrom
  <1>3. Archive \in Request
    BY RulesAssumption DEF Request, Archive, LifecycleState
  <1>4. Revive \in Request
    BY RulesAssumption DEF Request, Revive, LifecycleState
  <1>5. ASSUME NEW s \in LifecycleState PROVE Transition(s) \in Request
    BY RulesAssumption DEF Request, Transition
  <1> QED BY <1>1, <1>2, <1>3, <1>4, <1>5 DEF Requests

(* _clamp01 and the initial score keep the score in range. *)
LEMMA MovedScoreInRange ==
    ASSUME NEW s \in {NoScore} \cup 0 .. ScoreOne, NEW q \in Request
    PROVE  MovedScore(s, q) \in {NoScore} \cup 0 .. ScoreOne
  <1>1. q.delta \in Int
    BY RulesAssumption DEF Request
  <1>2. s \in Int /\ InitialScore \in Int /\ ScoreOne \in Int /\ ScoreOne > 0
    BY RulesAssumption DEF NoScore
  <1>3. ASSUME NEW v \in Int PROVE Clamp01(v) \in 0 .. ScoreOne
    BY <1>2 DEF Clamp01
  <1> QED BY <1>1, <1>2, <1>3 DEF MovedScore

(* The record _mutate persists is a well-formed concern. *)
LEMMA MutatedIsConcern ==
    ASSUME NEW r \in Concern, NEW q \in Request
    PROVE  Mutated(r, q) \in Concern
  <1>1. MovedScore(r.score, q) \in {NoScore} \cup 0 .. ScoreOne
    BY MovedScoreInRange DEF Concern
  <1>2. 0 \in 0 .. DecayOne
    BY RulesAssumption
  <1>3. r.active \in BOOLEAN /\ r.reflex \in BOOLEAN
    BY DEF Concern
  <1>4. r.decay \in 0 .. DecayOne /\ r.activations \in Nat
    BY DEF Concern
  <1>5. r.activations + 1 \in Nat
    BY <1>4
  <1>6. q.target \in LifecycleState
    BY DEF Request
  <1> QED BY <1>1, <1>2, <1>3, <1>4, <1>5, <1>6, Zenon DEF Mutated, Concern

(* The record _mutate persists is inactive whenever its state is dormant.   *)
(* For revived this needs the archived row it started from to be inactive.  *)
LEMMA MutatedIsCoherent ==
    ASSUME NEW r \in Concern, NEW q \in Requests,
           IsCoherent(r), Admits(r, q)
    PROVE  IsCoherent(Mutated(r, q))
  <1>1. CASE \E d \in Deltas : q = Reinforce(d) \/ q = Weaken(d)
    BY <1>1 DEF IsCoherent, Mutated, Reinforce, Weaken, DormantStates
  <1>2. CASE q = Archive \/ q = Revive
    BY <1>2 DEF IsCoherent, Mutated, Archive, Revive, DormantStates
  <1>3. CASE \E s \in LifecycleState : q = Transition(s)
    <2>1. PICK s \in LifecycleState : q = Transition(s)
      BY <1>3
    <2>2. CASE s \in DeactivatingTargets
      BY <2>1, <2>2 DEF IsCoherent, Mutated, Transition
    <2>3. CASE s = "revived"
      <3>1. r.state = "archived"
        BY <2>1, <2>3 DEF Admits, Transition, AllowedTransitions, Concern,
                          LifecycleState
      <3> QED BY <2>1, <2>3, <3>1 DEF IsCoherent, Mutated, Transition,
                                     DormantStates, DeactivatingTargets
    <2>4. CASE s \notin DeactivatingTargets /\ s # "revived"
      BY <2>1, <2>4 DEF IsCoherent, Mutated, Transition, DormantStates,
                        DeactivatingTargets
    <2> QED BY <2>2, <2>3, <2>4
  <1> QED BY <1>1, <1>2, <1>3 DEF Requests

(* Only a request that also asks for the DCN write archives a concern. *)
LEMMA ArchivingRequestSyncs ==
    ASSUME NEW q \in Requests, q.target = "archived"
    PROVE  q.sync
  <1>1. CASE \E d \in Deltas : q = Reinforce(d) \/ q = Weaken(d)
    BY <1>1 DEF Reinforce, Weaken
  <1>2. CASE q = Archive \/ q = Revive
    BY <1>2 DEF Archive, Revive
  <1>3. CASE \E s \in LifecycleState : q = Transition(s)
    <2>1. PICK s \in LifecycleState : q = Transition(s)
      BY <1>3
    <2>2. s = "archived"
      BY <2>1 DEF Transition
    <2> QED BY <2>1, <2>2 DEF Transition
  <1> QED BY <1>1, <1>2, <1>3 DEF Requests

-----------------------------------------------------------------------------
(* What is known of a call between its get and its upsert. *)
CallsCoherent ==
    \A t \in Callers :
        call[t] # Idle /\ call[t].pc = "persist" =>
            /\ IsCoherent(call[t].updated)
            /\ call[t].updated.state = "archived" => call[t].sync

(* The inductive invariant. *)
IInv ==
    /\ TypeOK
    /\ ActivationCoherent
    /\ CallsCoherent
    /\ ArchiveReachesDcn

LEMMA InitEstablishesIInv == Init => IInv
  <1> SUFFICES ASSUME Init PROVE IInv
    OBVIOUS
  <1>1. TypeOK
    BY LifecycleAssumption DEF Init, TypeOK
  <1>2. ActivationCoherent
    BY LifecycleAssumption DEF Init, ActivationCoherent
  <1>3. CallsCoherent
    BY DEF Init, CallsCoherent
  <1>4. ArchiveReachesDcn
    BY DEF Init, ArchiveReachesDcn, StoredArchived
  <1> QED BY <1>1, <1>2, <1>3, <1>4 DEF IInv

LEMMA NextPreservesTypeOK == TypeOK /\ [Next]_vars => TypeOK'
  <1> SUFFICES ASSUME TypeOK, [Next]_vars PROVE TypeOK'
    OBVIOUS
  <1>1. ASSUME NEW c \in Concerns, HostUpsert(c) PROVE TypeOK'
    BY <1>1, LifecycleAssumption DEF TypeOK, HostUpsert
  <1>2. ASSUME NEW c \in Concerns, HostDelete(c) PROVE TypeOK'
    BY <1>2 DEF TypeOK, HostDelete
  <1>3. ASSUME NEW t \in Callers, NEW c \in Concerns, NEW q \in Requests,
               Fetch(t, c, q)
        PROVE  TypeOK'
    <2>1. store[c] \in Concern
      BY <1>3 DEF TypeOK, Fetch
    <2>2. q \in Request /\ q.sync \in BOOLEAN
      BY RequestsAreRequests DEF Request
    <2>3. Mutated(store[c], q) \in Concern
      BY <2>1, <2>2, MutatedIsConcern
    <2>4. [pc |-> "persist", cid |-> c, updated |-> Mutated(store[c], q),
           sync |-> q.sync] \in PersistCall
      BY <2>2, <2>3 DEF PersistCall
    <2>5. [pc |-> "sync", cid |-> c] \in SyncCall
      BY DEF SyncCall
    <2>6. call' \in [Callers -> PersistCall \cup SyncCall \cup {Idle}]
      BY <1>3, <2>4, <2>5 DEF TypeOK, Fetch
    <2> QED BY <1>3, <2>6 DEF TypeOK, Fetch
  <1>4. ASSUME NEW t \in Callers, Persist(t) PROVE TypeOK'
    <2>1. call[t] \in PersistCall
      BY <1>4 DEF TypeOK, Persist, SyncCall
    <2>2. call[t].cid \in Concerns /\ call[t].updated \in Concern
      BY <2>1 DEF PersistCall
    <2>3. [pc |-> "sync", cid |-> call[t].cid] \in SyncCall
      BY <2>2 DEF SyncCall
    <2>4. call' \in [Callers -> PersistCall \cup SyncCall \cup {Idle}]
      BY <1>4, <2>3 DEF TypeOK, Persist
    <2> QED BY <1>4, <2>2, <2>4 DEF TypeOK, Persist
  <1>5. ASSUME NEW t \in Callers, SyncDcn(t) PROVE TypeOK'
    <2>1. call[t] \in SyncCall
      BY <1>5 DEF TypeOK, SyncDcn, PersistCall
    <2>2. call[t].cid \in Concerns
      BY <2>1 DEF SyncCall
    <2> QED BY <1>5, <2>2 DEF TypeOK, SyncDcn, ArchivedNode, LifecycleState
  <1>6. ASSUME NEW w \in Weavers, NEW c \in Concerns, WeaveRead(w, c)
        PROVE  TypeOK'
    <2>1. store[c].state \in LifecycleState
      BY <1>6 DEF TypeOK, WeaveRead, Concern
    <2>2. [pc |-> "add", cid |-> c, state |-> store[c].state] \in AddCall
      BY <2>1 DEF AddCall
    <2> QED BY <1>6, <2>2 DEF TypeOK, WeaveRead
  <1>7. ASSUME NEW w \in Weavers, WeaveAdd(w) PROVE TypeOK'
    <2>1. weave[w].cid \in Concerns /\ weave[w].state \in LifecycleState
      BY <1>7 DEF TypeOK, WeaveAdd, AddCall
    <2> QED BY <1>7, <2>1 DEF TypeOK, WeaveAdd
  <1>8. CASE Crash
    BY <1>8 DEF TypeOK, Crash
  <1>9. CASE UNCHANGED vars
    BY <1>9 DEF TypeOK, vars
  <1> QED BY <1>1, <1>2, <1>3, <1>4, <1>5, <1>6, <1>7, <1>8, <1>9
             DEF Next, HostNext, ManagerNext, WeaverNext

-----------------------------------------------------------------------------
(* Only Fetch, Persist and the host's upsert create records. *)
LEMMA NextPreservesCoherence ==
    TypeOK /\ ActivationCoherent /\ CallsCoherent /\ [Next]_vars
        => ActivationCoherent' /\ CallsCoherent'
  <1> SUFFICES ASSUME TypeOK, ActivationCoherent, CallsCoherent, [Next]_vars
               PROVE  ActivationCoherent' /\ CallsCoherent'
    OBVIOUS
  <1>1. ASSUME NEW c \in Concerns, HostUpsert(c)
        PROVE  ActivationCoherent' /\ CallsCoherent'
    <2>1. ActivationCoherent'
      BY <1>1, LifecycleAssumption
         DEF HostUpsert, ActivationCoherent, TypeOK
    <2>2. CallsCoherent'
      BY <1>1 DEF HostUpsert, CallsCoherent
    <2> QED BY <2>1, <2>2
  <1>2. ASSUME NEW c \in Concerns, HostDelete(c)
        PROVE  ActivationCoherent' /\ CallsCoherent'
    BY <1>2 DEF HostDelete, ActivationCoherent, CallsCoherent, TypeOK
  <1>3. ASSUME NEW t \in Callers, NEW c \in Concerns, NEW q \in Requests,
               Fetch(t, c, q)
        PROVE  ActivationCoherent' /\ CallsCoherent'
    <2>1. ActivationCoherent'
      BY <1>3 DEF Fetch, ActivationCoherent
    <2>2. store[c] \in Concern /\ IsCoherent(store[c]) /\ Admits(store[c], q)
      BY <1>3 DEF Fetch, ActivationCoherent, TypeOK
    <2>3. IsCoherent(Mutated(store[c], q))
      BY <2>2, MutatedIsCoherent
    <2>4. Mutated(store[c], q).state = "archived" => q.sync
      BY ArchivingRequestSyncs DEF Mutated
    <2>5. ASSUME NEW u \in Callers, call'[u] # Idle, call'[u].pc = "persist"
          PROVE  /\ IsCoherent(call'[u].updated)
                 /\ call'[u].updated.state = "archived" => call'[u].sync
      <3>1. CASE u = t
        BY <1>3, <2>3, <2>4, <2>5, <3>1 DEF Fetch, TypeOK
      <3>2. CASE u # t
        BY <1>3, <2>5, <3>2 DEF Fetch, TypeOK, CallsCoherent
      <3> QED BY <3>1, <3>2
    <2> QED BY <2>1, <2>5 DEF CallsCoherent
  <1>4. ASSUME NEW t \in Callers, Persist(t)
        PROVE  ActivationCoherent' /\ CallsCoherent'
    <2>1. call[t] \in PersistCall /\ IsCoherent(call[t].updated)
      BY <1>4 DEF Persist, TypeOK, SyncCall, CallsCoherent
    <2>2. ActivationCoherent'
      BY <1>4, <2>1 DEF Persist, ActivationCoherent, TypeOK, PersistCall
    <2>3. CallsCoherent'
      BY <1>4, <2>1 DEF Persist, CallsCoherent, TypeOK
    <2> QED BY <2>2, <2>3
  <1>5. ASSUME NEW t \in Callers, SyncDcn(t)
        PROVE  ActivationCoherent' /\ CallsCoherent'
    BY <1>5 DEF SyncDcn, ActivationCoherent, CallsCoherent, TypeOK
  <1>6. ASSUME NEW w \in Weavers, NEW c \in Concerns, WeaveRead(w, c)
        PROVE  ActivationCoherent' /\ CallsCoherent'
    BY <1>6 DEF WeaveRead, ActivationCoherent, CallsCoherent
  <1>7. ASSUME NEW w \in Weavers, WeaveAdd(w)
        PROVE  ActivationCoherent' /\ CallsCoherent'
    BY <1>7 DEF WeaveAdd, ActivationCoherent, CallsCoherent
  <1>8. CASE Crash
    BY <1>8 DEF Crash, ActivationCoherent, CallsCoherent
  <1>9. CASE UNCHANGED vars
    BY <1>9 DEF vars, ActivationCoherent, CallsCoherent
  <1> QED BY <1>1, <1>2, <1>3, <1>4, <1>5, <1>6, <1>7, <1>8, <1>9
             DEF Next, HostNext, ManagerNext, WeaverNext

(* A row turns archived only in Persist, which then owes the DCN write; a   *)
(* debt ends in SyncDcn, which pays it, or in Crash, which records it.      *)
LEMMA NextPreservesArchiveReachesDcn ==
    IInv /\ [Next]_vars => ArchiveReachesDcn'
  <1> SUFFICES ASSUME IInv, [Next]_vars,
                      NEW k \in Concerns,
                      StoredArchived(k)',
                      node'[k] \notin {Absent, "archived"}
               PROVE  \/ k \in torn' \cup drifted'
                      \/ \E t \in Callers : OwesSync(t, k)'
    BY DEF ArchiveReachesDcn
  <1> USE DEF IInv
  <1>1. ASSUME NEW c \in Concerns, HostUpsert(c)
        PROVE  \/ k \in torn' \cup drifted'
               \/ \E t \in Callers : OwesSync(t, k)'
    BY <1>1, LifecycleAssumption
       DEF HostUpsert, ArchiveReachesDcn, StoredArchived, OwesSync, TypeOK
  <1>2. ASSUME NEW c \in Concerns, HostDelete(c)
        PROVE  \/ k \in torn' \cup drifted'
               \/ \E t \in Callers : OwesSync(t, k)'
    BY <1>2 DEF HostDelete, ArchiveReachesDcn, StoredArchived, OwesSync, TypeOK
  <1>3. ASSUME NEW t \in Callers, NEW c \in Concerns, NEW q \in Requests,
               Fetch(t, c, q)
        PROVE  \/ k \in torn' \cup drifted'
               \/ \E u \in Callers : OwesSync(u, k)'
    <2>1. StoredArchived(k) /\ node[k] \notin {Absent, "archived"}
      BY <1>3 DEF Fetch, StoredArchived
    <2>2. CASE k \in torn \cup drifted
      BY <1>3, <2>2 DEF Fetch
    <2>3. CASE \E u \in Callers : OwesSync(u, k)
      BY <1>3, <2>3 DEF Fetch, OwesSync, TypeOK
    <2> QED BY <2>1, <2>2, <2>3 DEF ArchiveReachesDcn
  <1>4. ASSUME NEW t \in Callers, Persist(t)
        PROVE  \/ k \in torn' \cup drifted'
               \/ \E u \in Callers : OwesSync(u, k)'
    <2>1. /\ call[t] \in PersistCall
          /\ call[t].updated.state = "archived" => call[t].sync
      BY <1>4 DEF Persist, TypeOK, SyncCall, CallsCoherent
    <2>2. CASE call[t].cid = k
      <3>1. call[t].updated.state = "archived"
        BY <1>4, <2>1, <2>2 DEF Persist, StoredArchived, TypeOK
      <3>2. call'[t] = [pc |-> "sync", cid |-> k]
        BY <1>4, <2>1, <2>2, <3>1 DEF Persist, TypeOK
      <3>3. [pc |-> "sync", cid |-> k] \in SyncCall
        BY DEF SyncCall
      <3> QED BY <3>2, <3>3, LifecycleAssumption DEF OwesSync
    <2>3. CASE call[t].cid # k
      <3>1. StoredArchived(k) /\ node[k] \notin {Absent, "archived"}
        BY <1>4, <2>1, <2>3 DEF Persist, StoredArchived, TypeOK, PersistCall
      <3>2. CASE k \in torn \cup drifted
        BY <1>4, <3>2 DEF Persist
      <3>3. CASE \E u \in Callers : OwesSync(u, k)
        <4>1. PICK u \in Callers : OwesSync(u, k)
          BY <3>3
        <4>2. u # t
          BY <4>1, <1>4 DEF OwesSync, Persist
        <4>3. call'[u] = call[u]
          BY <4>2, <1>4 DEF Persist, TypeOK
        <4> QED BY <4>1, <4>3 DEF OwesSync
      <3> QED BY <3>1, <3>2, <3>3 DEF ArchiveReachesDcn
    <2> QED BY <2>2, <2>3
  <1>5. ASSUME NEW t \in Callers, SyncDcn(t)
        PROVE  \/ k \in torn' \cup drifted'
               \/ \E u \in Callers : OwesSync(u, k)'
    <2>1. call[t] \in SyncCall /\ call[t].cid \in Concerns
      BY <1>5 DEF SyncDcn, TypeOK, PersistCall, SyncCall
    <2>2. call[t].cid # k
      BY <1>5, <2>1 DEF SyncDcn, ArchivedNode, TypeOK
    <2>3. StoredArchived(k) /\ node[k] \notin {Absent, "archived"}
      BY <1>5, <2>1, <2>2 DEF SyncDcn, ArchivedNode, StoredArchived, TypeOK
    <2>4. CASE k \in torn \cup drifted
      BY <1>5, <2>2, <2>4 DEF SyncDcn
    <2>5. CASE \E u \in Callers : OwesSync(u, k)
      BY <1>5, <2>2, <2>5 DEF SyncDcn, OwesSync, TypeOK
    <2> QED BY <2>3, <2>4, <2>5 DEF ArchiveReachesDcn
  <1>6. ASSUME NEW w \in Weavers, NEW c \in Concerns, WeaveRead(w, c)
        PROVE  \/ k \in torn' \cup drifted'
               \/ \E t \in Callers : OwesSync(t, k)'
    BY <1>6 DEF WeaveRead, ArchiveReachesDcn, StoredArchived, OwesSync
  <1>7. ASSUME NEW w \in Weavers, WeaveAdd(w)
        PROVE  \/ k \in torn' \cup drifted'
               \/ \E t \in Callers : OwesSync(t, k)'
    <2>1. weave[w].cid \in Concerns
      BY <1>7 DEF WeaveAdd, TypeOK, AddCall
    <2>2. CASE weave[w].cid = k
      <3>1. weave[w].state # "archived" /\ StoredArchived(k)
        BY <1>7, <2>2 DEF WeaveAdd, TypeOK, StoredArchived
      <3> QED BY <1>7, <2>2, <3>1 DEF WeaveAdd
    <2>3. CASE weave[w].cid # k
      BY <1>7, <2>1, <2>3
         DEF WeaveAdd, TypeOK, ArchiveReachesDcn, StoredArchived, OwesSync
    <2> QED BY <2>2, <2>3
  <1>8. CASE Crash
    BY <1>8 DEF Crash, ArchiveReachesDcn, StoredArchived, OwesSync
  <1>9. CASE UNCHANGED vars
    BY <1>9 DEF vars, ArchiveReachesDcn, StoredArchived, OwesSync
  <1> QED BY <1>1, <1>2, <1>3, <1>4, <1>5, <1>6, <1>7, <1>8, <1>9
             DEF Next, HostNext, ManagerNext, WeaverNext

LEMMA IInvInductive == Spec => []IInv
  <1>1. IInv /\ [Next]_vars => IInv'
    BY NextPreservesTypeOK, NextPreservesCoherence,
       NextPreservesArchiveReachesDcn DEF IInv
  <1> QED BY <1>1, InitEstablishesIInv, PTL DEF Spec

-----------------------------------------------------------------------------
(* Every state of the stores and of the calls in flight is well formed,     *)
(* whatever the interleaving: scores and decays stay in range.              *)
THEOREM TypeCorrect == Spec => []TypeOK
  BY IInvInductive, PTL DEF IInv

(* A dormant concern is never stored as active (see ActivationCoherent). *)
THEOREM ActivationCoherence == Spec => []ActivationCoherent
  BY IInvInductive, PTL DEF IInv

(* The DCN half of an archive is never lost to a race between callers of    *)
(* the manager (see ArchiveReachesDcn).                                     *)
THEOREM ArchivePropagation == Spec => []ArchiveReachesDcn
  BY IInvInductive, PTL DEF IInv

-----------------------------------------------------------------------------
(* One thread: what a call has fetched is still what is stored. *)
FetchIsFresh ==
    \A t \in Callers :
        call[t] # Idle /\ call[t].pc = "persist" =>
            /\ store[call[t].cid] # Absent
            /\ call[t].updated.state
                 \in AllowedTransitions(store[call[t].cid].state)
            /\ call[t].updated.score # store[call[t].cid].score
                 => store[call[t].cid].state \in ReinforceFrom

OneCall == \A t, u \in Callers : call[t] # Idle /\ call[u] # Idle => t = u

SerialInv == TypeOK /\ OneCall /\ FetchIsFresh

(* A record computed by _mutate respects the matrix, and moves the score    *)
(* only from the states reinforce and weaken accept.                        *)
LEMMA MutatedRespectsMatrix ==
    ASSUME NEW r \in Concern, NEW q \in Requests, Admits(r, q)
    PROVE  /\ Mutated(r, q).state \in AllowedTransitions(r.state)
           /\ Mutated(r, q).score # r.score => r.state \in ReinforceFrom
  <1>1. Mutated(r, q).state \in AllowedTransitions(r.state)
    BY DEF Mutated, Admits
  <1>2. CASE \E d \in Deltas : q = Reinforce(d) \/ q = Weaken(d)
    BY <1>1, <1>2 DEF Admits, Reinforce, Weaken
  <1>3. CASE q = Archive \/ q = Revive
    BY <1>1, <1>3 DEF Mutated, MovedScore, Archive, Revive
  <1>4. CASE \E s \in LifecycleState : q = Transition(s)
    BY <1>1, <1>4 DEF Mutated, MovedScore, Transition
  <1> QED BY <1>2, <1>3, <1>4 DEF Requests

LEMMA SerialInvInductive == SerialSpec => []SerialInv
  <1>1. Init => SerialInv
    BY InitEstablishesIInv DEF Init, SerialInv, OneCall, FetchIsFresh, IInv
  <1>2. SerialInv /\ [SerialNext]_vars => SerialInv'
    <2> SUFFICES ASSUME SerialInv, [SerialNext]_vars PROVE SerialInv'
      OBVIOUS
    <2> USE DEF SerialInv
    <2>1. TypeOK'
      BY NextPreservesTypeOK DEF SerialNext, Next, ManagerNext
    <2>2. ASSUME Quiescent, HostNext PROVE SerialInv'
      BY <2>1, <2>2
         DEF Quiescent, HostNext, HostUpsert, HostDelete, OneCall, FetchIsFresh
    <2>3. ASSUME Quiescent, NEW t \in Callers, NEW c \in Concerns,
                 NEW q \in Requests, Fetch(t, c, q)
          PROVE  SerialInv'
      <3>1. \A u \in Callers : u # t => call'[u] = Idle
        BY <2>3 DEF Quiescent, Fetch, TypeOK
      <3>2. OneCall'
        BY <3>1 DEF OneCall
      <3>3. store[c] \in Concern /\ Admits(store[c], q)
        BY <2>3 DEF Fetch, TypeOK
      <3>4. /\ Mutated(store[c], q).state
                 \in AllowedTransitions(store[c].state)
            /\ Mutated(store[c], q).score # store[c].score
                 => store[c].state \in ReinforceFrom
        BY <3>3, MutatedRespectsMatrix
      <3>5. FetchIsFresh'
        BY <2>3, <3>1, <3>4 DEF Fetch, FetchIsFresh, TypeOK
      <3> QED BY <2>1, <3>2, <3>5
    <2>4. ASSUME NEW t \in Callers, Persist(t) PROVE SerialInv'
      <3>1. \A u \in Callers : u # t => call'[u] = Idle
        BY <2>4 DEF Persist, TypeOK, OneCall
      <3>2. call'[t] = Idle \/ call'[t].pc = "sync"
        BY <2>4 DEF Persist, TypeOK
      <3> QED BY <2>1, <3>1, <3>2 DEF OneCall, FetchIsFresh
    <2>5. ASSUME NEW t \in Callers, SyncDcn(t) PROVE SerialInv'
      <3>1. \A u \in Callers : call'[u] = Idle
        BY <2>5 DEF SyncDcn, TypeOK, OneCall
      <3> QED BY <2>1, <3>1 DEF OneCall, FetchIsFresh
    <2>6. CASE Crash
      BY <2>1, <2>6 DEF Crash, OneCall, FetchIsFresh
    <2>7. CASE UNCHANGED vars
      BY <2>1, <2>7 DEF vars, OneCall, FetchIsFresh
    <2> QED BY <2>2, <2>3, <2>4, <2>5, <2>6, <2>7 DEF SerialNext
  <1> QED BY <1>1, <1>2, PTL DEF SerialSpec

(* Used from one thread, the manager implements the abstract machine: every *)
(* persisted step follows the matrix from the state stored at that moment,  *)
(* and a score moves only where reinforce and weaken are allowed.           *)
THEOREM SerialManagerImplementsMachine == SerialSpec => ImplementsMachine
  <1> DEFINE P == [c \in Concerns |-> PhaseOf(c)]
             Q == [c \in Concerns |-> PointsOf(c)]
  <1>1. Init => Machine!MInit
    BY LifecycleAssumption
       DEF Init, Machine!MInit, PhaseOf, PointsOf, Concern, NoScore,
           Machine!NoScore
  <1>2. SerialInv /\ [SerialNext]_vars => [Machine!MNext]_<<P, Q>>
    <2> SUFFICES ASSUME SerialInv, [SerialNext]_vars
                 PROVE  Machine!MNext \/ UNCHANGED <<P, Q>>
      BY DEF Machine!MNext
    <2> USE DEF SerialInv
    <2>1. ASSUME NEW c \in Concerns, HostUpsert(c) PROVE Machine!MNext
      <3>1. PICK r \in HostRecords : store' = [store EXCEPT ![c] = r]
        BY <2>1 DEF HostUpsert
      <3>2. r \in Concern /\ r # Absent
        BY LifecycleAssumption
      <3>3. P' = [P EXCEPT ![c] = r.state]
        BY <3>1, <3>2 DEF PhaseOf, TypeOK
      <3>4. Q' = [Q EXCEPT ![c] = r.score]
        BY <3>1, <3>2 DEF PointsOf, TypeOK
      <3>5. r.score \in {NoScore} \cup 0 .. ScoreOne
        BY <3>2 DEF Concern
      <3>6. Machine!Admit(c)
        BY <3>3, <3>4, <3>5 DEF Machine!Admit, Machine!NoScore, NoScore
      <3> QED BY <3>6 DEF Machine!MNext
    <2>2. ASSUME NEW c \in Concerns, HostDelete(c) PROVE Machine!MNext
      <3>1. P' = [P EXCEPT ![c] = Absent]
        BY <2>2 DEF HostDelete, PhaseOf, TypeOK
      <3>2. Q' = [Q EXCEPT ![c] = NoScore]
        BY <2>2 DEF HostDelete, PointsOf, TypeOK
      <3>3. Machine!Remove(c)
        BY <3>1, <3>2 DEF Machine!Remove, Machine!NoScore, NoScore
      <3> QED BY <3>3 DEF Machine!MNext
    <2>3. ASSUME NEW t \in Callers, Persist(t) PROVE Machine!MNext
      <3> DEFINE c == call[t].cid
                 r == call[t].updated
      <3>1. c \in Concerns /\ r \in Concern /\ r # Absent
        BY <2>3, LifecycleAssumption DEF Persist, TypeOK, SyncCall, PersistCall
      <3>2. /\ store[c] # Absent
            /\ r.state \in AllowedTransitions(store[c].state)
            /\ r.score # store[c].score => store[c].state \in ReinforceFrom
        BY <2>3 DEF Persist, FetchIsFresh
      <3>3. store' = [store EXCEPT ![c] = r]
        BY <2>3 DEF Persist
      <3>4. P[c] = store[c].state /\ Q[c] = store[c].score
        BY <3>1, <3>2 DEF PhaseOf, PointsOf
      <3>5. P[c] # Absent
        BY <3>1, <3>2, <3>4, LifecycleAssumption DEF TypeOK, Concern
      <3>6. P' = [P EXCEPT ![c] = r.state]
        BY <3>1, <3>3 DEF PhaseOf, TypeOK
      <3>7. Q' = [Q EXCEPT ![c] = r.score]
        BY <3>1, <3>3 DEF PointsOf, TypeOK
      <3>8. r.score \in {NoScore} \cup 0 .. ScoreOne
        BY <3>1 DEF Concern
      <3>9. Machine!Move(c)
        <4>1. P[c] # Absent /\ r.state \in Machine!AllowedTransitions(P[c])
          BY <3>2, <3>4, <3>5
             DEF Machine!AllowedTransitions, AllowedTransitions
        <4>2. r.score # Q[c] => P[c] \in Machine!ReinforceFrom
          BY <3>2, <3>4 DEF Machine!ReinforceFrom, ReinforceFrom
        <4>3. r.score \in {Machine!NoScore} \cup 0 .. ScoreOne
          BY <3>8 DEF Machine!NoScore, NoScore
        <4> HIDE DEF c, r
        <4> QED BY <4>1, <4>2, <4>3, <3>6, <3>7 DEF Machine!Move
      <3> QED BY <3>1, <3>9 DEF Machine!MNext
    <2>4. ASSUME UNCHANGED store PROVE UNCHANGED <<P, Q>>
      BY <2>4 DEF PhaseOf, PointsOf
    <2>5. CASE Crash \/ UNCHANGED vars \/ \E t \in Callers : SyncDcn(t)
      BY <2>4, <2>5 DEF Crash, vars, SyncDcn
    <2>6. ASSUME NEW t \in Callers, NEW c \in Concerns, NEW q \in Requests,
                 Fetch(t, c, q)
          PROVE  UNCHANGED <<P, Q>>
      BY <2>4, <2>6 DEF Fetch
    <2> QED BY <2>1, <2>2, <2>3, <2>5, <2>6 DEF SerialNext, HostNext
  <1> QED BY <1>1, <1>2, SerialInvInductive, PTL
             DEF SerialSpec, ImplementsMachine, Machine!MSpec, Machine!mvars
=============================================================================
