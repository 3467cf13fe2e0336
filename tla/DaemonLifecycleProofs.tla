----------------------- MODULE DaemonLifecycleProofs ------------------------
(***************************************************************************)
(* Safety of Daemon.start, stop and reload for any number of callers,       *)
(* connections, lifecycles and runtimes.                                    *)
(*                                                                         *)
(* The resources a lifecycle owns depend on where the holder of _state_lock *)
(* is; Stage names, for each label, what is open, mounted and held there.   *)
(***************************************************************************)
EXTENDS DaemonLifecycle, TLAPS

Outside == {"idle", "signal"}

(* _state_lock is held by exactly the caller that is inside a method. *)
LockOK == \A t \in Callers : lock = t <=> pc[t].at \notin Outside

(* Nothing is built. *)
Bare == open = {} /\ built = None /\ fresh = None /\ serving = {}

(* One runtime is built and open, under the PID file. *)
OneOpen == open = {built} /\ built # None /\ fresh = None /\ pid

Mounted == serving = {starts} /\ mounted[starts] = built

(* What start() had achieved when it was torn down, or what it left for     *)
(* stop() to tear down.                                                     *)
Partial ==
    \/ Bare
    \/ OneOpen /\ (serving = {} \/ Mounted)

(* A reload has two runtimes open, one of them mounted. *)
TwoOpen ==
    /\ pid /\ built # None /\ fresh # None /\ built # fresh
    /\ open = {built, fresh}
    /\ serving = {starts}

Stage(label) ==
    /\ label = "acquirePid" => Bare
    /\ label = "build" => Bare /\ pid
    /\ label \in {"warm", "serve"} => OneOpen /\ serving = {}
    /\ label \in {"schedule", "rebuild"} => OneOpen /\ Mounted
    /\ label \in {"haltTicks", "joinTicks", "closeHttp"} => Partial
    /\ label = "closeRuntime" => Partial /\ serving = {}
    /\ label = "clearPid" => Bare
    /\ label = "swapBuilt" => TwoOpen /\ mounted[starts] = built
    /\ label = "swapHandler" => TwoOpen /\ mounted[starts] = fresh
    /\ label = "closeOld" => TwoOpen /\ mounted[starts] = built

Rest == IF started THEN OneOpen /\ Mounted ELSE Bare /\ ~pid

Resources ==
    /\ lock = NoOne => Rest
    /\ \A t \in Callers : lock = t => started /\ Stage(pc[t].at)
    /\ started => starts # 0

(* Heartbeat threads of earlier lifecycles have been told to stop, and so   *)
(* has the current one from haltTicks on.                                   *)
Early == {"acquirePid", "build", "warm", "serve", "schedule"}
Late == {"joinTicks", "closeHttp", "closeRuntime", "clearPid"}

Heartbeats ==
    /\ \A s \in Starts : s > starts => ticker[s].at = "none"
    /\ \A s \in Starts : ticker[s].at # "none" /\ s \notin halted
                            => s = starts /\ started
    /\ \A t \in Callers : lock = t /\ pc[t].at \in Early
          => ticker[starts].at = "none"
    /\ \A t \in Callers : lock = t /\ pc[t].at \in Late
          => \A s \in Starts : ticker[s].at = "none" \/ s \in halted

(* A connection's server has had a handler mounted ever since it began to   *)
(* accept.                                                                  *)
Connections ==
    \A r \in Requests :
        conn[r].at # "none" => mounted[conn[r].server] # None

(* A runtime that was opened has a number below the next one's. *)
Numbered == \A r \in open : r <= made

DInv == TypeOK /\ LockOK /\ Resources /\ Heartbeats /\ Connections /\ Numbered

-----------------------------------------------------------------------------
LEMMA InitDInv == Init => DInv
<1> SUFFICES ASSUME Init PROVE DInv
  OBVIOUS
<1> USE DaemonAssumption DEF Init, None
<1>1. pc \in [Callers -> [at : Labels, stops : 0 .. MaxStarts]]
  BY DEF Labels
<1>2. /\ ticker \in [Starts -> TickerThread]
      /\ conn \in [Requests -> RequestThread]
  BY DEF TickerThread, RequestThread, NoThread, NoConn
<1>3. TypeOK
  <2>1. 0 \in 0 .. MaxStarts /\ 0 \in 0 .. MaxRuntimes
    OBVIOUS
  <2>2. mounted \in [Starts -> 0 .. MaxRuntimes]
    BY <2>1
  <2> QED
    BY <1>1, <1>2, <2>1, <2>2 DEF TypeOK
<1>4. LockOK /\ Resources /\ Numbered
  BY DEF LockOK, Outside, Resources, Rest, Bare, Numbered
<1>5. Heartbeats /\ Connections
  BY DEF Heartbeats, Connections, NoThread, NoConn
<1> QED
  BY <1>3, <1>4, <1>5 DEF DInv

(* The facts about places and records that the steps below share. *)
LEMMA Places ==
    /\ Tearing \cup Building \cup Reloading \cup Outside \subseteq Labels
    /\ "tick" # "none" /\ "wait" # "none" /\ "busy" # "none"
  BY DEF Labels, Outside

LEMMA PcMove ==
    ASSUME TypeOK, NEW t \in Callers, NEW l \in Labels
    PROVE  [pc EXCEPT ![t].at = l] \in
               [Callers -> [at : Labels, stops : 0 .. MaxStarts]]
  BY DEF TypeOK

LEMMA PcEnter ==
    ASSUME TypeOK, NEW t \in Callers, NEW l \in Labels,
           NEW n \in 0 .. MaxStarts
    PROVE  [pc EXCEPT ![t] = [at |-> l, stops |-> n]] \in
               [Callers -> [at : Labels, stops : 0 .. MaxStarts]]
  BY DEF TypeOK

LEMMA ThreadShapes ==
    ASSUME TypeOK
    PROVE  /\ \A s \in Starts : ticker[s].at = "none" => ticker[s].on = None
           /\ \A r \in Requests : conn[r].at # "none" => conn[r].server \in Starts
  BY DEF TypeOK, TickerThread, RequestThread, NoConn

LEMMA StartedStarts ==
    ASSUME DInv, started PROVE starts \in Starts
  BY DaemonAssumption DEF DInv, TypeOK, Resources, Starts

LEMMA NextDInv == DInv /\ [Next]_vars => DInv'
<1> SUFFICES ASSUME DInv, [Next]_vars PROVE DInv'
  OBVIOUS
<1> USE DaemonAssumption DEF DInv, None, runtime, http, threads
<1>1. ASSUME NEW t \in Callers, StartCall(t) PROVE DInv'
  <2>1. "acquirePid" \in Labels
    BY Places DEF Tearing, Building, Reloading, Outside
  <2>2. pc' \in [Callers -> [at : Labels, stops : 0 .. MaxStarts]]
    BY <1>1, <2>1, PcEnter DEF StartCall, Enter, TypeOK
  <2>3. pc[t].at \in Labels /\ pc'[t].at \in {"acquirePid"}
    BY <1>1 DEF StartCall, Enter, TypeOK
  <2>4. LockOK'
    BY <1>1, <2>3 DEF StartCall, Enter, TypeOK, LockOK, Outside
  <2>6. TypeOK'
    BY <1>1, <2>2 DEF StartCall, Enter, TypeOK
  <2>7. Resources'
    BY <1>1, <2>3, <2>4 DEF StartCall, Enter, TypeOK, LockOK, Outside, Resources,
       Numbered, Stage, Bare, OneOpen, Mounted, Partial, TwoOpen, Rest, Runtimes
  <2>8. Heartbeats'
    BY <1>1, <2>3, <2>4 DEF StartCall, Enter, TypeOK, LockOK, Outside, Resources,
       Heartbeats, Early, Late, Starts
  <2>9. Connections'
    BY <1>1 DEF StartCall, Enter, Connections
  <2>10. Numbered'
    BY <1>1 DEF StartCall, Enter, TypeOK, Numbered, Runtimes
  <2> QED
    BY <2>4, <2>6, <2>7, <2>8, <2>9, <2>10
<1>2. ASSUME NEW t \in Callers, StopCall(t) PROVE DInv'
  <2>1. "haltTicks" \in Labels
    BY Places DEF Tearing, Building, Reloading, Outside
  <2>2. pc' \in [Callers -> [at : Labels, stops : 0 .. MaxStarts]]
    BY <1>2, <2>1, PcEnter DEF StopCall, Enter, TypeOK
  <2>3. pc[t].at \in Labels /\ pc'[t].at \in {"haltTicks"}
    BY <1>2 DEF StopCall, Enter, TypeOK
  <2>4. LockOK'
    BY <1>2, <2>3 DEF StopCall, Enter, TypeOK, LockOK, Outside
  <2>5. started /\ starts \in Starts
    BY <1>2, StartedStarts DEF StopCall, Enter
  <2>6. TypeOK'
    BY <1>2, <2>2, <2>5 DEF StopCall, Enter, TypeOK
  <2>7. Resources'
    BY <1>2, <2>3, <2>4, <2>5 DEF StopCall, Enter, TypeOK, LockOK, Outside, Resources,
       Numbered, Stage, Bare, OneOpen, Mounted, Partial, TwoOpen, Rest, Runtimes
  <2>8. Heartbeats'
    BY <1>2, <2>3, <2>4, <2>5 DEF StopCall, Enter, TypeOK, LockOK, Outside, Resources,
       Heartbeats, Early, Late, Starts
  <2>9. Connections'
    BY <1>2 DEF StopCall, Enter, Connections
  <2>10. Numbered'
    BY <1>2 DEF StopCall, Enter, TypeOK, Numbered, Runtimes
  <2> QED
    BY <2>4, <2>6, <2>7, <2>8, <2>9, <2>10
<1>3. ASSUME NEW t \in Callers, ReloadCall(t) PROVE DInv'
  <2>1. "rebuild" \in Labels
    BY Places DEF Tearing, Building, Reloading, Outside
  <2>2. pc' \in [Callers -> [at : Labels, stops : 0 .. MaxStarts]]
    BY <1>3, <2>1, PcEnter DEF ReloadCall, Enter, TypeOK
  <2>3. pc[t].at \in Labels /\ pc'[t].at \in {"rebuild"}
    BY <1>3 DEF ReloadCall, Enter, TypeOK
  <2>4. LockOK'
    BY <1>3, <2>3 DEF ReloadCall, Enter, TypeOK, LockOK, Outside
  <2>5. started /\ starts \in Starts
    BY <1>3, StartedStarts DEF ReloadCall, Enter
  <2>6. TypeOK'
    BY <1>3, <2>2, <2>5 DEF ReloadCall, Enter, TypeOK
  <2>7. Resources'
    BY <1>3, <2>3, <2>4, <2>5 DEF ReloadCall, Enter, TypeOK, LockOK, Outside, Resources,
       Numbered, Stage, Bare, OneOpen, Mounted, Partial, TwoOpen, Rest, Runtimes
  <2>8. Heartbeats'
    BY <1>3, <2>3, <2>4, <2>5 DEF ReloadCall, Enter, TypeOK, LockOK, Outside, Resources,
       Heartbeats, Early, Late, Starts
  <2>9. Connections'
    BY <1>3 DEF ReloadCall, Enter, Connections
  <2>10. Numbered'
    BY <1>3 DEF ReloadCall, Enter, TypeOK, Numbered, Runtimes
  <2> QED
    BY <2>4, <2>6, <2>7, <2>8, <2>9, <2>10
<1>4. ASSUME NEW t \in Callers, AcquirePid(t) PROVE DInv'
  <2>1. "build" \in Labels /\ "haltTicks" \in Labels
    BY Places DEF Tearing, Building, Reloading, Outside
  <2>2. pc' \in [Callers -> [at : Labels, stops : 0 .. MaxStarts]]
    BY <1>4, <2>1, PcMove DEF AcquirePid, At, Goto, Leave
  <2>3. pc[t].at \in Labels /\ pc'[t].at \in {"build", "haltTicks"}
    BY <1>4 DEF AcquirePid, At, Goto, Leave, TypeOK
  <2>4. LockOK'
    BY <1>4, <2>3 DEF AcquirePid, At, Goto, Leave, TypeOK, LockOK, Outside
  <2>5. started /\ starts \in Starts
    BY <1>4, StartedStarts DEF AcquirePid, At, Goto, Leave, Resources
  <2>6. TypeOK'
    BY <1>4, <2>2, <2>5 DEF AcquirePid, At, Goto, Leave, TypeOK
  <2>7. Resources'
    BY <1>4, <2>3, <2>4, <2>5 DEF AcquirePid, At, Goto, Leave, TypeOK, LockOK, Outside, Resources,
       Numbered, Stage, Bare, OneOpen, Mounted, Partial, TwoOpen, Rest, Runtimes
  <2>8. Heartbeats'
    BY <1>4, <2>3, <2>4, <2>5 DEF AcquirePid, At, Goto, Leave, TypeOK, LockOK, Outside, Resources,
       Heartbeats, Early, Late, Starts
  <2>9. Connections'
    BY <1>4 DEF AcquirePid, At, Goto, Leave, Connections
  <2>10. Numbered'
    BY <1>4 DEF AcquirePid, At, Goto, Leave, TypeOK, Numbered, Runtimes
  <2> QED
    BY <2>4, <2>6, <2>7, <2>8, <2>9, <2>10
<1>5. ASSUME NEW t \in Callers, Build(t) PROVE DInv'
  <2>1. "warm" \in Labels /\ "haltTicks" \in Labels
    BY Places DEF Tearing, Building, Reloading, Outside
  <2>2. pc' \in [Callers -> [at : Labels, stops : 0 .. MaxStarts]]
    BY <1>5, <2>1, PcMove DEF Build, At, Goto, Leave
  <2>3. pc[t].at \in Labels /\ pc'[t].at \in {"warm", "haltTicks"}
    BY <1>5 DEF Build, At, Goto, Leave, TypeOK
  <2>4. LockOK'
    BY <1>5, <2>3 DEF Build, At, Goto, Leave, TypeOK, LockOK, Outside
  <2>5. started /\ starts \in Starts
    BY <1>5, StartedStarts DEF Build, At, Goto, Leave, Resources
  <2>6. TypeOK'
    BY <1>5, <2>2, <2>5 DEF Build, Strand, At, Goto, Leave, TypeOK, Runtimes
  <2>7. Resources'
    BY <1>5, <2>3, <2>4, <2>5 DEF Build, At, Goto, Leave, TypeOK, LockOK, Outside, Resources,
       Numbered, Stage, Bare, OneOpen, Mounted, Partial, TwoOpen, Rest, Runtimes
  <2>8. Heartbeats'
    BY <1>5, <2>3, <2>4, <2>5 DEF Build, At, Goto, Leave, TypeOK, LockOK, Outside, Resources,
       Heartbeats, Early, Late, Starts
  <2>9. Connections'
    BY <1>5 DEF Build, At, Goto, Leave, Connections
  <2>10. Numbered'
    BY <1>5 DEF Build, Strand, At, Goto, Leave, TypeOK, Numbered, Runtimes
  <2> QED
    BY <2>4, <2>6, <2>7, <2>8, <2>9, <2>10
<1>6. ASSUME NEW t \in Callers, Warm(t) PROVE DInv'
  <2>1. "serve" \in Labels /\ "haltTicks" \in Labels
    BY Places DEF Tearing, Building, Reloading, Outside
  <2>2. pc' \in [Callers -> [at : Labels, stops : 0 .. MaxStarts]]
    BY <1>6, <2>1, PcMove DEF Warm, At, Goto, Leave
  <2>3. pc[t].at \in Labels /\ pc'[t].at \in {"serve", "haltTicks"}
    BY <1>6 DEF Warm, At, Goto, Leave, TypeOK
  <2>4. LockOK'
    BY <1>6, <2>3 DEF Warm, At, Goto, Leave, TypeOK, LockOK, Outside
  <2>5. started /\ starts \in Starts
    BY <1>6, StartedStarts DEF Warm, At, Goto, Leave, Resources
  <2>6. TypeOK'
    BY <1>6, <2>2, <2>5 DEF Warm, At, Goto, Leave, TypeOK
  <2>7. Resources'
    BY <1>6, <2>3, <2>4, <2>5 DEF Warm, At, Goto, Leave, TypeOK, LockOK, Outside, Resources,
       Numbered, Stage, Bare, OneOpen, Mounted, Partial, TwoOpen, Rest, Runtimes
  <2>8. Heartbeats'
    BY <1>6, <2>3, <2>4, <2>5 DEF Warm, At, Goto, Leave, TypeOK, LockOK, Outside, Resources,
       Heartbeats, Early, Late, Starts
  <2>9. Connections'
    BY <1>6 DEF Warm, At, Goto, Leave, Connections
  <2>10. Numbered'
    BY <1>6 DEF Warm, At, Goto, Leave, TypeOK, Numbered, Runtimes
  <2> QED
    BY <2>4, <2>6, <2>7, <2>8, <2>9, <2>10
<1>7. ASSUME NEW t \in Callers, Serve(t) PROVE DInv'
  <2>1. "schedule" \in Labels /\ "haltTicks" \in Labels
    BY Places DEF Tearing, Building, Reloading, Outside
  <2>2. pc' \in [Callers -> [at : Labels, stops : 0 .. MaxStarts]]
    <3>1. \/ pc' = [pc EXCEPT ![t].at = "schedule"]
          \/ pc' = [pc EXCEPT ![t].at = "haltTicks"]
      BY <1>7 DEF Serve, Goto, Leave
    <3> QED
      BY <2>1, <3>1, PcMove
  <2>3. pc[t].at \in Labels /\ pc'[t].at \in {"schedule", "haltTicks"}
    BY <1>7 DEF Serve, At, Goto, Leave, TypeOK
  <2>4. LockOK'
    BY <1>7, <2>3 DEF Serve, At, Goto, Leave, TypeOK, LockOK, Outside
  <2>5. started /\ starts \in Starts
    BY <1>7, StartedStarts DEF Serve, At, Goto, Leave, Resources
  <2>6. TypeOK'
    BY <1>7, <2>2, <2>5 DEF Serve, At, Goto, Leave, TypeOK
  <2>7. Resources'
    BY <1>7, <2>3, <2>4, <2>5 DEF Serve, At, Goto, Leave, TypeOK, LockOK, Outside, Resources,
       Numbered, Stage, Bare, OneOpen, Mounted, Partial, TwoOpen, Rest, Runtimes
  <2>8. Heartbeats'
    BY <1>7, <2>3, <2>4, <2>5 DEF Serve, At, Goto, Leave, TypeOK, LockOK, Outside, Resources,
       Heartbeats, Early, Late, Starts
  <2>9. Connections'
    BY <1>7, <2>5, ThreadShapes DEF Serve, At, Goto, Leave, TypeOK, Resources, Stage, OneOpen,
       TwoOpen, Connections
  <2>10. Numbered'
    BY <1>7 DEF Serve, At, Goto, Leave, TypeOK, Numbered, Runtimes
  <2> QED
    BY <2>4, <2>6, <2>7, <2>8, <2>9, <2>10
<1>8. ASSUME NEW t \in Callers, Schedule(t) PROVE DInv'
  <2>1. "idle" \in Labels
    BY Places DEF Tearing, Building, Reloading, Outside
  <2>2. pc' \in [Callers -> [at : Labels, stops : 0 .. MaxStarts]]
    BY <1>8, <2>1, PcMove DEF Schedule, At, Goto, Leave
  <2>3. pc[t].at \in Labels /\ pc'[t].at \in {"idle"}
    BY <1>8 DEF Schedule, At, Goto, Leave, TypeOK
  <2>4. LockOK'
    BY <1>8, <2>3 DEF Schedule, At, Goto, Leave, TypeOK, LockOK, Outside
  <2>5. started /\ starts \in Starts
    BY <1>8, StartedStarts DEF Schedule, At, Goto, Leave, Resources
  <2>6. TypeOK'
    BY <1>8, <2>2, <2>5, ThreadShapes DEF Schedule, At, Goto, Leave, TypeOK, TickerThread, Resources, Heartbeats, Early
  <2>7. Resources'
    BY <1>8, <2>3, <2>4, <2>5 DEF Schedule, At, Goto, Leave, TypeOK, LockOK, Outside, Resources,
       Numbered, Stage, Bare, OneOpen, Mounted, Partial, TwoOpen, Rest, Runtimes
  <2>8. Heartbeats'
    BY <1>8, <2>3, <2>4, <2>5 DEF Schedule, At, Goto, Leave, TypeOK, LockOK, Outside, Resources,
       Heartbeats, Early, Late, Starts
  <2>9. Connections'
    BY <1>8 DEF Schedule, At, Goto, Leave, Connections
  <2>10. Numbered'
    BY <1>8 DEF Schedule, At, Goto, Leave, TypeOK, Numbered, Runtimes
  <2> QED
    BY <2>4, <2>6, <2>7, <2>8, <2>9, <2>10
<1>9. ASSUME NEW t \in Callers, HaltTicks(t) PROVE DInv'
  <2>1. "joinTicks" \in Labels
    BY Places DEF Tearing, Building, Reloading, Outside
  <2>2. pc' \in [Callers -> [at : Labels, stops : 0 .. MaxStarts]]
    BY <1>9, <2>1, PcMove DEF HaltTicks, At, Goto, Leave
  <2>3. pc[t].at \in Labels /\ pc'[t].at \in {"joinTicks"}
    BY <1>9 DEF HaltTicks, At, Goto, Leave, TypeOK
  <2>4. LockOK'
    BY <1>9, <2>3 DEF HaltTicks, At, Goto, Leave, TypeOK, LockOK, Outside
  <2>5. started /\ starts \in Starts
    BY <1>9, StartedStarts DEF HaltTicks, At, Goto, Leave, Resources
  <2>6. TypeOK'
    BY <1>9, <2>2, <2>5 DEF HaltTicks, At, Goto, Leave, TypeOK
  <2>7. Resources'
    BY <1>9, <2>3, <2>4, <2>5 DEF HaltTicks, At, Goto, Leave, TypeOK, LockOK, Outside, Resources,
       Numbered, Stage, Bare, OneOpen, Mounted, Partial, TwoOpen, Rest, Runtimes
  <2>8. Heartbeats'
    BY <1>9, <2>3, <2>4, <2>5 DEF HaltTicks, At, Goto, Leave, TypeOK, LockOK, Outside, Resources,
       Heartbeats, Early, Late, Starts
  <2>9. Connections'
    BY <1>9 DEF HaltTicks, At, Goto, Leave, Connections
  <2>10. Numbered'
    BY <1>9 DEF HaltTicks, At, Goto, Leave, TypeOK, Numbered, Runtimes
  <2> QED
    BY <2>4, <2>6, <2>7, <2>8, <2>9, <2>10
<1>10. ASSUME NEW t \in Callers, JoinTicks(t) PROVE DInv'
  <2>1. "closeHttp" \in Labels
    BY Places DEF Tearing, Building, Reloading, Outside
  <2>2. pc' \in [Callers -> [at : Labels, stops : 0 .. MaxStarts]]
    BY <1>10, <2>1, PcMove DEF JoinTicks, At, Goto, Leave
  <2>3. pc[t].at \in Labels /\ pc'[t].at \in {"closeHttp"}
    BY <1>10 DEF JoinTicks, At, Goto, Leave, TypeOK
  <2>4. LockOK'
    BY <1>10, <2>3 DEF JoinTicks, At, Goto, Leave, TypeOK, LockOK, Outside
  <2>5. started /\ starts \in Starts
    BY <1>10, StartedStarts DEF JoinTicks, At, Goto, Leave, Resources
  <2>6. TypeOK'
    BY <1>10, <2>2, <2>5 DEF JoinTicks, At, Goto, Leave, TypeOK
  <2>7. Resources'
    BY <1>10, <2>3, <2>4, <2>5 DEF JoinTicks, At, Goto, Leave, TypeOK, LockOK, Outside, Resources,
       Numbered, Stage, Bare, OneOpen, Mounted, Partial, TwoOpen, Rest, Runtimes
  <2>8. Heartbeats'
    BY <1>10, <2>3, <2>4, <2>5 DEF JoinTicks, At, Goto, Leave, TypeOK, LockOK, Outside, Resources,
       Heartbeats, Early, Late, Starts
  <2>9. Connections'
    BY <1>10 DEF JoinTicks, At, Goto, Leave, Connections
  <2>10. Numbered'
    BY <1>10 DEF JoinTicks, At, Goto, Leave, TypeOK, Numbered, Runtimes
  <2> QED
    BY <2>4, <2>6, <2>7, <2>8, <2>9, <2>10
<1>11. ASSUME NEW t \in Callers, CloseHttp(t) PROVE DInv'
  <2>1. "closeRuntime" \in Labels
    BY Places DEF Tearing, Building, Reloading, Outside
  <2>2. pc' \in [Callers -> [at : Labels, stops : 0 .. MaxStarts]]
    BY <1>11, <2>1, PcMove DEF CloseHttp, At, Goto, Leave
  <2>3. pc[t].at \in Labels /\ pc'[t].at \in {"closeRuntime"}
    BY <1>11 DEF CloseHttp, At, Goto, Leave, TypeOK
  <2>4. LockOK'
    BY <1>11, <2>3 DEF CloseHttp, At, Goto, Leave, TypeOK, LockOK, Outside
  <2>5. started /\ starts \in Starts
    BY <1>11, StartedStarts DEF CloseHttp, At, Goto, Leave, Resources
  <2>6. TypeOK'
    BY <1>11, <2>2, <2>5 DEF CloseHttp, At, Goto, Leave, TypeOK
  <2>7. Resources'
    BY <1>11, <2>3, <2>4, <2>5 DEF CloseHttp, At, Goto, Leave, TypeOK, LockOK, Outside, Resources,
       Numbered, Stage, Bare, OneOpen, Mounted, Partial, TwoOpen, Rest, Runtimes
  <2>8. Heartbeats'
    BY <1>11, <2>3, <2>4, <2>5 DEF CloseHttp, At, Goto, Leave, TypeOK, LockOK, Outside, Resources,
       Heartbeats, Early, Late, Starts
  <2>9. Connections'
    BY <1>11 DEF CloseHttp, At, Goto, Leave, Connections
  <2>10. Numbered'
    BY <1>11 DEF CloseHttp, At, Goto, Leave, TypeOK, Numbered, Runtimes
  <2> QED
    BY <2>4, <2>6, <2>7, <2>8, <2>9, <2>10
<1>12. ASSUME NEW t \in Callers, CloseRuntime(t) PROVE DInv'
  <2>1. "clearPid" \in Labels
    BY Places DEF Tearing, Building, Reloading, Outside
  <2>2. pc' \in [Callers -> [at : Labels, stops : 0 .. MaxStarts]]
    BY <1>12, <2>1, PcMove DEF CloseRuntime, At, Goto, Leave
  <2>3. pc[t].at \in Labels /\ pc'[t].at \in {"clearPid"}
    BY <1>12 DEF CloseRuntime, At, Goto, Leave, TypeOK
  <2>4. LockOK'
    BY <1>12, <2>3 DEF CloseRuntime, At, Goto, Leave, TypeOK, LockOK, Outside
  <2>5. started /\ starts \in Starts
    BY <1>12, StartedStarts DEF CloseRuntime, At, Goto, Leave, Resources
  <2>6. TypeOK'
    BY <1>12, <2>2, <2>5 DEF CloseRuntime, At, Goto, Leave, TypeOK, Runtimes
  <2>7. Resources'
    BY <1>12, <2>3, <2>4, <2>5 DEF CloseRuntime, At, Goto, Leave, TypeOK, LockOK, Outside, Resources,
       Numbered, Stage, Bare, OneOpen, Mounted, Partial, TwoOpen, Rest, Runtimes
  <2>8. Heartbeats'
    BY <1>12, <2>3, <2>4, <2>5 DEF CloseRuntime, At, Goto, Leave, TypeOK, LockOK, Outside, Resources,
       Heartbeats, Early, Late, Starts
  <2>9. Connections'
    BY <1>12 DEF CloseRuntime, At, Goto, Leave, Connections
  <2>10. Numbered'
    BY <1>12 DEF CloseRuntime, At, Goto, Leave, TypeOK, Numbered, Runtimes
  <2> QED
    BY <2>4, <2>6, <2>7, <2>8, <2>9, <2>10
<1>13. ASSUME NEW t \in Callers, ClearPid(t) PROVE DInv'
  <2>1. "signal" \in Labels /\ "idle" \in Labels
    BY Places DEF Tearing, Building, Reloading, Outside
  <2>2. pc' \in [Callers -> [at : Labels, stops : 0 .. MaxStarts]]
    BY <1>13, <2>1, PcMove DEF ClearPid, At, Goto, Leave
  <2>3. pc[t].at \in Labels /\ pc'[t].at \in {"signal", "idle"}
    BY <1>13 DEF ClearPid, At, Goto, Leave, TypeOK
  <2>4. LockOK'
    BY <1>13, <2>3 DEF ClearPid, At, Goto, Leave, TypeOK, LockOK, Outside
  <2>5. started /\ starts \in Starts
    BY <1>13, StartedStarts DEF ClearPid, At, Goto, Leave, Resources
  <2>6. TypeOK'
    BY <1>13, <2>2, <2>5 DEF ClearPid, At, Goto, Leave, TypeOK
  <2>7. Resources'
    BY <1>13, <2>3, <2>4, <2>5 DEF ClearPid, At, Goto, Leave, TypeOK, LockOK, Outside, Resources,
       Numbered, Stage, Bare, OneOpen, Mounted, Partial, TwoOpen, Rest, Runtimes
  <2>8. Heartbeats'
    BY <1>13, <2>3, <2>4, <2>5 DEF ClearPid, At, Goto, Leave, TypeOK, LockOK, Outside, Resources,
       Heartbeats, Early, Late, Starts
  <2>9. Connections'
    BY <1>13 DEF ClearPid, At, Goto, Leave, Connections
  <2>10. Numbered'
    BY <1>13 DEF ClearPid, At, Goto, Leave, TypeOK, Numbered, Runtimes
  <2> QED
    BY <2>4, <2>6, <2>7, <2>8, <2>9, <2>10
<1>14. ASSUME NEW t \in Callers, SetSignal(t) PROVE DInv'
  <2>1. "idle" \in Labels
    BY Places DEF Tearing, Building, Reloading, Outside
  <2>2. pc' \in [Callers -> [at : Labels, stops : 0 .. MaxStarts]]
    BY <1>14, <2>1, PcMove DEF SetSignal
  <2>3. pc[t].at \in Labels /\ pc'[t].at \in {"idle"}
    BY <1>14 DEF SetSignal, TypeOK
  <2>4. LockOK'
    BY <1>14, <2>3 DEF SetSignal, TypeOK, LockOK, Outside
  <2>6. TypeOK'
    BY <1>14, <2>2 DEF SetSignal, TypeOK
  <2>7. Resources'
    BY <1>14, <2>3, <2>4 DEF SetSignal, TypeOK, LockOK, Outside, Resources,
       Numbered, Stage, Bare, OneOpen, Mounted, Partial, TwoOpen, Rest, Runtimes
  <2>8. Heartbeats'
    BY <1>14, <2>3, <2>4 DEF SetSignal, TypeOK, LockOK, Outside, Resources,
       Heartbeats, Early, Late, Starts
  <2>9. Connections'
    BY <1>14 DEF SetSignal, Connections
  <2>10. Numbered'
    BY <1>14 DEF SetSignal, TypeOK, Numbered, Runtimes
  <2> QED
    BY <2>4, <2>6, <2>7, <2>8, <2>9, <2>10
<1>15. ASSUME NEW t \in Callers, Rebuild(t) PROVE DInv'
  <2>1. "swapBuilt" \in Labels /\ "idle" \in Labels
    BY Places DEF Tearing, Building, Reloading, Outside
  <2>2. pc' \in [Callers -> [at : Labels, stops : 0 .. MaxStarts]]
    <3>1. \/ pc' = [pc EXCEPT ![t].at = "swapBuilt"]
          \/ pc' = [pc EXCEPT ![t].at = "idle"]
      BY <1>15 DEF Rebuild, Goto, Leave
    <3> QED
      BY <2>1, <3>1, PcMove
  <2>3. pc[t].at \in Labels /\ pc'[t].at \in {"swapBuilt", "idle"}
    BY <1>15 DEF Rebuild, At, Goto, Leave, TypeOK
  <2>4. LockOK'
    BY <1>15, <2>3 DEF Rebuild, At, Goto, Leave, TypeOK, LockOK, Outside
  <2>5. started /\ starts \in Starts
    BY <1>15, StartedStarts DEF Rebuild, At, Goto, Leave, Resources
  <2>6. TypeOK'
    BY <1>15, <2>2, <2>5 DEF Rebuild, Strand, At, Goto, Leave, TypeOK, Runtimes
  <2>7. Resources'
    <3>1. OneOpen /\ Mounted /\ lock = t
      BY <1>15 DEF Rebuild, At, Resources, Stage
    <3>2. CASE pc'[t].at = "swapBuilt"
      <4>1. built # made + 1 /\ TwoOpen' /\ mounted'[starts'] = built'
        BY <1>15, <2>3, <3>1, <3>2
        DEF Rebuild, Goto, Leave, TypeOK, Numbered, OneOpen, Mounted, TwoOpen
      <4> QED
        BY <1>15, <2>2, <2>5, <3>1, <3>2, <4>1
        DEF Rebuild, Goto, Leave, TypeOK, Resources, Stage
    <3>3. CASE pc'[t].at = "idle"
      BY <1>15, <2>5, <3>1, <3>3
      DEF Rebuild, Goto, Leave, TypeOK, Resources, Rest, OneOpen, Mounted
    <3> QED
      BY <2>3, <3>2, <3>3
  <2>8. Heartbeats'
    BY <1>15, <2>3, <2>4, <2>5 DEF Rebuild, At, Goto, Leave, TypeOK, LockOK, Outside, Resources,
       Heartbeats, Early, Late, Starts
  <2>9. Connections'
    BY <1>15 DEF Rebuild, At, Goto, Leave, Connections
  <2>10. Numbered'
    BY <1>15 DEF Rebuild, Strand, At, Goto, Leave, TypeOK, Numbered, Runtimes
  <2> QED
    BY <2>4, <2>6, <2>7, <2>8, <2>9, <2>10
<1>16. ASSUME NEW t \in Callers, SwapBuilt(t) PROVE DInv'
  <2>1. "swapHandler" \in Labels
    BY Places DEF Tearing, Building, Reloading, Outside
  <2>2. pc' \in [Callers -> [at : Labels, stops : 0 .. MaxStarts]]
    BY <1>16, <2>1, PcMove DEF SwapBuilt, At, Goto, Leave
  <2>3. pc[t].at \in Labels /\ pc'[t].at \in {"swapHandler"}
    BY <1>16 DEF SwapBuilt, At, Goto, Leave, TypeOK
  <2>4. LockOK'
    BY <1>16, <2>3 DEF SwapBuilt, At, Goto, Leave, TypeOK, LockOK, Outside
  <2>5. started /\ starts \in Starts
    BY <1>16, StartedStarts DEF SwapBuilt, At, Goto, Leave, Resources
  <2>6. TypeOK'
    BY <1>16, <2>2, <2>5 DEF SwapBuilt, At, Goto, Leave, TypeOK
  <2>7. Resources'
    BY <1>16, <2>3, <2>4, <2>5 DEF SwapBuilt, At, Goto, Leave, TypeOK, LockOK, Outside, Resources,
       Numbered, Stage, Bare, OneOpen, Mounted, Partial, TwoOpen, Rest, Runtimes
  <2>8. Heartbeats'
    BY <1>16, <2>3, <2>4, <2>5 DEF SwapBuilt, At, Goto, Leave, TypeOK, LockOK, Outside, Resources,
       Heartbeats, Early, Late, Starts
  <2>9. Connections'
    BY <1>16 DEF SwapBuilt, At, Goto, Leave, Connections
  <2>10. Numbered'
    BY <1>16 DEF SwapBuilt, At, Goto, Leave, TypeOK, Numbered, Runtimes
  <2> QED
    BY <2>4, <2>6, <2>7, <2>8, <2>9, <2>10
<1>17. ASSUME NEW t \in Callers, SwapHandler(t) PROVE DInv'
  <2>1. "closeOld" \in Labels
    BY Places DEF Tearing, Building, Reloading, Outside
  <2>2. pc' \in [Callers -> [at : Labels, stops : 0 .. MaxStarts]]
    BY <1>17, <2>1, PcMove DEF SwapHandler, At, Goto, Leave
  <2>3. pc[t].at \in Labels /\ pc'[t].at \in {"closeOld"}
    BY <1>17 DEF SwapHandler, At, Goto, Leave, TypeOK
  <2>4. LockOK'
    BY <1>17, <2>3 DEF SwapHandler, At, Goto, Leave, TypeOK, LockOK, Outside
  <2>5. started /\ starts \in Starts
    BY <1>17, StartedStarts DEF SwapHandler, At, Goto, Leave, Resources
  <2>6. TypeOK'
    BY <1>17, <2>2, <2>5 DEF SwapHandler, At, Goto, Leave, TypeOK
  <2>7. Resources'
    BY <1>17, <2>3, <2>4, <2>5 DEF SwapHandler, At, Goto, Leave, TypeOK, LockOK, Outside, Resources,
       Numbered, Stage, Bare, OneOpen, Mounted, Partial, TwoOpen, Rest, Runtimes
  <2>8. Heartbeats'
    BY <1>17, <2>3, <2>4, <2>5 DEF SwapHandler, At, Goto, Leave, TypeOK, LockOK, Outside, Resources,
       Heartbeats, Early, Late, Starts
  <2>9. Connections'
    BY <1>17, <2>5, ThreadShapes DEF SwapHandler, At, Goto, Leave, TypeOK, Resources, Stage, OneOpen,
       TwoOpen, Connections
  <2>10. Numbered'
    BY <1>17 DEF SwapHandler, At, Goto, Leave, TypeOK, Numbered, Runtimes
  <2> QED
    BY <2>4, <2>6, <2>7, <2>8, <2>9, <2>10
<1>18. ASSUME NEW t \in Callers, CloseOld(t) PROVE DInv'
  <2>1. "idle" \in Labels
    BY Places DEF Tearing, Building, Reloading, Outside
  <2>2. pc' \in [Callers -> [at : Labels, stops : 0 .. MaxStarts]]
    BY <1>18, <2>1, PcMove DEF CloseOld, At, Goto, Leave
  <2>3. pc[t].at \in Labels /\ pc'[t].at \in {"idle"}
    BY <1>18 DEF CloseOld, At, Goto, Leave, TypeOK
  <2>4. LockOK'
    BY <1>18, <2>3 DEF CloseOld, At, Goto, Leave, TypeOK, LockOK, Outside
  <2>5. started /\ starts \in Starts
    BY <1>18, StartedStarts DEF CloseOld, At, Goto, Leave, Resources
  <2>6. TypeOK'
    BY <1>18, <2>2, <2>5 DEF CloseOld, At, Goto, Leave, TypeOK, Runtimes
  <2>7. Resources'
    BY <1>18, <2>3, <2>4, <2>5 DEF CloseOld, At, Goto, Leave, TypeOK, LockOK, Outside, Resources,
       Numbered, Stage, Bare, OneOpen, Mounted, Partial, TwoOpen, Rest, Runtimes
  <2>8. Heartbeats'
    BY <1>18, <2>3, <2>4, <2>5 DEF CloseOld, At, Goto, Leave, TypeOK, LockOK, Outside, Resources,
       Heartbeats, Early, Late, Starts
  <2>9. Connections'
    BY <1>18 DEF CloseOld, At, Goto, Leave, Connections
  <2>10. Numbered'
    BY <1>18 DEF CloseOld, At, Goto, Leave, TypeOK, Numbered, Runtimes
  <2> QED
    BY <2>4, <2>6, <2>7, <2>8, <2>9, <2>10
<1>19. ASSUME NEW s \in Starts, Wake(s) PROVE DInv'
  <2>1. TypeOK'
    BY <1>19 DEF Wake, TypeOK, TickerThread, NoThread, Runtimes
  <2>2. Heartbeats'
    BY <1>19 DEF Wake, TypeOK, Heartbeats, NoThread
  <2>3. LockOK' /\ Resources' /\ Connections' /\ Numbered'
    BY <1>19 DEF Wake, LockOK, Resources, Stage, Bare, OneOpen, Mounted,
       Partial, TwoOpen, Rest, Connections, Numbered
  <2> QED
    BY <2>1, <2>2, <2>3
<1>20. ASSUME NEW s \in Starts, ReadBuilt(s) PROVE DInv'
  <2>1. TypeOK'
    BY <1>20 DEF ReadBuilt, TypeOK, TickerThread, NoThread, Runtimes
  <2>2. Heartbeats'
    BY <1>20 DEF ReadBuilt, TypeOK, Heartbeats, NoThread
  <2>3. LockOK' /\ Resources' /\ Connections' /\ Numbered'
    BY <1>20 DEF ReadBuilt, LockOK, Resources, Stage, Bare, OneOpen, Mounted,
       Partial, TwoOpen, Rest, Connections, Numbered
  <2> QED
    BY <2>1, <2>2, <2>3
<1>21. ASSUME NEW s \in Starts, TickDone(s) PROVE DInv'
  <2>1. TypeOK'
    BY <1>21 DEF TickDone, TypeOK, TickerThread, NoThread, Runtimes
  <2>2. Heartbeats'
    BY <1>21 DEF TickDone, TypeOK, Heartbeats, NoThread
  <2>3. LockOK' /\ Resources' /\ Connections' /\ Numbered'
    BY <1>21 DEF TickDone, LockOK, Resources, Stage, Bare, OneOpen, Mounted,
       Partial, TwoOpen, Rest, Connections, Numbered
  <2> QED
    BY <2>1, <2>2, <2>3
<1>22. ASSUME NEW s \in Starts, TickerExit(s) PROVE DInv'
  <2>1. TypeOK'
    BY <1>22 DEF TickerExit, TypeOK, TickerThread, NoThread, Runtimes
  <2>2. Heartbeats'
    BY <1>22 DEF TickerExit, TypeOK, Heartbeats, NoThread
  <2>3. LockOK' /\ Resources' /\ Connections' /\ Numbered'
    BY <1>22 DEF TickerExit, LockOK, Resources, Stage, Bare, OneOpen, Mounted,
       Partial, TwoOpen, Rest, Connections, Numbered
  <2> QED
    BY <2>1, <2>2, <2>3
<1>23. ASSUME NEW r \in Requests, NEW s \in Starts, Connect(r, s) PROVE DInv'
  <2>1. conn' \in [Requests -> RequestThread]
    BY <1>23, ThreadShapes DEF Connect, TypeOK, RequestThread, NoConn, Connections, Runtimes
  <2>2. TypeOK'
    BY <1>23, <2>1 DEF Connect, TypeOK
  <2>3. Connections'
    BY <1>23 DEF Connect, TypeOK, NoConn, Connections, Resources, LockOK, Outside,
       Labels, Tearing, Building, Reloading, Stage, Bare, OneOpen, Mounted,
       Partial, TwoOpen, Rest
  <2>4. LockOK' /\ Resources' /\ Heartbeats' /\ Numbered'
    BY <1>23 DEF Connect, LockOK, Resources, Stage, Bare, OneOpen, Mounted,
       Partial, TwoOpen, Rest, Heartbeats, Numbered
  <2> QED
    BY <2>2, <2>3, <2>4
<1>24. ASSUME NEW r \in Requests, Post(r) PROVE DInv'
  <2>1. conn' \in [Requests -> RequestThread]
    BY <1>24, ThreadShapes DEF Post, TypeOK, RequestThread, NoConn, Connections, Runtimes
  <2>2. TypeOK'
    BY <1>24, <2>1 DEF Post, TypeOK
  <2>3. Connections'
    BY <1>24 DEF Post, TypeOK, NoConn, Connections, Resources, LockOK, Outside,
       Labels, Tearing, Building, Reloading, Stage, Bare, OneOpen, Mounted,
       Partial, TwoOpen, Rest
  <2>4. LockOK' /\ Resources' /\ Heartbeats' /\ Numbered'
    BY <1>24 DEF Post, LockOK, Resources, Stage, Bare, OneOpen, Mounted,
       Partial, TwoOpen, Rest, Heartbeats, Numbered
  <2> QED
    BY <2>2, <2>3, <2>4
<1>25. ASSUME NEW r \in Requests, Respond(r) PROVE DInv'
  <2>1. conn' \in [Requests -> RequestThread]
    BY <1>25, ThreadShapes DEF Respond, TypeOK, RequestThread, NoConn, Connections, Runtimes
  <2>2. TypeOK'
    BY <1>25, <2>1 DEF Respond, TypeOK
  <2>3. Connections'
    BY <1>25 DEF Respond, TypeOK, NoConn, Connections, Resources, LockOK, Outside,
       Labels, Tearing, Building, Reloading, Stage, Bare, OneOpen, Mounted,
       Partial, TwoOpen, Rest
  <2>4. LockOK' /\ Resources' /\ Heartbeats' /\ Numbered'
    BY <1>25 DEF Respond, LockOK, Resources, Stage, Bare, OneOpen, Mounted,
       Partial, TwoOpen, Rest, Heartbeats, Numbered
  <2> QED
    BY <2>2, <2>3, <2>4
<1>26. ASSUME NEW r \in Requests, Disconnect(r) PROVE DInv'
  <2>1. conn' \in [Requests -> RequestThread]
    BY <1>26, ThreadShapes DEF Disconnect, TypeOK, RequestThread, NoConn, Connections, Runtimes
  <2>2. TypeOK'
    BY <1>26, <2>1 DEF Disconnect, TypeOK
  <2>3. Connections'
    BY <1>26 DEF Disconnect, TypeOK, NoConn, Connections, Resources, LockOK, Outside,
       Labels, Tearing, Building, Reloading, Stage, Bare, OneOpen, Mounted,
       Partial, TwoOpen, Rest
  <2>4. LockOK' /\ Resources' /\ Heartbeats' /\ Numbered'
    BY <1>26 DEF Disconnect, LockOK, Resources, Stage, Bare, OneOpen, Mounted,
       Partial, TwoOpen, Rest, Heartbeats, Numbered
  <2> QED
    BY <2>2, <2>3, <2>4
<1>27. CASE Sigterm
  BY <1>27 DEF Sigterm, TypeOK, LockOK, Resources, Stage, Bare, OneOpen, Mounted,
     Partial, TwoOpen, Rest, Heartbeats, Connections, Numbered
<1>28. ASSUME NEW r \in Runtimes, Collect(r) PROVE DInv'
  BY <1>28 DEF Collect, TypeOK, LockOK, Resources, Stage, Bare, OneOpen, Mounted,
     Partial, TwoOpen, Rest, Heartbeats, Connections, Numbered
<1>29. CASE UNCHANGED vars
  BY <1>29 DEF vars, TypeOK, LockOK, Resources, Stage, Bare, OneOpen, Mounted,
     Partial, TwoOpen, Rest, Heartbeats, Connections, Numbered
<1> QED
  BY <1>1, <1>2, <1>3, <1>4, <1>5, <1>6, <1>7, <1>8, <1>9, <1>10, <1>11, <1>12, <1>13, <1>14, <1>15, <1>16, <1>17, <1>18, <1>19, <1>20, <1>21, <1>22, <1>23, <1>24, <1>25, <1>26, <1>27, <1>28, <1>29
  DEF Next, InMethod, TickerStep

LEMMA AlwaysDInv == Spec => []DInv
  BY InitDInv, NextDInv, PTL DEF Spec
-----------------------------------------------------------------------------
(* A server that accepts requests always has an open runtime behind it,     *)
(* whatever starts, stops and reloads do.                                   *)
THEOREM ServedRuntimeOpen == Spec => []ServedRuntimeIsOpen
<1>1. DInv => ServedRuntimeIsOpen
  <2> SUFFICES ASSUME DInv, NEW s \in serving PROVE mounted[s] \in open
    BY DEF ServedRuntimeIsOpen
  <2>1. CASE lock = NoOne
    BY <2>1 DEF DInv, Resources, Rest, Bare, OneOpen, Mounted
  <2>2. CASE lock # NoOne
    <3>1. lock \in Callers /\ pc[lock].at \in Labels \ Outside
      BY <2>2 DEF DInv, TypeOK, LockOK
    <3> QED
      BY <3>1 DEF DInv, Resources, Stage, Bare, OneOpen, Mounted, Partial,
         TwoOpen, Labels, Outside, Tearing, Building, Reloading
  <2> QED
    BY <2>1, <2>2
<1> QED
  BY <1>1, AlwaysDInv, PTL

(* Between calls exactly the current runtime is open: neither a failed      *)
(* start() nor a reload() leaks sqlite handles.                             *)
THEOREM NoLeakedRuntime == Spec => []OnlyCurrentIsOpen
<1>1. DInv => OnlyCurrentIsOpen
  BY DEF DInv, Resources, Rest, Bare, OneOpen, OnlyCurrentIsOpen, None
<1> QED
  BY <1>1, AlwaysDInv, PTL

(* The stores are open only while the daemon holds its PID file. *)
THEOREM StoresUnderPid == Spec => []OpenOnlyUnderPid
<1>1. DInv => OpenOnlyUnderPid
  <2> SUFFICES ASSUME DInv, open # {} PROVE pid
    BY DEF OpenOnlyUnderPid
  <2>1. CASE lock = NoOne
    BY <2>1 DEF DInv, Resources, Rest, Bare, OneOpen
  <2>2. CASE lock # NoOne
    <3>1. lock \in Callers /\ pc[lock].at \in Labels \ Outside
      BY <2>2 DEF DInv, TypeOK, LockOK
    <3> QED
      BY <3>1 DEF DInv, Resources, Stage, Bare, OneOpen, Partial, TwoOpen,
         Labels, Outside, Tearing, Building, Reloading
  <2> QED
    BY <2>1, <2>2
<1> QED
  BY <1>1, AlwaysDInv, PTL

(* Every heartbeat thread that was not told to stop belongs to the running  *)
(* lifecycle.                                                               *)
THEOREM HeartbeatsEnd == Spec => []NoOrphanHeartbeat
<1>1. DInv => NoOrphanHeartbeat
  BY DEF DInv, Heartbeats, NoOrphanHeartbeat
<1> QED
  BY <1>1, AlwaysDInv, PTL
=============================================================================
