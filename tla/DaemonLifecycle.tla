-------------------------- MODULE DaemonLifecycle ---------------------------
(***************************************************************************)
(* Daemon (opencoat_runtime_daemon/daemon.py): start, stop and reload, with *)
(* the threads they share the runtime with: the heartbeat thread of the     *)
(* Scheduler and the request threads of the HTTP server.                    *)
(*                                                                         *)
(* start, stop and reload hold _state_lock from end to end; the other       *)
(* threads never take it.  A runtime is a number; it is open until          *)
(* BuiltRuntime.close() closes its sqlite handles.  Every start() makes a   *)
(* Scheduler and an HTTP server of its own, numbered like the start.        *)
(* Request threads are daemon threads on HTTP/1.1 keep-alive connections:   *)
(* nobody joins them, and a connection outlives its server's shutdown.      *)
(***************************************************************************)
EXTENDS Integers, FiniteSets

CONSTANTS Callers,      \* threads that call start, stop and reload
          Requests,     \* HTTP connections
          Calls,        \* which of "start", "stop", "reload" callers make
          MaxStarts,    \* bound on start() calls
          MaxRuntimes,  \* bound on build_runtime calls
          NoOne         \* _state_lock is free

ASSUME DaemonAssumption ==
    /\ Calls \subseteq {"start", "stop", "reload"}
    /\ MaxStarts \in Nat
    /\ MaxRuntimes \in Nat
    /\ NoOne \notin Callers

None == 0
Starts == 1 .. MaxStarts
Runtimes == 1 .. MaxRuntimes

VARIABLES lock,     \* holder of _state_lock
          pc,       \* where each caller is, and the start it is to stop
          started,  \* _started
          signal,   \* _stop_event: the start whose end it signals, or None
          starts,   \* how many lifecycles have begun
          made,     \* how many runtimes have been built
          open,     \* runtimes the daemon holds with their stores open
          stranded, \* runtimes a failed build dropped without closing them
          built,    \* _built, or None
          fresh,    \* reload's new_built
          pid,      \* the PID file is held
          serving,  \* servers whose accept loop runs
          mounted,  \* coat_rpc_handler of each server
          ticker,   \* heartbeat thread of each Scheduler
          halted,   \* Schedulers whose _stop event is set
          conn      \* request thread of each connection

vars == <<lock, pc, started, signal, starts, made, open, stranded, built,
          fresh, pid, serving, mounted, ticker, halted, conn>>

Tearing == {"haltTicks", "joinTicks", "closeHttp", "closeRuntime", "clearPid"}
Building == {"acquirePid", "build", "warm", "serve", "schedule"}
Reloading == {"rebuild", "swapBuilt", "swapHandler", "closeOld"}
Labels == {"idle", "signal"} \cup Tearing \cup Building \cup Reloading

NoThread == [at |-> "none", on |-> None]
NoConn == [at |-> "none", server |-> None, on |-> None]

(* A thread inside a tick or a request works on a runtime. *)
TickerThread ==
    [at : {"none", "wait", "woken"}, on : {None}] \cup
    [at : {"tick"}, on : Runtimes]
RequestThread ==
    {NoConn} \cup
    [at : {"open"}, server : Starts, on : {None}] \cup
    [at : {"busy"}, server : Starts, on : Runtimes]

TypeOK ==
    /\ lock \in Callers \cup {NoOne}
    /\ pc \in [Callers -> [at : Labels, stops : 0 .. MaxStarts]]
    /\ started \in BOOLEAN
    /\ signal \in 0 .. MaxStarts
    /\ starts \in 0 .. MaxStarts
    /\ made \in 0 .. MaxRuntimes
    /\ open \subseteq Runtimes
    /\ stranded \subseteq Runtimes
    /\ built \in 0 .. MaxRuntimes
    /\ fresh \in 0 .. MaxRuntimes
    /\ pid \in BOOLEAN
    /\ serving \subseteq Starts
    /\ mounted \in [Starts -> 0 .. MaxRuntimes]
    /\ ticker \in [Starts -> TickerThread]
    /\ halted \subseteq Starts
    /\ conn \in [Requests -> RequestThread]

Init ==
    /\ lock = NoOne
    /\ pc = [t \in Callers |-> [at |-> "idle", stops |-> None]]
    /\ started = FALSE
    /\ signal = None
    /\ starts = 0
    /\ made = 0
    /\ open = {}
    /\ stranded = {}
    /\ built = None
    /\ fresh = None
    /\ pid = FALSE
    /\ serving = {}
    /\ mounted = [s \in Starts |-> None]
    /\ ticker = [s \in Starts |-> NoThread]
    /\ halted = {}
    /\ conn = [r \in Requests |-> NoConn]

threads == <<ticker, conn>>
runtime == <<made, open, stranded, built, fresh>>
http == <<serving, mounted>>

At(t, label) == lock = t /\ pc[t].at = label
Goto(t, label) == pc' = [pc EXCEPT ![t].at = label] /\ UNCHANGED lock

(* Enter a public method: take the lock. *)
Enter(t, call, label) ==
    /\ lock = NoOne
    /\ pc[t].at = "idle"
    /\ call \in Calls
    /\ pc' = [pc EXCEPT ![t] =
                 [at |-> label,
                  stops |-> IF call = "stop" THEN starts ELSE None]]
    /\ lock' = t

Leave(t, label) == pc' = [pc EXCEPT ![t].at = label] /\ lock' = NoOne

-----------------------------------------------------------------------------
(* start(): a second start() raises and changes nothing. *)
StartCall(t) ==
    /\ Enter(t, "start", "acquirePid")
    /\ ~started
    /\ starts < MaxStarts
    /\ started' = TRUE
    /\ signal' = None
    /\ starts' = starts + 1
    /\ UNCHANGED <<runtime, pid, http, halted, threads>>

(* Mutant: a PidFileError is swallowed. *)
AcquirePidAnyway(t) ==
    /\ At(t, "acquirePid")
    /\ pid' \in BOOLEAN
    /\ Goto(t, "build")
    /\ UNCHANGED <<started, signal, starts, runtime, http, halted, threads>>

(* Any failure on the way rolls back through _teardown_locked. *)
AcquirePid(t) ==
    /\ At(t, "acquirePid")
    /\ \/ pid' = TRUE /\ Goto(t, "build")
       \/ UNCHANGED pid /\ Goto(t, "haltTicks")
    /\ UNCHANGED <<started, signal, starts, runtime, http, halted, threads>>

(* build_runtime opens the stores first; when it, or reload() after it,     *)
(* raises, nobody closes them: they stay open until the exception and with  *)
(* it the last reference is gone.                                           *)
Strand ==
    /\ made < MaxRuntimes
    /\ made' = made + 1
    /\ stranded' = stranded \cup {made + 1}

Build(t) ==
    /\ At(t, "build")
    /\ \/ /\ made < MaxRuntimes
          /\ made' = made + 1
          /\ open' = open \cup {made + 1}
          /\ built' = made + 1
          /\ Goto(t, "warm")
          /\ UNCHANGED stranded
       \/ Goto(t, "haltTicks") /\ Strand /\ UNCHANGED <<open, built>>
       \/ Goto(t, "haltTicks") /\ UNCHANGED <<made, open, stranded, built>>
    /\ UNCHANGED <<started, signal, starts, fresh, pid, http, halted, threads>>

(* warm_persistent_stores reads the stores just built, and may raise. *)
Warm(t) ==
    /\ At(t, "warm")
    /\ Goto(t, "serve") \/ Goto(t, "haltTicks")
    /\ UNCHANGED <<started, signal, starts, runtime, pid, http, halted, threads>>

(* _maybe_start_http: binding the port may fail. *)
Serve(t) ==
    /\ At(t, "serve")
    /\ \/ /\ serving' = serving \cup {starts}
          /\ mounted' = [mounted EXCEPT ![starts] = built]
          /\ Goto(t, "schedule")
       \/ Goto(t, "haltTicks") /\ UNCHANGED http
    /\ UNCHANGED <<started, signal, starts, runtime, pid, halted, threads>>

(* _maybe_start_scheduler; start() returns. *)
Schedule(t) ==
    /\ At(t, "schedule")
    /\ ticker' = [ticker EXCEPT ![starts].at = "wait"]
    /\ Leave(t, "idle")
    /\ UNCHANGED <<started, signal, starts, runtime, pid, http, halted, conn>>

-----------------------------------------------------------------------------
(* stop(): a no-op unless started. *)
StopCall(t) ==
    /\ Enter(t, "stop", "haltTicks")
    /\ started
    /\ UNCHANGED <<started, signal, starts, runtime, pid, http, halted, threads>>

(* Mutant: the stop event is never set. *)
HaltNothing(t) ==
    /\ At(t, "haltTicks")
    /\ Goto(t, "joinTicks")
    /\ UNCHANGED <<started, signal, starts, runtime, pid, http, halted, threads>>

(* _teardown_locked: Scheduler.stop sets the event ... *)
HaltTicks(t) ==
    /\ At(t, "haltTicks")
    /\ halted' = halted \cup
           {s \in Starts : s = starts /\ ticker[s].at # "none"}
    /\ Goto(t, "joinTicks")
    /\ UNCHANGED <<started, signal, starts, runtime, pid, http, threads>>

(* Mutant: join() without a timeout. *)
JoinForever(t) ==
    /\ At(t, "joinTicks")
    /\ ticker[starts].at = "none"
    /\ Goto(t, "closeHttp")
    /\ UNCHANGED <<started, signal, starts, runtime, pid, http, halted, threads>>

(* ... and joins the thread, for interval + 2 seconds: a waiting thread is  *)
(* gone by then, one inside a long tick may not be.                         *)
JoinTicks(t) ==
    /\ At(t, "joinTicks")
    /\ ticker[starts].at \in {"none", "tick"}
    /\ Goto(t, "closeHttp")
    /\ UNCHANGED <<started, signal, starts, runtime, pid, http, halted, threads>>

(* HttpServer.shutdown and server_close: the accept loop ends, connections  *)
(* already accepted keep their thread and their server.                     *)
CloseHttp(t) ==
    /\ At(t, "closeHttp")
    /\ serving' = serving \ {starts}
    /\ Goto(t, "closeRuntime")
    /\ UNCHANGED <<started, signal, starts, runtime, pid, mounted, halted, threads>>

CloseRuntime(t) ==
    /\ At(t, "closeRuntime")
    /\ open' = open \ {built}
    /\ built' = None
    /\ Goto(t, "clearPid")
    /\ UNCHANGED <<started, signal, starts, made, stranded, fresh, pid, http, halted, threads>>

(* PID released, _started cleared, lock released; stop() has one thing left *)
(* to do, start() raises.                                                   *)
ClearPid(t) ==
    /\ At(t, "clearPid")
    /\ pid' = FALSE
    /\ started' = FALSE
    /\ Leave(t, IF pc[t].stops # None THEN "signal" ELSE "idle")
    /\ UNCHANGED <<signal, starts, runtime, http, halted, threads>>

(* The last line of stop(), with the lock released. *)
SetSignal(t) ==
    /\ pc[t].at = "signal"
    /\ signal' = pc[t].stops
    /\ pc' = [pc EXCEPT ![t].at = "idle"]
    /\ UNCHANGED <<lock, started, starts, runtime, pid, http, halted, threads>>

(* SIGTERM or SIGINT: run_until_signal's handler ends this lifecycle. *)
Sigterm ==
    /\ started
    /\ signal' = starts
    /\ UNCHANGED <<lock, pc, started, starts, runtime, pid, http, halted, threads>>
-----------------------------------------------------------------------------
(* reload(): raises unless started. *)
ReloadCall(t) ==
    /\ Enter(t, "reload", "rebuild")
    /\ started
    /\ UNCHANGED <<started, signal, starts, runtime, pid, http, halted, threads>>

(* build_runtime, warm_persistent_stores and the new handler.  When one of  *)
(* them raises, reload() raises and what it built is stranded.              *)
Rebuild(t) ==
    /\ At(t, "rebuild")
    /\ \/ /\ made < MaxRuntimes
          /\ made' = made + 1
          /\ open' = open \cup {made + 1}
          /\ fresh' = made + 1
          /\ Goto(t, "swapBuilt")
          /\ UNCHANGED stranded
       \/ Leave(t, "idle") /\ Strand /\ UNCHANGED <<open, fresh>>
       \/ Leave(t, "idle") /\ UNCHANGED <<made, open, stranded, fresh>>
    /\ UNCHANGED <<started, signal, starts, built, pid, http, halted, threads>>

(* Mutant: the old runtime is closed before the handler is swapped. *)
SwapBuiltClosing(t) ==
    /\ At(t, "swapBuilt")
    /\ built' = fresh
    /\ fresh' = built
    /\ open' = open \ {built}
    /\ Goto(t, "swapHandler")
    /\ UNCHANGED <<started, signal, starts, made, stranded, pid, http, halted, threads>>

(* The heartbeat reads _built ... *)
SwapBuilt(t) ==
    /\ At(t, "swapBuilt")
    /\ built' = fresh
    /\ fresh' = built
    /\ Goto(t, "swapHandler")
    /\ UNCHANGED <<started, signal, starts, made, stranded, open, pid, http, halted, threads>>

(* ... and requests read the server's handler. *)
SwapHandler(t) ==
    /\ At(t, "swapHandler")
    /\ mounted' = [mounted EXCEPT ![starts] = built]
    /\ Goto(t, "closeOld")
    /\ UNCHANGED <<started, signal, starts, runtime, pid, serving, halted, threads>>

(* Mutant: the old runtime is forgotten, not closed. *)
ForgetOld(t) ==
    /\ At(t, "closeOld")
    /\ fresh' = None
    /\ Leave(t, "idle")
    /\ UNCHANGED <<started, signal, starts, made, stranded, open, built, pid, http, halted, threads>>

CloseOld(t) ==
    /\ At(t, "closeOld")
    /\ open' = open \ {fresh}
    /\ fresh' = None
    /\ Leave(t, "idle")
    /\ UNCHANGED <<started, signal, starts, made, stranded, built, pid, http, halted, threads>>

(* The garbage collector closes what nobody refers to. *)
Collect(r) ==
    /\ r \in stranded
    /\ stranded' = stranded \ {r}
    /\ UNCHANGED <<lock, pc, started, signal, starts, made, open, built, fresh,
                   pid, http, halted, threads>>

-----------------------------------------------------------------------------
(* Scheduler._run: the interval passes before the stop event is set. *)
Wake(s) ==
    /\ ticker[s].at = "wait"
    /\ s \notin halted
    /\ ticker' = [ticker EXCEPT ![s].at = "woken"]
    /\ UNCHANGED <<lock, pc, started, signal, starts, runtime, pid, http, halted, conn>>

(* _heartbeat_tick takes the current runtime and stays with it. *)
ReadBuilt(s) ==
    /\ ticker[s].at = "woken"
    /\ ticker' = [ticker EXCEPT ![s] =
                     IF built = None THEN [at |-> "wait", on |-> None]
                     ELSE [at |-> "tick", on |-> built]]
    /\ UNCHANGED <<lock, pc, started, signal, starts, runtime, pid, http, halted, conn>>

(* The tick returns, or raises and is logged. *)
TickDone(s) ==
    /\ ticker[s].at = "tick"
    /\ ticker' = [ticker EXCEPT ![s] = [at |-> "wait", on |-> None]]
    /\ UNCHANGED <<lock, pc, started, signal, starts, runtime, pid, http, halted, conn>>

TickerExit(s) ==
    /\ ticker[s].at = "wait"
    /\ s \in halted
    /\ ticker' = [ticker EXCEPT ![s] = NoThread]
    /\ UNCHANGED <<lock, pc, started, signal, starts, runtime, pid, http, halted, conn>>

-----------------------------------------------------------------------------
Connect(r, s) ==
    /\ conn[r].at = "none"
    /\ s \in serving
    /\ conn' = [conn EXCEPT ![r] = [at |-> "open", server |-> s, on |-> None]]
    /\ UNCHANGED <<lock, pc, started, signal, starts, runtime, pid, http, halted, ticker>>

(* do_POST takes the handler its server has mounted and stays with it. *)
Post(r) ==
    /\ conn[r].at = "open"
    /\ conn' = [conn EXCEPT ![r].at = "busy", ![r].on = mounted[conn[r].server]]
    /\ UNCHANGED <<lock, pc, started, signal, starts, runtime, pid, http, halted, ticker>>

Respond(r) ==
    /\ conn[r].at = "busy"
    /\ conn' = [conn EXCEPT ![r].at = "open", ![r].on = None]
    /\ UNCHANGED <<lock, pc, started, signal, starts, runtime, pid, http, halted, ticker>>

Disconnect(r) ==
    /\ conn[r].at = "open"
    /\ conn' = [conn EXCEPT ![r] = NoConn]
    /\ UNCHANGED <<lock, pc, started, signal, starts, runtime, pid, http, halted, ticker>>

-----------------------------------------------------------------------------
InMethod(t) ==
    \/ AcquirePid(t) \/ Build(t) \/ Warm(t) \/ Serve(t) \/ Schedule(t)
    \/ HaltTicks(t) \/ JoinTicks(t) \/ CloseHttp(t) \/ CloseRuntime(t)
    \/ ClearPid(t) \/ SetSignal(t)
    \/ Rebuild(t) \/ SwapBuilt(t) \/ SwapHandler(t) \/ CloseOld(t)

(* A heartbeat thread on its own, apart from the end of a tick. *)
TickerStep(s) == ReadBuilt(s) \/ TickerExit(s)

Next ==
    \/ \E t \in Callers : StartCall(t) \/ StopCall(t) \/ ReloadCall(t)
    \/ \E t \in Callers : InMethod(t)
    \/ \E s \in Starts : TickerStep(s) \/ Wake(s) \/ TickDone(s)
    \/ \E r \in Requests, s \in Starts : Connect(r, s)
    \/ \E r \in Requests : Post(r) \/ Respond(r) \/ Disconnect(r)
    \/ \E r \in Runtimes : Collect(r)
    \/ Sigterm

Spec == Init /\ [][Next]_vars

(***************************************************************************)
(* Threads that can run do run.  No fairness on TickDone, Respond or        *)
(* Disconnect: a heartbeat that waits for an LLM, or a client, may take     *)
(* for ever.                                                                *)
(***************************************************************************)
FairSpec ==
    /\ Spec
    /\ \A t \in Callers : WF_vars(InMethod(t))
    /\ \A s \in Starts : WF_vars(TickerStep(s))

-----------------------------------------------------------------------------
(* A server that accepts connections has an open runtime mounted, through   *)
(* starts that fail, reloads and teardowns: handlers are swapped before the *)
(* old runtime is closed, and the accept loop ends before the runtime.      *)
ServedRuntimeIsOpen == \A s \in serving : mounted[s] \in open

(* Between two calls the daemon holds one open runtime, the current one: no *)
(* failure path of start() and no reload() keeps a second set of sqlite     *)
(* handles or puts a closed one in use.  What a failed build_runtime leaves *)
(* to the garbage collector is not held by the daemon any more.             *)
OnlyCurrentIsOpen == lock = NoOne => open = {built} \ {None}

(* The daemon holds stores open only under the PID file: it is acquired     *)
(* before they are opened and released after they are closed.               *)
OpenOnlyUnderPid == open # {} => pid

(* A heartbeat thread that was not told to stop belongs to the running      *)
(* lifecycle; a stopped daemon leaves at most a tick that outlived the join *)
(* and that ends its thread.                                                *)
NoOrphanHeartbeat ==
    \A s \in Starts : ticker[s].at # "none" /\ s \notin halted
                         => s = starts /\ started

(* start(), stop() and reload() return, even when a heartbeat tick hangs:   *)
(* the join in Scheduler.stop has a timeout.                                *)
MethodsReturn == \A t \in Callers : pc[t].at # "idle" ~> pc[t].at = "idle"

-----------------------------------------------------------------------------
(* "in-flight RPCs that already grabbed the handler reference keep working":*)
(* a reload does not take the stores away from a request.                   *)
InFlightKeepsWorking ==
    \A r \in Requests : conn[r].at = "busy" => conn[r].on \in open
=============================================================================
