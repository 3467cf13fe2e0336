----------------------------- MODULE RuntimeCli -----------------------------
(***************************************************************************)
(* Starting and stopping daemons: `opencoat runtime` (commands/             *)
(* runtime_cmd.py over transport.py) and `opencoat service` (commands/      *)
(* service_cmd.py) against daemon processes (Daemon.run_until_signal), the  *)
(* PID file of module PidFile, the HTTP port and the session manager.       *)
(*                                                                         *)
(* Commands run in terminals, concurrently, each terminal working through a *)
(* script.  A process has one PidFile instance.  A pid may go to a process  *)
(* that is no daemon, and that process may hold the port.  Any process may  *)
(* crash, every ping may time out and every deadline may expire.  systemd   *)
(* and launchd are seen through what the commands ask of them.  Daemons     *)
(* enter acquire() one at a time (NobodyStarting).  `runtime status`,       *)
(* `runtime reload` and `service status` change nothing.                    *)
(***************************************************************************)
EXTENDS PidFile, Configuring, Sequences

CONSTANTS Scripts  \* what the terminals run: functions to sequences of Ops

Commands == {"up", "up_foreground", "down", "down_force", "service_install",
             "service_uninstall", "service_start", "service_stop", "service_restart",
             "configure_daemon"}

\* The other commands are `configure llm` with its flags.
Ops == Commands \cup DOMAIN Requests

ASSUME CliAssumption ==
    /\ \A i, j \in Instances : PidOf[i] = PidOf[j] => i = j
    /\ \A p \in Pids : \E i \in Instances : PidOf[i] = p
    /\ Scripts \subseteq [Terminals -> Seq(Ops)]
    /\ NoFile \notin Pids
    /\ Commands \cap DOMAIN Requests = {}

VARIABLES proc,      \* what runs under each pid
          port,      \* the process that holds the HTTP port, or NoFile
          stopping,  \* daemons whose stop event is set
          conf,      \* the environment and the configuration each daemon has loaded
          cmd,       \* terminal -> the command it runs, and its script's rest
          unit,      \* the unit file (or plist) is installed
          managed,   \* the process the session manager started, or NoFile
          dirty      \* history: files whose process ended without draining

cliVars == <<proc, port, stopping, conf, cmd, unit, managed, dirty>>
allVars == <<vars, cliVars, confVars>>
settings == <<conf, confVars>>

I(p) == CHOOSE i \in Instances : PidOf[i] = p

Phases == {"boot", "load", "acquire", "build", "serve", "run", "drain", "release"}
Daemons == {p \in Pids : proc[p] \in Phases}

Stages == {"idle", "probe", "spawn", "wait", "giveup", "reap", "drain", "read", "signal",
           "gone", "write", "enable", "check", "stop", "stopped", "start", "remove",
           "collect", "readYaml", "writeYaml", "readEnv", "writeEnv"}

\* asked (history): what the files were configured for while the daemon read both.
NoConf == [environ |-> {}, config |-> NoYaml, asked |-> NoPromise]

\* The process under every pid runs, and only there; the rest is the shape of the state.
CliTypeOK ==
    /\ TypeOK /\ ConfTypeOK
    /\ conf \in [Pids -> [environ : SUBSET EnvVars, config : Yaml,
                          asked : Promise \cup {NoPromise}]]
    /\ proc \in [Pids -> Phases \cup {"none", "other"}]
    /\ \A p \in Pids : proc[p] = "none" <=> p \notin alive
    /\ {port, managed} \subseteq alive \cup {NoFile}
    /\ stopping \subseteq Daemons
    /\ cmd \in [Terminals -> [op : Ops \cup {"none"}, at : Stages, pid : Pids \cup {NoFile},
                              saw : SUBSET Instances, code : {0, 1, 2}, todo : Seq(Ops)]]
    /\ unit \in BOOLEAN /\ dirty \subseteq Instances

\* pid: the process the command has spawned, read from the file or asked the manager to
\* stop.  saw (history): the owners of the PID file when `down` read it.
CliInit ==
    /\ Init /\ ConfInit
    /\ conf = [p \in Pids |-> NoConf]
    /\ proc = [p \in Pids |-> IF p \in alive THEN "other" ELSE "none"]
    /\ port \in alive \cup {NoFile}
    /\ stopping = {}
    /\ \E script \in Scripts :
          cmd = [t \in Terminals |-> [op |-> "none", at |-> "idle", pid |-> NoFile, saw |-> {},
                                     code |-> 0, todo |-> script[t]]]
    /\ unit = FALSE /\ managed = NoFile
    /\ dirty = {file} \ {NoFile}

-----------------------------------------------------------------------------
(* Processes *)
Become(p, phase) == proc' = [proc EXCEPT ![p] = phase]

\* The process ends, whatever it was doing.  Popen and the session manager notice.
Dies(p) ==
    /\ Kill(p)
    /\ Become(p, "none")
    /\ conf' = [conf EXCEPT ![p] = NoConf]
    /\ port' = IF port = p THEN NoFile ELSE port
    /\ stopping' = stopping \ {p}
    /\ managed' = IF managed = p THEN NoFile ELSE managed
    /\ dirty' = IF file = I(p) THEN dirty \cup {file} ELSE dirty

\* A pid is free when nothing runs under it and `up --foreground` has no dead child there.
Free(p) ==
    /\ p \notin alive
    /\ \A t \in Terminals : cmd[t].op = "up_foreground" => cmd[t].pid # p

\* python -m opencoat_runtime_daemon --pid-file ..., with the environment of its parent.
Launch(p, environ) ==
    /\ Free(p) /\ Spawn(p)
    /\ Become(p, "boot")
    /\ conf' = [conf EXCEPT ![p].environ = environ]
    /\ UNCHANGED <<port, stopping, dirty>>

\* A pid goes to a process that is no daemon, which may take the port.
OtherStarts(p) ==
    /\ Free(p) /\ Spawn(p)
    /\ Become(p, "other")
    /\ \/ port = NoFile /\ port' = p
       \/ UNCHANGED port
    /\ UNCHANGED <<stopping, settings, cmd, unit, managed, dirty>>

\* main(): the env file first ...
MergeEnv(p) ==
    /\ proc[p] = "boot"
    /\ Become(p, "load")
    /\ conf' = [conf EXCEPT ![p].environ = merge_user_llm_env_file(@), ![p].asked = asked]
    /\ UNCHANGED <<vars, confVars, port, stopping, cmd, unit, managed, dirty>>

\* ... then the YAML; then Daemon.start acquires the PID file ...
BeginAcquire(p) ==
    /\ proc[p] = "load" /\ NobodyStarting /\ StartAcquire(I(p))
    /\ Become(p, "acquire")
    /\ conf' = [conf EXCEPT ![p].config = load_config]
    /\ UNCHANGED <<confVars, port, stopping, cmd, unit, managed, dirty>>

PidStep(p) ==
    /\ proc[p] \in {"acquire", "release"}
    /\ Step(I(p)) \/ WriteFails(I(p))
    /\ dirty' = IF file' = I(p) /\ file # I(p) THEN dirty \ {file'} ELSE dirty
    /\ UNCHANGED <<proc, settings, port, stopping, cmd, unit, managed>>

Acquired(p) ==
    /\ proc[p] = "acquire" /\ pc[I(p)] = "idle" /\ I(p) \in owned
    /\ Become(p, "build")
    /\ UNCHANGED <<vars, settings, port, stopping, cmd, unit, managed, dirty>>

\* ... or give up: the teardown has nothing to release.
Refused(p) ==
    /\ proc[p] = "acquire" /\ pc[I(p)] = "idle" /\ I(p) \notin owned
    /\ Dies(p)
    /\ UNCHANGED <<confVars, cmd, unit>>

\* build_runtime with the process's environment and configuration.
Llm(p) == build_llm(conf[p].config.llm, conf[p].environ)

\* build_runtime, then the HTTP server; a failure of either, such as a missing credential
\* or a port that is taken, rolls back.
BindHttp(p) ==
    /\ proc[p] = "build"
    /\ \/ /\ Llm(p) # Failed
          /\ port = NoFile /\ port' = p /\ Become(p, "serve")
          /\ UNCHANGED vars
       \/ /\ Become(p, "release") /\ StartRelease(I(p))
          /\ UNCHANGED port
    /\ UNCHANGED <<settings, stopping, cmd, unit, managed, dirty>>

\* run_until_signal installs its handlers once start() has returned.
InstallHandlers(p) ==
    /\ proc[p] = "serve"
    /\ Become(p, "run")
    /\ UNCHANGED <<vars, settings, port, stopping, cmd, unit, managed, dirty>>

\* Mutant of Drain: the HTTP server goes down with the process.
DrainStillServing(p) ==
    /\ proc[p] = "run" /\ p \in stopping
    /\ Become(p, "drain")
    /\ UNCHANGED <<vars, settings, port, stopping, cmd, unit, managed, dirty>>

\* The stop event is set: the old handlers come back, stop() closes the HTTP server ...
Drain(p) ==
    /\ proc[p] = "run" /\ p \in stopping
    /\ Become(p, "drain")
    /\ port' = NoFile
    /\ UNCHANGED <<vars, settings, stopping, cmd, unit, managed, dirty>>

\* Mutant of ReleasePid: the process ends and leaves its file.
LeavePid(p) ==
    /\ proc[p] = "drain"
    /\ Become(p, "release")
    /\ UNCHANGED <<vars, settings, port, stopping, cmd, unit, managed, dirty>>

\* ... and releases the PID file.
ReleasePid(p) ==
    /\ proc[p] = "drain" /\ StartRelease(I(p))
    /\ Become(p, "release")
    /\ UNCHANGED <<settings, port, stopping, cmd, unit, managed, dirty>>

Exit(p) ==
    /\ proc[p] = "release" /\ pc[I(p)] = "idle"
    /\ Kill(p)
    /\ Become(p, "none")
    /\ conf' = [conf EXCEPT ![p] = NoConf]
    /\ stopping' = stopping \ {p}
    /\ managed' = IF managed = p THEN NoFile ELSE managed
    /\ UNCHANGED <<confVars, port, cmd, unit, dirty>>

\* A crash, or an unrelated process that ends.
Crash(p) ==
    /\ Dies(p)
    /\ UNCHANGED <<confVars, cmd, unit>>

DaemonStep(p) ==
    \/ MergeEnv(p) \/ BeginAcquire(p) \/ PidStep(p) \/ Acquired(p) \/ Refused(p) \/ BindHttp(p)
    \/ InstallHandlers(p) \/ Drain(p) \/ ReleasePid(p) \/ Exit(p)

\* os.kill: SIGTERM sets the stop event of a daemon with its handlers in place; any
\* other process, and any process that gets SIGKILL, ends there and then.
Signal(p, force) ==
    \/ /\ proc[p] = "run" /\ ~force
       /\ stopping' = stopping \cup {p}
       /\ UNCHANGED <<vars, proc, conf, port, managed, dirty>>
    \/ /\ proc[p] # "run" \/ force
       /\ Dies(p)

-----------------------------------------------------------------------------
(* Commands *)
Goes(t, stage) == cmd' = [cmd EXCEPT ![t].at = stage]
GoesWith(t, stage, p) == cmd' = [cmd EXCEPT ![t].at = stage, ![t].pid = p]
Returns(t, code) ==
    cmd' = [cmd EXCEPT ![t] = [op |-> "none", at |-> "idle", pid |-> NoFile, saw |-> {},
                               code |-> code, todo |-> @.todo]]

\* _read_pid_file and _process_alive.
ReadPid == RecordedPid
ProcessAlive(p) == p \in alive

First(op) ==
    CASE op \in {"up", "up_foreground"} -> "probe"
      [] op \in {"down", "down_force"} -> "read"
      [] op = "service_install" -> "write"
      [] op = "service_uninstall" -> "check"
      [] op = "service_start" -> "start"
      [] op = "configure_daemon" -> "readYaml"
      [] op \in DOMAIN Requests -> "collect"
      [] OTHER -> "stop"

Begin(t) ==
    /\ cmd[t].at = "idle" /\ cmd[t].todo # <<>>
    /\ LET op == Head(cmd[t].todo)
       IN  cmd' = [cmd EXCEPT ![t] = [op |-> op, at |-> First(op), pid |-> NoFile, saw |-> {},
                                     code |-> 0, todo |-> Tail(@.todo)]]
    /\ UNCHANGED <<vars, proc, settings, port, stopping, unit, managed, dirty>>

\* A command's step that touches no process.
Looks == UNCHANGED <<vars, proc, settings, port, stopping, unit, managed, dirty>>

\* HttpRpcClient.call("health.ping"): a timeout is a connection error like any other.
Call ==
    {"unreachable"} \cup
        (IF port = NoFile THEN {} ELSE IF port \in Daemons THEN {"pong"} ELSE {"error"})

\* _probe_endpoint
Probe(answer) ==
    CASE answer = "unreachable" -> "dead" [] answer = "pong" -> "ours" [] OTHER -> "foreign"

UpProbe(t) ==
    /\ cmd[t].at = "probe"
    /\ \E answer \in Call :
          \/ Probe(answer) = "ours" /\ Returns(t, 0)
          \/ Probe(answer) = "foreign" /\ Returns(t, 1)
          \/ Probe(answer) = "dead" /\ Goes(t, "spawn")
    /\ Looks

\* Fork fails when no pid is left.  Only `--foreground` knows the daemon's pid.
UpSpawn(t) ==
    /\ cmd[t].at = "spawn"
    /\ \/ \E p \in Pids : /\ Launch(p, Shell[t])
                          /\ GoesWith(t, "wait", IF cmd[t].op = "up" THEN NoFile ELSE p)
                          /\ UNCHANGED <<confVars, unit, managed>>
       \/ (\A p \in Pids : ~Free(p)) /\ Returns(t, 1) /\ Looks

\* _wait_for_health: an answer that is no pong, or the deadline, gives up.
UpWait(t) ==
    /\ cmd[t].at = "wait"
    /\ \E answer \in Call : IF answer = "pong" THEN Returns(t, 0) ELSE Goes(t, "giveup")
    /\ Looks

\* proc.terminate() ...
UpTerminate(t) ==
    /\ cmd[t].at = "giveup" /\ cmd[t].op = "up_foreground"
    /\ \/ ~ProcessAlive(cmd[t].pid) /\ Returns(t, 1) /\ Looks
       \/ ProcessAlive(cmd[t].pid) /\ Signal(cmd[t].pid, FALSE) /\ Goes(t, "reap")
          /\ UNCHANGED <<unit, confVars>>

\* ... and proc.kill() two seconds later.
UpReap(t) ==
    /\ cmd[t].at = "reap"
    /\ \/ ~ProcessAlive(cmd[t].pid) /\ Looks
       \/ Signal(cmd[t].pid, TRUE) /\ UNCHANGED <<unit, confVars>>
    /\ Returns(t, 1)

\* Detached: ask whoever the PID file names by now to drain.
UpReadPid(t) ==
    /\ cmd[t].at = "giveup" /\ cmd[t].op = "up"
    /\ \/ ReadPid = {} /\ Returns(t, 1)
       \/ \E p \in ReadPid : GoesWith(t, "drain", p)
    /\ Looks

UpAskDrain(t) ==
    /\ cmd[t].at = "drain"
    /\ \/ Signal(cmd[t].pid, FALSE) /\ UNCHANGED <<unit, confVars>>
       \/ (~ProcessAlive(cmd[t].pid) \/ proc[cmd[t].pid] = "other") /\ Looks
    /\ Returns(t, 1)

DownRead(t) ==
    /\ cmd[t].at = "read"
    /\ \/ ReadPid = {} /\ Returns(t, 0)
       \/ \E p \in ReadPid :
             cmd' = [cmd EXCEPT ![t] = [@ EXCEPT !.at = "signal", !.pid = p, !.saw = owned]]
    /\ Looks

\* Mutant of DownSignal: the signal is taken for the end of the process.
DownSignalOnly(t) ==
    /\ cmd[t].at = "signal"
    /\ \/ ~ProcessAlive(cmd[t].pid) /\ Looks
       \/ Signal(cmd[t].pid, cmd[t].op = "down_force") /\ UNCHANGED <<unit, confVars>>
    /\ Returns(t, 0)

\* A pid that is gone is a daemon that has stopped; another user's process may not be
\* signalled.
DownSignal(t) ==
    /\ cmd[t].at = "signal"
    /\ \/ ~ProcessAlive(cmd[t].pid) /\ Returns(t, 0) /\ Looks
       \/ ProcessAlive(cmd[t].pid) /\ proc[cmd[t].pid] = "other" /\ Returns(t, 1) /\ Looks
       \/ Signal(cmd[t].pid, cmd[t].op = "down_force") /\ Goes(t, "gone")
          /\ UNCHANGED <<unit, confVars>>

\* Mutant of DownWait: no deadline.
DownWaitForever(t) ==
    /\ cmd[t].at = "gone"
    /\ ~ProcessAlive(cmd[t].pid) /\ Returns(t, 0)
    /\ Looks

DownWait(t) ==
    /\ cmd[t].at = "gone"
    /\ \/ ~ProcessAlive(cmd[t].pid) /\ Returns(t, 0)
       \/ Returns(t, 1)
    /\ Looks

-----------------------------------------------------------------------------
(* opencoat service *)
WriteUnit(t) ==
    /\ cmd[t].at = "write"
    /\ unit' = TRUE
    /\ Goes(t, "enable")
    /\ UNCHANGED <<vars, proc, settings, port, stopping, managed, dirty>>

\* A request to the session manager that comes back with an error.
RequestFails == Looks

\* daemon-reload and enable.
Enable(t) ==
    /\ cmd[t].at = "enable"
    /\ \/ Goes(t, "stop") /\ Looks
       \/ RequestFails /\ Returns(t, 1)

CheckUnit(t) ==
    /\ cmd[t].at = "check"
    /\ IF unit THEN Goes(t, "stop") ELSE Returns(t, 0)
    /\ Looks

\* Where a command goes once the unit is stopped.
GoesAfterStop(t) ==
    CASE cmd[t].op = "service_stop" -> Returns(t, 0)
      [] cmd[t].op = "service_uninstall" -> GoesWith(t, "remove", NoFile)
      [] OTHER -> GoesWith(t, "start", NoFile)

\* stop, disable --now, bootout, or the first half of restart.  install goes on to start
\* after a failure, uninstall to the file, restart on launchd only.
StopUnit(t) ==
    /\ cmd[t].at = "stop"
    /\ \/ managed = NoFile /\ GoesAfterStop(t) /\ Looks
       \/ /\ managed # NoFile /\ GoesWith(t, "stopped", managed)
          /\ Signal(managed, FALSE) /\ UNCHANGED <<unit, confVars>>
       \/ RequestFails /\ cmd[t].op # "service_stop" /\ GoesAfterStop(t)
       \/ RequestFails /\ cmd[t].op \in {"service_stop", "service_restart"} /\ Returns(t, 1)

\* The manager waits for the process, and kills it in the end.
UnitStopped(t) ==
    /\ cmd[t].at = "stopped"
    /\ \/ managed # cmd[t].pid /\ Looks
       \/ managed = cmd[t].pid /\ Signal(managed, TRUE) /\ UNCHANGED <<unit, confVars>>
    /\ GoesAfterStop(t)

\* A unit that runs is left alone; a start is over once the process has been launched.
StartUnit(t) ==
    /\ cmd[t].at = "start"
    /\ \/ unit /\ managed # NoFile /\ Returns(t, 0) /\ Looks
       \/ /\ unit /\ managed = NoFile /\ Returns(t, 0)
          /\ \E p \in Pids : Launch(p, {}) /\ managed' = p
          /\ UNCHANGED <<unit, confVars>>
       \/ ~unit /\ Returns(t, 1) /\ Looks
       \/ RequestFails /\ Returns(t, 1)

RemoveUnit(t) ==
    /\ cmd[t].at = "remove"
    /\ unit' = FALSE
    /\ Returns(t, 0)
    /\ UNCHANGED <<vars, proc, settings, port, stopping, managed, dirty>>

-----------------------------------------------------------------------------
(* opencoat configure *)
OnlyFiles == UNCHANGED <<vars, proc, port, stopping, unit, managed, dirty>>
NoProcess == OnlyFiles /\ UNCHANGED conf

\* A daemon that has read one of the files does not read both as they were (history).
Overtakes ==
    conf' = [p \in Pids |-> IF proc[p] = "load" THEN [conf[p] EXCEPT !.asked = NoPromise]
                            ELSE conf[p]]

ConfigureCollect(t) ==
    /\ cmd[t].at = "collect"
    /\ \/ Collect(t, Requests[cmd[t].op]) /\ Goes(t, "readYaml")
       \/ Refuses(t, Requests[cmd[t].op]) /\ Returns(t, 2)
    /\ NoProcess

ConfigureReadYaml(t) ==
    /\ cmd[t].at = "readYaml" /\ load_yaml_dict(t) /\ Goes(t, "writeYaml")
    /\ NoProcess

\* `configure daemon` has the stores and the endpoint to write ...
ConfigureDaemon(t) ==
    /\ cmd[t].at = "writeYaml" /\ cmd[t].op = "configure_daemon"
    /\ write_yaml_section(t) /\ Returns(t, 0)
    /\ Overtakes /\ OnlyFiles

\* ... `configure llm` the llm block and, only when there is something to put in it, the
\* env file.
ConfigureLlm(t) ==
    /\ cmd[t].at = "writeYaml" /\ cmd[t].op # "configure_daemon"
    /\ write_yaml_llm(t)
    /\ IF draft[t].updates = {} THEN Returns(t, 0) ELSE Goes(t, "readEnv")
    /\ Overtakes /\ OnlyFiles

ConfigureReadEnv(t) ==
    /\ cmd[t].at = "readEnv" /\ parse_env_file(t) /\ Goes(t, "writeEnv")
    /\ NoProcess

ConfigureWriteEnv(t) ==
    /\ cmd[t].at = "writeEnv" /\ write_env_file(t) /\ Returns(t, 0)
    /\ Overtakes /\ OnlyFiles

ConfigureStep(t) ==
    \/ ConfigureCollect(t) \/ ConfigureReadYaml(t) \/ ConfigureDaemon(t)
    \/ ConfigureLlm(t) \/ ConfigureReadEnv(t) \/ ConfigureWriteEnv(t)

CommandStep(t) ==
    \/ UpProbe(t) \/ UpSpawn(t) \/ UpWait(t) \/ UpTerminate(t) \/ UpReap(t) \/ UpReadPid(t)
    \/ UpAskDrain(t) \/ DownRead(t) \/ DownSignal(t) \/ DownWait(t)
    \/ WriteUnit(t) \/ Enable(t) \/ CheckUnit(t) \/ StopUnit(t) \/ UnitStopped(t)
    \/ StartUnit(t) \/ RemoveUnit(t) \/ ConfigureStep(t)

CliNext ==
    \/ \E p \in Pids : DaemonStep(p) \/ OtherStarts(p) \/ Crash(p)
    \/ \E t \in Terminals : Begin(t) \/ CommandStep(t)

\* A process that is in a system call leaves it, and a command that runs goes on; nothing
\* makes a daemon finish its build or its drain.
CliSpec ==
    /\ CliInit /\ [][CliNext]_allVars
    /\ \A p \in Pids : WF_allVars(PidStep(p))
    /\ \A t \in Terminals : WF_allVars(CommandStep(t))

-----------------------------------------------------------------------------
\* Whoever answers health.ping as a daemon is the process `runtime down` would signal: the
\* PID file is acquired before the HTTP server is bound and released after it is closed,
\* and no other start, release, crash or reused pid takes the file away in between.
ServingIsAdvertised == \A p \in Daemons : port = p => RecordedPid = {p}

\* `runtime down` that reports success has left no daemon running that owned the PID file
\* when it read it, whichever of its three early exits it took.
DownMeansStopped ==
    [][\A t \in Terminals :
          (/\ cmd[t].op \in {"down", "down_force"}
           /\ cmd'[t].at = "idle" /\ cmd'[t].code = 0)
              => (IF cmd[t].at = "read" THEN owned ELSE cmd[t].saw) \cap owned' = {}]_allVars

\* A PID file that no daemon stands behind was left by a process that ended undrained; a
\* daemon that got its SIGTERM in run_until_signal's wait, or that failed to start, has
\* cleaned up.
LeftoverExplained == file # NoFile => file \in dirty \/ PidOf[file] \in Daemons

\* A daemon that has read its environment and its YAML after `configure llm` returned 0, and
\* before another configure touched them, gets what was asked for, wherever it is started
\* from: the provider and the model, or some real provider for `auto`.  Where the command
\* accepted a credential that it leaves in the shell or drops from daemon.yaml (not Backed)
\* a daemon started elsewhere may go without; then it refuses to start, or labels its stub,
\* and never runs another provider or another model.
ConfiguredIsServed ==
    \A p \in Pids : conf[p].asked # NoPromise /\ proc[p] # "load" => Honours(Llm(p), conf[p].asked)

\* Every command returns, whatever the daemons do: each wait has a deadline.
CommandsReturn == \A t \in Terminals : cmd[t].at # "idle" ~> cmd[t].at = "idle"
=============================================================================
