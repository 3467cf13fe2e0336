-------------------------- MODULE RuntimeCliProofs --------------------------
(***************************************************************************)
(* The PID file, and the commands against daemon processes built on it:     *)
(* proofs for any number of processes, terminals and scripts, with crashes, *)
(* signals at any moment, failing writes, reused pids and strangers on the  *)
(* port.                                                                    *)
(***************************************************************************)
EXTENDS RuntimeCli, TLAPS

(* The PID file by itself: while starts do not overlap, it is a lock.       *)

(* An owner, and an instance on its way through release(), still has its    *)
(* own complete file at the path.                                           *)
HasFile(i) == file = i /\ i \in written /\ Running(i)

Holding(i) == i \in owned \/ pc[i] \in Releasing

(* Once a starter has decided to replace the file nobody holds the path,    *)
(* and nobody can come to hold it before that starter is done.              *)
OInv ==
    /\ TypeOK
    /\ \A i \in Instances : Holding(i) => HasFile(i)
    /\ \A i \in owned : pc[i] = "idle"
    /\ \A i \in Instances : pc[i] # "idle" => Running(i)
    /\ \A i, j \in Instances :
          pc[i] \in Acquiring /\ pc[j] \in Acquiring => i = j
    /\ \A i \in Instances : pc[i] = "write" => file = i
    /\ \A i \in Instances :
          pc[i] \in {"unlink", "reopen"} => \A j \in Instances : ~Holding(j)

-----------------------------------------------------------------------------
LEMMA InitOInv == Init => OInv
  BY DEF Init, OInv, TypeOK, Holding, HasFile, Running, Acquiring, Releasing

LEMMA NextOInv == OInv /\ [OneStartNext]_vars => OInv'
<1> SUFFICES ASSUME OInv, [OneStartNext]_vars PROVE OInv'
  OBVIOUS
<1> USE PidAssumption DEF OInv, TypeOK, Holding, HasFile, Running, Goto,
        Acquiring, Releasing
<1>1. ASSUME NEW i \in Instances, NobodyStarting, StartAcquire(i) PROVE OInv'
  BY <1>1 DEF StartAcquire, NobodyStarting
<1>2. ASSUME NEW i \in Instances, StartRelease(i) PROVE OInv'
  BY <1>2 DEF StartRelease
<1>3. ASSUME NEW i \in Instances, FirstOpen(i) PROVE OInv'
  BY <1>3 DEF FirstOpen, CreateFile
<1>4. ASSUME NEW i \in Instances, ReadExisting(i) PROVE OInv'
  <2>1. pc'[i] = "unlink" => \A j \in Instances : ~Holding(j)
    BY <1>4 DEF ReadExisting, HeldByLive, RecordedPid
  <2> QED
    BY <1>4, <2>1 DEF ReadExisting
<1>5. ASSUME NEW i \in Instances, UnlinkStale(i) PROVE OInv'
  BY <1>5 DEF UnlinkStale, RemoveFile
<1>6. ASSUME NEW i \in Instances, SecondOpen(i) PROVE OInv'
  BY <1>6 DEF SecondOpen, CreateFile
<1>7. ASSUME NEW i \in Instances, WritePid(i) PROVE OInv'
  BY <1>7 DEF WritePid
<1>8. ASSUME NEW i \in Instances, WriteFails(i) PROVE OInv'
  BY <1>8 DEF WriteFails
<1>9. ASSUME NEW i \in Instances, CheckRelease(i) PROVE OInv'
  BY <1>9 DEF CheckRelease
<1>10. ASSUME NEW i \in Instances, RemoveOwn(i) PROVE OInv'
  BY <1>10 DEF RemoveOwn, RemoveFile
<1>11. ASSUME NEW p \in Pids, Kill(p) PROVE OInv'
  BY <1>11 DEF Kill
<1>12. ASSUME NEW p \in Pids, Spawn(p) PROVE OInv'
  BY <1>12 DEF Spawn
<1>13. CASE UNCHANGED vars
  BY <1>13 DEF vars
<1> QED
  BY <1>1, <1>2, <1>3, <1>4, <1>5, <1>6, <1>7, <1>8, <1>9, <1>10, <1>11,
     <1>12, <1>13 DEF OneStartNext, Step

LEMMA AlwaysOInv == OneStartSpec => []OInv
  BY InitOInv, NextOInv, PTL DEF OneStartSpec

-----------------------------------------------------------------------------
(* PidFile refuses a second daemon over a live one, as long as two starts   *)
(* do not run at the same time.                                             *)
THEOREM ExclusiveOwner == OneStartSpec => []AtMostOneOwner
<1>1. OInv => AtMostOneOwner
  BY DEF OInv, TypeOK, Holding, HasFile, AtMostOneOwner
<1> QED
  BY <1>1, AlwaysOInv, PTL

(* The owner's pid stays readable at the path for as long as it owns it, so *)
(* that what _read_pid tells the CLI is the process to signal; and release()*)
(* never removes a file that another daemon put at the path between its     *)
(* check and its unlink.                                                    *)
THEOREM AdvertisedOwner == OneStartSpec => []OwnerIsAdvertised
<1>1. OInv => OwnerIsAdvertised
  BY DEF OInv, TypeOK, Holding, HasFile, Releasing, OwnerIsAdvertised
<1> QED
  BY <1>1, AlwaysOInv, PTL

-----------------------------------------------------------------------------
(* The commands.                                                            *)

(* What runs under a pid, and that something runs exactly under live pids. *)
ProcInv ==
    /\ proc \in [Pids -> Phases \cup {"none", "other"}]
    /\ \A p \in Pids : proc[p] = "none" <=> p \notin alive

(* How far a daemon process has come, and how far its PidFile instance: the *)
(* file is held from the end of acquire() to the begin of release().        *)
PhaseInv ==
    \A i \in Instances :
        /\ proc[PidOf[i]] \in {"none", "other", "boot", "load"} => pc[i] = "idle" /\ i \notin owned
        /\ proc[PidOf[i]] = "acquire" => pc[i] \in Acquiring \cup {"idle"}
        /\ proc[PidOf[i]] \in {"build", "serve", "run", "drain"} => i \in owned
        /\ proc[PidOf[i]] = "release" =>
              i \notin owned /\ pc[i] \notin Acquiring /\ (pc[i] = "idle" => file # i)

(* A daemon holds the port between BindHttp and Drain only; who holds it runs. *)
PortInv ==
    \A p \in Pids : port = p => p \in alive /\ proc[p] \in {"other", "serve", "run"}

CInv == OInv /\ ProcInv /\ PhaseInv /\ PortInv /\ LeftoverExplained

-----------------------------------------------------------------------------
(* Every process has one PidFile instance. *)
LEMMA InstanceOf ==
    /\ \A p \in Pids : I(p) \in Instances /\ PidOf[I(p)] = p
    /\ \A i \in Instances : PidOf[i] \in Pids /\ I(PidOf[i]) = i
  BY PidAssumption, CliAssumption DEF I

LEMMA InitCInv == CliInit => CInv
<1> SUFFICES ASSUME CliInit PROVE CInv
  OBVIOUS
<1>1. OInv
  BY InitOInv DEF CliInit
<1>2. ProcInv
  BY DEF CliInit, Init, ProcInv, Phases
<1>3. PhaseInv
  BY PidAssumption DEF CliInit, Init, PhaseInv, Phases
<1>4. PortInv
  BY CliAssumption DEF CliInit, Init, PortInv
<1>5. LeftoverExplained
  BY DEF CliInit, Init, LeftoverExplained
<1> QED
  BY <1>1, <1>2, <1>3, <1>4, <1>5 DEF CInv

-----------------------------------------------------------------------------
(* What a command does to processes, PID file and port: nothing, a launch,  *)
(* or the end of one process.                                               *)
Quiet == UNCHANGED <<vars, proc, port, dirty>>
Launches == \E p \in Pids : \E environ : Launch(p, environ)
Ends == \E p \in Pids : Dies(p)

LEMMA SignalEffect ==
    ASSUME TypeOK, NEW p, NEW force, Signal(p, force)
    PROVE  Quiet \/ Ends
  BY DEF Signal, Quiet, Ends, Dies, Kill, TypeOK

LEMMA CommandEffect ==
    ASSUME TypeOK, NEW t \in Terminals, CommandStep(t)
    PROVE  Quiet \/ Launches \/ Ends
<1>1. CASE UpProbe(t) \/ UpWait(t) \/ UpReadPid(t) \/ DownRead(t) \/ DownWait(t)
             \/ Enable(t) \/ CheckUnit(t)
  BY <1>1 DEF UpProbe, UpWait, UpReadPid, DownRead, DownWait, Enable, CheckUnit, RequestFails,
              Looks, Quiet
<1>2. CASE UpSpawn(t)
  BY <1>2 DEF UpSpawn, Looks, Quiet, Launches
<1>3. CASE UpTerminate(t)
  BY <1>3, SignalEffect DEF UpTerminate, Looks, Quiet
<1>4. CASE UpReap(t)
  BY <1>4, SignalEffect DEF UpReap, Looks, Quiet
<1>5. CASE UpAskDrain(t)
  BY <1>5, SignalEffect DEF UpAskDrain, Looks, Quiet
<1>6. CASE DownSignal(t)
  BY <1>6, SignalEffect DEF DownSignal, Looks, Quiet
<1>7. CASE WriteUnit(t) \/ RemoveUnit(t)
  BY <1>7 DEF WriteUnit, RemoveUnit, Quiet
<1>8. CASE StopUnit(t)
  BY <1>8, SignalEffect DEF StopUnit, RequestFails, Looks, Quiet
<1>9. CASE UnitStopped(t)
  BY <1>9, SignalEffect DEF UnitStopped, Looks, Quiet
<1>10. CASE StartUnit(t)
  BY <1>10 DEF StartUnit, RequestFails, Looks, Quiet, Launches
<1>11. CASE ConfigureStep(t)
  BY <1>11 DEF ConfigureStep, ConfigureCollect, ConfigureReadYaml, ConfigureDaemon, ConfigureLlm,
               ConfigureReadEnv, ConfigureWriteEnv, NoProcess, OnlyFiles, Quiet
<1> QED
  BY <1>1, <1>2, <1>3, <1>4, <1>5, <1>6, <1>7, <1>8, <1>9, <1>10, <1>11 DEF CommandStep

(* Every step is a step of PID files whose starts do not overlap. *)
LEMMA CliStepIsPidStep ==
    ASSUME TypeOK, [CliNext]_allVars
    PROVE  [OneStartNext]_vars
<1>1. ASSUME NEW p \in Pids, DaemonStep(p) PROVE [OneStartNext]_vars
  <2>1. CASE MergeEnv(p) \/ Acquired(p) \/ InstallHandlers(p) \/ Drain(p)
    BY <2>1 DEF MergeEnv, Acquired, InstallHandlers, Drain
  <2>2. CASE BeginAcquire(p)
    BY <2>2, InstanceOf DEF BeginAcquire, OneStartNext
  <2>3. CASE PidStep(p)
    BY <2>3, InstanceOf DEF PidStep, OneStartNext
  <2>4. CASE Refused(p) \/ Exit(p)
    BY <2>4 DEF Refused, Exit, Dies, OneStartNext
  <2>5. CASE BindHttp(p) \/ ReleasePid(p)
    BY <2>5, InstanceOf DEF BindHttp, ReleasePid, OneStartNext
  <2> QED
    BY <1>1, <2>1, <2>2, <2>3, <2>4, <2>5 DEF DaemonStep
<1>2. ASSUME NEW p \in Pids, OtherStarts(p) \/ Crash(p) PROVE [OneStartNext]_vars
  BY <1>2 DEF OtherStarts, Crash, Dies, OneStartNext
<1>3. ASSUME NEW t \in Terminals, Begin(t) PROVE [OneStartNext]_vars
  BY <1>3 DEF Begin
<1>4. ASSUME NEW t \in Terminals, CommandStep(t) PROVE [OneStartNext]_vars
  BY <1>4, CommandEffect DEF Quiet, Launches, Ends, Launch, Dies, OneStartNext
<1>5. CASE UNCHANGED allVars
  BY <1>5 DEF allVars
<1> QED
  BY <1>1, <1>2, <1>3, <1>4, <1>5 DEF CliNext

-----------------------------------------------------------------------------
(* The steps that concern no PidFile operation: a step that leaves processes, *)
(* PID file and port alone, a new process, the end of one.                    *)
LEMMA QuietCInv ==
    ASSUME CInv, Quiet
    PROVE  CInv'
  BY DEF CInv, OInv, TypeOK, HasFile, Holding, Running, ProcInv, PhaseInv, PortInv,
         LeftoverExplained, Daemons, Quiet, vars

LEMMA LaunchCInv ==
    ASSUME CInv, OInv', NEW p \in Pids, NEW environ, Launch(p, environ)
    PROVE  CInv'
<1> USE InstanceOf DEF CInv, Launch, Spawn, Become
<1>1. ProcInv'
  BY DEF ProcInv, Phases
<1>2. PhaseInv'
  BY DEF ProcInv, PhaseInv
<1>3. PortInv'
  BY DEF ProcInv, PortInv
<1>4. LeftoverExplained'
  BY DEF OInv, TypeOK, ProcInv, LeftoverExplained, Daemons, Phases
<1> QED
  BY <1>1, <1>2, <1>3, <1>4

LEMMA OtherStartsCInv ==
    ASSUME CInv, OInv', NEW p \in Pids, OtherStarts(p)
    PROVE  CInv'
<1> USE InstanceOf DEF CInv, OtherStarts, Spawn, Become
<1>1. ProcInv'
  BY DEF ProcInv
<1>2. PhaseInv'
  BY DEF ProcInv, PhaseInv
<1>3. PortInv'
  BY DEF ProcInv, PortInv
<1>4. LeftoverExplained'
  BY DEF OInv, TypeOK, ProcInv, LeftoverExplained, Daemons, Phases
<1> QED
  BY <1>1, <1>2, <1>3, <1>4

LEMMA DiesCInv ==
    ASSUME CInv, OInv', NEW p \in Pids, Dies(p)
    PROVE  CInv'
<1> USE InstanceOf, CliAssumption DEF CInv, Dies, Kill, Become
<1>1. ProcInv'
  BY DEF ProcInv
<1>2. PhaseInv'
  BY DEF OInv, TypeOK, ProcInv, PhaseInv
<1>3. PortInv'
  BY DEF ProcInv, PortInv
<1>4. LeftoverExplained'
  BY DEF OInv, TypeOK, ProcInv, LeftoverExplained, Daemons, Phases
<1> QED
  BY <1>1, <1>2, <1>3, <1>4

-----------------------------------------------------------------------------
(* One step of acquire() or of release().  A file that release() leaves is    *)
(* gone from the path, because its owner has kept it there.                   *)
LEMMA PidStepCInv ==
    ASSUME CInv, OInv', NEW p \in Pids, PidStep(p)
    PROVE  CInv'
<1> DEFINE i == I(p)
<1>i. i \in Instances /\ PidOf[i] = p
  BY InstanceOf
<1>u. UNCHANGED <<proc, port>> /\ proc[p] \in {"acquire", "release"}
  BY DEF PidStep
<1>1. /\ alive' = alive
      /\ \A j \in Instances : j # i => pc'[j] = pc[j] /\ (j \in owned' <=> j \in owned)
  BY <1>i DEF PidStep, CInv, OInv, TypeOK, Step, WriteFails, FirstOpen, ReadExisting, UnlinkStale,
              SecondOpen, WritePid, CheckRelease, RemoveOwn, CreateFile, Goto
<1>2. ProcInv' /\ PortInv'
  BY <1>u, <1>1 DEF CInv, ProcInv, PortInv
<1>3. proc[p] = "acquire" => pc[i] \in Acquiring /\ pc'[i] \in Acquiring \cup {"idle"}
  BY <1>i DEF PidStep, CInv, PhaseInv, OInv, TypeOK, Step, WriteFails, FirstOpen, ReadExisting,
              UnlinkStale, SecondOpen, WritePid, CheckRelease, RemoveOwn, CreateFile, Goto,
              Acquiring
<1>4. proc[p] = "release" =>
        /\ pc[i] \in Releasing /\ owned' = owned
        /\ pc'[i] \notin Acquiring
        /\ pc'[i] = "idle" => file' # i
        /\ file' = i => file = i
  <2> SUFFICES ASSUME proc[p] = "release"
               PROVE  /\ pc[i] \in Releasing /\ owned' = owned
                      /\ pc'[i] \notin Acquiring
                      /\ pc'[i] = "idle" => file' # i
                      /\ file' = i => file = i
    OBVIOUS
  <2>1. pc[i] \notin Acquiring
    BY <1>i DEF CInv, PhaseInv
  <2>2. CheckRelease(i) \/ RemoveOwn(i)
    BY <2>1 DEF PidStep, Step, WriteFails, FirstOpen, ReadExisting, UnlinkStale, SecondOpen,
                WritePid, Acquiring
  <2>3. CASE CheckRelease(i)
    <3>1. pc[i] = "check" /\ RecordedPid = {PidOf[i]}
      BY <1>i, <2>3, PidAssumption DEF CheckRelease, CInv, OInv, Holding, HasFile, RecordedPid,
                                       Releasing
    <3> QED
      BY <1>i, <2>3, <3>1 DEF CheckRelease, CInv, OInv, TypeOK, Goto, Releasing, Acquiring
  <2>4. CASE RemoveOwn(i)
    BY <1>i, <2>4, PidAssumption DEF RemoveOwn, RemoveFile, CInv, OInv, TypeOK, Goto,
                      Releasing, Acquiring
  <2> QED
    BY <2>2, <2>3, <2>4
<1>5. file' \in {file, NoFile, i}
  BY DEF PidStep, Step, WriteFails, FirstOpen, ReadExisting, UnlinkStale, SecondOpen, WritePid,
         CheckRelease, RemoveOwn, CreateFile, RemoveFile
<1>6. PhaseInv'
  <2>1. SUFFICES ASSUME NEW j \in Instances, j # i
                 PROVE  proc'[PidOf[j]] = "release" => (pc'[j] = "idle" => file' # j)
    BY <1>i, <1>u, <1>1, <1>3, <1>4 DEF CInv, PhaseInv
  <2> QED
    BY <1>u, <1>1, <1>5, <2>1, PidAssumption DEF CInv, PhaseInv
<1>7. LeftoverExplained'
  BY <1>i, <1>u, <1>5 DEF PidStep, CInv, LeftoverExplained, Daemons, Phases
<1> QED
  BY <1>2, <1>6, <1>7 DEF CInv

(* The rest of what a daemon process does. *)
LEMMA DaemonStepCInv ==
    ASSUME CInv, OInv', NEW p \in Pids, DaemonStep(p)
    PROVE  CInv'
<1> USE InstanceOf, CliAssumption DEF Become
<1>1. CASE MergeEnv(p)
  BY <1>1 DEF MergeEnv, CInv, ProcInv, PhaseInv, PortInv, LeftoverExplained, Daemons, Phases, vars
<1>2. CASE BeginAcquire(p)
  <2>1. ProcInv' /\ PortInv' /\ LeftoverExplained'
    BY <1>2 DEF BeginAcquire, StartAcquire, CInv, ProcInv, PortInv, LeftoverExplained, Daemons,
                Phases
  <2>2. PhaseInv'
    BY <1>2 DEF BeginAcquire, StartAcquire, Goto, CInv, OInv, TypeOK, ProcInv, PhaseInv, Acquiring
  <2> QED
    BY <2>1, <2>2 DEF CInv
<1>3. CASE PidStep(p)
  BY <1>3, PidStepCInv
<1>4. CASE Acquired(p)
  BY <1>4 DEF Acquired, CInv, ProcInv, PhaseInv, PortInv, LeftoverExplained, Daemons, Phases, vars
<1>5. CASE Refused(p)
  BY <1>5, DiesCInv DEF Refused
<1>6. CASE BindHttp(p)
  <2>1. CASE port' = p /\ Become(p, "serve") /\ UNCHANGED vars
    <3>1. ProcInv' /\ LeftoverExplained'
      BY <1>6, <2>1 DEF BindHttp, CInv, ProcInv, LeftoverExplained, Daemons, Phases, vars
    <3>2. PhaseInv' /\ PortInv'
      BY <1>6, <2>1 DEF BindHttp, CInv, ProcInv, PhaseInv, PortInv, vars
    <3> QED
      BY <3>1, <3>2 DEF CInv
  <2>2. CASE Become(p, "release") /\ StartRelease(I(p)) /\ UNCHANGED port
    <3>1. ProcInv' /\ LeftoverExplained' /\ PortInv'
      BY <1>6, <2>2 DEF BindHttp, StartRelease, CInv, ProcInv, PortInv, LeftoverExplained, Daemons,
                        Phases
    <3>2. PhaseInv'
      BY <1>6, <2>2 DEF BindHttp, StartRelease, Goto, CInv, OInv, TypeOK, ProcInv, PhaseInv,
                        Acquiring
    <3> QED
      BY <3>1, <3>2 DEF CInv
  <2> QED
    BY <1>6, <2>1, <2>2 DEF BindHttp
<1>7. CASE InstallHandlers(p)
  BY <1>7 DEF InstallHandlers, CInv, ProcInv, PhaseInv, PortInv, LeftoverExplained, Daemons,
              Phases, vars
<1>8. CASE Drain(p)
  BY <1>8 DEF Drain, CInv, ProcInv, PhaseInv, PortInv, LeftoverExplained, Daemons, Phases, vars
<1>9. CASE ReleasePid(p)
  <2>1. ProcInv' /\ LeftoverExplained' /\ PortInv'
    BY <1>9 DEF ReleasePid, StartRelease, CInv, ProcInv, PortInv, LeftoverExplained, Daemons,
                Phases
  <2>2. PhaseInv'
    BY <1>9 DEF ReleasePid, StartRelease, Goto, CInv, OInv, TypeOK, ProcInv, PhaseInv, Acquiring
  <2> QED
    BY <2>1, <2>2 DEF CInv
<1>10. CASE Exit(p)
  <2>1. ProcInv' /\ PortInv'
    BY <1>10 DEF Exit, Kill, CInv, ProcInv, PortInv
  <2>2. PhaseInv'
    BY <1>10 DEF Exit, Kill, CInv, OInv, TypeOK, ProcInv, PhaseInv
  <2>3. LeftoverExplained'
    BY <1>10 DEF Exit, Kill, CInv, OInv, TypeOK, ProcInv, PhaseInv, LeftoverExplained, Daemons,
                 Phases
  <2> QED
    BY <2>1, <2>2, <2>3 DEF CInv
<1> QED
  BY <1>1, <1>2, <1>3, <1>4, <1>5, <1>6, <1>7, <1>8, <1>9, <1>10 DEF DaemonStep

LEMMA NextCInv == CInv /\ [CliNext]_allVars => CInv'
<1> SUFFICES ASSUME CInv, [CliNext]_allVars PROVE CInv'
  OBVIOUS
<1>1. OInv'
  BY CliStepIsPidStep, NextOInv DEF CInv, OInv
<1>2. ASSUME NEW p \in Pids, DaemonStep(p) PROVE CInv'
  BY <1>1, <1>2, DaemonStepCInv
<1>3. ASSUME NEW p \in Pids, OtherStarts(p) PROVE CInv'
  BY <1>1, <1>3, OtherStartsCInv
<1>4. ASSUME NEW p \in Pids, Crash(p) PROVE CInv'
  BY <1>1, <1>4, DiesCInv DEF Crash
<1>5. ASSUME NEW t \in Terminals, Begin(t) PROVE CInv'
  BY <1>5, QuietCInv DEF Begin, Quiet
<1>6. ASSUME NEW t \in Terminals, CommandStep(t) PROVE CInv'
  <2>1. Quiet \/ Launches \/ Ends
    BY <1>6, CommandEffect DEF CInv, OInv
  <2> QED
    BY <1>1, <2>1, QuietCInv, LaunchCInv, DiesCInv DEF Launches, Ends
<1>7. CASE UNCHANGED allVars
  BY <1>7, QuietCInv DEF allVars, cliVars, Quiet
<1> QED
  BY <1>2, <1>3, <1>4, <1>5, <1>6, <1>7 DEF CliNext

LEMMA AlwaysCInv == CliSpec => []CInv
  BY InitCInv, NextCInv, PTL DEF CliSpec

-----------------------------------------------------------------------------
(* The commands.  A `down` is between its read and its answer, and from the  *)
(* read on the only instance it can have seen owning the file is the one     *)
(* whose pid it read.                                                        *)
Command == [op : Ops \cup {"none"}, at : Stages, pid : Pids \cup {NoFile},
            saw : SUBSET Instances, code : {0, 1, 2}, todo : Seq(Ops)]

CmdOK(c) ==
    /\ c \in Command
    /\ c.op \in {"down", "down_force"} => c.at \in {"read", "signal", "gone"}
    /\ c.at \in {"signal", "gone"} => \A i \in c.saw : PidOf[i] = c.pid

CmdInv ==
    /\ cmd \in [Terminals -> Command]
    /\ \A t \in Terminals : CmdOK(cmd[t])
    /\ managed \in Pids \cup {NoFile}

(* A command has moved on to a legal state, and no other command has moved. *)
Moves(t) == \E c : CmdOK(c) /\ cmd' = [cmd EXCEPT ![t] = c]

LEMMA InitCmdInv == CliInit => CmdInv
  BY CliAssumption DEF CliInit, CmdInv, CmdOK, Command, Stages

LEMMA MovesCmdInv ==
    ASSUME CmdInv, NEW t \in Terminals, Moves(t), managed' \in Pids \cup {NoFile}
    PROVE  CmdInv'
<1>1. PICK c : CmdOK(c) /\ cmd' = [cmd EXCEPT ![t] = c]
  BY DEF Moves
<1>2. c \in Command
  BY <1>1 DEF CmdOK
<1>3. cmd' \in [Terminals -> Command]
  BY <1>1, <1>2 DEF CmdInv
<1>4. ASSUME NEW u \in Terminals PROVE CmdOK(cmd'[u])
  BY <1>1 DEF CmdInv
<1> QED
  BY <1>3, <1>4 DEF CmdInv, CmdOK

LEMMA ReturnsMoves ==
    ASSUME CmdInv, NEW t \in Terminals, NEW code \in {0, 1, 2}, Returns(t, code)
    PROVE  Moves(t)
<1> DEFINE c == [op |-> "none", at |-> "idle", pid |-> NoFile, saw |-> {}, code |-> code,
                 todo |-> cmd[t].todo]
<1>1. cmd[t].todo \in Seq(Ops)
  BY DEF CmdInv, Command
<1>2. CmdOK(c)
  BY <1>1 DEF CmdOK, Command, Stages
<1> QED
  BY <1>2 DEF Moves, Returns

LEMMA GoesMoves ==
    ASSUME CmdInv, NEW t \in Terminals, NEW stage \in Stages, Goes(t, stage),
           cmd[t].op \in {"down", "down_force"} => stage \in {"read", "signal", "gone"},
           stage \in {"signal", "gone"} => cmd[t].at \in {"signal", "gone"}
    PROVE  Moves(t)
<1> DEFINE c == [cmd[t] EXCEPT !.at = stage]
<1>1. cmd[t] \in Command /\ CmdOK(cmd[t])
  BY DEF CmdInv
<1>2. CmdOK(c)
  BY <1>1 DEF CmdOK, Command
<1> QED
  BY <1>2 DEF Moves, Goes

LEMMA GoesWithMoves ==
    ASSUME CmdInv, NEW t \in Terminals, NEW stage \in Stages, NEW p \in Pids \cup {NoFile},
           GoesWith(t, stage, p), cmd[t].op \notin {"down", "down_force"},
           stage \notin {"signal", "gone"}
    PROVE  Moves(t)
<1> DEFINE c == [cmd[t] EXCEPT !.at = stage, !.pid = p]
<1>1. cmd[t] \in Command
  BY DEF CmdInv
<1>2. CmdOK(c)
  BY <1>1 DEF CmdOK, Command
<1> QED
  BY <1>2 DEF Moves, GoesWith

LEMMA SignalManaged ==
    ASSUME CmdInv, NEW p, NEW force, Signal(p, force)
    PROVE  managed' \in Pids \cup {NoFile}
  BY DEF Signal, Dies, CmdInv

LEMMA BeginMoves ==
    ASSUME CmdInv, NEW t \in Terminals, Begin(t)
    PROVE  Moves(t)
<1> DEFINE op == Head(cmd[t].todo)
           c == [op |-> op, at |-> First(op), pid |-> NoFile, saw |-> {}, code |-> 0,
                 todo |-> Tail(cmd[t].todo)]
<1>1. cmd[t].todo \in Seq(Ops) /\ cmd[t].todo # <<>>
  BY DEF CmdInv, Command, Begin
<1>2. op \in Ops /\ Tail(cmd[t].todo) \in Seq(Ops)
  BY <1>1
<1>3. /\ First(op) \in Stages \ {"signal", "gone"}
      /\ op \in {"down", "down_force"} => First(op) = "read"
  BY <1>2, CliAssumption DEF First, Ops, Commands, Stages
<1>4. CmdOK(c)
  BY <1>2, <1>3 DEF CmdOK, Command
<1> QED
  BY <1>4 DEF Moves, Begin

(* The guard of a step of `up`, `service` or `configure` rules out a `down`. *)
LEMMA CommandMoves ==
    ASSUME OInv, CmdInv, NEW t \in Terminals, CommandStep(t)
    PROVE  Moves(t) /\ managed' \in Pids \cup {NoFile}
<1>d. cmd[t].op \in {"down", "down_force"} => cmd[t].at \in {"read", "signal", "gone"}
  BY DEF CmdInv, CmdOK
<1>m. managed \in Pids \cup {NoFile}
  BY DEF CmdInv
<1> USE <1>d, <1>m, ReturnsMoves, GoesMoves, GoesWithMoves, SignalManaged DEF Stages
<1>1. CASE UpProbe(t)
  BY <1>1 DEF UpProbe, Looks
<1>2. CASE UpSpawn(t)
  BY <1>2 DEF UpSpawn, Looks
<1>3. CASE UpWait(t)
  BY <1>3 DEF UpWait, Looks
<1>4. CASE UpTerminate(t)
  BY <1>4 DEF UpTerminate, Looks
<1>5. CASE UpReap(t)
  BY <1>5 DEF UpReap, Looks
<1>6. CASE UpReadPid(t)
  BY <1>6, PidAssumption DEF UpReadPid, Looks, ReadPid, RecordedPid, OInv, TypeOK
<1>7. CASE UpAskDrain(t)
  BY <1>7 DEF UpAskDrain, Looks
<1>8. CASE DownRead(t)
  <2>1. CASE Returns(t, 0)
    BY <1>8, <2>1 DEF DownRead, Looks
  <2>2. ASSUME NEW p \in ReadPid,
               cmd' = [cmd EXCEPT ![t] = [@ EXCEPT !.at = "signal", !.pid = p, !.saw = owned]]
        PROVE  Moves(t)
    <3> DEFINE c == [cmd[t] EXCEPT !.at = "signal", !.pid = p, !.saw = owned]
    <3>1. p \in Pids /\ owned \subseteq Instances /\ \A i \in owned : PidOf[i] = p
      BY <2>2, PidAssumption DEF ReadPid, RecordedPid, OInv, TypeOK, Holding, HasFile
    <3>2. cmd[t] \in Command
      BY DEF CmdInv
    <3>3. CmdOK(c)
      BY <3>1, <3>2 DEF CmdOK, Command
    <3> QED
      BY <2>2, <3>3 DEF Moves
  <2> QED
    BY <1>8, <2>1, <2>2 DEF DownRead, Looks
<1>9. CASE DownSignal(t)
  BY <1>9 DEF DownSignal, Looks
<1>10. CASE DownWait(t)
  BY <1>10 DEF DownWait, Looks
<1>11. CASE WriteUnit(t) \/ RemoveUnit(t)
  BY <1>11 DEF WriteUnit, RemoveUnit
<1>12. CASE Enable(t) \/ CheckUnit(t)
  BY <1>12 DEF Enable, CheckUnit, RequestFails, Looks
<1>13. ASSUME cmd[t].op \notin {"down", "down_force"}, GoesAfterStop(t) PROVE Moves(t)
  BY <1>13 DEF GoesAfterStop
<1>14. CASE StopUnit(t)
  BY <1>13, <1>14 DEF StopUnit, RequestFails, Looks
<1>15. CASE UnitStopped(t)
  BY <1>13, <1>15 DEF UnitStopped, Looks
<1>16. CASE StartUnit(t)
  BY <1>16 DEF StartUnit, RequestFails, Looks
<1>17. CASE ConfigureStep(t)
  BY <1>17 DEF ConfigureStep, ConfigureCollect, ConfigureReadYaml, ConfigureDaemon, ConfigureLlm,
               ConfigureReadEnv, ConfigureWriteEnv, NoProcess, OnlyFiles
<1> QED
  BY <1>1, <1>2, <1>3, <1>4, <1>5, <1>6, <1>7, <1>8, <1>9, <1>10, <1>11, <1>12, <1>14, <1>15,
     <1>16, <1>17 DEF CommandStep

LEMMA DaemonKeepsCmd ==
    ASSUME CmdInv, NEW p \in Pids, DaemonStep(p) \/ OtherStarts(p) \/ Crash(p)
    PROVE  cmd' = cmd /\ managed' \in Pids \cup {NoFile}
  BY DEF CmdInv, DaemonStep, OtherStarts, Crash, MergeEnv, BeginAcquire, PidStep, Acquired, Refused,
         BindHttp, InstallHandlers, Drain, ReleasePid, Exit, Dies

LEMMA NextCmdInv == OInv /\ CmdInv /\ [CliNext]_allVars => CmdInv'
<1> SUFFICES ASSUME OInv, CmdInv, [CliNext]_allVars PROVE CmdInv'
  OBVIOUS
<1>1. ASSUME NEW p \in Pids, DaemonStep(p) \/ OtherStarts(p) \/ Crash(p) PROVE CmdInv'
  BY <1>1, DaemonKeepsCmd DEF CmdInv, CmdOK
<1>2. ASSUME NEW t \in Terminals, Begin(t) PROVE CmdInv'
  <2>1. managed' \in Pids \cup {NoFile}
    BY <1>2 DEF Begin, CmdInv
  <2> QED
    BY <1>2, <2>1, BeginMoves, MovesCmdInv
<1>3. ASSUME NEW t \in Terminals, CommandStep(t) PROVE CmdInv'
  BY <1>3, CommandMoves, MovesCmdInv
<1>4. CASE UNCHANGED allVars
  BY <1>4 DEF allVars, cliVars, CmdInv, CmdOK
<1> QED
  BY <1>1, <1>2, <1>3, <1>4 DEF CliNext

LEMMA AlwaysCmdInv == CliSpec => []CmdInv
<1>1. CInv => OInv
  BY DEF CInv
<1> QED
  BY <1>1, AlwaysCInv, InitCmdInv, NextCmdInv, PTL DEF CliSpec

-----------------------------------------------------------------------------
(* The commands and the daemons use the PID file as PidFile's specification  *)
(* with starts that do not overlap allows; what is proved of that one holds  *)
(* here, whatever the terminals run.                                         *)
THEOREM CliImplementsOneStart == CliSpec => OneStartSpec
<1>1. CliInit => Init
  BY DEF CliInit
<1>2. CInv /\ [CliNext]_allVars => [OneStartNext]_vars
  BY CliStepIsPidStep DEF CInv, OInv
<1> QED
  BY <1>1, <1>2, AlwaysCInv, PTL DEF CliSpec, OneStartSpec

(* Whoever answers health.ping as a daemon is the process `runtime down`     *)
(* would signal.                                                             *)
THEOREM ServingDaemonIsAdvertised == CliSpec => []ServingIsAdvertised
<1>1. CInv => ServingIsAdvertised
  <2> SUFFICES ASSUME CInv, NEW p \in Daemons, port = p PROVE RecordedPid = {p}
    BY DEF ServingIsAdvertised
  <2>1. p \in Pids /\ proc[p] \in {"serve", "run"}
    BY DEF Daemons, Phases, CInv, PortInv
  <2>2. I(p) \in owned /\ I(p) \in Instances /\ PidOf[I(p)] = p
    BY <2>1, InstanceOf DEF CInv, PhaseInv
  <2> QED
    BY <2>2, PidAssumption DEF CInv, OInv, Holding, HasFile, RecordedPid
<1> QED
  BY <1>1, AlwaysCInv, PTL

(* A PID file that no daemon stands behind was left by a process that ended  *)
(* undrained.                                                                *)
THEOREM LeftoversAreExplained == CliSpec => []LeftoverExplained
<1>1. CInv => LeftoverExplained
  BY DEF CInv
<1> QED
  BY <1>1, AlwaysCInv, PTL

(* `runtime down` answers 0 only when nobody who owned the PID file at its   *)
(* read owns it any more.                                                    *)
THEOREM DownLeavesNoOwner == CliSpec => DownMeansStopped
<1> DEFINE Answers0(t) == /\ cmd[t].op \in {"down", "down_force"}
                          /\ cmd'[t].at = "idle" /\ cmd'[t].code = 0
           Seen(t) == IF cmd[t].at = "read" THEN owned ELSE cmd[t].saw
           Stopped == \A t \in Terminals : Answers0(t) => Seen(t) \cap owned' = {}
<1>1. ASSUME CInv, CmdInv, [CliNext]_allVars PROVE [Stopped]_allVars
  <2>1. SUFFICES ASSUME CliNext, NEW t \in Terminals, Answers0(t)
                 PROVE  Seen(t) \cap owned' = {}
    BY <1>1
  <2>2. /\ cmd[t] \in Command /\ cmd[t].at \in {"read", "signal", "gone"}
        /\ cmd[t].at \in {"signal", "gone"} => \A i \in cmd[t].saw : PidOf[i] = cmd[t].pid
    BY <1>1, <2>1 DEF CmdInv, CmdOK
  <2>3. cmd'[t] # cmd[t]
    BY <2>1, <2>2
  <2>4. \E u \in Terminals : Begin(u) \/ CommandStep(u)
    BY <1>1, <2>1, <2>3, DaemonKeepsCmd DEF CliNext
  <2>5. PICK u \in Terminals : Begin(u) \/ CommandStep(u)
    BY <2>4
  <2>6. Moves(u)
    BY <1>1, <2>5, BeginMoves, CommandMoves DEF CInv
  <2>7. u = t
    BY <1>1, <2>3, <2>6 DEF Moves, CmdInv
  <2>8. DownRead(t) \/ DownSignal(t) \/ DownWait(t)
    BY <2>2, <2>5, <2>7
       DEF Begin, CommandStep, UpProbe, UpSpawn, UpWait, UpTerminate, UpReap, UpReadPid, UpAskDrain,
           WriteUnit, Enable, CheckUnit, StopUnit, UnitStopped, StartUnit, RemoveUnit, ConfigureStep,
           ConfigureCollect, ConfigureReadYaml, ConfigureDaemon, ConfigureLlm, ConfigureReadEnv,
           ConfigureWriteEnv
  <2>9. \A i \in owned : Running(i) /\ file = i /\ i \in written /\ i \in Instances
    BY <1>1 DEF CInv, OInv, TypeOK, Holding, HasFile
  <2>10. CASE DownRead(t)
    <3>1. ReadPid = {} /\ owned' = owned /\ cmd[t].at = "read"
      BY <1>1, <2>1, <2>2, <2>10 DEF DownRead, Looks, vars, CmdInv, Command
    <3> QED
      BY <2>9, <3>1, PidAssumption DEF ReadPid, RecordedPid
  <2>11. CASE DownSignal(t)
    <3>1. ~ProcessAlive(cmd[t].pid) /\ owned' = owned /\ cmd[t].at = "signal"
      BY <1>1, <2>1, <2>2, <2>11 DEF DownSignal, Returns, Goes, Looks, vars, CmdInv, Command
    <3> QED
      BY <2>2, <2>9, <3>1 DEF ProcessAlive, Running
  <2>12. CASE DownWait(t)
    <3>1. ~ProcessAlive(cmd[t].pid) /\ owned' = owned /\ cmd[t].at = "gone"
      BY <1>1, <2>1, <2>2, <2>12 DEF DownWait, Returns, Looks, vars, CmdInv, Command
    <3> QED
      BY <2>2, <2>9, <3>1 DEF ProcessAlive, Running
  <2> QED
    BY <2>8, <2>10, <2>11, <2>12
<1> QED
  BY <1>1, AlwaysCInv, AlwaysCmdInv, PTL DEF CliSpec, DownMeansStopped

-----------------------------------------------------------------------------
(* What `configure llm` has to leave behind for a promise to be kept by any  *)
(* daemon whose environment includes env: the provider, the model that was   *)
(* chosen, and, when the promise is backed, the credentials in the YAML or   *)
(* in the environment.                                                       *)
Chosen(promise, llm) ==
    /\ promise.provider \in Providers /\ llm.provider = promise.provider
    /\ promise.model # Nothing => llm.model = promise.model /\ promise.provider # "stub"

Provided(promise, llm, env) ==
    /\ promise.provider \in KeyProviders =>
          "api_key" \in llm.inline \/ KeyOf[promise.provider] \in env
    /\ promise.provider = "azure" => Slots \subseteq llm.inline \/ Azure \subseteq env
    /\ promise.provider = "auto" =>
          (\E p \in KeyProviders : KeyOf[p] \in env) \/ Azure \subseteq env

Ready(promise, llm, env) ==
    Chosen(promise, llm) /\ (promise.backed => Provided(promise, llm, env))

LEMMA Names ==
    /\ KeyProviders = {"bai", "openai", "anthropic"}
    /\ KeyOf["bai"] = "BAI_API_KEY" /\ KeyOf["openai"] = "OPENAI_API_KEY"
    /\ KeyOf["anthropic"] = "ANTHROPIC_API_KEY"
    /\ Azure = {"AZURE_OPENAI_API_KEY", "AZURE_OPENAI_ENDPOINT", "AZURE_OPENAI_DEPLOYMENT"}
    /\ InlineSlot["AZURE_OPENAI_API_KEY"] = "api_key"
    /\ InlineSlot["AZURE_OPENAI_ENDPOINT"] = "endpoint"
    /\ InlineSlot["AZURE_OPENAI_DEPLOYMENT"] = "deployment"
    /\ Slots = {"api_key", "endpoint", "deployment"}
    /\ ApiKeys = {"BAI_API_KEY", "OPENAI_API_KEY", "ANTHROPIC_API_KEY", "AZURE_OPENAI_API_KEY"}
<1>1. /\ KeyProviders = {"bai", "openai", "anthropic"}
      /\ KeyOf["bai"] = "BAI_API_KEY" /\ KeyOf["openai"] = "OPENAI_API_KEY"
      /\ KeyOf["anthropic"] = "ANTHROPIC_API_KEY"
  BY DEF KeyProviders, KeyOf
<1>2. /\ Azure = {"AZURE_OPENAI_API_KEY", "AZURE_OPENAI_ENDPOINT", "AZURE_OPENAI_DEPLOYMENT"}
      /\ InlineSlot["AZURE_OPENAI_API_KEY"] = "api_key"
      /\ InlineSlot["AZURE_OPENAI_ENDPOINT"] = "endpoint"
      /\ InlineSlot["AZURE_OPENAI_DEPLOYMENT"] = "deployment"
  BY DEF Azure, InlineSlot
<1>3. Slots = {"api_key", "endpoint", "deployment"}
  BY <1>2 DEF Slots
<1>4. ApiKeys = {"BAI_API_KEY", "OPENAI_API_KEY", "ANTHROPIC_API_KEY", "AZURE_OPENAI_API_KEY"}
  BY <1>1 DEF ApiKeys
<1> QED
  BY <1>1, <1>2, <1>3, <1>4

(* Merging with the old block keeps what was promised. *)
LEMMA MergedReady ==
    ASSUME NEW old \in LlmBlock, NEW new \in LlmBlock, NEW promise, NEW env,
           Ready(promise, new, env)
    PROVE  Merged(old, new) \in LlmBlock /\ Ready(promise, Merged(old, new), env)
<1>1. /\ Merged(old, new) \in LlmBlock
      /\ Merged(old, new).provider = new.provider /\ Merged(old, new).inline = new.inline
      /\ new.model # Nothing => Merged(old, new).model = new.model
  BY DEF Merged, LlmBlock, Or
<1> QED
  BY <1>1 DEF Ready, Chosen, Provided

(* A daemon that reads a file that is ready builds what was promised, in any *)
(* shell.                                                                    *)
LEMMA ReadyHonours ==
    ASSUME NEW promise, NEW llm \in LlmBlock, NEW env, NEW environ, env \subseteq environ,
           Ready(promise, llm, env)
    PROVE  Honours(build_llm(llm, environ), promise)
<1> DEFINE b == build_llm(llm, environ)
<1> USE Names
<1>1. llm.provider = promise.provider /\ promise.provider \in KeyProviders \cup {"azure", "auto", "stub"}
      /\ llm.inline \subseteq Slots
  BY DEF Ready, Chosen, Providers, LlmBlock
<1>2. CASE promise.provider = "bai"
  BY <1>1, <1>2 DEF Ready, Chosen, Provided, Honours, Delivers, SaysSo, build_llm,
              LLM_PROVIDER_BUILDERS, build_bai, BaiLLMClient, ApiKey, Wired, Failed, Nothing
<1>3. CASE promise.provider = "openai"
  BY <1>1, <1>3 DEF Ready, Chosen, Provided, Honours, Delivers, SaysSo, build_llm,
              LLM_PROVIDER_BUILDERS, build_openai, OpenAILLMClient, ApiKey, Wired, Failed, Nothing
<1>4. CASE promise.provider = "anthropic"
  BY <1>1, <1>4 DEF Ready, Chosen, Provided, Honours, Delivers, SaysSo, build_llm,
              LLM_PROVIDER_BUILDERS, build_anthropic, AnthropicLLMClient, ApiKey, Wired, Failed, Nothing
<1>5. CASE promise.provider = "azure"
  BY <1>1, <1>5 DEF Ready, Provided, Honours, Delivers, SaysSo, build_llm, LLM_PROVIDER_BUILDERS,
              build_azure, AzureOpenAILLMClient, ApiKey, Failed
<1>6. CASE promise.provider = "stub"
  BY <1>1, <1>6 DEF Ready, Chosen, Honours, Delivers, build_llm, build_stub
<1>7. CASE promise.provider = "auto"
  <2> DEFINE picked == auto_pick_provider(environ)
  <2>1. b = build_auto(llm, environ)
    BY <1>1, <1>7 DEF build_llm
  <2>2. promise.model # Nothing => llm.model = promise.model
    BY DEF Ready, Chosen
  <2>3. picked \in KeyProviders => KeyOf[picked] \in environ
    BY DEF auto_pick_provider, Nothing
  <2>4. /\ picked \in KeyProviders \cup {"azure", Nothing}
        /\ promise.backed => picked # Nothing
        /\ promise.backed /\ picked = "azure" => Azure \subseteq environ
    BY <1>7 DEF Ready, Provided, auto_pick_provider, Nothing
  <2>5. picked # Nothing => b = LLM_PROVIDER_BUILDERS(picked, llm, environ)
    BY <2>1 DEF build_auto
  <2>6. CASE picked = "bai"
    BY <1>7, <2>2, <2>3, <2>5, <2>6 DEF Honours, Delivers, LLM_PROVIDER_BUILDERS, build_bai,
              BaiLLMClient, ApiKey, Wired, Nothing
  <2>7. CASE picked = "openai"
    BY <1>7, <2>2, <2>3, <2>5, <2>7 DEF Honours, Delivers, LLM_PROVIDER_BUILDERS, build_openai,
              OpenAILLMClient, ApiKey, Wired, Nothing
  <2>8. CASE picked = "anthropic"
    BY <1>7, <2>2, <2>3, <2>5, <2>8 DEF Honours, Delivers, LLM_PROVIDER_BUILDERS, build_anthropic,
              AnthropicLLMClient, ApiKey, Wired, Nothing
  <2>9. CASE picked = "azure"
    BY <1>7, <2>4, <2>5, <2>9 DEF Honours, Delivers, SaysSo, LLM_PROVIDER_BUILDERS, build_azure,
              AzureOpenAILLMClient, ApiKey, Failed, Nothing
  <2>10. CASE picked = Nothing
    BY <1>7, <2>1, <2>4, <2>10 DEF Honours, SaysSo, build_auto
  <2> QED
    BY <2>4, <2>6, <2>7, <2>8, <2>9, <2>10
<1> QED
  BY <1>1, <1>2, <1>3, <1>4, <1>5, <1>6, <1>7

(* What a configure command has collected is well formed ... *)
LEMMA CollectedType ==
    ASSUME NEW r \in Request, NEW shell \in SUBSET EnvVars, envfile \subseteq EnvVars
    PROVE  Collected(r, shell).llm \in LlmBlock /\ Collected(r, shell).updates \subseteq EnvVars
<1>0. /\ r.interactive \in BOOLEAN /\ r.mode \in {"env-file", "inline"} /\ r.provider \in Providers
      /\ r.given \subseteq EnvVars /\ r.model \in BOOLEAN /\ r.base_url \in BOOLEAN
  BY DEF Request
<1>1. Azure \subseteq EnvVars /\ KeyProviders \subseteq Providers
  BY DEF EnvVars, Secrets, Providers
<1>2. \A p \in KeyProviders : KeyOf[p] \in EnvVars /\ ModelOf[p] \in EnvVars
  BY DEF EnvVars, Secrets, ApiKeys
<1>3. CASE r.interactive
  <2>1. Collected(r, shell) = collect_interactive(r, shell)
    BY <1>3 DEF Collected
  <2>2. PromptedKeys(r, shell) \subseteq EnvVars
    BY <1>0, <1>2, Names DEF PromptedKeys
  <2>3. PromptedModels(r, shell) \subseteq EnvVars
    BY <1>0, <1>2, Names DEF PromptedModels
  <2>4. PromptedAzure(r, shell) \subseteq Azure
    BY DEF PromptedAzure, azure_credential_parts
  <2>5. Embedded(r, PromptedKeys(r, shell), PromptedAzure(r, shell)) \subseteq Slots
    BY <2>4, Names DEF Embedded
  <2>6. collect_interactive(r, shell).updates \subseteq EnvVars
    BY <1>1, <2>2, <2>3, <2>4 DEF collect_interactive
  <2>7. collect_interactive(r, shell).llm \in LlmBlock
    BY <1>0, <2>5 DEF collect_interactive, LlmBlock, prompt_openai_model
  <2> QED
    BY <2>1, <2>6, <2>7
<1>4. CASE ~r.interactive
  <2>1. Collected(r, shell) = collect_non_interactive(r, shell)
    BY <1>4 DEF Collected
  <2>2. Flags(r, shell) \subseteq EnvVars
    BY <1>0 DEF Flags
  <2>3. collect_non_interactive(r, shell).updates \subseteq EnvVars
    BY <2>2 DEF collect_non_interactive
  <2>4. collect_non_interactive(r, shell).llm \in LlmBlock
    BY <1>0, Names DEF collect_non_interactive, LlmBlock
  <2> QED
    BY <2>1, <2>3, <2>4
<1> QED
  BY <1>3, <1>4

LEMMA AcceptedRequest ==
    ASSUME NEW r, NEW shell
    PROVE  /\ collect_interactive(r, shell).accepted =>
                 /\ r.provider = "azure" => PromptedAzure(r, shell) = Azure
                 /\ r.provider = "auto" => r.mode = "env-file"
                                             /\ PromptedAzure(r, shell) \in {{}, Azure}
           /\ collect_non_interactive(r, shell).accepted =>
                 /\ r.provider = "azure" => Azure \subseteq Flags(r, shell)
                 /\ r.provider = "auto" => r.mode = "env-file"
  BY DEF collect_interactive, collect_non_interactive

(* ... and enough for the promise it makes, once it is on file. *)
LEMMA CollectedProvided ==
    ASSUME NEW r \in Request, NEW shell, NEW c, c = Collected(r, shell),
           c.accepted, Backed(r, shell), NEW promise, promise.provider = r.provider
    PROVE  Provided(promise, c.llm, envfile \cup c.updates)
<1> USE Names
<1>0. /\ r.interactive \in BOOLEAN /\ r.mode \in {"env-file", "inline"} /\ r.provider \in Providers
      /\ r.provider \in {"bai", "openai", "anthropic", "azure", "auto", "stub"}
  BY DEF Request, Providers
<1>1. CASE r.interactive
  <2> DEFINE keys == PromptedKeys(r, shell)
             azure == PromptedAzure(r, shell)
  <2>1. c = collect_interactive(r, shell)
    BY <1>1 DEF Collected
  <2>2. /\ c.llm.provider = r.provider
        /\ c.llm.model # Nothing => r.provider # "stub"
        /\ c.llm.inline = Embedded(r, keys, azure)
        /\ r.mode = "env-file" => keys \cup azure \subseteq c.updates
    BY <1>0, <2>1 DEF collect_interactive
  <2>3. ASSUME NEW p \in KeyProviders, r.provider = p \/ r.provider = "auto"
        PROVE  KeyOf[p] \in r.given => KeyOf[p] \in keys
    BY <2>3 DEF PromptedKeys, Asks
  <2>4. CASE r.provider \in KeyProviders
    <3>1. \/ KeyOf[r.provider] \in r.given \cup envfile
          \/ r.mode = "env-file" /\ r.provider = "bai" /\ env_key("BAI_API_KEY", shell)
      BY <1>1, <2>4 DEF Backed
    <3>2. KeyOf[r.provider] \in keys \cup envfile
      BY <2>3, <2>4, <3>1 DEF PromptedKeys, KeepsBai, Asks
    <3>3. "api_key" \in c.llm.inline \/ KeyOf[r.provider] \in envfile \cup c.updates
      BY <1>0, <2>2, <2>4, <3>2 DEF Embedded
    <3> QED
      BY <1>0, <2>2, <2>4, <3>3 DEF Provided
  <2>5. CASE r.provider = "azure"
    <3>1. azure = Azure
      BY <2>1, <2>5, AcceptedRequest
    <3>2. r.mode = "env-file" \/ Slots \subseteq c.llm.inline
      BY <1>0, <2>2, <3>1 DEF Embedded
    <3> QED
      BY <1>0, <2>2, <2>5, <3>1, <3>2 DEF Provided
  <2>6. CASE r.provider = "auto"
    <3>1. r.mode = "env-file" /\ azure \in {{}, Azure}
      BY <2>1, <2>6, AcceptedRequest
    <3>2. \/ \E p \in KeyProviders : KeyOf[p] \in r.given \cup envfile
          \/ env_key("BAI_API_KEY", shell)
          \/ Azure \subseteq azure
      BY <1>1, <2>6, <3>1 DEF Backed
    <3>3. CASE \E p \in KeyProviders : KeyOf[p] \in r.given \cup envfile
      BY <1>0, <2>2, <2>3, <2>6, <3>1, <3>3 DEF Provided
    <3>4. CASE env_key("BAI_API_KEY", shell)
      <4>1. "BAI_API_KEY" \in keys \cup envfile
        BY <2>3, <2>6, <3>1, <3>4 DEF PromptedKeys, KeepsBai, Asks
      <4> QED
        BY <1>0, <2>2, <2>6, <3>1, <4>1 DEF Provided
    <3>5. CASE Azure \subseteq azure
      <4>1. azure = Azure
        BY <3>1, <3>5
      <4> QED
        BY <1>0, <2>2, <2>6, <3>1, <4>1 DEF Provided
    <3> QED
      BY <3>2, <3>3, <3>4, <3>5
  <2>7. CASE r.provider = "stub"
    BY <1>0, <2>2, <2>7 DEF Provided
  <2> QED
    BY <1>0, <2>4, <2>5, <2>6, <2>7
<1>2. CASE ~r.interactive
  <2>1. c = collect_non_interactive(r, shell)
    BY <1>2 DEF Collected
  <2>2. /\ c.llm.provider = r.provider
        /\ c.llm.model # Nothing => r.provider # "stub"
        /\ r.mode = "env-file" /\ r.provider # "stub" => c.updates = Flags(r, shell)
        /\ r.mode = "inline" /\ r.provider = "azure" => c.llm.inline = Slots
        /\ r.mode = "inline" /\ r.provider \in KeyProviders => c.llm.inline = {"api_key"}
    BY <1>0, <2>1 DEF collect_non_interactive
  <2>3. \A v \in Secrets : v \in r.given \cup shell => v \in Flags(r, shell)
    BY DEF Flags
  <2>4. Azure \subseteq Secrets /\ \A p \in KeyProviders : KeyOf[p] \in Secrets
    BY DEF Secrets
  <2>5. CASE r.provider \in KeyProviders
    <3>1. KeyOf[r.provider] \in r.given \cup envfile \cup shell \/ r.mode = "inline"
      BY <1>2, <2>5 DEF Backed
    <3>2. "api_key" \in c.llm.inline \/ KeyOf[r.provider] \in envfile \cup c.updates
      BY <1>0, <2>2, <2>3, <2>4, <2>5, <3>1
    <3> QED
      BY <1>0, <2>2, <2>5, <3>2 DEF Provided
  <2>6. CASE r.provider = "azure"
    <3>1. Azure \subseteq Flags(r, shell)
      BY <2>1, <2>6, AcceptedRequest
    <3> QED
      BY <1>0, <2>2, <2>6, <3>1 DEF Provided
  <2>7. CASE r.provider = "auto"
    <3>1. r.mode = "env-file"
      BY <2>1, <2>7, AcceptedRequest
    <3>2. \/ \E p \in KeyProviders : KeyOf[p] \in r.given \cup envfile \cup shell
          \/ Azure \subseteq r.given \cup envfile \cup shell
      BY <1>2, <2>7 DEF Backed
    <3>3. \/ \E p \in KeyProviders : KeyOf[p] \in envfile \cup c.updates
          \/ Azure \subseteq envfile \cup c.updates
      BY <2>2, <2>3, <2>4, <2>7, <3>1, <3>2
    <3> QED
      BY <1>0, <2>2, <2>7, <3>3 DEF Provided
  <2>8. CASE r.provider = "stub"
    BY <1>0, <2>2, <2>8 DEF Provided
  <2> QED
    BY <1>0, <2>5, <2>6, <2>7, <2>8
<1> QED
  BY <1>0, <1>1, <1>2

LEMMA CollectedReady ==
    ASSUME NEW r \in Request, NEW shell, NEW c, c = Collected(r, shell), c.accepted,
           NEW promise, promise = [provider |-> r.provider, model |-> c.llm.model,
                                   backed |-> Backed(r, shell)]
    PROVE  Ready(promise, c.llm, envfile \cup c.updates)
<1>1. promise.provider = r.provider /\ promise.model = c.llm.model
      /\ promise.backed = Backed(r, shell) /\ r.provider \in Providers
  BY DEF Request
<1>2. c.llm.provider = r.provider /\ (c.llm.model # Nothing => r.provider # "stub")
  BY Names DEF Collected, collect_interactive, collect_non_interactive
<1>3. Chosen(promise, c.llm)
  BY <1>1, <1>2 DEF Chosen
<1> QED
  BY <1>1, <1>3, CollectedProvided DEF Ready

-----------------------------------------------------------------------------
(* From the request to the daemon.  A command that has the files to itself   *)
(* carries what makes its promise ready; what the files were last asked for  *)
(* is ready in them; a daemon that has read one of them has read what is     *)
(* still there, and one that has read both builds what was promised.         *)
ConfStages == {"readYaml", "writeYaml", "readEnv", "writeEnv"}

DraftOK(t) ==
    /\ cmd[t].at = "collect" => cmd[t].op \in DOMAIN Requests
    /\ cmd[t].at \notin ConfStages => draft[t].promise = NoPromise
    /\ draft[t].alone =>
          /\ cmd[t].at = "writeYaml" => draft[t].yaml = yaml
          /\ cmd[t].at = "writeEnv" => draft[t].env = envfile
          /\ draft[t].promise # NoPromise =>
                /\ cmd[t].at \in {"readYaml", "writeYaml"} =>
                      Ready(draft[t].promise, draft[t].llm, envfile \cup draft[t].updates)
                /\ cmd[t].at \in {"readEnv", "writeEnv"} =>
                      Ready(draft[t].promise, yaml.llm, envfile \cup draft[t].updates)

AskedInv == asked # NoPromise => Ready(asked, yaml.llm, envfile)

Loading == {"none", "other", "boot", "load"}

ServeOK(p) ==
    conf[p].asked # NoPromise =>
        /\ proc[p] \notin {"none", "other", "boot"}
        /\ proc[p] = "load" => conf[p].asked = asked /\ envfile \subseteq conf[p].environ
        /\ proc[p] \notin Loading => Honours(Llm(p), conf[p].asked)

ConfType == conf \in [Pids -> [environ : SUBSET EnvVars, config : Yaml,
                               asked : Promise \cup {NoPromise}]]

FilesInv == ConfTypeOK /\ AskedInv /\ \A t \in Terminals : DraftOK(t)
ServeInv == ConfType /\ \A p \in Pids : ServeOK(p)

LEMMA InitConf == CliInit => FilesInv /\ ServeInv
<1> SUFFICES ASSUME CliInit PROVE FilesInv /\ ServeInv
  OBVIOUS
<1>1. NoYaml \in Yaml /\ NoYaml.llm \in LlmBlock
  BY DEF NoYaml, Yaml, LlmBlock
<1>2. ConfTypeOK
  BY <1>1 DEF CliInit, ConfInit, ConfTypeOK, NoDraft
<1>3. AskedInv
  BY DEF CliInit, ConfInit, AskedInv
<1>4. ASSUME NEW t \in Terminals PROVE DraftOK(t)
  BY DEF CliInit, ConfInit, DraftOK, NoDraft, ConfStages
<1>5. ServeInv
  BY <1>1 DEF CliInit, ServeInv, ConfType, ServeOK, NoConf
<1> QED
  BY <1>2, <1>3, <1>4, <1>5 DEF FilesInv

(* Processes come, go on and end; the files are left alone. *)
LEMMA EndsServe ==
    ASSUME ServeInv, ProcInv, UNCHANGED confVars, NEW p \in Pids,
           conf' = [conf EXCEPT ![p] = NoConf], Become(p, "none")
    PROVE  ServeInv'
<1>1. NoConf \in [environ : SUBSET EnvVars, config : Yaml, asked : Promise \cup {NoPromise}]
  BY DEF NoConf, NoYaml, Yaml, LlmBlock
<1>2. ConfType'
  BY <1>1 DEF ServeInv, ConfType
<1>3. ASSUME NEW q \in Pids PROVE ServeOK(q)'
  <2>1. CASE q = p
    BY <2>1 DEF ServeInv, ConfType, ServeOK, NoConf
  <2>2. CASE q # p
    <3>1. conf'[q] = conf[q] /\ proc'[q] = proc[q] /\ ServeOK(q)
      BY <2>2 DEF ServeInv, ConfType, ProcInv, Become
    <3> QED
      BY <3>1 DEF ServeOK, Llm, confVars
  <2> QED
    BY <2>1, <2>2
<1> QED
  BY <1>2, <1>3 DEF ServeInv

LEMMA LaunchServe ==
    ASSUME ServeInv, ProcInv, UNCHANGED confVars, NEW p \in Pids, NEW environ \in SUBSET EnvVars,
           Launch(p, environ)
    PROVE  ServeInv'
<1>1. proc[p] = "none" /\ conf[p].asked = NoPromise
  BY DEF Launch, Free, ProcInv, ServeInv, ServeOK
<1>2. ConfType' /\ conf'[p].asked = NoPromise
  BY <1>1 DEF ServeInv, ConfType, Launch
<1>3. ASSUME NEW q \in Pids PROVE ServeOK(q)'
  <2>1. CASE q = p
    BY <1>2, <2>1 DEF ServeOK
  <2>2. CASE q # p
    <3>1. conf'[q] = conf[q] /\ proc'[q] = proc[q] /\ ServeOK(q)
      BY <2>2 DEF ServeInv, ConfType, ProcInv, Launch, Become
    <3> QED
      BY <3>1 DEF ServeOK, Llm, confVars
  <2> QED
    BY <2>1, <2>2
<1> QED
  BY <1>2, <1>3 DEF ServeInv

(* A process that has loaded its configuration, or never will, goes on. *)
LEMMA PhaseServe ==
    ASSUME ServeInv, ProcInv, UNCHANGED settings, NEW p \in Pids, NEW phase,
           UNCHANGED proc \/ Become(p, phase),
           \/ proc[p] \notin Loading /\ phase \notin Loading
           \/ proc[p] = "none" /\ phase = "other"
    PROVE  ServeInv'
<1>1. UNCHANGED <<conf, confVars, envfile, asked>>
  BY DEF settings, confVars
<1>2. ASSUME NEW q \in Pids PROVE ServeOK(q)'
  <2>1. proc'[q] = proc[q] \/ (q = p /\ proc'[q] = phase)
    BY DEF Become, ProcInv
  <2>2. ServeOK(q) /\ Llm(q)' = Llm(q)
    BY <1>1 DEF ServeInv, Llm
  <2> QED
    BY <1>1, <2>1, <2>2 DEF ServeOK, Loading
<1> QED
  BY <1>1, <1>2 DEF ServeInv, ConfType

LEMMA MergeEnvServe ==
    ASSUME FilesInv, ServeInv, ProcInv, NEW p \in Pids, MergeEnv(p)
    PROVE  ServeInv'
<1>1. /\ conf'[p] = [environ |-> conf[p].environ \cup (envfile \cap EnvVars),
                     config |-> conf[p].config, asked |-> asked]
      /\ \A q \in Pids \ {p} : conf'[q] = conf[q] /\ proc'[q] = proc[q]
      /\ proc'[p] = "load" /\ DOMAIN conf' = Pids
  BY DEF MergeEnv, merge_user_llm_env_file, Mergeable, ServeInv, ConfType, ProcInv, Become
<1>2. envfile \subseteq EnvVars /\ asked \in Promise \cup {NoPromise}
  BY DEF FilesInv, ConfTypeOK
<1>3. UNCHANGED <<envfile, asked>>
  BY DEF MergeEnv, confVars
<1>4. ConfType'
  BY <1>1, <1>2 DEF ServeInv, ConfType, MergeEnv, merge_user_llm_env_file, Mergeable
<1>5. ServeOK(p)'
  BY <1>1, <1>2, <1>3 DEF ServeOK, Loading
<1>6. ASSUME NEW q \in Pids \ {p} PROVE ServeOK(q)'
  BY <1>1, <1>3 DEF ServeInv, ServeOK, Llm
<1> QED
  BY <1>4, <1>5, <1>6 DEF ServeInv

LEMMA LoadedBlock ==
    ASSUME yaml \in Yaml
    PROVE  /\ load_config \in Yaml
           /\ \A promise, env : Ready(promise, yaml.llm, env) => Ready(promise, load_config.llm, env)
<1>1. yaml.llm \in LlmBlock
  BY DEF Yaml
<1>2. /\ load_config.llm \in LlmBlock
      /\ load_config.llm.inline = yaml.llm.inline /\ load_config.llm.model = yaml.llm.model
      /\ yaml.llm.provider # Nothing => load_config.llm.provider = yaml.llm.provider
  BY <1>1 DEF load_config, LlmBlock, Providers
<1>3. load_config \in Yaml
  BY <1>2 DEF load_config, Yaml
<1>4. Nothing \notin Providers
  BY Names DEF Nothing, Providers
<1>5. ASSUME NEW promise, NEW env, Ready(promise, yaml.llm, env)
      PROVE  Ready(promise, load_config.llm, env)
  BY <1>2, <1>4, <1>5 DEF Ready, Chosen, Provided
<1> QED
  BY <1>3, <1>5

LEMMA BeginAcquireServe ==
    ASSUME FilesInv, ServeInv, ProcInv, NEW p \in Pids, BeginAcquire(p)
    PROVE  ServeInv'
<1>1. /\ conf'[p] = [environ |-> conf[p].environ, config |-> load_config, asked |-> conf[p].asked]
      /\ \A q \in Pids \ {p} : conf'[q] = conf[q] /\ proc'[q] = proc[q]
      /\ proc[p] = "load" /\ proc'[p] = "acquire" /\ DOMAIN conf' = Pids
  BY DEF BeginAcquire, ServeInv, ConfType, ProcInv, Become
<1>2. yaml \in Yaml /\ load_config \in Yaml
  BY LoadedBlock DEF FilesInv, ConfTypeOK
<1>3. UNCHANGED <<envfile, asked>>
  BY DEF BeginAcquire, confVars
<1>4. ConfType'
  BY <1>1, <1>2 DEF ServeInv, ConfType, BeginAcquire
<1>5. ASSUME conf[p].asked # NoPromise PROVE Honours(Llm(p)', conf[p].asked)
  <2>1. conf[p].asked = asked /\ envfile \subseteq conf[p].environ
    BY <1>1, <1>5 DEF ServeInv, ServeOK
  <2>2. Ready(asked, load_config.llm, envfile)
    BY <1>2, <1>5, <2>1, LoadedBlock DEF FilesInv, AskedInv
  <2>3. load_config.llm \in LlmBlock
    BY <1>2 DEF Yaml
  <2>4. Honours(build_llm(load_config.llm, conf[p].environ), asked)
    BY <2>1, <2>2, <2>3, ReadyHonours
  <2>5. Llm(p)' = build_llm(load_config.llm, conf[p].environ)
    BY <1>1 DEF Llm
  <2> QED
    BY <2>1, <2>4, <2>5
<1>6. ServeOK(p)'
  BY <1>1, <1>5 DEF ServeOK, Loading
<1>7. ASSUME NEW q \in Pids \ {p} PROVE ServeOK(q)'
  BY <1>1, <1>3 DEF ServeInv, ServeOK, Llm
<1> QED
  BY <1>4, <1>6, <1>7 DEF ServeInv

LEMMA DaemonServe ==
    ASSUME CInv, FilesInv, ServeInv, NEW p \in Pids,
           DaemonStep(p) \/ OtherStarts(p) \/ Crash(p)
    PROVE  ServeInv' /\ UNCHANGED <<confVars, cmd>>
<1>0. ProcInv
  BY DEF CInv
<1>1. UNCHANGED <<confVars, cmd>>
  BY DEF DaemonStep, OtherStarts, Crash, MergeEnv, BeginAcquire, PidStep, Acquired, Refused,
         BindHttp, InstallHandlers, Drain, ReleasePid, Exit, settings
<1>2. CASE MergeEnv(p)
  BY <1>0, <1>1, <1>2, MergeEnvServe
<1>3. CASE BeginAcquire(p)
  BY <1>0, <1>1, <1>3, BeginAcquireServe
<1>4. CASE PidStep(p)
  <2>1. UNCHANGED <<proc, settings>> /\ proc[p] \notin Loading /\ "run" \notin Loading
    BY <1>4 DEF PidStep, Loading
  <2> QED
    BY <1>0, <1>1, <2>1, PhaseServe
<1>5. CASE Refused(p) \/ Crash(p) \/ Exit(p)
  <2>1. conf' = [conf EXCEPT ![p] = NoConf] /\ Become(p, "none")
    BY <1>5 DEF Refused, Crash, Exit, Dies
  <2> QED
    BY <1>0, <1>1, <2>1, EndsServe
<1>6. CASE Acquired(p) \/ BindHttp(p) \/ InstallHandlers(p) \/ Drain(p) \/ ReleasePid(p)
  <2>1. PICK phase : /\ Become(p, phase) /\ phase \in {"build", "serve", "release", "run", "drain"}
                     /\ proc[p] \in {"acquire", "build", "serve", "run", "drain"}
                     /\ UNCHANGED settings
    BY <1>6 DEF Acquired, BindHttp, InstallHandlers, Drain, ReleasePid
  <2>2. proc[p] \notin Loading /\ phase \notin Loading
    BY <2>1 DEF Loading
  <2> QED
    BY <1>0, <1>1, <2>1, <2>2, PhaseServe
<1>7. CASE OtherStarts(p)
  <2>1. proc[p] = "none" /\ Become(p, "other") /\ UNCHANGED settings
    BY <1>0, <1>7 DEF OtherStarts, Free, ProcInv
  <2> QED
    BY <1>0, <1>1, <2>1, PhaseServe
<1> QED
  BY <1>2, <1>3, <1>4, <1>5, <1>6, <1>7 DEF DaemonStep

LEMMA StillFiles ==
    ASSUME FilesInv, UNCHANGED <<confVars, cmd>>
    PROVE  FilesInv'
<1>1. UNCHANGED <<yaml, envfile, draft, asked, cmd>>
  BY DEF confVars
<1> QED
  BY <1>1 DEF FilesInv, ConfTypeOK, AskedInv, DraftOK

-----------------------------------------------------------------------------
(* The commands.  Where one goes, and that the others stay. *)
Reaches(t, stage) == cmd'[t].at = stage /\ \A u \in Terminals \ {t} : cmd'[u] = cmd[u]

LEMMA StageOf ==
    ASSUME CmdInv, NEW t \in Terminals
    PROVE  /\ \A stage : Goes(t, stage) => Reaches(t, stage)
           /\ \A stage, p : GoesWith(t, stage, p) => Reaches(t, stage)
           /\ \A code : Returns(t, code) => Reaches(t, "idle")
<1>1. cmd \in [Terminals -> Command] /\ cmd[t] \in Command
  BY DEF CmdInv
<1>2. ASSUME NEW stage, Goes(t, stage) PROVE Reaches(t, stage)
  BY <1>1, <1>2 DEF Goes, Reaches, Command
<1>3. ASSUME NEW stage, NEW p, GoesWith(t, stage, p) PROVE Reaches(t, stage)
  BY <1>1, <1>3 DEF GoesWith, Reaches, Command
<1>4. ASSUME NEW code, Returns(t, code) PROVE Reaches(t, "idle")
  BY <1>1, <1>4 DEF Returns, Reaches
<1> QED
  BY <1>2, <1>3, <1>4

(* The commands that do not configure leave the files alone. *)
Elsewhere(t) ==
    /\ UNCHANGED confVars
    /\ cmd[t].at \notin ConfStages \cup {"collect"}
    /\ \E stage : Reaches(t, stage) /\ stage \notin ConfStages \cup {"collect"}
    /\ \/ UNCHANGED <<proc, conf>>
       \/ \E p \in Pids : \E environ \in SUBSET EnvVars : Launch(p, environ)
       \/ \E p \in Pids : Dies(p)

LEMMA SignalProcess ==
    ASSUME TypeOK, NEW p, NEW force, Signal(p, force)
    PROVE  UNCHANGED <<proc, conf>> \/ \E q \in Pids : Dies(q)
  BY DEF Signal, Dies, Kill, TypeOK

LEMMA GoesAfterStopStage ==
    ASSUME CmdInv, NEW t \in Terminals, GoesAfterStop(t)
    PROVE  \E stage \in {"idle", "remove", "start"} : Reaches(t, stage)
  BY StageOf DEF GoesAfterStop

LEMMA CommandElsewhere ==
    ASSUME TypeOK, CmdInv, NEW t \in Terminals, CommandStep(t), ~ConfigureStep(t)
    PROVE  Elsewhere(t)
<1> USE StageOf DEF ConfStages
<1>0. Shell[t] \in SUBSET EnvVars
  BY ConfiguringAssumption
<1>1. CASE UpProbe(t)
  BY <1>1 DEF UpProbe, Looks, settings, Elsewhere
<1>2. CASE UpSpawn(t)
  BY <1>0, <1>2 DEF UpSpawn, Looks, settings, Elsewhere
<1>3. CASE UpWait(t)
  BY <1>3 DEF UpWait, Looks, settings, Elsewhere
<1>4. CASE UpTerminate(t)
  <2>1. UNCHANGED confVars /\ cmd[t].at \notin ConfStages \cup {"collect"}
    BY <1>4 DEF UpTerminate, Looks, RequestFails, settings
  <2>2. \E stage \in {"idle", "reap"} : Reaches(t, stage)
    BY <1>4 DEF UpTerminate
  <2>3. UNCHANGED <<proc, conf>> \/ \E p \in Pids : Dies(p)
    BY <1>4, SignalProcess DEF UpTerminate, Looks, RequestFails, settings
  <2> QED
    BY <2>1, <2>2, <2>3 DEF Elsewhere
<1>5. CASE UpReap(t)
  <2>1. UNCHANGED confVars /\ cmd[t].at \notin ConfStages \cup {"collect"}
    BY <1>5 DEF UpReap, Looks, RequestFails, settings
  <2>2. \E stage \in {"idle"} : Reaches(t, stage)
    BY <1>5 DEF UpReap
  <2>3. UNCHANGED <<proc, conf>> \/ \E p \in Pids : Dies(p)
    BY <1>5, SignalProcess DEF UpReap, Looks, RequestFails, settings
  <2> QED
    BY <2>1, <2>2, <2>3 DEF Elsewhere
<1>6. CASE UpReadPid(t)
  BY <1>6 DEF UpReadPid, Looks, settings, Elsewhere
<1>7. CASE UpAskDrain(t)
  <2>1. UNCHANGED confVars /\ cmd[t].at \notin ConfStages \cup {"collect"}
    BY <1>7 DEF UpAskDrain, Looks, RequestFails, settings
  <2>2. \E stage \in {"idle"} : Reaches(t, stage)
    BY <1>7 DEF UpAskDrain
  <2>3. UNCHANGED <<proc, conf>> \/ \E p \in Pids : Dies(p)
    BY <1>7, SignalProcess DEF UpAskDrain, Looks, RequestFails, settings
  <2> QED
    BY <2>1, <2>2, <2>3 DEF Elsewhere
<1>8. CASE DownRead(t)
  <2>1. UNCHANGED <<confVars, proc, conf>> /\ cmd[t].at \notin ConfStages \cup {"collect"}
    BY <1>8 DEF DownRead, Looks, settings
  <2>2. ASSUME NEW p \in ReadPid,
               cmd' = [cmd EXCEPT ![t] = [@ EXCEPT !.at = "signal", !.pid = p, !.saw = owned]]
        PROVE  Reaches(t, "signal")
    BY <2>2 DEF CmdInv, Command, Reaches
  <2>3. \E stage \in {"idle", "signal"} : Reaches(t, stage)
    BY <1>8, <2>2 DEF DownRead
  <2> QED
    BY <2>1, <2>3 DEF Elsewhere
<1>9. CASE DownSignal(t)
  <2>1. UNCHANGED confVars /\ cmd[t].at \notin ConfStages \cup {"collect"}
    BY <1>9 DEF DownSignal, Looks, RequestFails, settings
  <2>2. \E stage \in {"idle", "gone"} : Reaches(t, stage)
    BY <1>9 DEF DownSignal
  <2>3. UNCHANGED <<proc, conf>> \/ \E p \in Pids : Dies(p)
    BY <1>9, SignalProcess DEF DownSignal, Looks, RequestFails, settings
  <2> QED
    BY <2>1, <2>2, <2>3 DEF Elsewhere
<1>10. CASE DownWait(t)
  BY <1>10 DEF DownWait, Looks, settings, Elsewhere
<1>11. CASE WriteUnit(t)
  BY <1>11 DEF WriteUnit, settings, Elsewhere
<1>12. CASE RemoveUnit(t)
  BY <1>12 DEF RemoveUnit, settings, Elsewhere
<1>13. CASE Enable(t)
  BY <1>13 DEF Enable, RequestFails, Looks, settings, Elsewhere
<1>14. CASE CheckUnit(t)
  BY <1>14 DEF CheckUnit, Looks, settings, Elsewhere
<1>15. CASE StopUnit(t)
  <2>1. UNCHANGED confVars /\ cmd[t].at \notin ConfStages \cup {"collect"}
    BY <1>15 DEF StopUnit, Looks, RequestFails, settings
  <2>2. \E stage \in {"idle", "remove", "start", "stopped"} : Reaches(t, stage)
    BY <1>15, GoesAfterStopStage DEF StopUnit
  <2>3. UNCHANGED <<proc, conf>> \/ \E p \in Pids : Dies(p)
    BY <1>15, SignalProcess DEF StopUnit, Looks, RequestFails, settings
  <2> QED
    BY <2>1, <2>2, <2>3 DEF Elsewhere
<1>16. CASE UnitStopped(t)
  <2>1. UNCHANGED confVars /\ cmd[t].at \notin ConfStages \cup {"collect"}
    BY <1>16 DEF UnitStopped, Looks, RequestFails, settings
  <2>2. \E stage \in {"idle", "remove", "start"} : Reaches(t, stage)
    BY <1>16, GoesAfterStopStage DEF UnitStopped
  <2>3. UNCHANGED <<proc, conf>> \/ \E p \in Pids : Dies(p)
    BY <1>16, SignalProcess DEF UnitStopped, Looks, RequestFails, settings
  <2> QED
    BY <2>1, <2>2, <2>3 DEF Elsewhere
<1>17. CASE StartUnit(t)
  BY <1>17 DEF StartUnit, RequestFails, Looks, settings, Elsewhere
<1> QED
  BY <1>1, <1>2, <1>3, <1>4, <1>5, <1>6, <1>7, <1>8, <1>9, <1>10, <1>11, <1>12, <1>13, <1>14,
     <1>15, <1>16, <1>17 DEF CommandStep

LEMMA ElsewhereConf ==
    ASSUME CInv, FilesInv, ServeInv, NEW t \in Terminals, Elsewhere(t)
    PROVE  FilesInv' /\ ServeInv'
<1>1. UNCHANGED <<yaml, envfile, draft, asked>>
  BY DEF Elsewhere, confVars
<1>2. ASSUME NEW u \in Terminals PROVE DraftOK(u)'
  <2>1. DraftOK(u)
    BY DEF FilesInv
  <2>2. CASE u = t
    BY <1>1, <2>1, <2>2 DEF Elsewhere, Reaches, DraftOK, ConfStages
  <2>3. CASE u # t
    <3>1. cmd'[u] = cmd[u]
      BY <2>3 DEF Elsewhere, Reaches
    <3> QED
      BY <1>1, <2>1, <3>1 DEF DraftOK
  <2> QED
    BY <2>2, <2>3
<1>3. FilesInv'
  BY <1>1, <1>2 DEF FilesInv, ConfTypeOK, AskedInv
<1>4. ServeInv'
  <2>1. ProcInv /\ UNCHANGED confVars
    BY DEF CInv, Elsewhere
  <2>2. CASE UNCHANGED <<proc, conf>>
    BY <1>1, <2>2 DEF ServeInv, ConfType, ServeOK, Llm
  <2>3. ASSUME NEW p \in Pids, NEW environ \in SUBSET EnvVars, Launch(p, environ) PROVE ServeInv'
    BY <2>1, <2>3, LaunchServe
  <2>4. ASSUME NEW p \in Pids, Dies(p) PROVE ServeInv'
    BY <2>1, <2>4, EndsServe DEF Dies
  <2> QED
    BY <2>2, <2>3, <2>4 DEF Elsewhere
<1> QED
  BY <1>3, <1>4

LEMMA BeginConf ==
    ASSUME CmdInv, FilesInv, ServeInv, NEW t \in Terminals, Begin(t)
    PROVE  FilesInv' /\ ServeInv'
<1>1. UNCHANGED <<yaml, envfile, draft, asked, proc, conf>>
  BY DEF Begin, settings, confVars
<1>2. /\ cmd[t].at = "idle"
      /\ \E op \in Ops : cmd'[t].at = First(op) /\ cmd'[t].op = op
      /\ \A u \in Terminals \ {t} : cmd'[u] = cmd[u]
  <2>1. cmd[t].todo \in Seq(Ops) /\ cmd[t].todo # <<>> /\ cmd \in [Terminals -> Command]
    BY DEF CmdInv, Command, Begin
  <2>2. Head(cmd[t].todo) \in Ops
    BY <2>1
  <2> QED
    BY <2>1, <2>2 DEF Begin
<1>3. \A op \in Ops : /\ First(op) \notin {"writeYaml", "readEnv", "writeEnv"}
                      /\ First(op) = "collect" => op \in DOMAIN Requests
  BY CliAssumption DEF First, Ops, Commands
<1>4. ASSUME NEW u \in Terminals PROVE DraftOK(u)'
  <2>1. DraftOK(u)
    BY DEF FilesInv
  <2>2. CASE u = t
    BY <1>1, <1>2, <1>3, <2>1, <2>2 DEF DraftOK, ConfStages
  <2>3. CASE u # t
    <3>1. cmd'[u] = cmd[u]
      BY <1>2, <2>3
    <3> QED
      BY <1>1, <2>1, <3>1 DEF DraftOK
  <2> QED
    BY <2>2, <2>3
<1>5. FilesInv'
  BY <1>1, <1>4 DEF FilesInv, ConfTypeOK, AskedInv
<1>6. ServeInv'
  BY <1>1 DEF ServeInv, ConfType, ServeOK, Llm
<1> QED
  BY <1>5, <1>6

-----------------------------------------------------------------------------
(* opencoat configure *)
LEMMA OvertakesServe ==
    ASSUME ServeInv, Overtakes, UNCHANGED proc
    PROVE  ServeInv'
<1>1. ConfType'
  BY DEF ServeInv, ConfType, Overtakes
<1>2. ASSUME NEW p \in Pids PROVE ServeOK(p)'
  <2>1. CASE proc[p] = "load"
    <3>1. conf'[p].asked = NoPromise
      BY <2>1 DEF ServeInv, ConfType, Overtakes
    <3> QED
      BY <3>1 DEF ServeOK
  <2>2. CASE proc[p] # "load"
    <3>1. conf'[p] = conf[p] /\ ServeOK(p)
      BY <2>2 DEF ServeInv, Overtakes
    <3> QED
      BY <2>2, <3>1 DEF ServeOK, Llm
  <2> QED
    BY <2>1, <2>2
<1> QED
  BY <1>1, <1>2 DEF ServeInv

(* A draft, field by field. *)
Draft == [llm : LlmBlock, updates : SUBSET EnvVars, yaml : Yaml, env : SUBSET EnvVars,
          promise : Promise \cup {NoPromise}, alone : BOOLEAN]

LEMMA CollectFiles ==
    ASSUME CmdInv, FilesInv, NEW t \in Terminals, ConfigureCollect(t)
    PROVE  FilesInv'
<1> DEFINE r == Requests[cmd[t].op]
           c == Collected(r, Shell[t])
<1>1. cmd[t].at = "collect" /\ r \in Request /\ Shell[t] \in SUBSET EnvVars
      /\ envfile \subseteq EnvVars /\ draft \in [Terminals -> Draft]
  BY ConfiguringAssumption DEF ConfigureCollect, FilesInv, DraftOK, ConfTypeOK, Draft
<1>2. CASE Collect(t, r) /\ Goes(t, "readYaml")
  <2>1. UNCHANGED <<yaml, envfile, asked>> /\ c.accepted
    BY <1>2 DEF Collect
  <2>2. c.llm \in LlmBlock /\ c.updates \subseteq EnvVars
    BY <1>1, CollectedType
  <2>3. PICK promise :
           /\ promise = [provider |-> r.provider, model |-> c.llm.model,
                         backed |-> Backed(r, Shell[t])]
           /\ draft' = [draft EXCEPT ![t] =
                 [NoDraft EXCEPT !.llm = c.llm, !.updates = c.updates, !.alone = TRUE,
                                 !.promise = promise]]
    BY <1>2, Zenon DEF Collect
  <2>4. promise \in Promise \cup {NoPromise}
    <3>1. Backed(r, Shell[t]) \in BOOLEAN
      BY DEF Backed
    <3> QED
      BY <1>1, <2>2, <2>3, <3>1 DEF Promise, Request, LlmBlock
  <2>5. promise # NoPromise => Ready(promise, c.llm, envfile \cup c.updates)
    BY <1>1, <2>1, <2>3, CollectedReady
  <2>6. /\ draft'[t] = [llm |-> c.llm, updates |-> c.updates, yaml |-> NoYaml, env |-> {},
                        promise |-> promise, alone |-> TRUE]
        /\ DOMAIN draft' = Terminals
        /\ \A u \in Terminals \ {t} : draft'[u] = draft[u]
    BY <1>1, <2>3 DEF NoDraft
  <2>7. draft'[t] \in Draft
    BY <2>2, <2>4, <2>6 DEF Draft, NoYaml, Yaml, LlmBlock
  <2>8. draft' \in [Terminals -> Draft]
    BY <1>1, <2>3, <2>6, <2>7
  <2>9. Reaches(t, "readYaml")
    BY <1>2, StageOf
  <2>10. DraftOK(t)'
    BY <2>1, <2>5, <2>6, <2>9 DEF DraftOK, Reaches, ConfStages
  <2>11. ASSUME NEW u \in Terminals \ {t} PROVE DraftOK(u)'
    <3>1. cmd'[u] = cmd[u] /\ draft'[u] = draft[u] /\ DraftOK(u)
      BY <2>6, <2>9 DEF Reaches, FilesInv
    <3> QED
      BY <2>1, <3>1 DEF DraftOK
  <2> QED
    BY <2>1, <2>8, <2>10, <2>11 DEF FilesInv, ConfTypeOK, AskedInv, Draft
<1>3. CASE Refuses(t, r) /\ Returns(t, 2)
  <2>1. UNCHANGED <<yaml, envfile, draft, asked>> /\ Reaches(t, "idle")
    BY <1>3, StageOf DEF Refuses, confVars
  <2>2. ASSUME NEW u \in Terminals PROVE DraftOK(u)'
    <3>1. DraftOK(u)
      BY DEF FilesInv
    <3>2. CASE u = t
      BY <1>1, <2>1, <3>1, <3>2 DEF DraftOK, Reaches, ConfStages
    <3>3. CASE u # t
      <4>1. cmd'[u] = cmd[u]
        BY <2>1, <3>3 DEF Reaches
      <4> QED
        BY <2>1, <3>1, <4>1 DEF DraftOK
    <3> QED
      BY <3>2, <3>3
  <2> QED
    BY <2>1, <2>2 DEF FilesInv, ConfTypeOK, AskedInv
<1> QED
  BY <1>2, <1>3 DEF ConfigureCollect

LEMMA NoDraftFits ==
    NoDraft \in Draft /\ NoDraft.promise = NoPromise /\ NoDraft.alone = FALSE
  BY DEF NoDraft, Draft, NoYaml, Yaml, LlmBlock

(* A read goes into the terminal's own draft ... *)
LEMMA ReadFiles ==
    ASSUME FilesInv, NEW t \in Terminals, UNCHANGED <<yaml, envfile, asked>>,
           NEW stage, Reaches(t, stage), NEW d \in Draft, draft' = [draft EXCEPT ![t] = d],
           DraftOK(t)'
    PROVE  FilesInv'
<1>1. draft \in [Terminals -> Draft]
  BY DEF FilesInv, ConfTypeOK, Draft
<1>2. draft' \in [Terminals -> Draft]
  BY <1>1
<1>3. ASSUME NEW u \in Terminals \ {t} PROVE DraftOK(u)'
  <2>1. cmd'[u] = cmd[u] /\ draft'[u] = draft[u] /\ DraftOK(u)
    BY <1>1 DEF Reaches, FilesInv
  <2> QED
    BY <2>1 DEF DraftOK
<1> QED
  BY <1>2, <1>3 DEF FilesInv, ConfTypeOK, AskedInv, Draft

LEMMA ReadYamlFiles ==
    ASSUME CmdInv, FilesInv, NEW t \in Terminals, ConfigureReadYaml(t)
    PROVE  FilesInv'
<1>1. /\ draft \in [Terminals -> Draft] /\ yaml \in Yaml /\ DraftOK(t)
      /\ cmd[t].at = "readYaml" /\ Reaches(t, "writeYaml") /\ UNCHANGED <<yaml, envfile, asked>>
  BY StageOf DEF FilesInv, ConfTypeOK, Draft, ConfigureReadYaml, load_yaml_dict
<1>2. PICK d : /\ d = [draft[t] EXCEPT !.yaml = yaml, !.alone = @ \/ draft[t] = NoDraft]
               /\ draft' = [draft EXCEPT ![t] = d]
  BY Zenon DEF ConfigureReadYaml, load_yaml_dict
<1>3. /\ d.llm = draft[t].llm /\ d.updates = draft[t].updates /\ d.yaml = yaml
      /\ d.promise = draft[t].promise /\ d.alone = (draft[t].alone \/ draft[t] = NoDraft)
  BY <1>1, <1>2 DEF Draft
<1>4. d \in Draft
  BY <1>1, <1>2 DEF Draft
<1>5. draft' = [draft EXCEPT ![t] = d]
  BY <1>2
<1>6. draft'[t] = d
  BY <1>1, <1>5
<1>7. d.alone /\ d.promise # NoPromise => draft[t].alone
  <2>1. draft[t] = NoDraft => d.promise = NoPromise
    BY <1>3, NoDraftFits
  <2>2. d.alone => draft[t].alone \/ draft[t] = NoDraft
    BY <1>3, Zenon
  <2> QED
    BY <2>1, <2>2
<1>8. DraftOK(t)'
  BY <1>1, <1>3, <1>6, <1>7 DEF DraftOK, Reaches, ConfStages
<1> QED
  BY <1>1, <1>4, <1>5, <1>8, ReadFiles

LEMMA ReadEnvFiles ==
    ASSUME CmdInv, FilesInv, NEW t \in Terminals, ConfigureReadEnv(t)
    PROVE  FilesInv'
<1>1. /\ draft \in [Terminals -> Draft] /\ envfile \subseteq EnvVars /\ DraftOK(t)
      /\ cmd[t].at = "readEnv" /\ Reaches(t, "writeEnv") /\ UNCHANGED <<yaml, envfile, asked>>
  BY StageOf DEF FilesInv, ConfTypeOK, Draft, ConfigureReadEnv, parse_env_file
<1>2. PICK d : d = [draft[t] EXCEPT !.env = envfile] /\ draft' = [draft EXCEPT ![t] = d]
  BY Zenon DEF ConfigureReadEnv, parse_env_file
<1>3. /\ d.updates = draft[t].updates /\ d.env = envfile /\ d.alone = draft[t].alone
      /\ d.promise = draft[t].promise /\ d \in Draft
  BY <1>1, <1>2 DEF Draft
<1>4. draft' = [draft EXCEPT ![t] = d]
  BY <1>2
<1>5. draft'[t] = d
  BY <1>1, <1>4
<1>6. DraftOK(t)'
  BY <1>1, <1>3, <1>5 DEF DraftOK, Reaches, ConfStages
<1> QED
  BY <1>1, <1>3, <1>4, <1>6, ReadFiles

(* ... and after a write nobody else has the files to himself. *)
LEMMA WriteFiles ==
    ASSUME FilesInv, NEW t \in Terminals, NEW stage, Reaches(t, stage),
           NEW d \in Draft, Leaves(t, d), yaml' \in Yaml, envfile' \subseteq EnvVars,
           asked' \in Promise \cup {NoPromise}, AskedInv', DraftOK(t)'
    PROVE  FilesInv'
<1>1. draft \in [Terminals -> Draft]
  BY DEF FilesInv, ConfTypeOK, Draft
<1>2. draft' \in [Terminals -> Draft]
  BY <1>1 DEF Leaves, Draft
<1>3. ASSUME NEW u \in Terminals \ {t} PROVE DraftOK(u)'
  <2>1. cmd'[u] = cmd[u] /\ ~draft'[u].alone /\ draft'[u].promise = draft[u].promise /\ DraftOK(u)
    BY <1>1 DEF Reaches, FilesInv, Leaves, Draft
  <2> QED
    BY <2>1 DEF DraftOK
<1> QED
  BY <1>2, <1>3 DEF FilesInv, ConfTypeOK, Draft

LEMMA WriteSectionFiles ==
    ASSUME CmdInv, FilesInv, NEW t \in Terminals, ConfigureDaemon(t)
    PROVE  FilesInv'
<1>1. /\ draft \in [Terminals -> Draft] /\ yaml \in Yaml /\ envfile \subseteq EnvVars
      /\ asked \in Promise \cup {NoPromise} /\ AskedInv /\ DraftOK(t)
  BY DEF FilesInv, ConfTypeOK, Draft
<1>2. /\ cmd[t].at = "writeYaml" /\ Reaches(t, "idle") /\ UNCHANGED envfile
      /\ yaml' = [draft[t].yaml EXCEPT !.stores = "sqlite"]
      /\ asked' = IF draft[t].alone THEN asked ELSE NoPromise
      /\ Leaves(t, NoDraft)
  BY StageOf DEF ConfigureDaemon, write_yaml_section
<1>3. yaml' \in Yaml /\ yaml'.llm = draft[t].yaml.llm
  BY <1>1, <1>2 DEF Draft, Yaml
<1>4. AskedInv'
  BY <1>1, <1>2, <1>3 DEF AskedInv, DraftOK
<1>5. draft'[t] = NoDraft
  BY <1>2 DEF Leaves
<1>6. DraftOK(t)'
  BY <1>2, <1>5, NoDraftFits DEF DraftOK, Reaches, ConfStages
<1> QED
  BY <1>1, <1>2, <1>3, <1>4, <1>6, NoDraftFits, WriteFiles

LEMMA WriteEnvFiles ==
    ASSUME CmdInv, FilesInv, NEW t \in Terminals, ConfigureWriteEnv(t)
    PROVE  FilesInv'
<1>1. /\ draft \in [Terminals -> Draft] /\ yaml \in Yaml /\ envfile \subseteq EnvVars
      /\ DraftOK(t)
  BY DEF FilesInv, ConfTypeOK, Draft
<1>2. /\ cmd[t].at = "writeEnv" /\ Reaches(t, "idle") /\ UNCHANGED yaml
      /\ envfile' = draft[t].env \cup draft[t].updates
      /\ asked' = IF draft[t].alone THEN draft[t].promise ELSE NoPromise
      /\ Leaves(t, NoDraft)
  BY StageOf DEF ConfigureWriteEnv, write_env_file
<1>3. envfile' \subseteq EnvVars /\ asked' \in Promise \cup {NoPromise}
  BY <1>1, <1>2 DEF Draft
<1>4. AskedInv'
  <2> SUFFICES ASSUME asked' # NoPromise PROVE Ready(asked', yaml'.llm, envfile')
    BY DEF AskedInv
  <2>1. draft[t].alone /\ draft[t].promise # NoPromise /\ asked' = draft[t].promise
    BY <1>2
  <2>2. draft[t].env = envfile /\ Ready(draft[t].promise, yaml.llm, envfile \cup draft[t].updates)
    BY <1>1, <1>2, <2>1 DEF DraftOK
  <2> QED
    BY <1>2, <2>1, <2>2
<1>5. draft'[t] = NoDraft
  BY <1>2 DEF Leaves
<1>6. DraftOK(t)'
  BY <1>2, <1>5, NoDraftFits DEF DraftOK, Reaches, ConfStages
<1> QED
  BY <1>1, <1>2, <1>3, <1>4, <1>6, NoDraftFits, WriteFiles

LEMMA WriteLlmFiles ==
    ASSUME CmdInv, FilesInv, NEW t \in Terminals, ConfigureLlm(t)
    PROVE  FilesInv'
<1> DEFINE d == draft[t]
           done == d.updates = {}
<1>1. /\ draft \in [Terminals -> Draft] /\ d \in Draft /\ yaml \in Yaml /\ envfile \subseteq EnvVars
      /\ DraftOK(t)
  BY DEF FilesInv, ConfTypeOK, Draft
<1>2. /\ cmd[t].at = "writeYaml" /\ UNCHANGED envfile
      /\ Reaches(t, IF done THEN "idle" ELSE "readEnv")
      /\ yaml' = [d.yaml EXCEPT !.llm = Merged(@, d.llm)]
      /\ asked' = IF done /\ d.alone THEN d.promise ELSE NoPromise
      /\ Leaves(t, IF done THEN NoDraft ELSE d)
  BY StageOf DEF ConfigureLlm, write_yaml_llm
<1>3. d.yaml \in Yaml /\ d.yaml.llm \in LlmBlock /\ d.llm \in LlmBlock
      /\ d.promise \in Promise \cup {NoPromise}
  BY <1>1 DEF Draft, Yaml
<1>4. Merged(d.yaml.llm, d.llm) \in LlmBlock
  BY <1>3 DEF Merged, LlmBlock, Or
<1>5. yaml' \in Yaml /\ yaml'.llm = Merged(d.yaml.llm, d.llm)
  BY <1>2, <1>3, <1>4 DEF Yaml
<1>6. d.alone /\ d.promise # NoPromise => Ready(d.promise, yaml'.llm, envfile \cup d.updates)
  BY <1>1, <1>2, <1>3, <1>5, MergedReady DEF DraftOK
<1>7. asked' \in Promise \cup {NoPromise}
  BY <1>2, <1>3
<1>8. AskedInv'
  <2> SUFFICES ASSUME asked' # NoPromise PROVE Ready(asked', yaml'.llm, envfile')
    BY DEF AskedInv
  <2>1. done /\ d.alone /\ d.promise # NoPromise /\ asked' = d.promise
    BY <1>2
  <2>2. envfile \cup d.updates = envfile'
    BY <1>2, <2>1
  <2> QED
    BY <1>6, <2>1, <2>2
<1>9. CASE done
  <2>1. Reaches(t, "idle") /\ Leaves(t, NoDraft)
    BY <1>2, <1>9
  <2>2. draft'[t] = NoDraft
    BY <2>1 DEF Leaves
  <2>3. DraftOK(t)'
    BY <2>1, <2>2, NoDraftFits DEF DraftOK, Reaches, ConfStages
  <2> QED
    BY <1>1, <1>2, <1>5, <1>7, <1>8, <2>1, <2>3, NoDraftFits, WriteFiles
<1>10. CASE ~done
  <2>1. Reaches(t, "readEnv") /\ Leaves(t, d)
    BY <1>2, <1>10
  <2>2. draft'[t] = d
    BY <2>1 DEF Leaves
  <2>3. DraftOK(t)'
    BY <1>2, <1>6, <2>1, <2>2 DEF DraftOK, Reaches, ConfStages
  <2> QED
    BY <1>1, <1>2, <1>5, <1>7, <1>8, <2>1, <2>3, WriteFiles
<1> QED
  BY <1>9, <1>10

LEMMA ConfigureConf ==
    ASSUME CmdInv, FilesInv, ServeInv, NEW t \in Terminals, ConfigureStep(t)
    PROVE  FilesInv' /\ ServeInv'
<1>1. CASE ConfigureCollect(t) \/ ConfigureReadYaml(t) \/ ConfigureReadEnv(t)
  <2>1. UNCHANGED <<proc, conf, envfile, asked>>
    BY <1>1 DEF ConfigureCollect, ConfigureReadYaml, ConfigureReadEnv, NoProcess, OnlyFiles,
                Collect, Refuses, load_yaml_dict, parse_env_file, confVars
  <2>2. ServeInv'
    BY <2>1 DEF ServeInv, ConfType, ServeOK, Llm
  <2> QED
    BY <1>1, <2>2, CollectFiles, ReadYamlFiles, ReadEnvFiles
<1>2. CASE ConfigureDaemon(t) \/ ConfigureLlm(t) \/ ConfigureWriteEnv(t)
  <2>1. UNCHANGED proc /\ Overtakes
    BY <1>2 DEF ConfigureDaemon, ConfigureLlm, ConfigureWriteEnv, OnlyFiles
  <2> QED
    BY <1>2, <2>1, OvertakesServe, WriteSectionFiles, WriteLlmFiles, WriteEnvFiles
<1> QED
  BY <1>1, <1>2 DEF ConfigureStep

LEMMA NextConf ==
    CInv /\ CmdInv /\ FilesInv /\ ServeInv /\ [CliNext]_allVars => FilesInv' /\ ServeInv'
<1> SUFFICES ASSUME CInv, CmdInv, FilesInv, ServeInv, [CliNext]_allVars
             PROVE  FilesInv' /\ ServeInv'
  OBVIOUS
<1>1. ASSUME NEW p \in Pids, DaemonStep(p) \/ OtherStarts(p) \/ Crash(p)
      PROVE  FilesInv' /\ ServeInv'
  BY <1>1, DaemonServe, StillFiles
<1>2. ASSUME NEW t \in Terminals, Begin(t) PROVE FilesInv' /\ ServeInv'
  BY <1>2, BeginConf
<1>3. ASSUME NEW t \in Terminals, CommandStep(t) PROVE FilesInv' /\ ServeInv'
  <2>1. TypeOK
    BY DEF CInv, OInv
  <2>2. CASE ConfigureStep(t)
    BY <2>2, ConfigureConf
  <2>3. CASE ~ConfigureStep(t)
    BY <1>3, <2>1, <2>3, CommandElsewhere, ElsewhereConf
  <2> QED
    BY <2>2, <2>3
<1>4. CASE UNCHANGED allVars
  <2>1. UNCHANGED <<confVars, cmd, proc, conf, envfile, asked>>
    BY <1>4 DEF allVars, cliVars, confVars
  <2>2. ServeInv'
    BY <2>1 DEF ServeInv, ConfType, ServeOK, Llm
  <2> QED
    BY <2>1, <2>2, StillFiles
<1> QED
  BY <1>1, <1>2, <1>3, <1>4 DEF CliNext

(* A daemon that has read its environment and its YAML after `configure llm` *)
(* returned 0, and before another configure touched them, builds the         *)
(* provider and the model that were asked for, for any requests, any shells  *)
(* and any commands in other terminals.  Where the command accepted a        *)
(* credential that it did not put on file it builds that or fails visibly,   *)
(* never another provider or model.                                          *)
THEOREM ConfiguredDaemonServes == CliSpec => []ConfiguredIsServed
<1>1. ServeInv => ConfiguredIsServed
  BY DEF ServeInv, ServeOK, ConfiguredIsServed, Loading
<1> QED
  BY <1>1, InitConf, NextConf, AlwaysCInv, AlwaysCmdInv, PTL DEF CliSpec
=============================================================================
