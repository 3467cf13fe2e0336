------------------------------ MODULE PidFile -------------------------------
(***************************************************************************)
(* PidFile (opencoat_runtime_daemon/_pidfile.py): one path in the file      *)
(* system on which daemons agree who is running.                            *)
(*                                                                         *)
(* Every system call is a step of its own.  A file is named after the       *)
(* PidFile instance that created it: an instance creates one file at a time *)
(* and nobody holds on to a file but its creator, whose write goes to the   *)
(* file it opened even when that file has been unlinked meanwhile.          *)
(*                                                                         *)
(* A process may hold several instances and may be killed at any point, and *)
(* the system may give its pid to a new process.                            *)
(***************************************************************************)

CONSTANTS Instances,   \* PidFile objects
          Pids,        \* process ids
          PidOf,       \* the process an instance lives in
          NoFile       \* nothing at the path

ASSUME PidAssumption ==
    /\ PidOf \in [Instances -> Pids]
    /\ NoFile \notin Instances

VARIABLES file,     \* the file at the path, or NoFile
          written,  \* files whose pid has been written; others read as None
          alive,    \* running processes
          owned,    \* instances with _owned = True
          pc        \* where each instance stands in acquire() or release()

vars == <<file, written, alive, owned, pc>>

Acquiring == {"open", "read", "unlink", "reopen", "write"}
Releasing == {"check", "remove"}

TypeOK ==
    /\ file \in Instances \cup {NoFile}
    /\ written \subseteq Instances
    /\ alive \subseteq Pids
    /\ owned \subseteq Instances
    /\ pc \in [Instances -> {"idle"} \cup Acquiring \cup Releasing]

(* An earlier daemon may have left a file behind, complete or empty, when   *)
(* its process died.                                                       *)
Init ==
    /\ alive \in SUBSET Pids
    /\ file \in {i \in Instances : PidOf[i] \notin alive} \cup {NoFile}
    /\ written \in SUBSET ({file} \ {NoFile})
    /\ owned = {}
    /\ pc = [i \in Instances |-> "idle"]

(* _read_pid, as the process recorded in the file: None for a missing file  *)
(* and for one without a number in it.                                      *)
RecordedPid == IF file # NoFile /\ file \in written THEN {PidOf[file]} ELSE {}

Goto(i, where) == pc' = [pc EXCEPT ![i] = where]

Running(i) == PidOf[i] \in alive

(* os.open with O_CREAT | O_EXCL, succeeding. *)
CreateFile(i) ==
    /\ file = NoFile
    /\ file' = i
    /\ written' = written \ {i}
    /\ Goto(i, "write")

(* unlink: whatever is at the path by now is gone. *)
RemoveFile ==
    /\ file' = NoFile
    /\ written' = written \ {file}

-----------------------------------------------------------------------------
(* acquire(): nothing to do for an instance that already owns the path. *)
StartAcquire(i) ==
    /\ Running(i) /\ pc[i] = "idle" /\ i \notin owned
    /\ Goto(i, "open")
    /\ UNCHANGED <<file, written, alive, owned>>

FirstOpen(i) ==
    /\ Running(i) /\ pc[i] = "open"
    /\ \/ CreateFile(i)
       \/ file # NoFile /\ Goto(i, "read") /\ UNCHANGED <<file, written>>
    /\ UNCHANGED <<alive, owned>>

(* A live pid, this process's own included, raises PidFileError. *)
HeldByLive(i) == \E p \in RecordedPid : p = PidOf[i] \/ p \in alive

ReadExisting(i) ==
    /\ Running(i) /\ pc[i] = "read"
    /\ Goto(i, IF HeldByLive(i) THEN "idle" ELSE "unlink")
    /\ UNCHANGED <<file, written, alive, owned>>

(* Mutant: the stale file is left in place. *)
KeepStale(i) ==
    /\ Running(i) /\ pc[i] = "unlink"
    /\ Goto(i, "reopen")
    /\ UNCHANGED <<file, written, alive, owned>>

(* unlink removes whatever is at the path by now; a missing file is fine. *)
UnlinkStale(i) ==
    /\ Running(i) /\ pc[i] = "unlink"
    /\ RemoveFile
    /\ Goto(i, "reopen")
    /\ UNCHANGED <<alive, owned>>

(* A second FileExistsError leaves acquire(); Daemon.start() fails on it. *)
SecondOpen(i) ==
    /\ Running(i) /\ pc[i] = "reopen"
    /\ \/ CreateFile(i)
       \/ file # NoFile /\ Goto(i, "idle") /\ UNCHANGED <<file, written>>
    /\ UNCHANGED <<alive, owned>>

(* Mutant: the write stays in a buffer. *)
WriteBuffered(i) ==
    /\ Running(i) /\ pc[i] = "write"
    /\ owned' = owned \cup {i}
    /\ Goto(i, "idle")
    /\ UNCHANGED <<file, written, alive>>

WritePid(i) ==
    /\ Running(i) /\ pc[i] = "write"
    /\ written' = written \cup {i}
    /\ owned' = owned \cup {i}
    /\ Goto(i, "idle")
    /\ UNCHANGED <<file, alive>>

(* A full disk: the empty file stays, the instance does not own it. *)
WriteFails(i) ==
    /\ Running(i) /\ pc[i] = "write"
    /\ Goto(i, "idle")
    /\ UNCHANGED <<file, written, alive, owned>>

-----------------------------------------------------------------------------
StartRelease(i) ==
    /\ Running(i) /\ pc[i] = "idle" /\ i \in owned
    /\ owned' = owned \ {i}
    /\ Goto(i, "check")
    /\ UNCHANGED <<file, written, alive>>

(* Another pid, or none, at the path: leave it alone. *)
CheckRelease(i) ==
    /\ Running(i) /\ pc[i] = "check"
    /\ Goto(i, IF RecordedPid = {PidOf[i]} THEN "remove" ELSE "idle")
    /\ UNCHANGED <<file, written, alive, owned>>

RemoveOwn(i) ==
    /\ Running(i) /\ pc[i] = "remove"
    /\ RemoveFile
    /\ Goto(i, "idle")
    /\ UNCHANGED <<alive, owned>>

-----------------------------------------------------------------------------
(* SIGKILL or power loss: the process goes, its file stays. *)
Kill(p) ==
    /\ p \in alive
    /\ alive' = alive \ {p}
    /\ owned' = {i \in owned : PidOf[i] # p}
    /\ pc' = [i \in Instances |-> IF PidOf[i] = p THEN "idle" ELSE pc[i]]
    /\ UNCHANGED <<file, written>>

(* A new process, on a pid that may have been recorded before. *)
Spawn(p) ==
    /\ p \notin alive
    /\ alive' = alive \cup {p}
    /\ UNCHANGED <<file, written, owned, pc>>

Step(i) ==
    \/ FirstOpen(i) \/ ReadExisting(i) \/ UnlinkStale(i) \/ SecondOpen(i)
    \/ WritePid(i) \/ CheckRelease(i) \/ RemoveOwn(i)

Next ==
    \/ \E i \in Instances : StartAcquire(i) \/ StartRelease(i)
    \/ \E i \in Instances : Step(i) \/ WriteFails(i)
    \/ \E p \in Pids : Kill(p) \/ Spawn(p)

Spec == Init /\ [][Next]_vars

(***************************************************************************)
(* Starts that never overlap: acquire() is entered only while no other      *)
(* instance is inside it.  Releases and kills still fall anywhere.          *)
(***************************************************************************)
NobodyStarting == \A i \in Instances : pc[i] \notin Acquiring

OneStartNext ==
    \/ NobodyStarting /\ \E i \in Instances : StartAcquire(i)
    \/ \E i \in Instances : StartRelease(i)
    \/ \E i \in Instances : Step(i) \/ WriteFails(i)
    \/ \E p \in Pids : Kill(p) \/ Spawn(p)

OneStartSpec == Init /\ [][OneStartNext]_vars

(* The operating system runs a live process, so a system call it has        *)
(* reached is made; nothing forces a process to start or to stop.           *)
FairSpec == OneStartSpec /\ \A i \in Instances : WF_vars(Step(i))

-----------------------------------------------------------------------------
(* "refuse to start a second daemon over a live one": at most one live      *)
(* instance owns the path.                                                  *)
AtMostOneOwner == \A i, j \in owned : i = j

(* While starts do not overlap, the owner is the process the file names, so *)
(* the CLI that reads the file signals the right one: no release() of a     *)
(* former owner and no recovery of a stale file has removed it.  And        *)
(* release() removes only a file with our pid: even between its read and    *)
(* its unlink, the file at the path is still the one it read.               *)
OwnerIsAdvertised ==
    \A i \in Instances : i \in owned \/ pc[i] = "remove" => file = i /\ i \in written

(* A stale file never locks daemons out: a start that finds no live pid     *)
(* recorded ends up owning the path, unless its write fails or it dies.     *)
StaleNeverBlocks ==
    \A i \in Instances :
        (pc[i] = "unlink") ~>
            (i \in owned \/ (pc[i] = "idle" /\ file = i) \/ ~Running(i))
=============================================================================
