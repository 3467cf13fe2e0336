------------------------------- MODULE RtLog --------------------------------
(***************************************************************************)
(* The r_t outcome log and its consumer: RtJsonlRecorder appends lines to   *)
(* r_t.jsonl, RtJsonlTailReader reads on from a cursor kept in a file of    *)
(* its own, and RtPlasticityService.consume feeds what was read to the warm *)
(* step.                                                                    *)
(*                                                                         *)
(* Request threads append a record and then consume (credit.rt.append);     *)
(* the heartbeat, and credit.rt.consume, only consume.  The service         *)
(* serialises its consumers with _consume_lock.                             *)
(*                                                                         *)
(* A line is its number; the record it holds is applied under that number.  *)
(* A line longer than the stream's buffer reaches the file in pieces, so a  *)
(* reader, or a crash, may meet one that is not finished.                   *)
(***************************************************************************)
EXTENDS Integers, Sequences, FiniteSets

CONSTANTS Appenders,   \* request threads in credit.rt.append
          Consumers,   \* heartbeat thread and credit.rt.consume threads
          Limits,      \* max_records values in use
          MaxLines,    \* bound on the log
          MaxCrashes,  \* bound on crashes
          NoOne        \* _consume_lock is free

Threads == Appenders \cup Consumers

ASSUME RtLogAssumption ==
    /\ Limits \subseteq Nat \ {0}
    /\ MaxLines \in Nat
    /\ MaxCrashes \in Nat
    /\ NoOne \notin Threads

VARIABLES lines,    \* r_t.jsonl: TRUE for a line that parses
          tail,     \* what follows the last newline
          cursor,   \* the offset in the cursor file, Unreadable for none
          lock,     \* holder of _consume_lock
          pc, batch, upto,   \* consume() of each thread
          applied,  \* lines handed to the warm step, in order
          crashes,  \* how often the daemon died
          reset,    \* history: a crash left the cursor file unreadable
          lost      \* history: records the warm step was to see and did not

vars == <<lines, tail, cursor, lock, pc, batch, upto, applied, crashes, reset, lost>>

Unreadable == -1

Init ==
    /\ lines = <<>>
    /\ tail = "none"
    /\ cursor = Unreadable
    /\ lock = NoOne
    /\ pc = [t \in Threads |-> "idle"]
    /\ batch = [t \in Threads |-> <<>>]
    /\ upto = [t \in Threads |-> 0]
    /\ applied = <<>>
    /\ crashes = 0
    /\ reset = FALSE
    /\ lost = {}

TypeOK ==
    /\ lines \in Seq(BOOLEAN)
    /\ tail \in {"none", "partial", "torn"}
    /\ cursor \in {Unreadable} \cup 0 .. MaxLines
    /\ lock \in Threads \cup {NoOne}
    /\ pc \in [Threads -> {"idle", "append", "consume", "scan", "truncate",
                           "save", "apply"}]
    /\ batch \in [Threads -> Seq(1 .. MaxLines)]
    /\ upto \in [Threads -> 0 .. MaxLines]
    /\ applied \in Seq(1 .. MaxLines)
    /\ crashes \in 0 .. MaxCrashes
    /\ reset \in BOOLEAN
    /\ lost \subseteq 1 .. MaxLines

Goto(t, where) == pc' = [pc EXCEPT ![t] = where]

-----------------------------------------------------------------------------
(* append(), under the recorder's lock: the first bytes of the line are in  *)
(* the file ...                                                             *)
BeginAppend(t) ==
    /\ pc[t] = "idle"
    /\ \A u \in Appenders : pc[u] # "append"
    /\ Len(lines) < MaxLines
    /\ tail' = IF tail = "torn" THEN "torn" ELSE "partial"
    /\ Goto(t, "append")
    /\ UNCHANGED <<lines, cursor, lock, batch, upto, applied, crashes, reset, lost>>

(* ... and its newline.  A line that began as the torn end of an earlier    *)
(* one does not parse.                                                      *)
EndAppend(t) ==
    /\ pc[t] = "append"
    /\ lines' = Append(lines, tail = "partial")
    /\ tail' = "none"
    /\ Goto(t, "consume")
    /\ UNCHANGED <<cursor, lock, batch, upto, applied, crashes, reset, lost>>

(* The heartbeat worker or credit.rt.consume. *)
CallConsume(t) ==
    /\ pc[t] = "idle"
    /\ Goto(t, "consume")
    /\ UNCHANGED <<lines, tail, cursor, lock, batch, upto, applied, crashes, reset, lost>>

-----------------------------------------------------------------------------
(* Mutant: consume() without its lock. *)
TakeNothing(t) ==
    /\ pc[t] = "consume"
    /\ Goto(t, "scan")
    /\ UNCHANGED <<lines, tail, cursor, lock, batch, upto, applied, crashes, reset, lost>>

TakeLock(t) ==
    /\ pc[t] = "consume"
    /\ lock = NoOne
    /\ lock' = t
    /\ Goto(t, "scan")
    /\ UNCHANGED <<lines, tail, cursor, batch, upto, applied, crashes, reset, lost>>

(* cursor_offset: a missing or unreadable cursor file counts as 0. *)
CursorOffset == IF cursor = Unreadable THEN 0 ELSE cursor

(* The last line a read of at most n records from the cursor gets to. *)
LastRead(n) == IF CursorOffset + n < Len(lines) THEN CursorOffset + n
               ELSE Len(lines)

(* json.loads raises on the way: on a line that does not parse, or on what  *)
(* is there of an unfinished one.                                           *)
ReadRaises(n) ==
    \/ \E i \in CursorOffset + 1 .. LastRead(n) : ~lines[i]
    \/ LastRead(n) < CursorOffset + n /\ tail # "none"

(* Mutant: the exception leaves consume() with the lock held. *)
ScanRaisesLocked(t) ==
    /\ pc[t] = "scan"
    /\ \E n \in Limits : ReadRaises(n)
    /\ Goto(t, "idle")
    /\ UNCHANGED <<lines, tail, cursor, lock, batch, upto, applied, crashes, reset, lost>>

(* read_new: one line that does not parse fails the batch, and the cursor   *)
(* stays where it was.                                                      *)
ScanRaises(t) ==
    /\ pc[t] = "scan"
    /\ \E n \in Limits : ReadRaises(n)
    /\ lock' = NoOne
    /\ Goto(t, "idle")
    /\ UNCHANGED <<lines, tail, cursor, batch, upto, applied, crashes, reset, lost>>

Scan(t) ==
    /\ pc[t] = "scan"
    /\ \E n \in Limits :
          /\ ~ReadRaises(n)
          /\ batch' = [batch EXCEPT ![t] =
                [i \in 1 .. LastRead(n) - CursorOffset |-> CursorOffset + i]]
          /\ upto' = [upto EXCEPT ![t] = LastRead(n)]
          /\ Goto(t, IF LastRead(n) > CursorOffset THEN "truncate" ELSE "apply")
    /\ UNCHANGED <<lines, tail, cursor, lock, applied, crashes, reset, lost>>

(* write_text opens the cursor file for writing, which empties it ... *)
TruncateCursor(t) ==
    /\ pc[t] = "truncate"
    /\ cursor' = Unreadable
    /\ Goto(t, "save")
    /\ UNCHANGED <<lines, tail, lock, batch, upto, applied, crashes, reset, lost>>

(* Mutant: the cursor is set past the last record. *)
SaveBeyond(t) ==
    /\ pc[t] = "save"
    /\ cursor' = upto[t] + 1
    /\ Goto(t, "apply")
    /\ UNCHANGED <<lines, tail, lock, batch, upto, applied, crashes, reset, lost>>

(* ... and then writes the offset. *)
SaveCursor(t) ==
    /\ pc[t] = "save"
    /\ cursor' = upto[t]
    /\ Goto(t, "apply")
    /\ UNCHANGED <<lines, tail, lock, batch, upto, applied, crashes, reset, lost>>

(* warm_step: record by record, each of them in its own store calls. *)
ApplyOne(t) ==
    /\ pc[t] = "apply"
    /\ batch[t] # <<>>
    /\ applied' = Append(applied, Head(batch[t]))
    /\ batch' = [batch EXCEPT ![t] = Tail(batch[t])]
    /\ UNCHANGED <<lines, tail, cursor, lock, pc, upto, crashes, reset, lost>>

EndConsume(t) ==
    /\ pc[t] = "apply"
    /\ batch[t] = <<>>
    /\ lock' = NoOne
    /\ Goto(t, "idle")
    /\ UNCHANGED <<lines, tail, cursor, batch, upto, applied, crashes, reset, lost>>

Carried(t) == {batch[t][i] : i \in DOMAIN batch[t]}

(* Anything consume() does with the batch may raise: the walk over the      *)
(* turns, that a request thread grows meanwhile, and every store call of    *)
(* the warm step.  The lock is given back, the exception goes to the        *)
(* caller, and the records that were still to come are gone: the cursor has *)
(* passed them.                                                             *)
ApplyRaises(t) ==
    /\ pc[t] = "apply"
    /\ lost' = lost \cup Carried(t)
    /\ batch' = [batch EXCEPT ![t] = <<>>]
    /\ lock' = NoOne
    /\ Goto(t, "idle")
    /\ UNCHANGED <<lines, tail, cursor, upto, applied, crashes, reset>>

-----------------------------------------------------------------------------
(* Records the cursor has passed and the warm step has not seen yet. *)
InHand == UNION {Carried(t) : t \in {u \in Threads : pc[u] = "apply"}}

(* The daemon dies and a new one opens the files. *)
Crash ==
    /\ crashes < MaxCrashes
    /\ crashes' = crashes + 1
    /\ tail' = IF tail = "none" THEN "none" ELSE "torn"
    /\ lock' = NoOne
    /\ pc' = [t \in Threads |-> "idle"]
    /\ batch' = [t \in Threads |-> <<>>]
    /\ reset' = (reset \/ \E t \in Threads : pc[t] = "save")
    /\ lost' = lost \cup InHand
    /\ UNCHANGED <<lines, cursor, upto, applied>>

ThreadStep(t) ==
    \/ t \in Appenders /\ EndAppend(t)
    \/ TakeLock(t) \/ ScanRaises(t) \/ Scan(t) \/ TruncateCursor(t)
    \/ SaveCursor(t) \/ ApplyOne(t) \/ ApplyRaises(t) \/ EndConsume(t)

Next ==
    \/ \E t \in Appenders : BeginAppend(t)
    \/ \E t \in Consumers : CallConsume(t)
    \/ \E t \in Threads : ThreadStep(t)
    \/ Crash

Spec == Init /\ [][Next]_vars

(***************************************************************************)
(* Threads run, a free lock is taken by a thread that keeps waiting for it, *)
(* and the heartbeat keeps coming; hosts need not append.                   *)
(***************************************************************************)
FairSpec ==
    /\ Spec
    /\ \A t \in Threads : WF_vars(ThreadStep(t)) /\ SF_vars(TakeLock(t))
    /\ \A t \in Consumers : WF_vars(CallConsume(t))

-----------------------------------------------------------------------------
(* Every record the cursor has passed was applied, is in the hands of the   *)
(* consumer that holds the lock, or was in the hands of one that a crash or *)
(* an exception stopped: no read skips one, whoever consumes and whatever   *)
(* max_records cuts off.  It does not say that nothing is lost: the cursor  *)
(* moves first, so what a failing batch still held is never read again.     *)
Accounted ==
    \A n \in 1 .. cursor :
        n \in lost \cup InHand \/ \E i \in DOMAIN applied : applied[i] = n

(* No record is applied twice or out of order, also across crashes, unless  *)
(* a crash emptied the cursor file: the cursor moves before the records are *)
(* applied, and one consumer at a time moves it.                            *)
NoReplay ==
    ~reset => \A i, j \in DOMAIN applied : i < j => applied[i] < applied[j]

(* A record that was appended is applied in the end, by its own append or   *)
(* by a later heartbeat, also when reads hit unfinished lines on the way    *)
(* and when the daemon crashes: only a crash or an exception in the batch   *)
(* that held it loses it, once the cursor has passed it, and only a line    *)
(* that a crash has torn blocks the log.                                    *)
EventuallyApplied ==
    \A n \in 1 .. MaxLines :
        Len(lines) >= n ~> \/ \E i \in DOMAIN applied : applied[i] = n
                           \/ n \in lost
                           \/ \E k \in DOMAIN lines : ~lines[k]
                           \/ tail = "torn"
=============================================================================
