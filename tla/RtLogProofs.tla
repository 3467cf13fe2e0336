---------------------------- MODULE RtLogProofs -----------------------------
(***************************************************************************)
(* The r_t log for any number of appenders and consumers, any batch size    *)
(* and any number of crashes and failing batches: no record is skipped by   *)
(* the cursor, and none is applied twice or out of order unless a crash hit *)
(* the cursor file.                                                         *)
(*                                                                         *)
(* The cursor file is empty between its truncation and the write of the     *)
(* new offset, so the state does not hold the old offset then.  What was    *)
(* passed before is recovered from the consumer's locals: its batch holds   *)
(* consecutive lines and ends at upto, so it began after Base.              *)
(***************************************************************************)
EXTENDS RtLog, TLAPS

Inside == {"scan", "truncate", "save", "apply"}
Carrying == {"truncate", "save", "apply"}

(* The line before the first one in a consumer's hands. *)
Base(t) == upto[t] - Len(batch[t])

Applied(n) == \E i \in DOMAIN applied : applied[i] = n

(* One appender at a time, and room for its line. *)
AppendOK ==
    /\ Len(lines) <= MaxLines
    /\ \A t \in Threads : pc[t] = "append" => Len(lines) < MaxLines
    /\ \A t, u \in Appenders : pc[t] = "append" /\ pc[u] = "append" => t = u
    /\ \A t \in Threads : pc[t] = "append" => t \in Appenders

(* _consume_lock is held by exactly the thread that is inside consume(). *)
LockOK == \A t \in Threads : lock = t <=> pc[t] \in Inside

(* A batch is a run of consecutive lines that ends at upto. *)
BatchOK ==
    /\ CursorOffset <= Len(lines)
    /\ \A t \in Threads : pc[t] \notin Carrying => batch[t] = <<>>
    /\ \A t \in Threads : pc[t] \in Carrying =>
          /\ upto[t] <= Len(lines)
          /\ Len(batch[t]) <= upto[t]
          /\ \A i \in DOMAIN batch[t] : batch[t][i] = Base(t) + i
    /\ \A t \in Threads : pc[t] = "truncate" => CursorOffset = Base(t)
    /\ \A t \in Threads : pc[t] = "save" => cursor = Unreadable
    /\ \A t \in Threads : pc[t] = "apply" => CursorOffset = upto[t]

(* Up to the offset the cursor file had before it was truncated, every      *)
(* record was applied or lost.                                              *)
SaveOK ==
    \A t \in Threads : pc[t] = "save" =>
        \A n \in 1 .. Base(t) : n \in lost \/ Applied(n)

(* Nothing beyond what the cursor had passed has been applied. *)
Behind ==
    ~reset =>
      /\ \A t \in Threads : pc[t] \in Carrying =>
            \A i \in DOMAIN applied : applied[i] <= Base(t)
      /\ (\A t \in Threads : pc[t] \notin Carrying) =>
            \A i \in DOMAIN applied : applied[i] <= CursorOffset

LInv == TypeOK /\ AppendOK /\ LockOK /\ BatchOK /\ SaveOK /\ Behind
            /\ Accounted /\ NoReplay

-----------------------------------------------------------------------------
LEMMA ElementOfSeq ==
  ASSUME NEW S, NEW s \in Seq(S), NEW i \in DOMAIN s
  PROVE  s[i] \in S
  OBVIOUS

LEMMA TailOfSeq ==
  ASSUME NEW S, NEW s \in Seq(S), s # <<>>
  PROVE  /\ Head(s) = s[1] /\ s[1] \in S /\ 1 \in DOMAIN s
         /\ Tail(s) \in Seq(S) /\ Len(Tail(s)) = Len(s) - 1
         /\ \A i \in DOMAIN Tail(s) : Tail(s)[i] = s[i + 1] /\ i + 1 \in DOMAIN s
         /\ \A i \in DOMAIN s : i # 1 => i - 1 \in DOMAIN Tail(s)
<1>1. Len(s) \in Nat \ {0} /\ DOMAIN s = 1 .. Len(s)
  OBVIOUS
<1>2. Tail(s) \in Seq(S) /\ Len(Tail(s)) = Len(s) - 1
  BY <1>1
<1>3. DOMAIN Tail(s) = 1 .. Len(s) - 1
  BY <1>2
<1>4. \A i \in 1 .. Len(s) - 1 : Tail(s)[i] = s[i + 1]
  BY <1>1, <1>2
<1>5. Head(s) = s[1] /\ s[1] \in S
  BY <1>1, ElementOfSeq
<1> QED
  BY <1>1, <1>2, <1>3, <1>4, <1>5

LEMMA InitLInv == Init => LInv
<1> SUFFICES ASSUME Init PROVE LInv
  OBVIOUS
<1> USE RtLogAssumption DEF Init
<1>1. TypeOK
  <2>1. batch \in [Threads -> Seq(1 .. MaxLines)]
    OBVIOUS
  <2>2. pc \in [Threads -> {"idle", "append", "consume", "scan", "truncate", "save", "apply"}]
    OBVIOUS
  <2>3. upto \in [Threads -> 0 .. MaxLines]
    OBVIOUS
  <2>4. lines \in Seq(BOOLEAN) /\ applied \in Seq(1 .. MaxLines)
    OBVIOUS
  <2>5. cursor \in {Unreadable} \cup 0 .. MaxLines /\ crashes \in 0 .. MaxCrashes
    OBVIOUS
  <2> QED
    BY <2>1, <2>2, <2>3, <2>4, <2>5, Zenon DEF TypeOK
<1>2. AppendOK
  BY DEF AppendOK, Threads
<1>3. LockOK
  BY DEF LockOK, Inside
<1>4. BatchOK
  BY DEF BatchOK, Carrying, CursorOffset
<1>5. SaveOK
  BY DEF SaveOK
<1>6. Behind /\ Accounted /\ NoReplay
  BY DEF Behind, Accounted, NoReplay, Unreadable
<1> QED
  BY <1>1, <1>2, <1>3, <1>4, <1>5, <1>6 DEF LInv

(* Two threads are never inside consume() together. *)
LEMMA OneInside ==
  ASSUME LInv, NEW t \in Threads, NEW u \in Threads,
         pc[t] \in Inside, pc[u] \in Inside
  PROVE  t = u
BY DEF LInv, LockOK

(* Steps that leave the cursor, the batches, the lock and what was applied  *)
(* as they are: only appends and threads outside consume() move.            *)
LEMMA OutsideStep ==
  ASSUME LInv, TypeOK', AppendOK',
         UNCHANGED <<cursor, lock, batch, upto, applied, reset, lost>>,
         Len(lines) <= Len(lines'),
         \A u \in Threads : pc'[u] = pc[u] \/ (pc[u] \notin Inside /\ pc'[u] \notin Inside)
  PROVE  LInv'
<1> USE DEF LInv
<1>1. LockOK'
  BY DEF LockOK
<1>2. \A u \in Threads : pc'[u] = pc[u] \/ (pc[u] \notin Carrying /\ pc'[u] \notin Carrying)
  BY DEF Inside, Carrying
<1>3. BatchOK'
  BY <1>2 DEF BatchOK, Base, CursorOffset, Carrying, TypeOK, Unreadable
<1>4. SaveOK'
  BY <1>2 DEF SaveOK, Base, Applied, Carrying
<1>5. Behind'
  BY <1>2 DEF Behind, Base, CursorOffset
<1>6. InHand' = InHand
  BY <1>2 DEF InHand, Carried, Carrying
<1>7. Accounted' /\ NoReplay'
  BY <1>6 DEF Accounted, NoReplay
<1> QED
  BY <1>1, <1>3, <1>4, <1>5, <1>7

LEMMA BeginAppendInv ==
  ASSUME LInv, NEW t \in Appenders, BeginAppend(t)
  PROVE  LInv'
<1> USE DEF BeginAppend, Goto
<1>0. t \in Threads
  BY DEF Threads
<1>1. TypeOK'
  BY <1>0 DEF LInv, TypeOK
<1>2. AppendOK'
  BY <1>0 DEF LInv, TypeOK, AppendOK, Threads
<1>3. \A u \in Threads : pc'[u] = pc[u] \/ (pc[u] \notin Inside /\ pc'[u] \notin Inside)
  BY <1>0 DEF LInv, TypeOK, Inside
<1>4. Len(lines) <= Len(lines')
  BY DEF LInv, TypeOK
<1>5. UNCHANGED <<cursor, lock, batch, upto, applied, reset, lost>>
  OBVIOUS
<1> QED
  BY <1>1, <1>2, <1>3, <1>4, <1>5, OutsideStep

LEMMA EndAppendInv ==
  ASSUME LInv, NEW t \in Appenders, EndAppend(t)
  PROVE  LInv'
<1> USE DEF EndAppend, Goto
<1>0. t \in Threads
  BY DEF Threads
<1>1. lines' \in Seq(BOOLEAN) /\ Len(lines') = Len(lines) + 1
  <2>1. lines \in Seq(BOOLEAN) /\ (tail = "partial") \in BOOLEAN
    BY DEF LInv, TypeOK
  <2> QED
    BY <2>1
<1>2. TypeOK'
  BY <1>0, <1>1 DEF LInv, TypeOK
<1>3. AppendOK'
  <2>1. \A u \in Threads : pc'[u] # "append"
    BY <1>0 DEF LInv, TypeOK, AppendOK
  <2>2. Len(lines) \in Nat /\ Len(lines) < MaxLines
    BY <1>0 DEF LInv, TypeOK, AppendOK
  <2> QED
    BY <1>1, <2>1, <2>2, RtLogAssumption DEF AppendOK, Threads
<1>4. \A u \in Threads : pc'[u] = pc[u] \/ (pc[u] \notin Inside /\ pc'[u] \notin Inside)
  BY <1>0 DEF LInv, TypeOK, Inside
<1>5. Len(lines) <= Len(lines')
  BY <1>1 DEF LInv, TypeOK
<1>6. UNCHANGED <<cursor, lock, batch, upto, applied, reset, lost>>
  OBVIOUS
<1> QED
  BY <1>2, <1>3, <1>4, <1>5, <1>6, OutsideStep

LEMMA CallConsumeInv ==
  ASSUME LInv, NEW t \in Consumers, CallConsume(t)
  PROVE  LInv'
<1> USE DEF CallConsume, Goto
<1>0. t \in Threads
  BY DEF Threads
<1>1. TypeOK'
  BY <1>0 DEF LInv, TypeOK
<1>2. AppendOK'
  BY <1>0 DEF LInv, TypeOK, AppendOK, Threads
<1>3. \A u \in Threads : pc'[u] = pc[u] \/ (pc[u] \notin Inside /\ pc'[u] \notin Inside)
  BY <1>0 DEF LInv, TypeOK, Inside
<1>4. Len(lines) <= Len(lines')
  BY DEF LInv, TypeOK
<1>5. UNCHANGED <<cursor, lock, batch, upto, applied, reset, lost>>
  OBVIOUS
<1> QED
  BY <1>1, <1>2, <1>3, <1>4, <1>5, OutsideStep

(* The moves between consume, scan and idle take or give back the lock and  *)
(* carry nothing.                                                           *)
LEMMA LockStep ==
  ASSUME LInv, NEW t \in Threads, TypeOK',
         UNCHANGED <<lines, cursor, batch, upto, applied, reset, lost>>,
         pc' = [pc EXCEPT ![t] = pc'[t]],
         pc[t] \in {"consume", "scan", "apply"}, batch[t] = <<>>,
         pc'[t] \in {"idle", "scan"}, LockOK'
  PROVE  LInv'
<1> USE DEF LInv
<1>1. \A u \in Threads : u # t => pc'[u] = pc[u]
  BY DEF TypeOK
<1>2. AppendOK'
  BY <1>1 DEF AppendOK, Threads
<1>3. BatchOK'
  BY <1>1 DEF BatchOK, Base, CursorOffset, Carrying
<1>4. SaveOK'
  BY <1>1 DEF SaveOK, Base, Applied
<1>5. ASSUME ~reset, NEW i \in DOMAIN applied, pc[t] = "apply" PROVE applied[i] <= CursorOffset
  BY <1>5 DEF Behind, Base, Carrying, BatchOK, TypeOK
<1>6. ASSUME ~reset, pc[t] # "apply", \A u \in Threads : pc'[u] \notin Carrying
      PROVE  \A u \in Threads : pc[u] \notin Carrying
  BY <1>6, <1>1 DEF Carrying
<1>7. Behind'
  BY <1>1, <1>5, <1>6 DEF Behind, Base, CursorOffset, Carrying, Inside
<1>8. InHand' = InHand
  BY <1>1 DEF InHand, Carried
<1>9. Accounted' /\ NoReplay'
  BY <1>8 DEF Accounted, NoReplay
<1> QED
  BY <1>2, <1>3, <1>4, <1>7, <1>9

LEMMA TakeLockInv ==
  ASSUME LInv, NEW t \in Threads, TakeLock(t)
  PROVE  LInv'
<1> USE DEF TakeLock, Goto
<1>1. TypeOK'
  BY DEF LInv, TypeOK
<1>2. batch[t] = <<>>
  BY DEF LInv, BatchOK, Carrying
<1>3. LockOK'
  BY RtLogAssumption DEF LInv, LockOK, TypeOK, Inside
<1>4. pc' = [pc EXCEPT ![t] = pc'[t]] /\ pc'[t] = "scan"
  BY DEF LInv, TypeOK
<1>5. UNCHANGED <<lines, cursor, batch, upto, applied, reset, lost>>
  OBVIOUS
<1> QED
  BY <1>1, <1>2, <1>3, <1>4, <1>5, LockStep

LEMMA ScanRaisesInv ==
  ASSUME LInv, NEW t \in Threads, ScanRaises(t)
  PROVE  LInv'
<1> USE DEF ScanRaises, Goto
<1>1. TypeOK'
  BY DEF LInv, TypeOK
<1>2. batch[t] = <<>>
  BY DEF LInv, BatchOK, Carrying
<1>3. LockOK'
  BY RtLogAssumption DEF LInv, LockOK, TypeOK, Inside
<1>4. pc' = [pc EXCEPT ![t] = pc'[t]] /\ pc'[t] = "idle"
  BY DEF LInv, TypeOK
<1>5. UNCHANGED <<lines, cursor, batch, upto, applied, reset, lost>>
  OBVIOUS
<1> QED
  BY <1>1, <1>2, <1>3, <1>4, <1>5, LockStep

LEMMA EndConsumeInv ==
  ASSUME LInv, NEW t \in Threads, EndConsume(t)
  PROVE  LInv'
<1> USE DEF EndConsume, Goto
<1>1. TypeOK'
  BY DEF LInv, TypeOK
<1>2. LockOK'
  BY RtLogAssumption DEF LInv, LockOK, TypeOK, Inside
<1>3. pc' = [pc EXCEPT ![t] = pc'[t]] /\ pc'[t] = "idle"
  BY DEF LInv, TypeOK
<1>4. UNCHANGED <<lines, cursor, batch, upto, applied, reset, lost>>
  OBVIOUS
<1> QED
  BY <1>1, <1>2, <1>3, <1>4, LockStep

(* What one read of the log puts into a consumer's hands. *)
LEMMA ScanReads ==
  ASSUME LInv, NEW n \in Limits
  PROVE  /\ CursorOffset \in Nat /\ LastRead(n) \in Nat
         /\ CursorOffset <= LastRead(n) /\ LastRead(n) <= Len(lines)
         /\ LastRead(n) <= MaxLines
         /\ [i \in 1 .. LastRead(n) - CursorOffset |-> CursorOffset + i]
               \in Seq(1 .. MaxLines)
<1>1. CursorOffset \in Nat /\ CursorOffset <= Len(lines) /\ Len(lines) \in Nat
  BY RtLogAssumption DEF LInv, TypeOK, BatchOK, CursorOffset, Unreadable
<1>2. n \in Nat \ {0} /\ MaxLines \in Nat
  BY RtLogAssumption
<1>3. Len(lines) <= MaxLines
  BY DEF LInv, AppendOK
<1>4. /\ LastRead(n) \in Nat /\ CursorOffset <= LastRead(n)
      /\ LastRead(n) <= Len(lines) /\ LastRead(n) <= MaxLines
  BY <1>1, <1>2, <1>3 DEF LastRead
<1>5. LastRead(n) - CursorOffset \in Nat
  BY <1>1, <1>4
<1>6. \A i \in 1 .. LastRead(n) - CursorOffset : CursorOffset + i \in 1 .. MaxLines
  BY <1>1, <1>2, <1>4
<1> DEFINE k == LastRead(n) - CursorOffset
<1>7. [i \in 1 .. k |-> CursorOffset + i] \in Seq(1 .. MaxLines)
  <2> HIDE DEF k
  <2>1. k \in Nat /\ \A i \in 1 .. k : CursorOffset + i \in 1 .. MaxLines
    BY <1>5, <1>6 DEF k
  <2> QED
    BY <2>1
<1> QED
  BY <1>1, <1>4, <1>7

LEMMA ScanInv ==
  ASSUME LInv, NEW t \in Threads, Scan(t)
  PROVE  LInv'
<1>1. PICK n \in Limits :
        /\ batch' = [batch EXCEPT ![t] =
              [i \in 1 .. LastRead(n) - CursorOffset |-> CursorOffset + i]]
        /\ upto' = [upto EXCEPT ![t] = LastRead(n)]
        /\ pc' = [pc EXCEPT ![t] = IF LastRead(n) > CursorOffset THEN "truncate" ELSE "apply"]
  BY DEF Scan, Goto
<1>2. /\ pc[t] = "scan"
      /\ UNCHANGED <<lines, tail, cursor, lock, applied, crashes, reset, lost>>
  BY DEF Scan
<1> DEFINE read == [i \in 1 .. LastRead(n) - CursorOffset |-> CursorOffset + i]
<1>3. /\ CursorOffset \in Nat /\ LastRead(n) \in Nat
      /\ CursorOffset <= LastRead(n) /\ LastRead(n) <= Len(lines)
      /\ LastRead(n) <= MaxLines /\ read \in Seq(1 .. MaxLines)
  BY ScanReads
<1>4. Len(read) = LastRead(n) - CursorOffset
  BY <1>3
<1>5. /\ batch'[t] = read /\ upto'[t] = LastRead(n)
      /\ pc'[t] \in {"truncate", "apply"}
      /\ pc'[t] = "apply" => LastRead(n) = CursorOffset
  BY <1>1, <1>3 DEF LInv, TypeOK
<1>6. \A u \in Threads : u # t =>
         /\ pc'[u] = pc[u] /\ batch'[u] = batch[u] /\ upto'[u] = upto[u]
         /\ pc[u] \notin Inside
  BY <1>1, <1>2, OneInside DEF LInv, TypeOK, Inside
<1>7. TypeOK'
  <2>1. batch' \in [Threads -> Seq(1 .. MaxLines)]
    BY <1>1, <1>3 DEF LInv, TypeOK
  <2>2. upto' \in [Threads -> 0 .. MaxLines]
    BY <1>1, <1>3, RtLogAssumption DEF LInv, TypeOK
  <2>3. pc' \in [Threads -> {"idle", "append", "consume", "scan", "truncate", "save", "apply"}]
    BY <1>1 DEF LInv, TypeOK
  <2> QED
    BY <2>1, <2>2, <2>3, <1>2 DEF LInv, TypeOK
<1>8. AppendOK'
  BY <1>2, <1>5, <1>6 DEF LInv, AppendOK, Threads
<1>9. LockOK'
  BY <1>2, <1>5, <1>6 DEF LInv, LockOK, Inside
<1>10. (Base(t))' = CursorOffset
  BY <1>3, <1>4, <1>5 DEF Base
<1>11. CursorOffset' = CursorOffset
  BY <1>2 DEF CursorOffset
<1> HIDE DEF read
<1>12. BatchOK'
  <2>1. \A i \in DOMAIN batch'[t] : batch'[t][i] = CursorOffset + i
    BY <1>5, <1>3 DEF read
  <2>2. Len(batch'[t]) <= upto'[t]
    BY <1>3, <1>4, <1>5
  <2>3. \A u \in Threads : u # t => pc'[u] \notin Carrying /\ batch'[u] = <<>>
    BY <1>6 DEF LInv, BatchOK, Inside, Carrying
  <2> QED
    BY <2>1, <2>2, <2>3, <1>2, <1>3, <1>5, <1>10, <1>11 DEF LInv, BatchOK, Carrying
<1>13. SaveOK'
  BY <1>5, <1>6 DEF SaveOK, Inside
<1>14. \A u \in Threads : pc[u] \notin Carrying
  BY <1>2, <1>6 DEF Inside, Carrying
<1>15. Behind'
  BY <1>2, <1>5, <1>6, <1>10, <1>11, <1>14 DEF LInv, Behind, Carrying, Inside
<1>16. \A m : m \in InHand => m \in InHand'
  BY <1>14 DEF InHand, Carried, Carrying
<1>17. Accounted' /\ NoReplay'
  BY <1>2, <1>16 DEF LInv, Accounted, NoReplay
<1> QED
  BY <1>7, <1>8, <1>9, <1>12, <1>13, <1>15, <1>17 DEF LInv

LEMMA TruncateCursorInv ==
  ASSUME LInv, NEW t \in Threads, TruncateCursor(t)
  PROVE  LInv'
<1> USE DEF TruncateCursor, Goto
<1>1. TypeOK'
  BY DEF LInv, TypeOK
<1>2. pc'[t] = "save" /\ \A u \in Threads : u # t => pc'[u] = pc[u] /\ pc[u] \notin Inside
  BY OneInside DEF LInv, TypeOK, Inside
<1>3. AppendOK'
  BY <1>2 DEF LInv, AppendOK, Threads
<1>4. LockOK'
  BY <1>2 DEF LInv, LockOK, Inside
<1>5. (Base(t))' = Base(t) /\ Base(t) = CursorOffset
  BY DEF LInv, BatchOK, Base
<1>6. BatchOK'
  <2>1. CursorOffset' = 0 /\ Len(lines) \in Nat
    BY DEF LInv, TypeOK, CursorOffset
  <2>2. \A u \in Threads : u # t => pc'[u] \notin Carrying /\ batch[u] = <<>>
    BY <1>2 DEF LInv, BatchOK, Inside, Carrying
  <2> QED
    BY <1>2, <1>5, <2>1, <2>2 DEF LInv, BatchOK, Carrying, Base
<1>7. \A u \in Threads : pc[u] # "apply"
  BY <1>2 DEF Inside
<1>8. SaveOK'
  <2>1. ASSUME NEW n \in 1 .. Base(t) PROVE n \in lost \/ Applied(n)
    <3>1. cursor # Unreadable /\ Base(t) = cursor
      BY <1>5 DEF CursorOffset
    <3>2. n \notin InHand
      BY <1>7 DEF InHand, Carried
    <3> QED
      BY <3>1, <3>2 DEF LInv, Accounted, Applied
  <2> QED
    BY <1>2, <1>5, <2>1 DEF SaveOK, Applied, Inside
<1>9. Behind'
  BY <1>2, <1>5 DEF LInv, Behind, Carrying, Inside
<1>10. Accounted' /\ NoReplay'
  BY DEF LInv, Accounted, NoReplay, Unreadable
<1> QED
  BY <1>1, <1>3, <1>4, <1>6, <1>8, <1>9, <1>10 DEF LInv

LEMMA SaveCursorInv ==
  ASSUME LInv, NEW t \in Threads, SaveCursor(t)
  PROVE  LInv'
<1> USE DEF SaveCursor, Goto
<1>1. TypeOK'
  BY DEF LInv, TypeOK
<1>2. pc'[t] = "apply" /\ \A u \in Threads : u # t => pc'[u] = pc[u] /\ pc[u] \notin Inside
  BY OneInside DEF LInv, TypeOK, Inside
<1>3. AppendOK'
  BY <1>2 DEF LInv, AppendOK, Threads
<1>4. LockOK'
  BY <1>2 DEF LInv, LockOK, Inside
<1>5. (Base(t))' = Base(t)
  BY DEF Base
<1>6. cursor' = upto[t] /\ upto[t] \in Nat /\ CursorOffset' = upto[t]
  BY RtLogAssumption DEF LInv, TypeOK, CursorOffset, Unreadable
<1>7. BatchOK'
  <2>1. \A u \in Threads : u # t => pc'[u] \notin Carrying /\ batch[u] = <<>>
    BY <1>2 DEF LInv, BatchOK, Inside, Carrying
  <2> QED
    BY <1>2, <1>5, <1>6, <2>1 DEF LInv, BatchOK, Carrying, Base
<1>8. SaveOK'
  BY <1>2 DEF SaveOK, Inside
<1>9. Behind'
  BY <1>2, <1>5 DEF LInv, Behind, Carrying, Inside
<1>10. Accounted'
  <2> SUFFICES ASSUME NEW n \in 1 .. upto[t]
               PROVE  n \in lost \/ n \in InHand' \/ Applied(n)
    BY <1>6 DEF Accounted, Applied
  <2>0. Len(batch[t]) \in Nat /\ DOMAIN batch[t] = 1 .. Len(batch[t])
    BY DEF LInv, TypeOK
  <2>1. CASE n <= Base(t)
    <3>1. n \in 1 .. Base(t)
      BY <2>1, <2>0, <1>6 DEF Base
    <3> QED
      BY <3>1 DEF LInv, SaveOK
  <2>2. CASE n > Base(t)
    <3>1. n - Base(t) \in DOMAIN batch[t] /\ Base(t) \in Int
      BY <2>0, <2>2, <1>6 DEF Base
    <3>2. batch[t][n - Base(t)] = n
      BY <3>1 DEF LInv, BatchOK, Carrying
    <3> QED
      BY <3>1, <3>2, <1>2 DEF InHand, Carried
  <2> QED
    BY <2>0, <2>1, <2>2, <1>6 DEF Base
<1>11. NoReplay'
  BY DEF LInv, NoReplay
<1> QED
  BY <1>1, <1>3, <1>4, <1>7, <1>8, <1>9, <1>10, <1>11 DEF LInv

LEMMA ApplyOneInv ==
  ASSUME LInv, NEW t \in Threads, ApplyOne(t)
  PROVE  LInv'
<1> USE DEF ApplyOne
<1>0. /\ batch[t] \in Seq(1 .. MaxLines) /\ Len(batch[t]) \in Nat \ {0}
      /\ applied \in Seq(1 .. MaxLines) /\ upto[t] \in Nat
  BY DEF LInv, TypeOK
<1>1. /\ Head(batch[t]) = batch[t][1] /\ batch[t][1] \in 1 .. MaxLines
      /\ Tail(batch[t]) \in Seq(1 .. MaxLines)
      /\ Len(Tail(batch[t])) = Len(batch[t]) - 1
      /\ \A i \in DOMAIN Tail(batch[t]) : Tail(batch[t])[i] = batch[t][i + 1] /\ i + 1 \in DOMAIN batch[t]
  BY <1>0, TailOfSeq
<1>2. batch[t][1] = Base(t) + 1
  BY <1>0 DEF LInv, BatchOK, Carrying
<1>3. /\ batch'[t] = Tail(batch[t]) /\ pc'[t] = "apply"
      /\ \A u \in Threads : u # t =>
            batch'[u] = batch[u] /\ pc'[u] = pc[u] /\ pc[u] \notin Inside
  BY OneInside DEF LInv, TypeOK, Inside
<1>4. (Base(t))' = Base(t) + 1 /\ Base(t) \in Int
  <2>1. upto'[t] = upto[t] /\ Len(batch'[t]) = Len(batch[t]) - 1
    BY <1>1, <1>3
  <2> QED
    BY <2>1, <1>0 DEF Base
<1>5. /\ Len(applied') = Len(applied) + 1 /\ Len(applied) \in Nat
      /\ DOMAIN applied = 1 .. Len(applied) /\ DOMAIN applied' = 1 .. Len(applied) + 1
      /\ applied'[Len(applied) + 1] = Base(t) + 1
      /\ \A i \in DOMAIN applied : applied'[i] = applied[i]
      /\ applied' \in Seq(1 .. MaxLines)
  BY <1>0, <1>1, <1>2
<1>6. TypeOK'
  <2>1. batch' \in [Threads -> Seq(1 .. MaxLines)]
    BY <1>1 DEF LInv, TypeOK
  <2> QED
    BY <2>1, <1>5 DEF LInv, TypeOK
<1>7. AppendOK'
  BY DEF LInv, AppendOK
<1>8. LockOK'
  BY DEF LInv, LockOK
<1>9. BatchOK'
  <2>1. \A i \in DOMAIN batch'[t] : batch'[t][i] = Base(t) + 1 + i
    <3> SUFFICES ASSUME NEW i \in DOMAIN Tail(batch[t])
                 PROVE  Tail(batch[t])[i] = Base(t) + 1 + i
      BY <1>3, Zenon
    <3>1. Tail(batch[t])[i] = Base(t) + (i + 1) /\ i \in Int
      BY <1>0, <1>1 DEF LInv, BatchOK, Carrying
    <3> QED
      BY <3>1, <1>4
  <2>2. \A u \in Threads : u # t => pc'[u] \notin Carrying /\ batch'[u] = <<>>
    BY <1>3 DEF LInv, BatchOK, Inside, Carrying
  <2>3. Len(batch'[t]) <= upto'[t] /\ upto' = upto
    BY <1>0, <1>1, <1>3 DEF LInv, BatchOK, Carrying
  <2>4. CursorOffset' = CursorOffset
    BY DEF CursorOffset
  <2> QED
    BY <2>1, <2>2, <2>3, <2>4, <1>3, <1>4 DEF LInv, BatchOK, Carrying
<1>10. SaveOK'
  BY <1>3 DEF SaveOK, Inside
<1>11. ~reset => \A i \in DOMAIN applied : applied[i] <= Base(t)
  BY DEF LInv, Behind, Carrying
<1>12. Behind'
  <2> SUFFICES ASSUME ~reset PROVE \A i \in DOMAIN applied' : applied'[i] <= Base(t) + 1
    BY <1>3, <1>4 DEF Behind, Carrying, Inside
  <2>1. \A i \in DOMAIN applied : applied[i] <= Base(t) /\ applied[i] \in 1 .. MaxLines
    BY <1>0, <1>11, ElementOfSeq
  <2> QED
    BY <2>1, <1>4, <1>5
<1>13. Accounted'
  <2> SUFFICES ASSUME NEW n \in 1 .. cursor
               PROVE  n \in lost \/ n \in InHand' \/ \E i \in DOMAIN applied' : applied'[i] = n
    BY DEF Accounted
  <2>1. CASE n \in InHand
    <3>1. PICK i \in DOMAIN batch[t] : batch[t][i] = n
      BY <2>1, <1>3 DEF InHand, Carried, Inside
    <3>2. CASE i = 1
      BY <3>1, <3>2, <1>2, <1>5
    <3>3. CASE i # 1
      <4>1. i - 1 \in DOMAIN Tail(batch[t]) /\ Tail(batch[t])[i - 1] = n
        <5>1. i - 1 \in DOMAIN Tail(batch[t]) /\ i \in Int
          BY <3>1, <3>3, <1>0, TailOfSeq
        <5> QED
          BY <5>1, <3>1, <1>1
      <4>2. i - 1 \in DOMAIN batch'[t] /\ batch'[t][i - 1] = n
        BY <4>1, <1>3, Zenon
      <4>3. n \in {batch'[t][k] : k \in DOMAIN batch'[t]}
        BY <4>2, Zenon
      <4>4. n \in InHand'
        BY <4>3, <1>3, Zenon DEF InHand, Carried
      <4> QED
        BY <4>4
    <3> QED
      BY <3>2, <3>3
  <2>2. CASE n \notin InHand
    BY <2>2, <1>5 DEF LInv, Accounted
  <2> QED
    BY <2>1, <2>2
<1>14. NoReplay'
  <2> SUFFICES ASSUME ~reset, NEW i \in DOMAIN applied', NEW j \in DOMAIN applied', i < j
               PROVE  applied'[i] < applied'[j]
    BY DEF NoReplay
  <2>1. i \in DOMAIN applied /\ applied'[i] = applied[i]
    BY <1>5
  <2>4. applied[i] \in 1 .. MaxLines
    BY <2>1, <1>0, ElementOfSeq
  <2>2. CASE j \in DOMAIN applied
    BY <2>1, <2>2, <1>5 DEF LInv, NoReplay
  <2>3. CASE j = Len(applied) + 1
    BY <2>1, <2>3, <2>4, <1>4, <1>5, <1>11
  <2> QED
    BY <2>2, <2>3, <1>5
<1> QED
  BY <1>6, <1>7, <1>8, <1>9, <1>10, <1>12, <1>13, <1>14 DEF LInv

(* A crash drops what the consumer carried; it is in lost when the cursor   *)
(* had passed it, and behind the cursor file otherwise.                     *)
LEMMA CrashInv ==
  ASSUME LInv, Crash
  PROVE  LInv'
<1> USE DEF Crash
<1>1. TypeOK'
  <2>1. InHand \subseteq 1 .. MaxLines
    <3> SUFFICES ASSUME NEW t \in Threads, NEW i \in DOMAIN batch[t]
                 PROVE  batch[t][i] \in 1 .. MaxLines
      BY DEF InHand, Carried
    <3>1. batch[t] \in Seq(1 .. MaxLines)
      BY DEF LInv, TypeOK
    <3> QED
      BY <3>1, ElementOfSeq
  <2>2. crashes' \in 0 .. MaxCrashes
    BY RtLogAssumption DEF LInv, TypeOK
  <2>3. batch' \in [Threads -> Seq(1 .. MaxLines)]
    OBVIOUS
  <2>4. reset' \in BOOLEAN
    BY DEF LInv, TypeOK
  <2> QED
    BY <2>1, <2>2, <2>3, <2>4 DEF LInv, TypeOK
<1>2. AppendOK'
  BY DEF LInv, AppendOK, Threads
<1>3. LockOK'
  BY RtLogAssumption DEF LockOK, Inside
<1>4. CursorOffset' = CursorOffset
  BY DEF CursorOffset
<1>5. BatchOK'
  BY <1>4 DEF LInv, BatchOK, Carrying
<1>6. SaveOK'
  BY DEF SaveOK
<1>7. Behind'
  <2> SUFFICES ASSUME ~reset', NEW i \in DOMAIN applied PROVE applied[i] <= CursorOffset
    BY <1>4 DEF Behind, Carrying
  <2>1. ~reset /\ \A t \in Threads : pc[t] # "save"
    BY DEF LInv, TypeOK
  <2>2. ASSUME NEW t \in Threads, pc[t] \in Carrying PROVE applied[i] <= CursorOffset
    <3>0. applied[i] \in 1 .. MaxLines
      BY ElementOfSeq DEF LInv, TypeOK
    <3>1. applied[i] <= Base(t)
      BY <2>1, <2>2 DEF LInv, Behind
    <3>2. Base(t) <= CursorOffset
      BY <2>1, <2>2 DEF LInv, BatchOK, Base, TypeOK, Carrying
    <3> QED
      BY <3>0, <3>1, <3>2, RtLogAssumption DEF LInv, TypeOK, Base, CursorOffset, Unreadable
  <2> QED
    BY <2>1, <2>2 DEF LInv, Behind
<1>8. Accounted' /\ NoReplay'
  BY DEF LInv, TypeOK, Accounted, NoReplay
<1> QED
  BY <1>1, <1>2, <1>3, <1>5, <1>6, <1>7, <1>8 DEF LInv

(* An exception drops the same, of the one consumer it stops. *)
LEMMA ApplyRaisesInv ==
  ASSUME LInv, NEW t \in Threads, ApplyRaises(t)
  PROVE  LInv'
<1> USE DEF ApplyRaises, Goto
<1>1. /\ pc'[t] = "idle" /\ batch'[t] = <<>>
      /\ \A u \in Threads : u # t =>
            batch'[u] = batch[u] /\ pc'[u] = pc[u] /\ pc[u] \notin Inside
  BY OneInside DEF LInv, TypeOK, Inside
<1>2. TypeOK'
  <2>1. Carried(t) \subseteq 1 .. MaxLines
    <3>1. batch[t] \in Seq(1 .. MaxLines)
      BY DEF LInv, TypeOK
    <3> QED
      BY <3>1, ElementOfSeq DEF Carried
  <2>2. <<>> \in Seq(1 .. MaxLines)
    OBVIOUS
  <2>3. batch' \in [Threads -> Seq(1 .. MaxLines)]
    BY <2>2 DEF LInv, TypeOK
  <2>4. lost' \subseteq 1 .. MaxLines
    BY <2>1 DEF LInv, TypeOK
  <2>5. pc' \in [Threads -> {"idle", "append", "consume", "scan", "truncate", "save", "apply"}]
    BY DEF LInv, TypeOK
  <2> QED
    BY <2>3, <2>4, <2>5 DEF LInv, TypeOK
<1>3. AppendOK'
  BY <1>1 DEF LInv, AppendOK, Threads
<1>4. LockOK'
  BY <1>1, RtLogAssumption DEF LInv, LockOK, TypeOK, Inside
<1>5. CursorOffset' = CursorOffset
  BY DEF CursorOffset
<1>6. \A u \in Threads : pc'[u] \notin Carrying /\ batch'[u] = <<>>
  BY <1>1 DEF LInv, BatchOK, Inside, Carrying
<1>7. BatchOK'
  BY <1>5, <1>6 DEF LInv, BatchOK, Carrying
<1>8. SaveOK'
  BY <1>6 DEF SaveOK, Carrying
<1>9. Behind'
  <2> SUFFICES ASSUME ~reset, NEW i \in DOMAIN applied PROVE applied[i] <= CursorOffset
    BY <1>5, <1>6 DEF Behind
  <2>0. applied[i] \in 1 .. MaxLines
    BY ElementOfSeq DEF LInv, TypeOK
  <2>1. applied[i] <= Base(t)
    BY DEF LInv, Behind, Carrying
  <2>2. Base(t) <= CursorOffset
    BY DEF LInv, BatchOK, Base, TypeOK, Carrying
  <2> QED
    BY <2>0, <2>1, <2>2, RtLogAssumption DEF LInv, TypeOK, Base, CursorOffset, Unreadable
<1>10. \A n : n \in InHand => n \in Carried(t)
  BY <1>1 DEF InHand, Inside
<1>11. Accounted' /\ NoReplay'
  BY <1>10 DEF LInv, Accounted, NoReplay
<1> QED
  BY <1>2, <1>3, <1>4, <1>7, <1>8, <1>9, <1>11 DEF LInv

LEMMA NextLInv == LInv /\ [Next]_vars => LInv'
<1> SUFFICES ASSUME LInv, [Next]_vars PROVE LInv'
  OBVIOUS
<1>1. ASSUME NEW t \in Appenders, BeginAppend(t) PROVE LInv'
  BY <1>1, BeginAppendInv
<1>2. ASSUME NEW t \in Consumers, CallConsume(t) PROVE LInv'
  BY <1>2, CallConsumeInv
<1>3. ASSUME NEW t \in Threads, ThreadStep(t) PROVE LInv'
  BY <1>3, EndAppendInv, TakeLockInv, ScanRaisesInv, ScanInv, TruncateCursorInv,
     SaveCursorInv, ApplyOneInv, ApplyRaisesInv, EndConsumeInv DEF ThreadStep
<1>4. CASE Crash
  BY <1>4, CrashInv
<1>5. CASE UNCHANGED vars
  <2>1. /\ UNCHANGED <<cursor, lock, batch, upto, applied, reset, lost>>
        /\ UNCHANGED <<lines, tail, pc, crashes>>
    BY <1>5 DEF vars
  <2>2. TypeOK' /\ AppendOK' /\ Len(lines) <= Len(lines')
    BY <2>1 DEF LInv, TypeOK, AppendOK
  <2> QED
    BY <2>1, <2>2, OutsideStep
<1> QED
  BY <1>1, <1>2, <1>3, <1>4, <1>5 DEF Next

LEMMA AlwaysLInv == Spec => []LInv
  BY InitLInv, NextLInv, PTL DEF Spec

-----------------------------------------------------------------------------
(* RtPlasticityService and its files stay well formed: offsets never run    *)
(* past the log, whatever is appended, read or lost in a crash.             *)
THEOREM LogTypeCorrect == Spec => []TypeOK
<1>1. LInv => TypeOK
  BY DEF LInv
<1> QED
  BY <1>1, AlwaysLInv, PTL

(* read_new never moves the cursor over a record that no consumer holds:    *)
(* each was applied, is in the hands of the lock's holder, or was in the    *)
(* hands of a consumer that a crash or an exception in consume() stopped.   *)
THEOREM NoRecordSkipped == Spec => []Accounted
<1>1. LInv => Accounted
  BY DEF LInv
<1> QED
  BY <1>1, AlwaysLInv, PTL

(* The warm step sees the records at most once and in the order of the log, *)
(* through any number of consumers and crashes, as long as no crash hits    *)
(* the cursor file between its truncation and its rewrite.                  *)
THEOREM AppliedOnceInOrder == Spec => []NoReplay
<1>1. LInv => NoReplay
  BY DEF LInv
<1> QED
  BY <1>1, AlwaysLInv, PTL
=============================================================================
