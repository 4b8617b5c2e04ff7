-------------------------- MODULE SessionLogProofs --------------------------
(***************************************************************************)
(* Proofs about SessionLog for every value of its constants.  The claims   *)
(* about the file assume that write() stores a whole line or fails, which  *)
(* is what the code relies on.                                             *)
(***************************************************************************)
EXTENDS SessionLog, EventLogProofs

-----------------------------------------------------------------------------
(* The inductive invariant. *)

\* Whether the two sequences agree as far as the first one goes.
Agree(s, t) == Len(s) <= Len(t) /\ \A i \in 1..Len(s) : s[i] = t[i]

\* What was vouched for lies in the synced part of the file.
AckedOnDisk ==
  /\ synced <= Len(file)
  /\ Len(acked) <= synced
  /\ Agree(acked, file)

\* While a Session exists, the file holds a prefix of its log: everything
\* written, and at most the record in flight or the one whose write failed.
FileFollowsLog ==
  Up => /\ Agree(file, log)
        /\ base <= written /\ written <= Len(file)
        /\ written > base => written <= synced

\* Between two writes a healthy writer leaves a clean end and no extra record.
WriterState ==
  /\ tailFailed => writerFailed
  /\ ~Up => inflight = "none"
  /\ inflight # "none" => ~writerFailed /\ written < Len(log)
  /\ Up /\ ~writerFailed =>
       /\ tail = "clean"
       /\ Len(file) = IF inflight = "written" THEN written + 1 ELSE written

\* TypeOK in two halves: the provers take Booleans and sequences apart.
FlagsOK ==
  /\ tailFailed \in BOOLEAN /\ writerFailed \in BOOLEAN
  /\ poisoned \in BOOLEAN /\ faulted \in BOOLEAN

DataOK ==
  /\ file \in Seq(Facts) /\ tail \in Tails /\ synced \in Nat
  /\ phase \in {"down", "stored", "recovering", "live"}
  /\ log \in Seq(Facts) /\ base \in Nat /\ written \in Nat
  /\ inflight \in {"none", "writing", "written"}
  /\ waiting \subseteq Nat /\ probe \in Nat
  /\ acked \in Seq(Facts) /\ said \in Seq(Facts) /\ missing \subseteq Facts
  /\ faults \in 0 .. MaxFaults /\ crashes \in 0 .. MaxCrashes

IInv ==
  /\ FlagsOK
  /\ DataOK
  /\ probe <= Len(log)
  /\ AckedOnDisk
  /\ FileFollowsLog
  /\ WriterState

-----------------------------------------------------------------------------
(* Sequences of facts. *)

LEMMA PrefixAgrees ==
  ASSUME NEW S, NEW s \in Seq(S), NEW t \in Seq(S)
  PROVE  IsPrefix(s, t) <=> Agree(s, t)
BY DEF IsPrefix, Agree

LEMMA AgreeAppend ==
  ASSUME NEW S, NEW s \in Seq(S), NEW t \in Seq(S), NEW e \in S, Agree(s, t)
  PROVE  /\ Append(t, e) \in Seq(S) /\ Len(Append(t, e)) = Len(t) + 1
         /\ Agree(s, Append(t, e))
BY DEF Agree

LEMMA AgreeNext ==
  ASSUME NEW S, NEW s \in Seq(S), NEW t \in Seq(S), Agree(s, t), Len(s) < Len(t)
  PROVE  /\ t[Len(s) + 1] \in S
         /\ Agree(Append(s, t[Len(s) + 1]), t)
BY DEF Agree

LEMMA AgreeCut ==
  ASSUME NEW S, NEW s \in Seq(S), NEW t \in Seq(S), Agree(s, t),
         NEW n \in Len(s) .. Len(t)
  PROVE  /\ SubSeq(t, 1, n) \in Seq(S) /\ Len(SubSeq(t, 1, n)) = n
         /\ Agree(s, SubSeq(t, 1, n))
BY DEF Agree

LEMMA AgreeTaken ==
  ASSUME NEW S, NEW s \in Seq(S), NEW t \in Seq(S), Agree(s, t),
         NEW n \in 0 .. Len(s)
  PROVE  /\ SubSeq(t, 1, n) \in Seq(S) /\ Len(SubSeq(t, 1, n)) = n
         /\ Agree(SubSeq(t, 1, n), s)
BY DEF Agree

\* Reading a file of facts returns it as it is; only its end may need repair.
LEMMA ReadFacts ==
  ASSUME file \in Seq(Facts)
  PROVE  Read.lines = file
<1>1. Junk \notin Facts
  BY DEF Junk, Facts, Events
<1>2. WithoutTornLast(file, tail) = file
  BY <1>1 DEF WithoutTornLast
<1> QED BY <1>2 DEF Read, ReadLog

\* The outcomes of adding a record to a file with a clean end.
LEMMA AddedFacts ==
  ASSUME file \in Seq(Facts), tail = "clean", NEW record \in Facts,
         NEW image \in Added(record)
  PROVE  /\ image[1] \in {file, Append(file, record)}
         /\ image[2] \in Tails
BY DEF Added, Tails

LEMMA TypeSplit == FlagsOK /\ DataOK => TypeOK
<1>1. DataOK => file \in Seq(Facts \cup {Junk})
  BY DEF DataOK
<1> QED BY <1>1 DEF FlagsOK, DataOK, TypeOK

LEMMA InitIInv == LogAssumption /\ Init => IInv
<1> SUFFICES ASSUME LogAssumption, Init PROVE IInv
  OBVIOUS
<1> USE DEF Init
<1>1. FlagsOK /\ DataOK
  <2>1. FlagsOK
    BY DEF FlagsOK
  <2>2. DataOK
    BY DEF DataOK, LogAssumption, Tails
  <2> QED BY <2>1, <2>2
<1> QED BY <1>1 DEF IInv, AckedOnDisk, FileFollowsLog, WriterState, Agree, Up

-----------------------------------------------------------------------------
(* Every step keeps the invariant. *)

LEMMA AppendKeeps == LogAssumption /\ IInv /\ AppendSome => IInv'
<1> SUFFICES ASSUME LogAssumption, IInv, AppendSome PROVE IInv'
  OBVIOUS
<1>1. PICK type \in Types, id \in Minted : AppendEvent(type, id)
  BY DEF AppendSome
<1>2. Stamped(log, type, id, FALSE) \in Facts
  BY DEF Stamped, Facts, Events, Minted, LogAssumption, IInv, DataOK
<1>3. \E record \in Facts :
        /\ phase = "live" /\ log' = Append(log, record)
        /\ UNCHANGED <<diskVars, chainVars, phase, base, waiting, poisoned, probe,
                       acked, said, missing, faulted, faults, crashes>>
  BY <1>1, <1>2, Zenon DEF AppendEvent
<1>4. PICK record \in Facts :
        /\ phase = "live" /\ log' = Append(log, record)
        /\ UNCHANGED <<diskVars, chainVars, phase, base, waiting, poisoned, probe,
                       acked, said, missing, faulted, faults, crashes>>
  BY <1>3
<1> USE DEF diskVars, chainVars
<1>5. FlagsOK'
  BY <1>4 DEF IInv, FlagsOK
<1>6. log' \in Seq(Facts) /\ Len(log') = Len(log) + 1
  BY <1>4 DEF IInv, DataOK
<1>7. DataOK'
  BY <1>4, <1>6 DEF IInv, DataOK
<1>8. probe' <= Len(log') /\ AckedOnDisk'
  BY <1>4, <1>6 DEF IInv, DataOK, AckedOnDisk
<1>9. FileFollowsLog'
  <2>1. Agree(file, log')
    BY <1>4, AgreeAppend DEF IInv, DataOK, FileFollowsLog, Up
  <2> QED BY <1>4, <2>1 DEF IInv, FileFollowsLog, Up
<1>10. WriterState'
  BY <1>4, <1>6 DEF IInv, DataOK, WriterState, Up
<1> QED BY <1>5, <1>7, <1>8, <1>9, <1>10 DEF IInv


\* Steps that touch neither the file nor the log, and leave the record in flight
\* and the health of the writer as they are.
LEMMA QuietKeeps ==
  ASSUME LogAssumption, IInv, FlagsOK',
         UNCHANGED <<diskVars, chainVars, log, base>>,
         phase' \in {"stored", "live"}, phase' = phase \/ inflight = "none",
         phase' = "live" => Up,
         waiting' \subseteq Nat, probe' \in 0 .. Len(log),
         acked' \in Seq(Facts), Len(acked') <= synced, Agree(acked', file),
         said' = said, missing' \subseteq Facts,
         faults' \in 0 .. MaxFaults, crashes' \in 0 .. MaxCrashes
  PROVE  IInv'
<1> USE DEF diskVars, chainVars
<1>1. DataOK'
  BY DEF IInv, DataOK
<1>2. probe' <= Len(log') /\ AckedOnDisk'
  BY DEF IInv, DataOK, AckedOnDisk
<1>3. FileFollowsLog'
  BY DEF IInv, DataOK, FileFollowsLog, Up
<1>4. WriterState'
  BY DEF IInv, DataOK, WriterState, Up
<1> QED BY <1>1, <1>2, <1>3, <1>4 DEF IInv

LEMMA BarrierKeeps ==
  LogAssumption /\ IInv /\ (Durable \/ StartProbe) => IInv'
<1> SUFFICES ASSUME LogAssumption, IInv, Durable \/ StartProbe PROVE IInv'
  OBVIOUS
<1>1. FlagsOK'
  BY DEF IInv, FlagsOK, Durable, StartProbe, diskVars, chainVars, historyVars
<1>2. CASE Durable
  <2>1. /\ phase = "live" /\ waiting' = waiting \cup {Len(log)}
        /\ UNCHANGED <<diskVars, chainVars, phase, log, base, probe, historyVars>>
    BY <1>2 DEF Durable
  <2>2. Len(log) \in Nat /\ waiting \subseteq Nat /\ probe \in 0 .. Len(log)
    BY DEF IInv, DataOK
  <2> QED BY <1>1, <2>1, <2>2, QuietKeeps DEF IInv, DataOK, AckedOnDisk, Up, historyVars
<1>3. CASE StartProbe
  BY <1>1, <1>3, QuietKeeps DEF StartProbe, IInv, DataOK, AckedOnDisk, Up, historyVars
<1> QED BY <1>2, <1>3

\* What a barrier vouches for when it holds is on disk.
LEMMA VouchedOnDisk ==
  ASSUME LogAssumption, IInv, Up, NEW lastSeq \in Nat,
         lastSeq <= written
  PROVE  /\ Vouched(lastSeq) \in Seq(Facts)
         /\ Len(Vouched(lastSeq)) <= synced
         /\ Agree(Vouched(lastSeq), file)
<1>1. CASE lastSeq > base /\ lastSeq > Len(acked)
  <2>1. Vouched(lastSeq) = SubSeq(log, 1, lastSeq)
    BY <1>1 DEF Vouched
  <2>2. lastSeq \in 0 .. Len(file) /\ lastSeq <= synced
    BY <1>1 DEF IInv, DataOK, FileFollowsLog
  <2> QED BY <2>1, <2>2, AgreeTaken DEF IInv, DataOK, FileFollowsLog
<1>2. CASE ~(lastSeq > base /\ lastSeq > Len(acked))
  BY <1>2 DEF Vouched, IInv, DataOK, AckedOnDisk
<1> QED BY <1>1, <1>2

LEMMA SettleKeeps ==
  LogAssumption /\ IInv /\ (Settle \/ LoadCommits \/ LoadFails) => IInv'
<1> SUFFICES ASSUME LogAssumption, IInv, Settle \/ LoadCommits \/ LoadFails
             PROVE  IInv'
  OBVIOUS
<1> USE DEF historyVars
<1>1. ASSUME NEW lastSeq \in LastSeqs, DurableResolves(lastSeq) PROVE IInv'
  <2>1. lastSeq \in Nat /\ lastSeq <= written /\ Up
    BY <1>1 DEF DurableResolves, BarrierHolds, IInv, DataOK, Up
  <2>2. FlagsOK'
    BY <1>1 DEF DurableResolves, IInv, FlagsOK, chainVars
  <2> QED BY <1>1, <2>1, <2>2, VouchedOnDisk, QuietKeeps
          DEF DurableResolves, IInv, DataOK, Up
<1>2. ASSUME NEW lastSeq \in LastSeqs, DurableRejects(lastSeq) PROVE IInv'
  <2>1. FlagsOK'
    BY <1>2 DEF DurableRejects, IInv, FlagsOK, chainVars
  <2>2. /\ phase = "live" /\ waiting' = waiting \ {lastSeq}
        /\ UNCHANGED <<diskVars, chainVars, phase, log, base, probe, historyVars>>
    BY <1>2 DEF DurableRejects
  <2>3. waiting' \subseteq Nat /\ probe' \in 0 .. Len(log)
    <3>1. waiting \subseteq Nat /\ probe \in 0 .. Len(log)
      BY DEF IInv, DataOK
    <3> QED BY <2>2, <3>1
  <2> QED BY <2>1, <2>2, <2>3, QuietKeeps DEF IInv, DataOK, AckedOnDisk, Up
<1>3. CASE LoadCommits
  <2>1. Len(log) \in Nat /\ Len(log) <= written /\ Up
    BY <1>3 DEF LoadCommits, BarrierHolds, IInv, DataOK, Up
  <2>2. FlagsOK'
    BY <1>3 DEF LoadCommits, IInv, FlagsOK, chainVars
  <2>3. inflight = "none"
    BY <2>1 DEF IInv, DataOK, WriterState
  <2> QED BY <1>3, <2>1, <2>2, <2>3, VouchedOnDisk, QuietKeeps
          DEF LoadCommits, IInv, DataOK, Up
<1>4. CASE LoadFails
  <2>1. FlagsOK'
    BY <1>4 DEF LoadFails, IInv, FlagsOK, chainVars
  <2>2. inflight = "none"
    BY <1>4 DEF LoadFails, BarrierBroken, IInv, DataOK, WriterState, Up
  <2> QED BY <1>4, <2>1, <2>2, QuietKeeps
          DEF LoadFails, IInv, DataOK, AckedOnDisk, Up
<1> QED BY <1>1, <1>2, <1>3, <1>4 DEF Settle


LEMMA StartWriteKeeps ==
  LogAssumption /\ IInv /\ (StartWrite \/ RejectWrite) => IInv'
<1> SUFFICES ASSUME LogAssumption, IInv, StartWrite \/ RejectWrite PROVE IInv'
  OBVIOUS
<1> USE DEF diskVars, sessionVars, historyVars
<1>1. FlagsOK'
  BY DEF IInv, FlagsOK, StartWrite, RejectWrite
<1>2. DataOK' /\ probe' <= Len(log')
  BY DEF IInv, DataOK, StartWrite, RejectWrite
<1>3. AckedOnDisk' /\ FileFollowsLog'
  BY DEF IInv, AckedOnDisk, FileFollowsLog, Up, StartWrite, RejectWrite
<1>4. WriterState'
  BY DEF IInv, DataOK, WriterState, Up, StartWrite, RejectWrite
<1> QED BY <1>1, <1>2, <1>3, <1>4 DEF IInv

\* While a record is in flight the file ends cleanly before or after it.
LEMMA InFlight ==
  ASSUME LogAssumption, IInv, inflight # "none"
  PROVE  /\ Up /\ ~tailFailed /\ ~writerFailed /\ written < Len(log)
         /\ tail = "clean" /\ NextRecord \in Facts
         /\ inflight = "writing" =>
              /\ Len(file) = written
              /\ Append(file, NextRecord) \in Seq(Facts)
              /\ Len(Append(file, NextRecord)) = written + 1
              /\ Agree(file, Append(file, NextRecord))
              /\ Agree(acked, Append(file, NextRecord))
              /\ Agree(Append(file, NextRecord), log)
         /\ inflight = "written" => Len(file) = written + 1
<1>1. Up /\ ~tailFailed /\ ~writerFailed /\ written < Len(log) /\ tail = "clean"
  BY DEF IInv, FlagsOK, WriterState
<1>2. NextRecord \in Facts
  BY <1>1 DEF IInv, DataOK, NextRecord
<1>3. ASSUME inflight = "writing"
      PROVE  /\ Len(file) = written
             /\ Append(file, NextRecord) \in Seq(Facts)
             /\ Len(Append(file, NextRecord)) = written + 1
             /\ Agree(file, Append(file, NextRecord))
             /\ Agree(acked, Append(file, NextRecord))
             /\ Agree(Append(file, NextRecord), log)
  <2>1. Len(file) = written
    BY <1>1, <1>3 DEF IInv, WriterState
  <2>2. file \in Seq(Facts) /\ log \in Seq(Facts) /\ acked \in Seq(Facts)
    BY DEF IInv, DataOK
  <2>3. Agree(file, log) /\ Agree(acked, file) /\ Agree(file, file)
    BY <1>1, <2>2 DEF IInv, FileFollowsLog, AckedOnDisk, Agree
  <2>4. /\ Append(file, NextRecord) \in Seq(Facts)
        /\ Len(Append(file, NextRecord)) = written + 1
        /\ Agree(file, Append(file, NextRecord))
        /\ Agree(acked, Append(file, NextRecord))
    BY <1>2, <2>1, <2>2, <2>3, AgreeAppend
  <2>5. Agree(Append(file, NextRecord), log)
    BY <1>1, <2>1, <2>2, <2>3, AgreeNext DEF NextRecord
  <2> QED BY <2>1, <2>4, <2>5
<1>4. inflight = "written" => Len(file) = written + 1
  BY <1>1 DEF IInv, WriterState
<1> QED BY <1>1, <1>2, <1>3, <1>4

LEMMA WriteDoneKeeps ==
  LogAssumption /\ ~ShortWrites /\ IInv /\ WriteDone => IInv'
<1> SUFFICES ASSUME LogAssumption, ~ShortWrites, IInv, WriteDone PROVE IInv'
  OBVIOUS
<1> USE DEF sessionVars, historyVars
<1>1. inflight = "writing" /\ inflight' = "written"
  BY DEF WriteDone
<1>2. file' = Append(file, NextRecord) /\ tail' = "clean"
  BY <1>1, InFlight DEF WriteDone, WholeLine
<1>3. /\ UNCHANGED <<written, tailFailed, writerFailed, sessionVars, historyVars>>
      /\ synced' = IF synced > Len(file') THEN Len(file') ELSE synced
  BY DEF WriteDone
<1>4. synced' = synced
  BY <1>1, <1>2, <1>3, InFlight DEF IInv, AckedOnDisk, DataOK
<1>5. FlagsOK'
  BY <1>3 DEF IInv, FlagsOK
<1>6. DataOK' /\ probe' <= Len(log')
  BY <1>1, <1>2, <1>3, <1>4, InFlight DEF IInv, DataOK, Tails
<1>7. AckedOnDisk'
  BY <1>1, <1>2, <1>3, <1>4, InFlight DEF IInv, DataOK, AckedOnDisk
<1>8. FileFollowsLog'
  BY <1>1, <1>2, <1>3, <1>4, InFlight DEF IInv, DataOK, FileFollowsLog, Up
<1>9. WriterState'
  BY <1>1, <1>2, <1>3, InFlight DEF IInv, DataOK, WriterState, Up
<1> QED BY <1>5, <1>6, <1>7, <1>8, <1>9 DEF IInv

LEMMA WriteFailsKeeps == LogAssumption /\ IInv /\ WriteFails => IInv'
<1> SUFFICES ASSUME LogAssumption, IInv, WriteFails PROVE IInv'
  OBVIOUS
<1> USE DEF sessionVars
<1>1. /\ inflight = "writing" /\ inflight' = "none" /\ tailFailed' = TRUE
      /\ writerFailed' = TRUE /\ faulted' = TRUE
      /\ UNCHANGED <<written, sessionVars, acked, said, missing, crashes>>
      /\ synced' = IF synced > Len(file') THEN Len(file') ELSE synced
  BY DEF WriteFails
<1>2. faults' \in 0 .. MaxFaults
  BY DEF WriteFails, IInv, DataOK, LogAssumption
<1>3. PICK image \in Added(NextRecord) : file' = image[1] /\ tail' = image[2]
  BY DEF WriteFails
<1>4. file' \in {file, Append(file, NextRecord)} /\ tail' \in Tails
  BY <1>1, <1>3, InFlight, AddedFacts DEF IInv, DataOK
<1>5. synced' = synced
  BY <1>1, <1>4, InFlight DEF IInv, AckedOnDisk, DataOK
<1>11. /\ Agree(acked, file') /\ Agree(file', log)
      /\ Len(file') \in {written, written + 1}
  <2>1. CASE file' = file
    BY <1>1, <2>1, InFlight DEF IInv, AckedOnDisk, FileFollowsLog
  <2>2. CASE file' = Append(file, NextRecord)
    BY <1>1, <2>2, InFlight
  <2> QED BY <1>4, <2>1, <2>2
<1>6. FlagsOK'
  BY <1>1 DEF IInv, FlagsOK
<1>7. DataOK' /\ probe' <= Len(log')
  BY <1>1, <1>2, <1>4, <1>5, InFlight DEF IInv, DataOK
<1>8. AckedOnDisk'
  BY <1>1, <1>11, <1>5, InFlight DEF IInv, DataOK, AckedOnDisk
<1>9. FileFollowsLog'
  BY <1>1, <1>11, <1>5, InFlight DEF IInv, DataOK, FileFollowsLog, Up
<1>10. WriterState'
  BY <1>1, InFlight DEF IInv, DataOK, WriterState, Up
<1> QED BY <1>6, <1>7, <1>8, <1>9, <1>10 DEF IInv

LEMMA SyncKeeps == LogAssumption /\ IInv /\ (SyncDone \/ SyncFails) => IInv'
<1> SUFFICES ASSUME LogAssumption, IInv, SyncDone \/ SyncFails PROVE IInv'
  OBVIOUS
<1> USE DEF sessionVars, historyVars, diskVars
<1>1. CASE SyncDone
  <2>1. /\ inflight = "written" /\ inflight' = "none" /\ synced' = Len(file)
        /\ written' = written + 1
        /\ UNCHANGED <<file, tail, tailFailed, writerFailed, sessionVars, historyVars>>
    BY <1>1 DEF SyncDone
  <2>2. FlagsOK'
    BY <2>1 DEF IInv, FlagsOK
  <2>3. DataOK' /\ probe' <= Len(log')
    BY <2>1 DEF IInv, DataOK
  <2>4. AckedOnDisk' /\ FileFollowsLog' /\ WriterState'
    BY <2>1, InFlight DEF IInv, DataOK, AckedOnDisk, FileFollowsLog, WriterState, Up
  <2> QED BY <2>2, <2>3, <2>4 DEF IInv
<1>2. CASE SyncFails
  <2>1. /\ inflight = "written" /\ inflight' = "none" /\ faulted' = TRUE
        /\ tailFailed' = TRUE /\ writerFailed' = TRUE
        /\ UNCHANGED <<diskVars, written, sessionVars, acked, said, missing, crashes>>
    BY <1>2 DEF SyncFails
  <2>2. faults' \in 0 .. MaxFaults
    BY <1>2 DEF SyncFails, IInv, DataOK, LogAssumption
  <2>3. FlagsOK'
    BY <2>1 DEF IInv, FlagsOK
  <2>4. DataOK' /\ probe' <= Len(log')
    BY <2>1, <2>2 DEF IInv, DataOK
  <2>5. AckedOnDisk' /\ FileFollowsLog' /\ WriterState'
    BY <2>1, InFlight DEF IInv, DataOK, AckedOnDisk, FileFollowsLog, WriterState, Up
  <2> QED BY <2>3, <2>4, <2>5 DEF IInv
<1> QED BY <1>1, <1>2


\* Reading repairs the end of the file and loses nothing of it.
LEMMA RepairedFile ==
  ASSUME LogAssumption, IInv, Repaired
  PROVE  /\ Read.lines = file /\ file' = file /\ tail' = "clean"
         /\ synced' \in synced .. Len(file)
BY ReadFacts DEF Repaired, IInv, DataOK, AckedOnDisk

LEMMA ProbeKeeps == LogAssumption /\ IInv /\ FinishProbe => IInv'
<1> SUFFICES ASSUME LogAssumption, IInv, FinishProbe PROVE IInv'
  OBVIOUS
<1> USE DEF chainVars
<1>1. /\ phase = "live" /\ inflight = "none" /\ probe' = 0 /\ Repaired
      /\ missing' = missing \cup {log[i] : i \in Len(Read.lines) + 1 .. probe}
      /\ UNCHANGED <<chainVars, phase, log, base, waiting, poisoned, acked, said,
                     faulted, faults, crashes>>
  BY DEF FinishProbe, Drained
<1>2. /\ Read.lines = file /\ file' = file /\ tail' = "clean"
      /\ synced' \in synced .. Len(file)
  BY <1>1, RepairedFile
<1>3. missing' \subseteq Facts
  BY <1>1, <1>2 DEF IInv, DataOK
<1>4. FlagsOK'
  BY <1>1 DEF IInv, FlagsOK
<1>5. DataOK' /\ probe' <= Len(log')
  BY <1>1, <1>2, <1>3 DEF IInv, DataOK, Tails, AckedOnDisk
<1>6. AckedOnDisk' /\ FileFollowsLog'
  BY <1>1, <1>2 DEF IInv, DataOK, AckedOnDisk, FileFollowsLog, Up
<1>7. WriterState'
  BY <1>1, <1>2 DEF IInv, DataOK, WriterState, Up
<1> QED BY <1>4, <1>5, <1>6, <1>7 DEF IInv

LEMMA LoadKeeps == LogAssumption /\ IInv /\ StartLoad => IInv'
<1> SUFFICES ASSUME LogAssumption, IInv, StartLoad PROVE IInv'
  OBVIOUS
<1>1. /\ phase' = "recovering" /\ Repaired /\ log' = Recovered(Read.lines)
      /\ base' = Len(Read.lines) /\ written' = Len(Read.lines)
      /\ tailFailed' = FALSE /\ inflight' = "none" /\ waiting' = {Len(log')}
      /\ poisoned' = FALSE /\ probe' = 0 /\ faulted' = FALSE
      /\ UNCHANGED <<writerFailed, acked, said, missing, faults, crashes>>
  BY DEF StartLoad
<1>2. /\ Read.lines = file /\ file' = file /\ tail' = "clean"
      /\ synced' \in synced .. Len(file)
  BY <1>1, RepairedFile
<1>3. file \in Seq(Facts) /\ Len(file) \in Nat
  BY DEF IInv, DataOK
<1>4. log' \in Seq(Facts) /\ Len(log') \in Nat /\ Agree(file, log')
  <2>1. log' = Recovered(file)
    BY <1>1, <1>2
  <2> QED BY <1>3, <2>1, RecoveredType DEF Facts, Agree
<1>5. FlagsOK'
  BY <1>1 DEF IInv, FlagsOK
<1>6. DataOK' /\ probe' <= Len(log')
  BY <1>1, <1>2, <1>3, <1>4 DEF IInv, DataOK, Tails, AckedOnDisk
<1>7. AckedOnDisk' /\ FileFollowsLog'
  BY <1>1, <1>2, <1>3, <1>4 DEF IInv, DataOK, AckedOnDisk, FileFollowsLog, Up
<1>8. WriterState'
  BY <1>1, <1>2, <1>3 DEF IInv, WriterState, Up
<1> QED BY <1>5, <1>6, <1>7, <1>8 DEF IInv

LEMMA BootKeeps == LogAssumption /\ IInv /\ Boot => IInv'
<1> SUFFICES ASSUME LogAssumption, IInv, Boot PROVE IInv'
  OBVIOUS
<1> USE DEF chainVars, historyVars
<1>1. /\ phase = "down" /\ phase' = "stored"
      /\ UNCHANGED <<chainVars, log, base, waiting, poisoned, probe, historyVars>>
  BY DEF Boot
<1>2. file' = file /\ tail' \in Tails /\ synced' \in synced .. Len(file)
  BY RepairedFile DEF Boot, diskVars, IInv, DataOK, AckedOnDisk, Tails
<1>3. FlagsOK'
  BY <1>1 DEF IInv, FlagsOK
<1>4. DataOK' /\ probe' <= Len(log')
  BY <1>1, <1>2 DEF IInv, DataOK, AckedOnDisk
<1>5. AckedOnDisk' /\ FileFollowsLog' /\ WriterState'
  BY <1>1, <1>2 DEF IInv, DataOK, AckedOnDisk, FileFollowsLog, WriterState, Up
<1> QED BY <1>3, <1>4, <1>5 DEF IInv

\* Whatever a crash leaves of the file still holds everything vouched for.
LEMMA CrashKeeps == LogAssumption /\ IInv /\ Crash => IInv'
<1> SUFFICES ASSUME LogAssumption, IInv, Crash PROVE IInv'
  OBVIOUS
<1>1. /\ phase' = "down" /\ inflight' = "none" /\ waiting' = {} /\ probe' = 0
      /\ tailFailed' = FALSE /\ writerFailed' = FALSE /\ poisoned' = FALSE
      /\ said' = IF phase = "live" THEN log ELSE said
      /\ UNCHANGED <<log, base, written, acked, missing, faulted, faults>>
  BY DEF Crash
<1>2. crashes' \in 0 .. MaxCrashes
  BY DEF Crash, IInv, DataOK, LogAssumption
<1>3. /\ file' \in Seq(Facts) /\ tail' \in Tails
      /\ synced' \in Nat /\ synced' <= Len(file') /\ Len(acked) <= synced'
      /\ Agree(acked, file')
  <2>0. /\ file \in Seq(Facts) /\ tail \in Tails /\ acked \in Seq(Facts)
        /\ synced \in Nat /\ synced <= Len(file) /\ Len(acked) <= synced
        /\ Agree(acked, file)
    BY DEF IInv, DataOK, AckedOnDisk
  <2>1. ASSUME inflight = "writing", NEW image \in Added(NextRecord)
        PROVE  /\ image[1] \in Seq(Facts) /\ image[2] \in Tails
               /\ synced <= Len(image[1]) /\ Agree(acked, image[1])
    <3>1. image[1] \in {file, Append(file, NextRecord)} /\ image[2] \in Tails
      BY <2>0, <2>1, InFlight, AddedFacts
    <3>2. CASE image[1] = file
      BY <2>0, <3>1, <3>2
    <3>3. CASE image[1] = Append(file, NextRecord)
      BY <2>0, <2>1, <3>1, <3>3, InFlight
    <3> QED BY <3>1, <3>2, <3>3
  <2>2. CASE Killed
    <3>1. synced' = IF synced > Len(file') THEN Len(file') ELSE synced
      BY <2>2 DEF Killed
    <3>2. /\ file' \in Seq(Facts) /\ tail' \in Tails /\ synced <= Len(file')
          /\ Agree(acked, file')
      <4>1. CASE inflight = "writing"
        BY <2>1, <2>2, <4>1 DEF Killed
      <4>2. CASE inflight # "writing"
        BY <2>0, <2>2, <4>2 DEF Killed
      <4> QED BY <4>1, <4>2
    <3> QED BY <2>0, <3>1, <3>2
  <2>3. CASE PowerLost
    <3>1. PICK image \in (IF inflight = "writing" THEN Added(NextRecord) ELSE {<<file, tail>>}),
               kept \in synced .. Len(file) + 1 :
            /\ kept <= Len(image[1])
            /\ file' = SubSeq(image[1], 1, kept)
            /\ tail' \in {"clean"}
                 \cup (IF kept = Len(image[1]) THEN {image[2]} ELSE {"torn"})
                 \cup (IF kept > synced THEN {"unterminated"} ELSE {})
      BY <2>3 DEF PowerLost
    <3>2. synced' = Len(file')
      BY <2>3 DEF PowerLost
    <3>3. /\ image[1] \in Seq(Facts) /\ image[2] \in Tails
          /\ synced <= Len(image[1]) /\ Agree(acked, image[1])
      BY <2>0, <2>1, <3>1
    <3>4. tail' \in Tails
      BY <3>1, <3>3 DEF Tails
    <3>5. kept \in Len(acked) .. Len(image[1])
      BY <2>0, <3>1, <3>3
    <3>6. file' \in Seq(Facts) /\ Len(file') = kept /\ Agree(acked, file')
      BY <2>0, <3>1, <3>3, <3>5, AgreeCut
    <3> QED BY <2>0, <3>2, <3>4, <3>5, <3>6
  <2> QED BY <2>2, <2>3 DEF Crash
<1>4. FlagsOK'
  BY <1>1 DEF IInv, FlagsOK
<1>5. DataOK' /\ probe' <= Len(log')
  BY <1>1, <1>2, <1>3 DEF IInv, DataOK
<1>6. AckedOnDisk'
  BY <1>1, <1>3 DEF AckedOnDisk
<1>7. FileFollowsLog' /\ WriterState'
  BY <1>1 DEF FileFollowsLog, WriterState, Up
<1> QED BY <1>4, <1>5, <1>6, <1>7 DEF IInv

-----------------------------------------------------------------------------
(* The theorems. *)

LEMMA StutterKeeps == IInv /\ UNCHANGED vars => IInv'
BY DEF IInv, FlagsOK, DataOK, AckedOnDisk, FileFollowsLog, WriterState, Up, Agree,
       vars, diskVars, chainVars, sessionVars, historyVars

\* The inductive invariant holds of every behaviour in which write() stores whole
\* lines or fails.
THEOREM Invariance ==
  ASSUME ~ShortWrites
  PROVE  Spec => []IInv
<1>1. Init => IInv
  BY InitIInv, LogAssumption
<1>2. IInv /\ [Next]_vars => IInv'
  BY LogAssumption, AppendKeeps, BarrierKeeps, SettleKeeps, StartWriteKeeps,
     WriteDoneKeeps, WriteFailsKeeps, SyncKeeps, ProbeKeeps, LoadKeeps, BootKeeps,
     CrashKeeps, StutterKeeps DEF Next
<1> QED BY <1>1, <1>2, PTL DEF Spec

\* Every variable of a session log keeps its type.
THEOREM TypeCorrect ==
  ASSUME ~ShortWrites
  PROVE  Spec => []TypeOK
<1>1. IInv => TypeOK
  BY TypeSplit DEF IInv
<1> QED BY <1>1, Invariance, PTL

\* What durable() vouched for is in synced lines of the file, in every state and
\* whatever crashes: for any number of records, barriers, crashes and faults.
THEOREM AckedIsSafe ==
  ASSUME ~ShortWrites
  PROVE  Spec => []AckedSurvives
<1>1. IInv => AckedSurvives
  BY PrefixAgrees DEF IInv, DataOK, AckedOnDisk, AckedSurvives
<1> QED BY <1>1, Invariance, PTL

\* The file of a loading or loaded session is a prefix of its memory.
THEOREM FileIsPrefix ==
  ASSUME ~ShortWrites
  PROVE  Spec => []FileIsPrefixOfMemory
<1>1. IInv => FileIsPrefixOfMemory
  BY PrefixAgrees DEF IInv, DataOK, FileFollowsLog, FileIsPrefixOfMemory
<1> QED BY <1>1, Invariance, PTL

-----------------------------------------------------------------------------
(* The history: what the log, the file and the answers given have to do with *)
(* what was said before.                                                     *)

\* The log holds the file in every phase: what a crash leaves is part of the log
\* that it cut off.
LogHoldsFile == Agree(file, log)

\* An identity names one fact of each type, in the log and in the log cut off.
OneRecordEach == Distinct(log) /\ Distinct(said)

\* No identity is from a process to come.
IdsMinted == \A i \in 1..Len(log) : log[i].id[1] <= crashes

\* Everything adopted from the file is closed.
PastIsClosed ==
  Up => \A i \in 1..base : log[i].type \in DOMAIN Closing => Closed(log, log[i])

\* The records of recovery are written before a session is live.
CallersLast == phase = "live" => \A i \in 1..Len(log) : i > written => ~log[i].recovered

\* A fact declared absent is not in the file; it may still be in the memory of
\* the process that appended it, but then nothing is written any more.
NoneMissing == \A i \in 1..Len(file) : file[i] \notin missing
MissingInMemory == Up => \A i \in 1..Len(log) : log[i] \in missing => tailFailed
MissingIsKnown ==
  \A fact \in missing :
    /\ ~fact.recovered /\ fact.id[1] <= crashes
    /\ fact.id[1] = crashes => phase = "live" /\ \E i \in 1..Len(log) : log[i] = fact

\* The file is n records of the log cut off and the first of the records that
\* recovery adds to them.
GrownFrom(n) ==
  /\ n <= Len(file) /\ Agree(file, Recovered(SubSeq(said, 1, n)))
  /\ phase = "recovering" => log = Recovered(SubSeq(said, 1, n))
ComesFromSaid == phase # "live" => \E n \in Len(acked) .. Len(said) : GrownFrom(n)

HInv ==
  /\ LogHoldsFile /\ OneRecordEach /\ IdsMinted /\ PastIsClosed /\ CallersLast
  /\ NoneMissing /\ MissingInMemory /\ MissingIsKnown
  /\ ComesFromSaid

LEMMA InitHInv == Init => HInv
<1> SUFFICES ASSUME Init PROVE HInv
  OBVIOUS
<1>1. /\ file = <<>> /\ log = <<>> /\ said = <<>> /\ base = 0 /\ missing = {}
      /\ phase = "live"
  BY DEF Init
<1>2. LogHoldsFile /\ OneRecordEach /\ IdsMinted /\ PastIsClosed /\ CallersLast
  BY <1>1 DEF LogHoldsFile, Agree, OneRecordEach, Distinct, IdsMinted, PastIsClosed,
              CallersLast
<1>3. NoneMissing /\ MissingInMemory /\ MissingIsKnown /\ ComesFromSaid
  BY <1>1 DEF NoneMissing, MissingInMemory, MissingIsKnown, ComesFromSaid
<1> QED BY <1>2, <1>3 DEF HInv

\* Steps that leave the records alone.
LEMMA QuietHistory ==
  ASSUME IInv, HInv, UNCHANGED <<file, log, base, said, missing, crashes>>,
         tailFailed => tailFailed', Up' => Up, written' \in Nat,
         phase = "live" => phase' = "live" /\ written' >= written,
         phase' = "live" /\ phase # "live" => written >= Len(log) /\ written' = written,
         phase' # "live" => acked' = acked,
         phase' = "recovering" => phase = "recovering"
  PROVE  HInv'
<1>1. LogHoldsFile' /\ OneRecordEach' /\ IdsMinted'
  BY DEF HInv, LogHoldsFile, Agree, OneRecordEach, Distinct, IdsMinted
<1>2. PastIsClosed'
  BY DEF HInv, PastIsClosed, Closed, ToSet
<1>3. CallersLast'
  <2> SUFFICES ASSUME phase' = "live", NEW i \in 1..Len(log), i > written'
               PROVE  ~log[i].recovered
    BY DEF CallersLast
  <2>1. i \in Nat /\ i <= Len(log) /\ Len(log) \in Nat /\ written \in Nat
    BY DEF IInv, DataOK
  <2>2. phase = "live" /\ i > written
    BY <2>1
  <2> QED BY <2>2 DEF HInv, CallersLast
<1>4. NoneMissing' /\ MissingInMemory'
  BY Zenon DEF HInv, NoneMissing, MissingInMemory
<1>5. MissingIsKnown'
  BY DEF HInv, MissingIsKnown
<1>6. ComesFromSaid'
  <2> SUFFICES ASSUME phase' # "live"
               PROVE  \E n \in Len(acked) .. Len(said) : GrownFrom(n)'
    BY DEF ComesFromSaid
  <2>1. PICK n \in Len(acked) .. Len(said) : GrownFrom(n)
    BY DEF HInv, ComesFromSaid
  <2>2. GrownFrom(n)'
    BY <2>1 DEF GrownFrom, Agree
  <2> QED BY <2>2
<1> QED BY <1>1, <1>2, <1>3, <1>4, <1>5, <1>6 DEF HInv

LEMMA QuietActions ==
  ASSUME IInv, HInv,
         \/ Durable \/ StartProbe \/ Settle \/ LoadCommits \/ LoadFails
         \/ StartWrite \/ RejectWrite \/ SyncDone \/ SyncFails \/ Boot
         \/ UNCHANGED vars
  PROVE  HInv'
<1> USE DEF diskVars, chainVars, sessionVars, historyVars, Up
<1>1. CASE Durable \/ StartProbe
  BY <1>1, QuietHistory DEF Durable, StartProbe, IInv, DataOK
<1>2. CASE Settle
  BY <1>2, QuietHistory DEF Settle, DurableResolves, DurableRejects, IInv, DataOK
<1>3. CASE LoadCommits
  BY <1>3, QuietHistory DEF LoadCommits, BarrierHolds, IInv, DataOK
<1>4. CASE LoadFails
  BY <1>4, QuietHistory DEF LoadFails, IInv, DataOK
<1>5. CASE StartWrite \/ RejectWrite
  BY <1>5, QuietHistory DEF StartWrite, RejectWrite, IInv, DataOK
<1>6. CASE SyncDone \/ SyncFails
  BY <1>6, QuietHistory DEF SyncDone, SyncFails, IInv, DataOK
<1>7. CASE Boot
  <2>1. file' = file
    BY <1>7, RepairedFile, LogAssumption DEF Boot
  <2> QED BY <1>7, <2>1, QuietHistory DEF Boot, IInv, DataOK
<1>8. CASE UNCHANGED vars
  BY <1>8, QuietHistory DEF vars, IInv, DataOK
<1> QED BY <1>1, <1>2, <1>3, <1>4, <1>5, <1>6, <1>7, <1>8

\* A caller's record is new: under its identity there is none of its type yet.
LEMMA AppendHistory ==
  ASSUME IInv, HInv, AppendSome
  PROVE  HInv'
<1>1. PICK type \in Types, id \in Minted : AppendEvent(type, id)
  BY DEF AppendSome
<1> DEFINE record == Stamped(log, type, id, FALSE)
<1>2. /\ phase = "live" /\ log' = Append(log, record)
      /\ UNCHANGED <<diskVars, chainVars, phase, base, waiting, poisoned, probe,
                     acked, said, missing, faulted, faults, crashes>>
  BY <1>1 DEF AppendEvent
<1>3. /\ record \in Facts /\ record.type = type /\ record.id = id
      /\ record.id[1] = crashes /\ record.recovered = FALSE
  BY LogAssumption DEF Stamped, Facts, Events, Minted, IInv, DataOK
<1>4. \A i \in 1..Len(log) : ~(log[i].type = type /\ log[i].id = id)
  BY <1>1 DEF AppendEvent, Recordable, ToSet
<1> HIDE DEF record
<1> USE DEF diskVars, chainVars
<1>5. log \in Seq(Facts)
  BY DEF IInv, DataOK
<1>6. /\ Len(log') = Len(log) + 1 /\ log'[Len(log) + 1] = record
      /\ \A i \in 1..Len(log) : log'[i] = log[i]
  BY <1>2, <1>3, <1>5
<1>7. \A i \in 1..Len(log') : i \in 1..Len(log) \/ (i = Len(log) + 1 /\ log'[i] = record)
  BY <1>5, <1>6
<1>8. record \notin missing
  BY <1>3, <1>4 DEF HInv, MissingIsKnown
<1>9. LogHoldsFile'
  BY <1>2, <1>5, <1>6 DEF HInv, LogHoldsFile, Agree, IInv, DataOK
<1>10. OneRecordEach'
  <2>1. Distinct(said)'
    BY <1>2 DEF HInv, OneRecordEach, Distinct
  <2>2. Distinct(log)
    BY DEF HInv, OneRecordEach
  <2>3. ASSUME NEW i \in 1..Len(log'), NEW k \in 1..Len(log'),
               log'[i].type = log'[k].type, log'[i].id = log'[k].id
        PROVE  i = k
    BY <1>3, <1>4, <1>6, <1>7, <2>2, <2>3 DEF Distinct
  <2>4. Distinct(log)'
    BY <2>3 DEF Distinct
  <2> QED BY <2>1, <2>4 DEF OneRecordEach
<1>11. IdsMinted'
  <2>1. crashes' = crashes /\ crashes \in Nat
    BY <1>2 DEF IInv, DataOK
  <2> QED BY <1>3, <1>6, <1>7, <2>1 DEF HInv, IdsMinted
<1>12. PastIsClosed'
  <2> SUFFICES ASSUME NEW i \in 1..base, log'[i].type \in DOMAIN Closing
               PROVE  Closed(log', log'[i])
    BY <1>2 DEF PastIsClosed
  <2>1. i \in 1..Len(log)
    BY <1>2, <1>5 DEF IInv, DataOK, FileFollowsLog, Agree, Up
  <2>2. Closed(log, log[i]) /\ log'[i] = log[i]
    BY <1>2, <1>6, <2>1 DEF HInv, PastIsClosed, Up
  <2>3. PICK k \in 1..Len(log) : log[k].type = Closing[log[i].type] /\ log[k].id = log[i].id
    BY <1>5, <2>2, ClosedAt
  <2>4. /\ k \in 1..Len(log') /\ log'[k].type = Closing[log'[i].type]
        /\ log'[k].id = log'[i].id
    BY <1>5, <1>6, <2>2, <2>3
  <2>5. log' \in Seq(Facts)
    BY <1>2, <1>3, <1>5
  <2> QED BY <2>4, <2>5, ClosedAt
<1>13. CallersLast'
  BY <1>2, <1>3, <1>6, <1>7 DEF HInv, CallersLast
<1>14. NoneMissing'
  BY <1>2 DEF HInv, NoneMissing
<1>15. MissingInMemory'
  <2>1. \A i \in 1..Len(log) : log[i] \in missing => tailFailed
    BY <1>2 DEF HInv, MissingInMemory, Up
  <2>2. \A i \in 1..Len(log') : log'[i] \in missing => tailFailed
    BY <1>6, <1>7, <1>8, <2>1, Zenon
  <2> QED BY <1>2, <2>2, Zenon DEF MissingInMemory
<1>16. MissingIsKnown'
  <2> SUFFICES ASSUME NEW fact \in missing
               PROVE  /\ ~fact.recovered /\ fact.id[1] <= crashes
                      /\ fact.id[1] = crashes => \E i \in 1..Len(log') : log'[i] = fact
    BY <1>2 DEF MissingIsKnown
  <2>1. \A i \in 1..Len(log) : i \in 1..Len(log')
    BY <1>5, <1>6
  <2> QED BY <1>6, <2>1 DEF HInv, MissingIsKnown
<1>17. ComesFromSaid'
  BY <1>2 DEF ComesFromSaid
<1> QED BY <1>9, <1>10, <1>11, <1>12, <1>13, <1>14, <1>15, <1>16, <1>17 DEF HInv

\* Every step that may write: the file grows by records of the log only, and only
\* while nothing of the log has been declared absent.
LEMMA WriteHistory ==
  ASSUME ~ShortWrites, IInv, HInv, WriteDone \/ WriteFails
  PROVE  HInv'
<1> USE DEF sessionVars, historyVars
<1>1. /\ inflight = "writing"
      /\ UNCHANGED <<written, phase, log, base, acked, said, missing, crashes>>
  BY DEF WriteDone, WriteFails
<1>2. file' \in {file, Append(file, NextRecord)}
  <2>1. CASE WriteDone
    BY <1>1, <2>1, InFlight, LogAssumption DEF WriteDone, WholeLine
  <2>2. CASE WriteFails
    <3>1. PICK image \in Added(NextRecord) : file' = image[1]
      BY <2>2 DEF WriteFails
    <3> QED BY <1>1, <3>1, InFlight, AddedFacts, LogAssumption DEF IInv, DataOK
  <2> QED BY <2>1, <2>2
<1>3. /\ Up /\ ~tailFailed /\ file \in Seq(Facts) /\ log \in Seq(Facts)
      /\ Len(file) = written
      /\ Len(Append(file, NextRecord)) = written + 1
      /\ Agree(Append(file, NextRecord), log)
  BY <1>1, InFlight, LogAssumption DEF IInv, DataOK
<1>4. Agree(file', log) /\ Len(file') >= Len(file)
  <2>1. Agree(file, log) /\ written \in Nat
    BY DEF HInv, LogHoldsFile, IInv, DataOK
  <2>2. CASE file' = file
    BY <1>3, <2>1, <2>2
  <2>3. CASE file' = Append(file, NextRecord)
    BY <1>3, <2>1, <2>3
  <2> QED BY <1>2, <2>2, <2>3
<1>5. \A i \in 1..Len(log) : log[i] \notin missing
  BY <1>3 DEF HInv, MissingInMemory
<1>6. LogHoldsFile' /\ OneRecordEach' /\ IdsMinted'
  BY <1>1, <1>4 DEF HInv, LogHoldsFile, OneRecordEach, Distinct, IdsMinted
<1>7. PastIsClosed' /\ CallersLast'
  BY <1>1 DEF HInv, PastIsClosed, CallersLast, Up, Closed, ToSet
<1>8. NoneMissing'
  <2>1. Len(file') <= Len(log) /\ Len(log) \in Nat /\ Len(file') \in Nat
    BY <1>2, <1>3, <1>4 DEF Agree
  <2> QED BY <1>1, <1>4, <1>5, <2>1 DEF NoneMissing, Agree
<1>9. MissingInMemory' /\ MissingIsKnown'
  BY <1>1, <1>5 DEF HInv, MissingInMemory, MissingIsKnown
<1>10. ComesFromSaid'
  <2> SUFFICES ASSUME phase # "live" PROVE \E n \in Len(acked) .. Len(said) : GrownFrom(n)'
    BY <1>1 DEF ComesFromSaid
  <2>1. PICK n \in Len(acked) .. Len(said) : GrownFrom(n)
    BY DEF HInv, ComesFromSaid
  <2>2. log = Recovered(SubSeq(said, 1, n))
    BY <1>3, <2>1 DEF GrownFrom, Up
  <2>3. n <= Len(file')
    <3> n \in Nat /\ n <= Len(file) /\ Len(file') \in Nat
      BY <1>2, <1>3, <2>1 DEF GrownFrom, IInv, DataOK
    <3> QED BY <1>3, <1>4
  <2> QED BY <1>1, <1>4, <2>1, <2>2, <2>3 DEF GrownFrom
<1> QED BY <1>6, <1>7, <1>8, <1>9, <1>10 DEF HInv

\* A canonical read that misses a record of the log has waited until nothing more
\* is written.
LEMMA ProbeHistory ==
  ASSUME IInv, HInv, FinishProbe
  PROVE  HInv'
<1> USE DEF chainVars
<1>1. /\ phase = "live" /\ Drained /\ Repaired
      /\ missing' = missing \cup {log[i] : i \in Len(Read.lines) + 1 .. probe}
      /\ UNCHANGED <<chainVars, phase, log, base, waiting, poisoned, acked, said,
                     faulted, faults, crashes>>
  BY DEF FinishProbe
<1>2. Read.lines = file /\ file' = file
  BY <1>1, RepairedFile, LogAssumption
<1>3. /\ file \in Seq(Facts) /\ log \in Seq(Facts) /\ written \in Nat
      /\ probe \in 0 .. Len(log) /\ written <= Len(file) /\ Agree(file, log)
      /\ crashes \in Nat
  BY <1>1 DEF IInv, DataOK, FileFollowsLog, Up
<1>4. ASSUME NEW fact \in missing', fact \notin missing
      PROVE  /\ tailFailed
             /\ \E i \in 1..Len(log) : i > Len(file) /\ log[i] = fact
  <2>1. PICK i \in Len(file) + 1 .. probe : fact = log[i]
    BY <1>1, <1>2, <1>4
  <2>2. i \in 1..Len(log) /\ i > Len(file) /\ ~(probe <= written)
    BY <1>3, <2>1
  <2> QED BY <1>1, <2>1, <2>2 DEF Drained
<1>5. /\ LogHoldsFile' /\ OneRecordEach' /\ IdsMinted' /\ PastIsClosed'
      /\ CallersLast'
  <2>1. LogHoldsFile' /\ OneRecordEach' /\ IdsMinted'
    BY <1>1, <1>2 DEF HInv, LogHoldsFile, Agree, OneRecordEach, Distinct, IdsMinted
  <2>2. PastIsClosed' /\ CallersLast'
    BY <1>1 DEF HInv, PastIsClosed, CallersLast, Up, Closed, ToSet
  <2> QED BY <2>1, <2>2
<1>6. NoneMissing'
  <2> SUFFICES ASSUME NEW i \in 1..Len(file), file[i] \in missing' PROVE FALSE
    BY <1>2 DEF NoneMissing
  <2>1. file[i] \notin missing
    BY DEF HInv, NoneMissing
  <2>2. PICK k \in 1..Len(log) : k > Len(file) /\ log[k] = file[i]
    BY <1>4, <2>1
  <2>3. i \in 1..Len(log) /\ log[i] = file[i] /\ i # k
    BY <1>3, <2>2 DEF Agree
  <2> QED BY <2>2, <2>3 DEF HInv, OneRecordEach, Distinct
<1>7. MissingInMemory'
  <2> SUFFICES ASSUME NEW i \in 1..Len(log), log[i] \in missing' PROVE tailFailed
    BY <1>1, Zenon DEF MissingInMemory
  <2>1. CASE log[i] \in missing
    BY <1>1, <2>1 DEF HInv, MissingInMemory, Up
  <2>2. CASE log[i] \notin missing
    BY <1>4, <2>2
  <2> QED BY <2>1, <2>2
<1>8. MissingIsKnown'
  <2> SUFFICES ASSUME NEW fact \in missing'
               PROVE  /\ ~fact.recovered /\ fact.id[1] <= crashes
                      /\ fact.id[1] = crashes => \E i \in 1..Len(log) : log[i] = fact
    BY <1>1 DEF MissingIsKnown
  <2>1. CASE fact \in missing
    BY <2>1 DEF HInv, MissingIsKnown
  <2>2. CASE fact \notin missing
    <3>1. PICK i \in 1..Len(log) : i > Len(file) /\ log[i] = fact
      BY <1>4, <2>2
    <3>2. i > written
      BY <1>3, <3>1
    <3>3. ~log[i].recovered /\ log[i].id[1] <= crashes
      BY <1>1, <3>2 DEF HInv, CallersLast, IdsMinted
    <3> QED BY <3>1, <3>3
  <2> QED BY <2>1, <2>2
<1>9. ComesFromSaid'
  BY <1>1 DEF ComesFromSaid
<1> QED BY <1>5, <1>6, <1>7, <1>8, <1>9 DEF HInv

\* The first n records of a log.
LEMMA Taken ==
  ASSUME NEW S, NEW s \in Seq(S), NEW n \in 0 .. Len(s)
  PROVE  \E cut \in Seq(S) :
           /\ cut = SubSeq(s, 1, n) /\ Len(cut) = n
           /\ \A i \in 1..n : cut[i] = s[i]
           /\ Distinct(s) => Distinct(cut)
<1>1. PICK cut \in Seq(S) :
        cut = SubSeq(s, 1, n) /\ Len(cut) = n /\ \A i \in 1..n : cut[i] = s[i]
  <2>1. /\ SubSeq(s, 1, n) \in Seq(S) /\ Len(SubSeq(s, 1, n)) = n
        /\ \A i \in 1..n : SubSeq(s, 1, n)[i] = s[i]
    OBVIOUS
  <2> QED BY <2>1
<1>2. n <= Len(s)
  OBVIOUS
<1> QED BY <1>1, <1>2, PrefixDistinct

\* Recovery of what the file holds: the records adopted are closed, the records
\* appended are new, and an interrupted recovery is completed, not begun again.
LEMMA LoadHistory ==
  ASSUME IInv, HInv, StartLoad
  PROVE  HInv'
<1>1. /\ phase = "stored" /\ phase' = "recovering" /\ Repaired
      /\ log' = Recovered(Read.lines) /\ base' = Len(Read.lines)
      /\ UNCHANGED <<acked, said, missing, crashes>>
  BY DEF StartLoad
<1>2. Read.lines = file /\ file' = file
  BY <1>1, RepairedFile, LogAssumption
<1>3. /\ file \in Seq(Facts) /\ log \in Seq(Facts) /\ said \in Seq(Facts)
      /\ crashes \in Nat /\ Len(file) \in Nat /\ Len(acked) \in Nat
      /\ Len(said) \in Nat
  BY DEF IInv, DataOK
<1>4. Distinct(file)
  BY <1>3, PrefixDistinct DEF HInv, LogHoldsFile, OneRecordEach, Agree
<1> DEFINE T == RecoveryTail(file)
           R == Recovered(file)
<1>5. /\ T \in Seq(Facts) /\ R \in Seq(Facts) /\ Len(R) = Len(file) + Len(T)
      /\ \A i \in 1..Len(file) : R[i] = file[i]
      /\ \A p \in 1..Len(T) : R[Len(file) + p] = T[p]
  BY <1>3, RecoveredAt DEF Facts
<1>6. \A p \in 1..Len(T) :
        /\ T[p].recovered = TRUE
        /\ \E i \in 1..Len(file) : T[p].id = file[i].id
  BY <1>3, TailRecord
<1>7. ASSUME NEW i \in 1..Len(R)
      PROVE  \/ i \in 1..Len(file) /\ R[i] = file[i]
             \/ /\ R[i].recovered = TRUE
                /\ \E k \in 1..Len(file) : R[i].id = file[k].id
  <2>1. CASE i <= Len(file)
    BY <1>3, <1>5, <2>1
  <2>2. CASE ~(i <= Len(file))
    <3>1. PICK p \in 1..Len(T) : i = Len(file) + p
      <4> i - Len(file) \in 1..Len(T) /\ i = Len(file) + (i - Len(file))
        BY <1>3, <1>5, <2>2
      <4> QED OBVIOUS
    <3> HIDE DEF T, R
    <3> QED BY <1>5, <1>6, <3>1
  <2> QED BY <2>1, <2>2
<1> HIDE DEF T
<1>8. log' = R /\ base' = Len(file)
  BY <1>1, <1>2
<1>9. LogHoldsFile'
  BY <1>2, <1>3, <1>5, <1>8 DEF LogHoldsFile, Agree
<1>10. OneRecordEach'
  <2>1. Distinct(R)
    BY <1>3, <1>4, RecoveredDistinct DEF Facts
  <2>2. Distinct(said)
    BY DEF HInv, OneRecordEach
  <2> QED BY <1>1, <1>8, <2>1, <2>2 DEF OneRecordEach, Distinct
<1>11. PastIsClosed'
  <2> SUFFICES ASSUME NEW i \in 1..Len(file), R[i].type \in DOMAIN Closing
               PROVE  Closed(R, R[i])
    BY <1>8 DEF PastIsClosed
  <2>1. R[i] = file[i]
    BY <1>5
  <2> QED BY <1>3, <2>1, RecoveredCloses DEF Facts
<1> HIDE DEF R
<1>12. IdsMinted'
  <2>1. \A k \in 1..Len(file) : file[k].id[1] <= crashes
    BY <1>3 DEF HInv, LogHoldsFile, Agree, IdsMinted
  <2>2. \A i \in 1..Len(R) : R[i].id[1] <= crashes
    BY <1>7, <2>1
  <2> QED BY <1>1, <1>8, <2>2 DEF IdsMinted
<1>13. CallersLast' /\ NoneMissing'
  BY <1>1, <1>2 DEF CallersLast, HInv, NoneMissing
<1>14. MissingInMemory'
  <2>1. \A i \in 1..Len(R) : R[i] \notin missing
    BY <1>7 DEF HInv, NoneMissing, MissingIsKnown
  <2> QED BY <1>1, <1>8, <2>1, Zenon DEF MissingInMemory
<1>15. MissingIsKnown'
  BY <1>1 DEF HInv, MissingIsKnown
<1>16. ComesFromSaid'
  <2>1. PICK n \in Len(acked) .. Len(said) : GrownFrom(n)
    BY <1>1 DEF HInv, ComesFromSaid
  <2>2. n \in 0 .. Len(said) /\ Distinct(said)
    BY <1>3 DEF HInv, OneRecordEach
  <2>3. PICK cut \in Seq(Facts) :
          /\ cut = SubSeq(said, 1, n) /\ Len(cut) = n
          /\ \A i \in 1..n : cut[i] = said[i]
          /\ Distinct(said) => Distinct(cut)
    BY <1>3, <2>2, Taken
  <2>4. n <= Len(file) /\ Agree(file, Recovered(cut))
    BY <2>1, <2>3 DEF GrownFrom
  <2>5. Recovered(file) = Recovered(cut)
    BY <1>3, <2>2, <2>3, <2>4, RecoveredAgain DEF Agree, Facts
  <2>6. log' = Recovered(cut)
    BY <1>8, <2>5 DEF R
  <2>7. GrownFrom(n)'
    BY <1>1, <1>2, <2>3, <2>4, <2>6 DEF GrownFrom
  <2> QED BY <1>1, <2>7 DEF ComesFromSaid
<1> QED BY <1>9, <1>10, <1>11, <1>12, <1>13, <1>14, <1>15, <1>16 DEF HInv

\* What a crash leaves of the file is a prefix of the log, and of the file when no
\* write was under way.
LEMMA CrashCuts ==
  ASSUME IInv, HInv, Crash
  PROVE  /\ file' \in Seq(Facts) /\ Agree(file', log)
         /\ inflight # "writing" => Agree(file', file)
<1>1. file \in Seq(Facts) /\ log \in Seq(Facts) /\ Agree(file, log) /\ Agree(file, file)
  BY DEF IInv, DataOK, HInv, LogHoldsFile, Agree
<1>2. ASSUME inflight = "writing", NEW image \in Added(NextRecord)
      PROVE  image[1] \in Seq(Facts) /\ Agree(image[1], log)
  <2>1. image[1] \in {file, Append(file, NextRecord)}
    BY <1>1, <1>2, InFlight, AddedFacts, LogAssumption
  <2> QED BY <1>1, <1>2, <2>1, InFlight, LogAssumption
<1>3. CASE Killed
  <2>1. CASE inflight = "writing"
    BY <1>2, <1>3, <2>1 DEF Killed
  <2>2. CASE inflight # "writing"
    BY <1>1, <1>3, <2>2 DEF Killed
  <2> QED BY <2>1, <2>2
<1>4. CASE PowerLost
  <2>1. PICK image \in (IF inflight = "writing" THEN Added(NextRecord) ELSE {<<file, tail>>}),
             kept \in synced .. Len(file) + 1 :
          kept <= Len(image[1]) /\ file' = SubSeq(image[1], 1, kept)
    BY <1>4 DEF PowerLost
  <2>2. /\ image[1] \in Seq(Facts) /\ Agree(image[1], log)
        /\ inflight # "writing" => image[1] = file
    BY <1>1, <1>2, <2>1
  <2>3. kept \in 0 .. Len(image[1])
    <3> synced \in Nat /\ Len(file) \in Nat
      BY DEF IInv, DataOK
    <3> QED BY <2>1, <2>2
  <2>4. Agree(image[1], image[1])
    BY <2>2 DEF Agree
  <2>5. PICK whole \in Seq(Facts) : whole = image[1]
    BY <2>2
  <2>6. /\ file' \in Seq(Facts) /\ Len(file') = kept
        /\ Agree(file', whole)
    BY <2>1, <2>3, <2>4, <2>5, AgreeTaken
  <2>7. Agree(file', log)
    BY <1>1, <2>2, <2>5, <2>6 DEF Agree
  <2> QED BY <2>2, <2>5, <2>6, <2>7
<1> QED BY <1>3, <1>4 DEF Crash

LEMMA CrashHistory ==
  ASSUME IInv, IInv', HInv, Crash
  PROVE  HInv'
<1>1. /\ phase # "down" /\ phase' = "down" /\ crashes' = crashes + 1
      /\ said' = IF phase = "live" THEN log ELSE said
      /\ UNCHANGED <<log, base, written, acked, missing>>
  BY DEF Crash
<1>2. /\ file' \in Seq(Facts) /\ Agree(file', log)
      /\ inflight # "writing" => Agree(file', file)
  BY CrashCuts
<1>3. /\ file \in Seq(Facts) /\ log \in Seq(Facts) /\ said \in Seq(Facts)
      /\ acked \in Seq(Facts) /\ crashes \in Nat
  BY DEF IInv, DataOK
<1>4. LogHoldsFile' /\ OneRecordEach'
  BY <1>1, <1>2 DEF HInv, LogHoldsFile, Agree, OneRecordEach, Distinct
<1>5. IdsMinted'
  <2> SUFFICES ASSUME NEW i \in 1..Len(log) PROVE log[i].id[1] <= crashes + 1
    BY <1>1 DEF IdsMinted
  <2>1. log[i].id[1] \in Nat /\ log[i].id[1] <= crashes
    <3>1. log[i] \in Facts
      BY <1>3
    <3>2. log[i].id \in Nat \X Ids
      BY <3>1 DEF Facts, Events
    <3> QED BY <3>2 DEF HInv, IdsMinted
  <2> QED BY <1>3, <2>1
<1>6. PastIsClosed' /\ CallersLast' /\ MissingInMemory'
  BY <1>1 DEF PastIsClosed, CallersLast, MissingInMemory, Up
<1>7. NoneMissing'
  <2> SUFFICES ASSUME NEW i \in 1..Len(file') PROVE file'[i] \notin missing
    BY <1>1 DEF NoneMissing
  <2>1. CASE inflight = "writing"
    <3>1. i \in 1..Len(log) /\ log[i] = file'[i]
      BY <1>2, <1>3 DEF Agree
    <3>2. Up /\ ~tailFailed
      BY <2>1, InFlight, LogAssumption
    <3>3. log[i] \notin missing
      BY <3>1, <3>2 DEF HInv, MissingInMemory
    <3> QED BY <3>1, <3>3
  <2>2. CASE inflight # "writing"
    <3>1. i \in 1..Len(file) /\ file[i] = file'[i]
      BY <1>2, <1>3, <2>2 DEF Agree
    <3> QED BY <3>1 DEF HInv, NoneMissing
  <2> QED BY <2>1, <2>2
<1>8. MissingIsKnown'
  <2> SUFFICES ASSUME NEW fact \in missing
               PROVE  /\ ~fact.recovered /\ fact.id[1] <= crashes + 1
                      /\ fact.id[1] # crashes + 1
    BY <1>1 DEF MissingIsKnown
  <2>1. fact.id[1] \in Nat
    BY DEF IInv, DataOK, Facts, Events
  <2>2. ~fact.recovered /\ fact.id[1] <= crashes
    BY DEF HInv, MissingIsKnown
  <2> QED BY <1>3, <2>1, <2>2
<1>9. ComesFromSaid'
  <2> SUFFICES \E n \in Len(acked) .. Len(said') : GrownFrom(n)'
    BY <1>1 DEF ComesFromSaid
  \* What is left of a log that was cut off at or after record n, and no more.
  <2>1. ASSUME NEW whole \in Seq(Facts), said' = whole, NEW n \in 0 .. Len(whole),
               Len(file') <= n, \A i \in 1..Len(file') : file'[i] = whole[i]
        PROVE  \E k \in Len(acked) .. Len(said') : GrownFrom(k)'
    <3>1. PICK k \in Nat : k = Len(file')
      BY <1>2
    <3>2. k \in Len(acked) .. Len(said')
      <4>1. acked' = acked /\ Len(acked) \in Nat
        BY <1>1, <1>3
      <4>2. Len(acked') <= synced' /\ synced' <= Len(file') /\ synced' \in Nat
        BY DEF IInv, DataOK, AckedOnDisk
      <4>3. Len(said') \in Nat /\ Len(file') <= Len(said')
        BY <1>2, <2>1
      <4> QED BY <3>1, <4>1, <4>2, <4>3
    <3>3. k \in 0 .. Len(whole)
      BY <2>1, <3>1
    <3>4. PICK cut \in Seq(Facts) :
            /\ cut = SubSeq(whole, 1, k) /\ Len(cut) = k
            /\ \A i \in 1..k : cut[i] = whole[i]
            /\ Distinct(whole) => Distinct(cut)
      BY <3>3, Taken
    <3>5. /\ Recovered(cut) \in Seq(Facts) /\ Len(Recovered(cut)) >= k
          /\ \A i \in 1..k : Recovered(cut)[i] = cut[i]
      <4>1. /\ RecoveryTail(cut) \in Seq(Facts) /\ Recovered(cut) \in Seq(Facts)
            /\ Len(Recovered(cut)) = Len(cut) + Len(RecoveryTail(cut))
            /\ \A i \in 1..Len(cut) : Recovered(cut)[i] = cut[i]
        BY RecoveredAt DEF Facts
      <4> QED BY <3>4, <4>1
    <3>6. Agree(file', Recovered(cut))
      BY <2>1, <3>1, <3>4, <3>5 DEF Agree
    <3>7. GrownFrom(k)'
      BY <1>1, <2>1, <3>1, <3>4, <3>6 DEF GrownFrom
    <3> QED BY <3>2, <3>7
  <2>2. CASE phase = "live"
    <3>1. said' = log /\ Len(file') <= Len(log) /\ \A i \in 1..Len(file') : file'[i] = log[i]
      BY <1>1, <1>2, <2>2 DEF Agree
    <3> QED BY <1>3, <2>1, <3>1
  <2>3. CASE phase # "live"
    <3>1. PICK n \in Len(acked) .. Len(said) : GrownFrom(n)
      BY <2>3 DEF HInv, ComesFromSaid
    <3>2. said' = said /\ n \in 0 .. Len(said)
      BY <1>1, <1>3, <2>3
    <3>3. PICK cut \in Seq(Facts) :
            /\ cut = SubSeq(said, 1, n) /\ Len(cut) = n
            /\ \A i \in 1..n : cut[i] = said[i]
            /\ Distinct(said) => Distinct(cut)
      BY <1>3, <3>2, Taken
    <3>4. Agree(file', Recovered(cut))
      <4>1. CASE inflight = "writing"
        <5>1. phase = "recovering"
          BY <2>3, <4>1, InFlight, LogAssumption DEF Up
        <5> QED BY <1>2, <3>1, <3>3, <5>1 DEF GrownFrom
      <4>2. CASE inflight # "writing"
        <5>1. Agree(file', file) /\ Agree(file, Recovered(cut))
          BY <1>2, <3>1, <3>3, <4>2 DEF GrownFrom
        <5>2. PICK r \in Seq(Facts) : r = Recovered(cut)
          BY RecoveredAt DEF Facts
        <5> QED BY <1>2, <1>3, <5>1, <5>2 DEF Agree
      <4> QED BY <4>1, <4>2
    <3>5. CASE n <= Len(file')
      <4>1. GrownFrom(n)'
        BY <1>1, <3>2, <3>3, <3>4, <3>5 DEF GrownFrom
      <4> QED BY <3>1, <3>2, <4>1
    <3>6. CASE ~(n <= Len(file'))
      <4>1. \A i \in 1..n : Recovered(cut)[i] = cut[i]
        <5>1. \A i \in 1..Len(cut) : Recovered(cut)[i] = cut[i]
          BY RecoveredAt DEF Facts
        <5> QED BY <3>3, <5>1
      <4>2. Len(file') \in Nat /\ Len(file') <= n
        BY <1>2, <3>2, <3>6
      <4>3. \A i \in 1..Len(file') : file'[i] = said[i]
        BY <3>3, <3>4, <4>1, <4>2 DEF Agree
      <4> QED BY <1>3, <2>1, <3>2, <4>2, <4>3
    <3> QED BY <3>5, <3>6
  <2> QED BY <2>2, <2>3
<1> QED BY <1>4, <1>5, <1>6, <1>7, <1>8, <1>9 DEF HInv

\* The history invariant holds of every behaviour in which write() stores whole
\* lines or fails.
THEOREM HistoryInvariance ==
  ASSUME ~ShortWrites
  PROVE  Spec => [](IInv /\ HInv)
<1>1. Init => HInv
  BY InitHInv
<1>2. IInv /\ IInv' /\ HInv /\ [Next]_vars => HInv'
  BY AppendHistory, WriteHistory, ProbeHistory, LoadHistory, CrashHistory,
     QuietActions DEF Next
<1> QED BY <1>1, <1>2, Invariance, PTL DEF Spec

\* A canonical read that did not find a fact decided for good: it is not in the
\* file in any later state, whatever is written, crashes or is loaded again.
THEOREM MissingIsFinal ==
  ASSUME ~ShortWrites
  PROVE  Spec => []MissingStaysMissing
<1>1. HInv => MissingStaysMissing
  BY DEF HInv, NoneMissing, MissingStaysMissing, ToSet
<1> QED BY <1>1, HistoryInvariance, PTL

\* However often a load is interrupted and begun again, a session is handed out
\* with everything of its past closed, and closed once.
THEOREM ClosedOnce ==
  ASSUME ~ShortWrites
  PROVE  Spec => []RestartClosesOnce
<1>1. ASSUME IInv, HInv PROVE RestartClosesOnce
  <2>1. Distinct(file)
    BY <1>1, PrefixDistinct DEF IInv, DataOK, HInv, LogHoldsFile, OneRecordEach, Agree
  <2>2. phase = "live" =>
          \A i \in 1..base : log[i].type \in DOMAIN Closing => Closed(log, log[i])
    BY <1>1 DEF HInv, PastIsClosed, Up
  <2> QED BY <2>1, <2>2 DEF Distinct, RestartClosesOnce
<1> QED BY <1>1, HistoryInvariance, PTL

-----------------------------------------------------------------------------
(* The session log implements DurableLog. *)

\* The log as callers see it: that of the live session, or the one cut off last.
View == IF phase = "live" THEN log ELSE said

\* The abstract specification sees EventLog through its own names; by expansion,
\* its operators are the same ones.
LEMMA SameCardinality ==
  ASSUME NEW S PROVE Promised!Cardinality(S) = Cardinality(S)
BY DEF Cardinality, Promised!Cardinality

LEMMA SameNth ==
  ASSUME NEW numbers, NEW k PROVE Promised!Nth(numbers, k) = Nth(numbers, k)
BY SameCardinality DEF Nth, Promised!Nth

LEMMA SameClosed ==
  ASSUME NEW log0, NEW event PROVE Promised!Closed(log0, event) <=> Closed(log0, event)
BY Zenon DEF Closed, Promised!Closed, ToSet, Promised!ToSet, Closing, Promised!Closing

LEMMA SameUnclosed ==
  ASSUME NEW log0, NEW type PROVE Promised!Unclosed(log0, type) = Unclosed(log0, type)
<1>1. {i \in 1..Len(log0) : log0[i].type = type /\ ~Promised!Closed(log0, log0[i])}
        = {i \in 1..Len(log0) : log0[i].type = type /\ ~Closed(log0, log0[i])}
  BY SameClosed
<1> QED BY <1>1, SameNth, SameCardinality DEF Unclosed, Promised!Unclosed, Picked,
                                                Promised!Picked

LEMMA SameRecovered ==
  ASSUME NEW log0 PROVE Promised!Recovered(log0) = Recovered(log0)
<1>1. Promised!RecoveryTail(log0) = RecoveryTail(log0)
  <2>1. Promised!Closing = Closing /\ Promised!OpeningTypes = OpeningTypes
    BY Zenon DEF Closing, Promised!Closing, OpeningTypes, Promised!OpeningTypes
  <2> QED BY <2>1, SameUnclosed, Zenon DEF RecoveryTail, Promised!RecoveryTail
<1> QED BY <1>1 DEF Recovered, Promised!Recovered

LEMMA SameView ==
  /\ Promised!Init <=> View = <<>> /\ acked = <<>>
  /\ Promised!Say <=> /\ Len(View') = Len(View) + 1 /\ IsPrefix(View, View')
                      /\ UNCHANGED acked
  /\ Promised!Promise <=>
       /\ \E n \in Len(acked) + 1 .. Len(View) : acked' = SubSeq(View, 1, n)
       /\ UNCHANGED View
  /\ Promised!Restart <=>
       /\ \E n \in Len(acked) .. Len(View) : View' = Recovered(SubSeq(View, 1, n))
       /\ acked' \in {acked, View'}
BY SameRecovered DEF View, Promised!Init, Promised!Say, Promised!Promise,
     Promised!Restart, IsPrefix, Promised!IsPrefix

\* Steps that leave what callers see and may rely on alone.
LEMMA ViewUnchanged ==
  ASSUME IInv, HInv,
         \/ Durable \/ StartWrite \/ RejectWrite \/ WriteDone \/ WriteFails
         \/ SyncDone \/ SyncFails \/ StartProbe \/ FinishProbe
         \/ StartLoad \/ LoadFails \/ Crash \/ Boot \/ UNCHANGED vars
  PROVE  View' = View /\ acked' = acked
<1> USE DEF vars, diskVars, chainVars, sessionVars, historyVars, View
<1>1. CASE Durable \/ StartProbe \/ FinishProbe
  BY <1>1 DEF Durable, StartProbe, FinishProbe
<1>2. CASE StartWrite \/ RejectWrite \/ WriteDone \/ WriteFails \/ SyncDone \/ SyncFails
  BY <1>2 DEF StartWrite, RejectWrite, WriteDone, WriteFails, SyncDone, SyncFails
<1>3. CASE StartLoad \/ LoadFails \/ Crash \/ Boot \/ UNCHANGED vars
  BY <1>3 DEF StartLoad, LoadFails, Crash, Boot
<1> QED BY <1>1, <1>2, <1>3

\* An append says one more record.
LEMMA AppendSays ==
  ASSUME IInv, AppendSome
  PROVE  Promised!Say
<1>1. PICK type \in Types, id \in Minted : AppendEvent(type, id)
  BY DEF AppendSome
<1>2. Stamped(log, type, id, FALSE) \in Facts
  BY LogAssumption DEF Stamped, Facts, Events, Minted, IInv, DataOK
<1>3. PICK record \in Facts :
        phase = "live" /\ phase' = phase /\ log' = Append(log, record) /\ acked' = acked
  BY <1>1, <1>2 DEF AppendEvent
<1>4. log \in Seq(Facts) /\ Agree(log, log)
  BY DEF IInv, DataOK, Agree
<1>5. /\ log' \in Seq(Facts) /\ Len(log') = Len(log) + 1 /\ Agree(log, log')
  BY <1>3, <1>4, AgreeAppend
<1>6. IsPrefix(log, log')
  BY <1>4, <1>5, PrefixAgrees
<1> QED BY <1>3, <1>5, <1>6, SameView DEF View

\* A barrier that holds promises a longer prefix of the log, or nothing new.
LEMMA SettlePromises ==
  ASSUME IInv, Settle
  PROVE  Promised!Promise \/ (View' = View /\ acked' = acked)
<1> USE DEF diskVars, chainVars, historyVars
<1>1. ASSUME NEW lastSeq \in LastSeqs, DurableRejects(lastSeq)
      PROVE  View' = View /\ acked' = acked
  BY <1>1 DEF DurableRejects, View
<1>2. ASSUME NEW lastSeq \in LastSeqs, DurableResolves(lastSeq)
      PROVE  Promised!Promise \/ (View' = View /\ acked' = acked)
  <2>1. /\ phase = "live" /\ View = log /\ View' = View /\ acked' = Vouched(lastSeq)
        /\ lastSeq <= written
    BY <1>2 DEF DurableResolves, BarrierHolds, View
  <2>2. CASE lastSeq > base /\ lastSeq > Len(acked)
    <3>1. lastSeq \in Len(acked) + 1 .. Len(log)
      BY <2>1, <2>2, LogAssumption
         DEF LastSeqs, IInv, DataOK, FileFollowsLog, Agree, Up
    <3>2. acked' = SubSeq(View, 1, lastSeq)
      BY <2>1, <2>2 DEF Vouched
    <3> QED BY <2>1, <3>1, <3>2, SameView
  <2>3. CASE ~(lastSeq > base /\ lastSeq > Len(acked))
    BY <2>1, <2>3 DEF Vouched
  <2> QED BY <2>2, <2>3
<1> QED BY <1>1, <1>2 DEF Settle

\* A committed load restarts the log from a part that holds everything promised.
LEMMA LoadRestarts ==
  ASSUME IInv, HInv, LoadCommits
  PROVE  Promised!Restart
<1>1. /\ phase = "recovering" /\ phase' = "live" /\ UNCHANGED <<log, said>>
      /\ acked' = Vouched(Len(log))
  BY DEF LoadCommits
<1>2. View = said /\ View' = log
  BY <1>1 DEF View
<1>3. PICK n \in Len(acked) .. Len(said) : log = Recovered(SubSeq(said, 1, n))
  BY <1>1 DEF HInv, ComesFromSaid, GrownFrom
<1>4. acked' \in {acked, log}
  <2>1. SubSeq(log, 1, Len(log)) = log
    BY DEF IInv, DataOK
  <2> QED BY <1>1, <2>1 DEF Vouched
<1> QED BY <1>2, <1>3, <1>4, SameView

\* The session log keeps the promises of DurableLog: its files, chains, crashes and
\* repeated recoveries are steps of a log whose promised prefix only grows and is
\* never cut.
THEOREM Refinement ==
  ASSUME ~ShortWrites
  PROVE  Spec => KeepsPromises
<1>1. Init => Promised!Init
  BY SameView DEF Init, View
<1>2. IInv /\ HInv /\ [Next]_vars => [Promised!Next]_Promised!vars
  <2> SUFFICES ASSUME IInv, HInv, [Next]_vars
               PROVE  Promised!Next \/ (View' = View /\ acked' = acked)
    BY DEF Promised!vars, View
  <2>1. CASE AppendSome
    BY <2>1, AppendSays DEF Promised!Next
  <2>2. CASE Settle
    BY <2>2, SettlePromises DEF Promised!Next
  <2>3. CASE LoadCommits
    BY <2>3, LoadRestarts DEF Promised!Next
  <2>4. CASE ~(AppendSome \/ Settle \/ LoadCommits)
    BY <2>4, ViewUnchanged DEF Next
  <2> QED BY <2>1, <2>2, <2>3, <2>4
<1> QED BY <1>1, <1>2, HistoryInvariance, PTL DEF Spec, KeepsPromises, Promised!Spec

=============================================================================
