----------------------------- MODULE SessionLog -----------------------------
(***************************************************************************)
(* The durable log of one session: Session (the in-memory log and its      *)
(* write chain), FileSessionStore (the one writer of events.jsonl) and the *)
(* load and recovery path of SessionsService, over crashes of the process  *)
(* and of the machine, failed writes and failed syncs.                     *)
(*                                                                         *)
(* A record goes to the file in two steps, write then fsync.  An append    *)
(* returns before either; durable() is the barrier a caller waits on       *)
(* before it acknowledges an input, starts a side effect or reports an end.*)
(***************************************************************************)
EXTENDS EventLog

CONSTANTS
  Types,        \* the types of the facts callers append
  Ids,          \* identities one process may mint for each type
  MaxLog,       \* bound: records of callers in the log
  MaxWaiting,   \* bound: durable() calls waiting at one time
  MaxCrashes,   \* bound: crashes in one behaviour
  MaxFaults,    \* bound: writes and syncs that fail in one behaviour
  ShortWrites   \* whether write() may store part of a line and still resolve

ASSUME LogAssumption ==
  /\ Types \subseteq EventTypes
  /\ MaxLog \in Nat
  /\ MaxWaiting \in Nat
  /\ MaxCrashes \in Nat
  /\ MaxFaults \in Nat
  /\ ShortWrites \in BOOLEAN

VARIABLES
  \* --- on disk
  file,         \* the complete lines of events.jsonl
  tail,         \* the shape of its end
  synced,       \* how many lines a machine crash cannot take back
  \* --- in the process
  phase,        \* down, stored (known, not loaded), recovering, live
  log,          \* Session.log
  base,         \* how many of them adoptHistory seeded from the file
  written,      \* how many of them have been written and synced
  inflight,     \* the record after `written`: none, writing, written
  tailFailed,   \* Session.writeTail has rejected
  writerFailed, \* the store's writer chain for this session has rejected
  waiting,      \* lastSeq of the durable() calls not yet settled
  poisoned,     \* Session.poisonedError is set
  probe,        \* lastSeq of a canonical read under way, 0 when there is none
  \* --- history, read by no action of the program
  acked,        \* the longest prefix durable() has vouched for
  said,         \* the log the latest crash of a live session cut off
  missing,      \* facts a canonical read has declared absent
  faulted,      \* an I/O operation failed since the latest load began
  faults, crashes

diskVars == <<file, tail, synced>>
chainVars == <<written, inflight, tailFailed, writerFailed>>
sessionVars == <<phase, log, base, waiting, poisoned, probe>>
historyVars == <<acked, said, missing, faulted, faults, crashes>>
vars == <<diskVars, chainVars, sessionVars, historyVars>>

Up == phase \in {"recovering", "live"}

-----------------------------------------------------------------------------
\* SessionsService.create: an empty log, no file, a healthy writer.
Init ==
  /\ file = <<>> /\ tail = "clean" /\ synced = 0
  /\ phase = "live" /\ log = <<>> /\ base = 0 /\ written = 0
  /\ inflight = "none" /\ tailFailed = FALSE /\ writerFailed = FALSE
  /\ waiting = {} /\ poisoned = FALSE /\ probe = 0
  /\ acked = <<>> /\ said = <<>> /\ missing = {} /\ faulted = FALSE
  /\ faults = 0 /\ crashes = 0

\* An id names the process that minted it: none is ever used again.
Minted == {<<crashes, n>> : n \in Ids}

\* What a caller may record next: an opening or plain fact under a new id, or
\* the closing of a fact that is open.
Recordable(type, id) ==
  /\ ~\E event \in ToSet(log) : event.type = type /\ event.id = id
  /\ \A opening \in DOMAIN Closing :
       Closing[opening] = type =>
         \E event \in ToSet(log) : event.type = opening /\ event.id = id

\* Session.append.  Nothing stops an append between a failed write and the
\* durable() that reports it: only the barrier poisons the session.
AppendEvent(type, id) ==
  /\ phase = "live" /\ ~poisoned
  /\ Cardinality({event \in ToSet(log) : ~event.recovered}) < MaxLog
  /\ Recordable(type, id)
  /\ log' = Append(log, Stamped(log, type, id, FALSE))
  /\ UNCHANGED <<diskVars, chainVars, phase, base, waiting, poisoned,
                 probe, acked, said, missing, faulted, faults, crashes>>

\* Session.durable, up to its first await: the barrier covers what the log
\* holds now.
Durable ==
  /\ phase = "live" /\ Cardinality(waiting) < MaxWaiting
  /\ waiting' = waiting \cup {Len(log)}
  /\ UNCHANGED <<diskVars, chainVars, phase, log, base, poisoned, probe,
                 historyVars>>

-----------------------------------------------------------------------------
\* The write chain.

NextRecord == log[written + 1]

\* The chain hands its next record to the store, whose own chain must be healthy.
StartWrite ==
  /\ Up /\ ~tailFailed /\ ~writerFailed /\ inflight = "none"
  /\ written < Len(log)
  /\ inflight' = "writing"
  /\ UNCHANGED <<diskVars, written, tailFailed, writerFailed, sessionVars,
                 historyVars>>

\* The store's chain is broken from an earlier failure: store.append rejects.
RejectWrite ==
  /\ Up /\ ~tailFailed /\ writerFailed /\ inflight = "none"
  /\ written < Len(log)
  /\ tailFailed' = TRUE
  /\ UNCHANGED <<diskVars, written, inflight, writerFailed, sessionVars,
                 historyVars>>

\* What the file holds once some of the bytes of `record` have been added: the
\* whole line, the line without its newline, a part of it, or nothing.  Bytes
\* that follow an end that is not clean are glued to it.
Added(record) ==
  CASE tail = "clean" ->
         {<<Append(file, record), "clean">>, <<Append(file, record), "unterminated">>,
          <<file, "torn">>, <<file, tail>>}
    [] tail = "torn" ->
         {<<Append(file, Junk), "clean">>, <<file, "torn">>}
    [] tail = "unterminated" ->
         {<<Append(SubSeq(file, 1, Len(file) - 1), Junk), "clean">>,
          <<SubSeq(file, 1, Len(file) - 1), "torn">>, <<file, tail>>}

WholeLine(record) ==
  CASE tail = "clean" -> <<Append(file, record), "clean">>
    [] tail = "torn" -> <<Append(file, Junk), "clean">>
    [] tail = "unterminated" ->
         <<Append(SubSeq(file, 1, Len(file) - 1), Junk), "clean">>

\* appendEventLine: write() resolved.  Its result, the number of bytes stored,
\* is not looked at.
WriteDone ==
  /\ inflight = "writing"
  /\ \E image \in IF ShortWrites THEN Added(NextRecord) ELSE {WholeLine(NextRecord)} :
       file' = image[1] /\ tail' = image[2]
  /\ synced' = IF synced > Len(file') THEN Len(file') ELSE synced
  /\ inflight' = "written"
  /\ UNCHANGED <<written, tailFailed, writerFailed, sessionVars, historyVars>>

\* openAppend or write() failed, with any part of the line stored.
WriteFails ==
  /\ inflight = "writing" /\ faults < MaxFaults
  /\ \E image \in Added(NextRecord) : file' = image[1] /\ tail' = image[2]
  /\ synced' = IF synced > Len(file') THEN Len(file') ELSE synced
  /\ inflight' = "none" /\ tailFailed' = TRUE /\ writerFailed' = TRUE
  /\ faulted' = TRUE /\ faults' = faults + 1
  /\ UNCHANGED <<written, sessionVars, acked, said, missing, crashes>>

SyncDone ==
  /\ inflight = "written"
  /\ synced' = Len(file)
  /\ written' = written + 1
  /\ inflight' = "none"
  /\ UNCHANGED <<file, tail, tailFailed, writerFailed, sessionVars, historyVars>>

SyncFails ==
  /\ inflight = "written" /\ faults < MaxFaults
  /\ inflight' = "none" /\ tailFailed' = TRUE /\ writerFailed' = TRUE
  /\ faulted' = TRUE /\ faults' = faults + 1
  /\ UNCHANGED <<diskVars, written, sessionVars, acked, said, missing, crashes>>

-----------------------------------------------------------------------------
\* Defective: the barrier forgets the queued records.
BarrierIgnoresQueue(lastSeq) == lastSeq \in waiting /\ ~writerFailed

\* Defective: a broken chain is not noticed by those waiting on it.
BarrierMissesFailure(lastSeq) ==
  lastSeq \in waiting /\ lastSeq <= written /\ writerFailed

\* durable() settles: the captured prefix is on disk and flush() finds the
\* store's chain healthy.
BarrierHolds(lastSeq) ==
  /\ lastSeq \in waiting
  /\ lastSeq <= written /\ ~writerFailed

BarrierBroken(lastSeq) ==
  /\ lastSeq \in waiting
  /\ IF lastSeq <= written THEN writerFailed ELSE tailFailed

\* ... and what it vouches for is what this process appended: records adopted
\* from the file are covered once one more record has been synced after them.
Vouched(lastSeq) ==
  IF lastSeq > base /\ lastSeq > Len(acked) THEN SubSeq(log, 1, lastSeq) ELSE acked

DurableResolves(lastSeq) ==
  /\ phase = "live" /\ BarrierHolds(lastSeq)
  /\ waiting' = waiting \ {lastSeq}
  /\ acked' = Vouched(lastSeq)
  /\ UNCHANGED <<diskVars, chainVars, phase, log, base, poisoned, probe,
                 said, missing, faulted, faults, crashes>>

DurableRejects(lastSeq) ==
  /\ phase = "live" /\ BarrierBroken(lastSeq)
  /\ waiting' = waiting \ {lastSeq}
  /\ poisoned' = TRUE
  /\ UNCHANGED <<diskVars, chainVars, phase, log, base, probe, historyVars>>

-----------------------------------------------------------------------------
\* readCanonicalEvents: wait for the records queued now, whatever became of
\* them, then read the file with the writer held off.
StartProbe ==
  /\ phase = "live" /\ probe = 0 /\ log # <<>>
  /\ probe' = Len(log)
  /\ UNCHANGED <<diskVars, chainVars, phase, log, base, waiting, poisoned,
                 historyVars>>

Read == ReadLog(file, tail)

\* Defective: the torn end is skipped, not cut off.
RepairedInMemoryOnly ==
  /\ Read.ok
  /\ file' = Read.lines /\ tail' = tail /\ synced' = synced

\* store.read on a file it can read: the end of the file is repaired and synced.
Repaired ==
  /\ Read.ok
  /\ file' = Read.lines
  /\ tail' = "clean"
  /\ synced' = IF Read.repaired THEN Len(Read.lines) ELSE synced

\* Defective: the read does not wait for the queued records.
ReadableAtOnce == inflight = "none"

\* The records queued when the read was asked for have been written or never
\* will be, and the writer is held off.
Drained == inflight = "none" /\ (probe <= written \/ tailFailed)

FinishProbe ==
  /\ phase = "live" /\ probe > 0 /\ Drained
  /\ Repaired
  /\ missing' = missing \cup {log[i] : i \in Len(Read.lines) + 1 .. probe}
  /\ probe' = 0
  /\ UNCHANGED <<chainVars, phase, log, base, waiting, poisoned, acked,
                 said, faulted, faults, crashes>>

-----------------------------------------------------------------------------
\* SessionsService.load: read and repair the file, adopt it, append the
\* recovery records in one go and wait for them to be durable.
StartLoad ==
  /\ phase = "stored"
  /\ Repaired
  /\ log' = Recovered(Read.lines)
  /\ base' = Len(Read.lines) /\ written' = Len(Read.lines)
  /\ tailFailed' = FALSE /\ inflight' = "none"
  /\ waiting' = {Len(log')}
  /\ poisoned' = FALSE /\ probe' = 0
  /\ phase' = "recovering"
  /\ faulted' = FALSE
  /\ UNCHANGED <<writerFailed, acked, said, missing, faults, crashes>>

\* Recovery is committed: the session becomes visible.
LoadCommits ==
  /\ phase = "recovering" /\ BarrierHolds(Len(log))
  /\ waiting' = {}
  /\ acked' = Vouched(Len(log))
  /\ phase' = "live"
  /\ UNCHANGED <<diskVars, chainVars, log, base, poisoned, probe, said,
                 missing, faulted, faults, crashes>>

\* Recovery could not be committed: nothing is registered, the Session is dropped.
LoadFails ==
  /\ phase = "recovering" /\ BarrierBroken(Len(log))
  /\ waiting' = {}
  /\ phase' = "stored"
  /\ UNCHANGED <<diskVars, chainVars, log, base, poisoned, probe, historyVars>>

-----------------------------------------------------------------------------
\* The process ends with bytes of the record in flight possibly in the file;
\* what the system has cached of the file stays.
Killed ==
  /\ IF inflight = "writing"
     THEN \E image \in Added(NextRecord) : file' = image[1] /\ tail' = image[2]
     ELSE UNCHANGED <<file, tail>>
  /\ synced' = IF synced > Len(file') THEN Len(file') ELSE synced

\* The machine stops: any part of the unsynced end of the file is gone.
PowerLost ==
  /\ \E image \in IF inflight = "writing" THEN Added(NextRecord) ELSE {<<file, tail>>},
        kept \in synced .. Len(file) + 1 :
       LET whole == kept = Len(image[1])
       IN  /\ kept <= Len(image[1])
           /\ file' = SubSeq(image[1], 1, kept)
           /\ tail' \in {"clean"} \cup (IF whole THEN {image[2]} ELSE {"torn"})
                          \cup (IF kept > synced THEN {"unterminated"} ELSE {})
  /\ synced' = Len(file')

Crash ==
  /\ phase # "down" /\ crashes < MaxCrashes
  /\ Killed \/ PowerLost
  /\ crashes' = crashes + 1
  /\ phase' = "down"
  /\ inflight' = "none" /\ waiting' = {} /\ probe' = 0
  /\ tailFailed' = FALSE /\ writerFailed' = FALSE
  /\ poisoned' = FALSE
  /\ said' = IF phase = "live" THEN log ELSE said
  /\ UNCHANGED <<log, base, written, acked, missing, faulted, faults>>

\* SessionsService.boot of the next process: the session is listed, not loaded;
\* when its summary is stale the log is read, which repairs the end of the file.
Boot ==
  /\ phase = "down"
  /\ phase' = "stored"
  /\ UNCHANGED diskVars \/ Repaired
  /\ UNCHANGED <<chainVars, log, base, waiting, poisoned, probe,
                 historyVars>>

-----------------------------------------------------------------------------
AppendSome == \E type \in Types, id \in Minted : AppendEvent(type, id)

\* Recovery closes each record of a caller at most once.
LastSeqs == 0 .. 2 * MaxLog
Settle ==
  \E lastSeq \in LastSeqs : DurableResolves(lastSeq) \/ DurableRejects(lastSeq)

Next ==
  \/ AppendSome \/ Durable
  \/ StartWrite \/ RejectWrite \/ WriteDone \/ WriteFails \/ SyncDone \/ SyncFails
  \/ Settle
  \/ StartProbe \/ FinishProbe
  \/ StartLoad \/ LoadCommits \/ LoadFails
  \/ Crash \/ Boot

\* Promise continuations and file operations are not starved; callers, faults
\* and crashes are under no obligation.
Fairness ==
  /\ WF_vars(StartWrite \/ RejectWrite)
  /\ WF_vars(WriteDone) /\ WF_vars(SyncDone)
  /\ \A lastSeq \in LastSeqs :
       WF_vars(DurableResolves(lastSeq) \/ DurableRejects(lastSeq))
  /\ WF_vars(FinishProbe)
  /\ WF_vars(LoadCommits) /\ WF_vars(LoadFails)

Spec == Init /\ [][Next]_vars
FairSpec == Spec /\ Fairness

-----------------------------------------------------------------------------
(***************************************************************************)
(* Properties                                                              *)
(***************************************************************************)

Facts == Events(Nat \X Ids)

\* Every variable keeps its type: the shape of the file, of Session's fields
\* and of the two promise chains.
TypeOK ==
  /\ file \in Seq(Facts \cup {Junk}) /\ tail \in Tails /\ synced \in Nat
  /\ phase \in {"down", "stored", "recovering", "live"}
  /\ log \in Seq(Facts) /\ base \in Nat /\ written \in Nat
  /\ inflight \in {"none", "writing", "written"}
  /\ tailFailed \in BOOLEAN /\ writerFailed \in BOOLEAN
  /\ waiting \subseteq Nat /\ poisoned \in BOOLEAN
  /\ probe \in Nat
  /\ acked \in Seq(Facts) /\ said \in Seq(Facts) /\ missing \subseteq Facts
  /\ faulted \in BOOLEAN
  /\ faults \in 0 .. MaxFaults /\ crashes \in 0 .. MaxCrashes

\* What durable() vouched for is in the file, in its order, in lines that no
\* crash of the process or of the machine can take back.
AckedSurvives ==
  /\ IsPrefix(acked, file)
  /\ Len(acked) <= synced

\* The file of a session that is loading or loaded holds a prefix of its memory,
\* whatever was written, failed, torn or repaired since: what a canonical read
\* reports is never more than what was appended, and never in another order.
FileIsPrefixOfMemory == Up => IsPrefix(file, log)

\* A canonical read that did not find a fact decided for good: the fact is not in
\* the file afterwards, so what a caller rolled back on that answer stays undone.
MissingStaysMissing == ToSet(file) \cap missing = {}

\* A session is handed out only when everything an earlier process left open has
\* been closed, and interrupted recoveries never close anything twice.
RestartClosesOnce ==
  /\ phase = "live" =>
       \A i \in 1 .. base : log[i].type \in DOMAIN Closing => Closed(log, log[i])
  /\ \A i, j \in 1 .. Len(file) :
       file[i].type = file[j].type /\ file[i].id = file[j].id => i = j

\* Every durable() settles: the caller that acknowledges an input, starts a tool or
\* ends a turn behind it is not left waiting, whatever fails.
BarriersSettle == \A lastSeq \in LastSeqs : lastSeq \in waiting ~> lastSeq \notin waiting

\* The comment on Session.durable: it resolves only once every record appended so
\* far has been written and synced.
DurableMeansSynced ==
  [][\A lastSeq \in waiting \ waiting' :
       phase' = "live" /\ ~poisoned' => lastSeq <= synced]_vars

\* The comments on load and recover: a load fails when its records cannot be
\* committed, and a retry starts from the canonical file again.  So a load in which
\* no I/O failed does not fail.
LoadFailsOnlyOnFault ==
  [][phase = "recovering" /\ phase' = "stored" => faulted]_vars

\* Only ever: records are said, a prefix is promised, and a restart keeps a prefix
\* that holds everything promised and closes what that prefix left open.
Promised ==
  INSTANCE DurableLog WITH
    view <- IF phase = "live" THEN log ELSE said, promised <- acked
KeepsPromises == Promised!Spec
=============================================================================
