---------------------------- MODULE SessionCatalog ----------------------------
(***************************************************************************)
(* The session registry around one durable log: the conversation is        *)
(* created, loaded on demand, summarised for the listing, deleted, and     *)
(* closed with the host.  The log itself is the subject of SessionLog;     *)
(* here it is the number of its synced records, and what can go wrong is   *)
(* the order of the catalog's own steps: the listing against the log, a    *)
(* deletion against everything that could write the directory again, and   *)
(* the shutdown against appends already queued.                            *)
(*                                                                         *)
(* Sessions do not share state in the registry, so one is modelled; its    *)
(* fork has no caller in the program and is left out.                      *)
(***************************************************************************)
EXTENDS Integers, FiniteSets

CONSTANTS
  MaxLog,       \* bound: records of the log
  MaxFaults,    \* bound: file operations that fail
  MaxCrashes    \* bound

ASSUME CatalogAssumption ==
  /\ MaxLog \in Nat \ {0} /\ MaxFaults \in Nat /\ MaxCrashes \in Nat

None == -1
Seqs == 0..MaxLog

VARIABLES
  \* --- on disk: the session's directory, its log and its summary
  dir, log, sum,
  \* --- the host: "up", the phases of closeStores, "closed", "down"
  host,
  \* --- the registry
  known,      \* the listed summary's lastSeq, or None
  deleting,
  loader,     \* the await the load in flight is parked on, or "none"
  target,     \* highest durable prefix awaiting its summary
  writer,     \* the prefix the summary writer is writing, or 0
  \* --- the Session object, loading or loaded, and its write chain
  session,    \* [st, mem, closed, poisoned]
  inflight,   \* the store is writing the next record
  broken,     \* a write of the chain failed: it rejects for ever
  handle,     \* the append handle is open
  barriers,   \* the prefixes durable() calls wait for
  \* --- the requests
  birth,      \* the creating request: "none", "snapshot", "kept", "failed"
  del,        \* the await the deletion is parked on, or how it ended
  vouched,    \* history: the longest prefix a durable() of this process vouched for
  hidden,     \* history: the last start could not rebuild the summary
  faults, crashes

diskVars == <<dir, log, sum>>
chainVars == <<session, inflight, broken, handle, barriers>>
summaryVars == <<known, target, writer>>
vars == <<diskVars, host, deleting, loader, chainVars, summaryVars, birth, del,
          vouched, faults, crashes, hidden>>

NoSession == [st |-> "none", mem |-> 0, closed |-> FALSE, poisoned |-> FALSE]
Loaded == session.st = "loaded"
Queued == session.st # "none" /\ log < session.mem

Init ==
  /\ dir = FALSE /\ log = 0 /\ sum = None /\ host = "up"
  /\ known = None /\ deleting = FALSE /\ loader = "none"
  /\ target = 0 /\ writer = 0 /\ session = NoSession
  /\ inflight = FALSE /\ broken = FALSE /\ handle = FALSE /\ barriers = {}
  /\ birth = "none" /\ del = "none" /\ vouched = 0 /\ faults = 0 /\ crashes = 0
  /\ hidden = FALSE

Fault == faults < MaxFaults /\ faults' = faults + 1

-----------------------------------------------------------------------------
(***************************************************************************)
(* The summary: one writer at a time, for the highest durable prefix.      *)
(***************************************************************************)

\* The bug of a writer that summarises the log in memory.
ScheduleMemory(k) ==
  IF host # "up" \/ deleting
  THEN UNCHANGED <<target, writer>>
  ELSE /\ target' = session.mem
       /\ writer' = IF writer = 0 THEN session.mem ELSE writer

\* scheduleSummary; the writer's first pass starts in the same call.
Schedule(k) ==
  IF host # "up" \/ deleting
  THEN UNCHANGED <<target, writer>>
  ELSE LET high == IF k > target THEN k ELSE target
       IN target' = high /\ writer' = IF writer = 0 THEN high ELSE writer

\* The bug of a writer that takes no second look.
NoOtherPass == 0

\* The loop goes on while a higher prefix has been recorded.
OtherPass == IF ~deleting /\ target > writer THEN target ELSE 0

SummaryLands ==
  /\ host # "down" /\ writer > 0
  /\ sum' = writer /\ dir' = TRUE
  /\ known' = IF deleting THEN known ELSE writer
  /\ writer' = OtherPass
  /\ UNCHANGED <<log, host, deleting, loader, chainVars, target, birth, del,
                 vouched, faults, crashes, hidden>>

\* The writer rejects; a load that waits for it fails with it.
SummaryFails ==
  /\ host # "down" /\ writer > 0 /\ Fault
  /\ writer' = 0
  /\ IF loader = "summary" THEN loader' = "none" /\ session' = NoSession
     ELSE UNCHANGED <<loader, session>>
  /\ UNCHANGED <<diskVars, host, deleting, inflight, broken, handle, barriers,
                 known, target, birth, del, vouched, crashes, hidden>>

-----------------------------------------------------------------------------
(***************************************************************************)
(* The write chain.                                                        *)
(***************************************************************************)

\* The bug of a store that takes records after it was closed.
NeverRefuses == FALSE

StoreRefuses == host \in {"closing", "closed"}

\* The next record reaches the store; a closed one refuses it.
Submit ==
  /\ host # "down" /\ Queued /\ ~inflight /\ ~broken
  /\ IF StoreRefuses
     THEN broken' = TRUE /\ UNCHANGED inflight
     ELSE inflight' = TRUE /\ UNCHANGED broken
  /\ UNCHANGED <<diskVars, host, deleting, loader, session, handle, barriers,
                 summaryVars, birth, del, vouched, faults, crashes, hidden>>

\* The record is synced; opening the handle makes the directory.
RecordLands ==
  /\ host # "down" /\ inflight
  /\ log' = log + 1 /\ dir' = TRUE /\ handle' = TRUE /\ inflight' = FALSE
  /\ UNCHANGED <<sum, host, deleting, loader, session, broken, barriers,
                 summaryVars, birth, del, vouched, faults, crashes, hidden>>

\* mkdir and open may have succeeded before the write fails.
RecordFails ==
  /\ host # "down" /\ inflight /\ Fault
  /\ \E opened \in BOOLEAN :
       dir' = (dir \/ opened) /\ handle' = (handle \/ opened)
  /\ inflight' = FALSE /\ broken' = TRUE
  /\ UNCHANGED <<log, sum, host, deleting, loader, session, barriers,
                 summaryVars, birth, del, vouched, crashes, hidden>>

\* Session.append, by a turn or a route that holds the session.
AppendEvent ==
  /\ host # "down" /\ Loaded /\ birth = "kept"
  /\ ~session.closed /\ ~session.poisoned /\ session.mem < MaxLog
  /\ session' = [session EXCEPT !.mem = @ + 1]
  /\ UNCHANGED <<diskVars, host, deleting, loader, inflight, broken, handle, barriers,
                 summaryVars, birth, del, vouched, faults, crashes, hidden>>

\* Session.durable, flushSummary: a barrier over what is appended so far.
Durable ==
  /\ host # "down" /\ Loaded /\ session.mem > vouched
  /\ barriers' = barriers \cup {session.mem}
  /\ UNCHANGED <<diskVars, host, deleting, loader, session, inflight, broken, handle,
                 summaryVars, birth, del, vouched, faults, crashes, hidden>>

\* The barrier's prefix is synced: the listener schedules its summary, and a
\* request that was creating the session is answered.
Vouch(k) ==
  /\ host # "down" /\ k \in barriers /\ k <= log /\ ~broken
  /\ barriers' = barriers \ {k}
  /\ vouched' = IF k > vouched THEN k ELSE vouched
  /\ Schedule(k)
  /\ birth' = IF birth = "snapshot" THEN "kept" ELSE birth
  /\ UNCHANGED <<diskVars, host, deleting, loader, session, inflight, broken, handle,
                 known, del, faults, crashes, hidden>>

\* SessionsService.delete, up to its first await.
BeginDelete ==
  /\ deleting' = TRUE /\ del' = "load"
  /\ session' = IF Loaded THEN [session EXCEPT !.closed = TRUE] ELSE session

\* The barrier rejects and poisons the session; the creating request answers
\* 500 after deleting what it had made.
Reject(k) ==
  /\ host # "down" /\ k \in barriers /\ broken
  /\ barriers' = barriers \ {k}
  /\ IF birth = "snapshot"
     THEN /\ birth' = "failed" /\ deleting' = TRUE /\ del' = "load"
          /\ session' = [session EXCEPT !.poisoned = TRUE, !.closed = TRUE]
     ELSE /\ session' = [session EXCEPT !.poisoned = (@ \/ Loaded)]
          /\ UNCHANGED <<birth, deleting, del>>
  /\ UNCHANGED <<diskVars, host, loader, inflight, broken, handle, summaryVars,
                 vouched, faults, crashes, hidden>>

-----------------------------------------------------------------------------
(***************************************************************************)
(* Create and load.                                                        *)
(***************************************************************************)

\* The route that creates a session, to the durable() of its first records.
Create ==
  /\ host = "up" /\ birth = "none"
  /\ birth' = "snapshot" /\ known' = 0
  /\ session' = [NoSession EXCEPT !.st = "loaded", !.mem = 1]
  /\ barriers' = {1}
  /\ UNCHANGED <<diskVars, host, deleting, loader, inflight, broken, handle, target,
                 writer, del, vouched, faults, crashes, hidden>>

\* load: a listed session that is not in memory, one load at a time.
Load ==
  /\ host # "down" /\ known # None /\ ~deleting
  /\ session.st = "none" /\ loader = "none"
  /\ loader' = "read"
  /\ UNCHANGED <<diskVars, host, deleting, chainVars, summaryVars, birth, del,
                 vouched, faults, crashes, hidden>>

\* The log is read; recovery appends what the last process left open.
History ==
  /\ host # "down" /\ loader = "read" /\ ~inflight
  /\ handle' = FALSE
  /\ IF deleting THEN loader' = "none" /\ UNCHANGED session
     ELSE /\ loader' = "recover"
          /\ \E more \in {0, 1} :
               /\ log + more <= MaxLog
               /\ session' = [NoSession EXCEPT !.st = "loading", !.mem = log + more]
  /\ UNCHANGED <<diskVars, host, deleting, inflight, broken, barriers, summaryVars,
                 birth, del, vouched, faults, crashes, hidden>>

HistoryFails ==
  /\ host # "down" /\ loader = "read" /\ Fault
  /\ loader' = "none"
  /\ UNCHANGED <<diskVars, host, deleting, chainVars, summaryVars, birth, del,
                 vouched, crashes, hidden>>

\* Recovery is durable; deleted meanwhile, the load fails.
RecoveryLands ==
  /\ host # "down" /\ loader = "recover" /\ ~Queued /\ ~broken
  /\ IF deleting
     THEN loader' = "none" /\ session' = NoSession /\ UNCHANGED <<target, writer>>
     ELSE loader' = "summary" /\ Schedule(session.mem) /\ UNCHANGED session
  /\ vouched' = IF session.mem > vouched THEN session.mem ELSE vouched
  /\ UNCHANGED <<diskVars, host, deleting, inflight, broken, handle, barriers, known,
                 birth, del, faults, crashes, hidden>>

RecoveryFails ==
  /\ host # "down" /\ loader = "recover" /\ broken
  /\ loader' = "none" /\ session' = NoSession
  /\ UNCHANGED <<diskVars, host, deleting, inflight, broken, handle, barriers,
                 summaryVars, birth, del, vouched, faults, crashes, hidden>>

Registers ==
  /\ host # "down" /\ loader = "summary" /\ writer = 0
  /\ loader' = "none"
  /\ session' = IF deleting THEN NoSession ELSE [session EXCEPT !.st = "loaded"]
  /\ UNCHANGED <<diskVars, host, deleting, inflight, broken, handle, barriers,
                 summaryVars, birth, del, vouched, faults, crashes, hidden>>

\* readCanonicalEvents: the queue drained, the reader closes the handle.
ReadCanonical ==
  /\ host # "down" /\ known # None /\ handle /\ ~inflight
  /\ (~Queued \/ broken)
  /\ handle' = FALSE
  /\ UNCHANGED <<diskVars, host, deleting, loader, session, inflight, broken, barriers,
                 summaryVars, birth, del, vouched, faults, crashes, hidden>>

-----------------------------------------------------------------------------
(***************************************************************************)
(* Delete.  Every writer that could make the directory again is awaited,   *)
(* in this order, before the directory goes.                               *)
(***************************************************************************)

Delete ==
  /\ host = "up" /\ birth = "kept" /\ del = "none" /\ known # None
  /\ BeginDelete
  /\ UNCHANGED <<diskVars, host, loader, inflight, broken, handle, barriers,
                 summaryVars, birth, vouched, faults, crashes, hidden>>

LoadDrained ==
  /\ host # "down" /\ del = "load" /\ loader = "none"
  /\ del' = "drain"
  /\ UNCHANGED <<diskVars, host, deleting, loader, chainVars, summaryVars, birth,
                 vouched, faults, crashes, hidden>>

DrainRejects == Queued /\ broken

\* drain() rejects with the chain, and the deletion with it.
AppendsDrained ==
  /\ host # "down" /\ del = "drain"
  /\ \/ ~Queued /\ ~inflight /\ del' = "writer"
     \/ DrainRejects /\ del' = "refused"
  /\ UNCHANGED <<diskVars, host, deleting, loader, chainVars, summaryVars, birth,
                 vouched, faults, crashes, hidden>>

\* The bug of a deletion that does not wait for the summary writer.
SummaryIgnored == TRUE

SummaryAwaited == writer = 0

\* Barriers still to settle have nothing left to do: their listener is suppressed.
Forget ==
  /\ host # "down" /\ del = "writer" /\ SummaryAwaited
  /\ del' = "remove" /\ known' = None /\ target' = 0 /\ session' = NoSession
  /\ barriers' = {}
  /\ UNCHANGED <<diskVars, host, deleting, loader, inflight, broken, handle, writer,
                 birth, vouched, faults, crashes, hidden>>

\* rm -rf, file by file.
RemovePart ==
  /\ host # "down" /\ del = "remove" /\ handle' = FALSE
  /\ \/ log > 0 /\ log' = 0 /\ UNCHANGED sum
     \/ sum # None /\ sum' = None /\ UNCHANGED log
  /\ UNCHANGED <<dir, host, deleting, loader, session, inflight, broken, barriers,
                 summaryVars, birth, del, vouched, faults, crashes, hidden>>

Removed ==
  /\ host # "down" /\ del = "remove" /\ handle' = FALSE
  /\ dir' = FALSE /\ log' = 0 /\ sum' = None /\ del' = "gone"
  /\ UNCHANGED <<host, deleting, loader, session, inflight, broken, barriers,
                 summaryVars, birth, vouched, faults, crashes, hidden>>

RemoveFails ==
  /\ host # "down" /\ del = "remove" /\ Fault
  /\ del' = "refused"
  /\ UNCHANGED <<diskVars, host, deleting, loader, chainVars, summaryVars, birth,
                 vouched, crashes, hidden>>

-----------------------------------------------------------------------------
(***************************************************************************)
(* The host: closeStores, the end of the process, and the next start.      *)
(***************************************************************************)

Close ==
  /\ host = "up"
  /\ host' = "draining"
  /\ session' = IF Loaded THEN [session EXCEPT !.closed = TRUE] ELSE session
  /\ UNCHANGED <<diskVars, deleting, loader, inflight, broken, handle, barriers,
                 summaryVars, birth, del, vouched, faults, crashes, hidden>>

SessionsDrained ==
  /\ host = "draining" /\ (session.closed /\ Queued => broken)
  /\ host' = "projecting"
  /\ UNCHANGED <<diskVars, deleting, loader, chainVars, summaryVars, birth, del,
                 vouched, faults, crashes, hidden>>

SummariesDrained ==
  /\ host = "projecting" /\ writer = 0
  /\ host' = "closing"
  /\ UNCHANGED <<diskVars, deleting, loader, chainVars, summaryVars, birth, del,
                 vouched, faults, crashes, hidden>>

StoresClosed ==
  /\ host = "closing" /\ ~inflight
  /\ host' = "closed" /\ handle' = FALSE
  /\ UNCHANGED <<diskVars, deleting, loader, session, inflight, broken, barriers,
                 summaryVars, birth, del, vouched, faults, crashes, hidden>>

\* The process ends.  A write under way may have reached the disk.
Stop ==
  /\ host # "down"
  /\ IF host = "closed" THEN UNCHANGED crashes
     ELSE crashes < MaxCrashes /\ crashes' = crashes + 1
  /\ host' = "down"
  /\ \/ UNCHANGED diskVars
     \/ inflight /\ log' = log + 1 /\ dir' = TRUE /\ UNCHANGED sum
     \/ writer > 0 /\ sum' = writer /\ dir' = TRUE /\ UNCHANGED log
  /\ known' = None /\ deleting' = FALSE /\ loader' = "none" /\ target' = 0
  /\ writer' = 0 /\ session' = NoSession /\ inflight' = FALSE /\ broken' = FALSE
  /\ handle' = FALSE /\ barriers' = {}
  /\ birth' = IF birth = "snapshot" THEN "kept" ELSE birth
  /\ del' = IF del = "gone" THEN "gone" ELSE "none"
  /\ vouched' = 0 /\ UNCHANGED <<faults, hidden>>

\* The bug of a start that trusts any summary it can read.
TrustedAny == sum # None

\* boot trusts a summary that agrees with the log's tail, and rebuilds any other.
Trusted == sum = log

\* A rebuilt summary that cannot be made or written leaves the session out of the
\* listing.
Boot ==
  /\ host = "down" /\ crashes < MaxCrashes + 1
  /\ host' = "up"
  /\ \/ ~dir /\ hidden' = FALSE /\ UNCHANGED <<known, sum, faults>>
     \/ dir /\ Trusted /\ hidden' = FALSE /\ known' = sum /\ UNCHANGED <<sum, faults>>
     \/ dir /\ ~Trusted /\ hidden' = FALSE /\ known' = log /\ sum' = log /\ UNCHANGED faults
     \/ dir /\ ~Trusted /\ hidden' = TRUE /\ Fault /\ UNCHANGED <<known, sum>>
  /\ UNCHANGED <<dir, log, deleting, loader, chainVars, target, writer, birth, del,
                 vouched, crashes>>

\* summary, summaries: a session in memory is summarised from its own log, written
\* or not, whatever was last stored of it.
Served == IF Loaded THEN session.mem ELSE known

-----------------------------------------------------------------------------
Summaries == SummaryLands \/ SummaryFails
Chain == Submit \/ RecordLands \/ RecordFails
Barriers == \E k \in barriers : Vouch(k) \/ Reject(k)
Loading == History \/ HistoryFails \/ RecoveryLands \/ RecoveryFails \/ Registers
Deletion ==
  \/ LoadDrained \/ AppendsDrained \/ Forget
  \/ RemovePart \/ Removed \/ RemoveFails
StoresClosing == SessionsDrained \/ SummariesDrained \/ StoresClosed

Next ==
  \/ Summaries \/ Chain \/ Barriers \/ Loading \/ Deletion \/ StoresClosing
  \/ Create \/ AppendEvent \/ Durable \/ Load \/ ReadCanonical \/ Delete
  \/ Close \/ Stop \/ Boot

\* File operations finish and promises settle; nobody is obliged to ask, or to
\* stop the process.
Spec ==
  /\ Init /\ [][Next]_vars
  /\ WF_vars(Summaries) /\ WF_vars(Chain) /\ WF_vars(Barriers)
  /\ WF_vars(Loading) /\ WF_vars(Deletion) /\ WF_vars(StoresClosing)

-----------------------------------------------------------------------------
(***************************************************************************)
(* What the catalog promises.                                              *)
(***************************************************************************)

\* A deletion that was answered is final: no queued append, no load in flight,
\* no summary and no later start brings the directory or the entry back.
DeletedStaysDeleted ==
  del = "gone" => ~dir /\ known = None /\ session.st = "none" /\ ~inflight

\* What is stored of a session for the listing never counts a record that is not
\* in the synced log.  What is served of one in memory is never behind the log, and
\* only counts more than it while records wait to be written or have failed to be.
\* While the host is up every session with a record is listed until it is deleted,
\* unless the start could not rebuild its summary.
ListedIsTrue ==
  host # "down" /\ ~deleting =>
    /\ known <= log
    /\ Served > log => Loaded /\ Queued
    /\ Loaded => Served >= log
    /\ log > 0 /\ ~hidden => Served # None

\* The comment at server.ts:5933 says that the titles the listing shows are
\* durable: it shows nothing of a record that will never be written.
ShownIsDurable == host # "down" /\ ~deleting /\ broken => Served <= log

\* The comment at service.ts:185 says that losing derived state must never hide a
\* session: while the host is up, one with a record is listed until it is deleted.
NoneHidden == host # "down" /\ ~deleting /\ log > 0 => Served # None

\* A closed store stays closed: no handle, no record and no summary after it,
\* not even from a load that was under way when the host was asked to close.
QuietAfterClose ==
  [][host = "closed" /\ host' = "closed"
       => ~handle' /\ log' <= log /\ (sum' = sum \/ sum' = None)]_vars

\* What a durable() vouched for comes to be listed, however appends and barriers
\* interleave with the writer, unless a summary could not be written, or the
\* session is deleted or the host stopped first.
SummaryCatchesUp ==
  \A k \in 1..MaxLog :
    (vouched >= k /\ host = "up")
      ~> (known >= k \/ deleting \/ host # "up" \/ faults > 0)

\* executor.ts:633 and the creating route rely on it: after an attempt that
\* failed before its first records were durable, nothing of it survives.
FailedCreateLeavesNothing ==
  birth = "failed" /\ del \in {"gone", "refused"} => known = None /\ ~dir

=============================================================================
