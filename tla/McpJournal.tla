------------------------------ MODULE McpJournal ------------------------------
(***************************************************************************)
(* The evidence of MCP calls: one file of a workspace, to which every call *)
(* writes an intent before it is sent and its outcome after, through an    *)
(* object that the first call of a process opens (journalFor).             *)
(*                                                                         *)
(* `pc` is the await a call, or the operator's repair, is parked on.  A    *)
(* journal object appends one record at a time; what an append that fails, *)
(* or a crash, leaves in the file is nothing, the record, or half of it.   *)
(***************************************************************************)
EXTENDS Integers, Sequences, FiniteSets

CONSTANTS
  Calls,        \* executions; the host mints a fresh id for each
  MaxJournals,  \* bound: journal objects
  MaxFaults,    \* bound: writes that fail
  MaxCrashes    \* bound

ASSUME JournalAssumption ==
  /\ IsFiniteSet(Calls) /\ "repair" \notin Calls
  /\ MaxJournals \in Nat /\ MaxFaults \in Nat /\ MaxCrashes \in Nat

Users == Calls \cup {"repair"}
Journals == 1..MaxJournals
\* "withheld": an error of the client that says it wrote nothing.
Outcomes == {"success", "error", "indeterminate", "withheld"}

VARIABLES
  \* --- on disk
  file,        \* the lines of executions.jsonl; a line is a record or junk
  half,        \* the file ends in half a line
  faultFile,   \* mcp audit fault
  \* --- the journal objects; `current` is the one in the map, or 0
  current, opened,
  phase, seq, poisoned, queue, open, todo,
  \* --- the calls and the repair
  pc, own, result, told,
  sent,        \* history: what was written to a server
  orderly,     \* history: never two openings at once, an append that failed with
               \* others behind it, or a rewriting of the file cut short
  faults, crashes

diskVars == <<file, half, faultFile>>
journalVars == <<phase, seq, poisoned, queue, open, todo>>
userVars == <<pc, own, result, told, sent>>
vars == <<diskVars, current, opened, journalVars, userVars, orderly, faults, crashes>>

Init ==
  /\ file = <<>> /\ half = FALSE /\ faultFile = FALSE
  /\ current = 0 /\ opened = 0
  /\ phase = [j \in Journals |-> "none"] /\ seq = [j \in Journals |-> 0]
  /\ poisoned = [j \in Journals |-> FALSE] /\ queue = [j \in Journals |-> <<>>]
  /\ open = [j \in Journals |-> {}] /\ todo = [j \in Journals |-> {}]
  /\ pc = [u \in Users |-> "idle"] /\ own = [u \in Users |-> 0]
  /\ result = [c \in Calls |-> "none"] /\ told = [c \in Calls |-> "none"]
  /\ sent = {} /\ orderly = TRUE /\ faults = 0 /\ crashes = 0

-----------------------------------------------------------------------------
(***************************************************************************)
(* The file.                                                               *)
(***************************************************************************)
\* A record behind half a line is glued to it.
Written(record) == Append(file, IF half THEN [record EXCEPT !.kind = "junk"] ELSE record)

\* What a write that did not return may have left.
Leaves(record, left) ==
  CASE left = "nothing" -> UNCHANGED <<file, half>>
    [] left = "record" -> file' = Written(record) /\ half' = FALSE
    [] left = "half" -> half' = TRUE /\ UNCHANGED file

Valid(lines) ==
  \A i \in 1..Len(lines) : lines[i].kind # "junk" /\ lines[i].seq = i
Ids(lines, kind) == {lines[i].call : i \in {n \in 1..Len(lines) : lines[n].kind = kind}}
Unresolved(lines) == Ids(lines, "intent") \ Ids(lines, "terminal")

-----------------------------------------------------------------------------
To(u, next) == pc' = [pc EXCEPT ![u] = next]
Answer(c, outcome) ==
  /\ pc' = [pc EXCEPT ![c] = "done"] /\ told' = [told EXCEPT ![c] = outcome]

(***************************************************************************)
(* append(): refused when poisoned, else behind the others.                *)
(***************************************************************************)
Record(j) ==
  LET head == Head(queue[j]) IN
  [kind |-> head.kind, call |-> head.call, seq |-> seq[j] + 1, outcome |-> head.outcome]

Enqueue(j, kind, c, outcome, u) ==
  queue' = [queue EXCEPT ![j] =
              Append(@, [kind |-> kind, call |-> c, outcome |-> outcome, by |-> u])]

(***************************************************************************)
(* journalFor(): the journal in the map, or a new one, which reads the     *)
(* file, cuts half a line off, and closes what it finds unresolved.  Only  *)
(* an opened journal enters the map: nothing keeps a second one out.       *)
(***************************************************************************)
Opening == {j \in Journals : phase[j] \in {"reading", "cutting", "closing"}}

OpenJournal(u) ==
  /\ orderly' = (orderly /\ Opening = {})
  /\ opened < MaxJournals /\ opened' = opened + 1
  /\ phase' = [phase EXCEPT ![opened + 1] = "reading"]
  /\ own' = [own EXCEPT ![u] = opened + 1] /\ To(u, "opening")

Start(c) ==
  /\ c \in Calls /\ pc[c] = "idle"
  /\ IF current # 0
       THEN /\ own' = [own EXCEPT ![c] = current] /\ To(c, "check")
            /\ UNCHANGED <<opened, phase, orderly>>
       ELSE OpenJournal(c)
  /\ UNCHANGED <<diskVars, current, seq, poisoned, queue, open, todo, result, told, sent,
                 faults, crashes>>

\* POST audit-repair: a journal that faulted is opened again.
Repair ==
  /\ pc["repair"] = "idle"
  /\ IF current # 0 /\ poisoned[current]
       THEN /\ current' = 0 /\ OpenJournal("repair")
       ELSE /\ To("repair", "clearing") /\ UNCHANGED <<current, opened, phase, own, orderly>>
  /\ UNCHANGED <<diskVars, seq, poisoned, queue, open, todo, result, told, sent,
                 faults, crashes>>

\* The opening failed: a call throws, the repair says no.
GiveUp(u) ==
  IF u = "repair" THEN To(u, "idle") /\ UNCHANGED told ELSE Answer(u, "notSent")

Read(u) ==
  /\ pc[u] = "opening" /\ phase[own[u]] = "reading"
  /\ LET j == own[u] IN
     IF Valid(file)
       THEN /\ seq' = [seq EXCEPT ![j] = Len(file)]
            /\ open' = [open EXCEPT ![j] = Unresolved(file)]
            /\ todo' = [todo EXCEPT ![j] = Unresolved(file)]
            /\ phase' = [phase EXCEPT ![j] = IF half THEN "cutting" ELSE "closing"]
            /\ UNCHANGED <<poisoned, pc, told>>
       ELSE /\ poisoned' = [poisoned EXCEPT ![j] = TRUE]
            /\ phase' = [phase EXCEPT ![j] = "failed"]
            /\ GiveUp(u) /\ UNCHANGED <<seq, open, todo>>
  /\ UNCHANGED <<diskVars, current, opened, queue, own, result, sent, orderly, faults,
                 crashes>>

\* Defective: half a line is dropped from what was read, not from the file.
CutNothing(u) ==
  /\ pc[u] = "opening" /\ phase[own[u]] = "cutting"
  /\ phase' = [phase EXCEPT ![own[u]] = "closing"]
  /\ UNCHANGED <<diskVars, current, opened, seq, poisoned, queue, open, todo, userVars,
                 orderly, faults, crashes>>

\* The file is written again as it was read, without its half line.
Cut(u) ==
  /\ pc[u] = "opening" /\ phase[own[u]] = "cutting"
  /\ file' = SubSeq(file, 1, seq[own[u]]) /\ half' = FALSE
  /\ phase' = [phase EXCEPT ![own[u]] = "closing"]
  /\ UNCHANGED <<faultFile, current, opened, seq, poisoned, queue, open, todo, userVars,
                 orderly, faults, crashes>>

\* terminalizeUnresolved(), one record after the other.
CloseNext(u) ==
  /\ pc[u] = "opening" /\ phase[own[u]] = "closing"
  /\ queue[own[u]] = <<>> /\ ~poisoned[own[u]]
  /\ LET j == own[u] IN
     IF todo[j] # {}
       THEN /\ \E c \in todo[j] : Enqueue(j, "terminal", c, "indeterminate", u)
            /\ UNCHANGED <<phase, current, pc>>
       ELSE /\ phase' = [phase EXCEPT ![j] = "ready"] /\ current' = j
            /\ To(u, IF u = "repair" THEN "clearing" ELSE "check") /\ UNCHANGED queue
  /\ UNCHANGED <<diskVars, opened, seq, poisoned, open, todo, own, result, told, sent,
                 orderly, faults, crashes>>

ClearFault ==
  /\ pc["repair"] = "clearing"
  /\ faultFile' = FALSE /\ To("repair", "idle")
  /\ UNCHANGED <<file, half, current, opened, journalVars, own, result, told, sent,
                 orderly, faults, crashes>>

-----------------------------------------------------------------------------
(***************************************************************************)
(* The head of a journal's queue is written, or is not.  What is behind it *)
(* is written all the same: append() asks if the journal is poisoned when  *)
(* it queues, not when it writes.                                          *)
(***************************************************************************)
\* What the user who waits for the append does next.
Resume(j, stored) ==
  LET head == Head(queue[j])
      c == head.call
      u == head.by
  IN  IF u # c \/ pc[u] = "opening"
        THEN IF stored THEN UNCHANGED <<pc, told>> ELSE GiveUp(u)
        ELSE CASE head.kind = "intent" /\ stored -> To(c, "calling") /\ UNCHANGED told
               [] head.kind = "intent" /\ ~stored -> Answer(c, "notSent")
               [] head.kind = "terminal" /\ stored -> Answer(c, result[c])
               [] OTHER -> To(c, "faulting") /\ UNCHANGED told

Appended(j) ==
  /\ queue[j] # <<>>
  /\ LET head == Head(queue[j]) IN
     /\ file' = Written(Record(j)) /\ half' = FALSE
     /\ open' = [open EXCEPT ![j] = IF head.kind = "intent" THEN @ \cup {head.call}
                                    ELSE @ \ {head.call}]
     /\ todo' = [todo EXCEPT ![j] = @ \ {head.call}]
  /\ seq' = [seq EXCEPT ![j] = @ + 1] /\ queue' = [queue EXCEPT ![j] = Tail(@)]
  /\ Resume(j, TRUE)
  /\ UNCHANGED <<faultFile, current, opened, phase, poisoned, own, result, sent,
                 orderly, faults, crashes>>

\* The disk is full, or another host has taken the lock over (assertHeld).
AppendFails(j, left) ==
  /\ queue[j] # <<>> /\ faults < MaxFaults /\ faults' = faults + 1
  /\ orderly' = (orderly /\ Len(queue[j]) = 1)
  /\ Leaves(Record(j), left)
  /\ queue' = [queue EXCEPT ![j] = Tail(@)]
  /\ poisoned' = [poisoned EXCEPT ![j] = TRUE]
  /\ phase' = [phase EXCEPT ![j] = IF @ = "closing" THEN "failed" ELSE @]
  /\ Resume(j, FALSE)
  /\ UNCHANGED <<faultFile, current, opened, seq, open, todo, own, result, sent, crashes>>

-----------------------------------------------------------------------------
(***************************************************************************)
(* dispatchToolCall().                                                     *)
(***************************************************************************)
\* The audit fault is looked for, then the intent is appended.
Check(c) ==
  /\ c \in Calls /\ pc[c] = "check"
  /\ CASE faultFile -> Answer(c, "blocked") /\ UNCHANGED queue
       [] ~faultFile /\ poisoned[own[c]] -> Answer(c, "notSent") /\ UNCHANGED queue
       [] OTHER -> /\ Enqueue(own[c], "intent", c, "none", c)
                   /\ To(c, "intent") /\ UNCHANGED told
  /\ UNCHANGED <<diskVars, current, opened, phase, seq, poisoned, open, todo, own, result,
                 sent, orderly, faults, crashes>>

Send(c) ==
  /\ c \in Calls /\ pc[c] = "calling"
  /\ sent' = sent \cup {c} /\ To(c, "waiting")
  /\ UNCHANGED <<diskVars, current, opened, journalVars, own, result, told,
                 orderly, faults, crashes>>

\* The call comes back: answered, lost on its way, or never sent.
Return(c, outcome) ==
  /\ pc[c] = IF outcome = "withheld" THEN "calling" ELSE "waiting"
  /\ result' = [result EXCEPT ![c] = outcome]
  /\ IF poisoned[own[c]]
       THEN To(c, "faulting") /\ UNCHANGED queue
       ELSE Enqueue(own[c], "terminal", c, outcome, c) /\ To(c, "terminal")
  /\ UNCHANGED <<diskVars, current, opened, phase, seq, poisoned, open, todo, own, told,
                 sent, orderly, faults, crashes>>

\* Defective: the outcome is reported as if it had been stored.
FaultUnreported(c) ==
  /\ c \in Calls /\ pc[c] = "faulting"
  /\ faultFile' \in {TRUE, faultFile}
  /\ Answer(c, result[c])
  /\ UNCHANGED <<file, half, current, opened, journalVars, own, result, sent, orderly,
                 faults, crashes>>

\* finish() failed: the fault file is written, if that succeeds.
Fault(c) ==
  /\ c \in Calls /\ pc[c] = "faulting"
  /\ faultFile' \in {TRUE, faultFile}
  /\ Answer(c, IF result[c] \in {"success", "error"} THEN "audit_fault" ELSE result[c])
  /\ UNCHANGED <<file, half, current, opened, journalVars, own, result, sent, orderly,
                 faults, crashes>>

\* writeFile() empties the file and fills it again: less than all may be there.
CutShort(j) ==
  /\ phase[j] = "cutting"
  /\ \E n \in 0..seq[j] : file' = SubSeq(file, 1, n) /\ half' \in {FALSE, n < seq[j]}
  /\ orderly' = FALSE

\* The process or the machine stops: the write under way leaves what it leaves.
Crash ==
  /\ crashes < MaxCrashes /\ crashes' = crashes + 1
  /\ \/ UNCHANGED <<file, half, orderly>>
     \/ \E j \in Journals, left \in {"record", "half"} :
          queue[j] # <<>> /\ Leaves(Record(j), left) /\ UNCHANGED orderly
     \/ \E j \in Journals : CutShort(j)
  /\ current' = 0
  /\ phase' = [j \in Journals |-> IF phase[j] = "none" THEN "none" ELSE "failed"]
  /\ queue' = [j \in Journals |-> <<>>]
  /\ pc' = [u \in Users |-> IF u = "repair" \/ pc[u] = "idle" THEN "idle" ELSE "done"]
  /\ UNCHANGED <<faultFile, opened, seq, poisoned, open, todo, own, result, told, sent,
                 faults>>

-----------------------------------------------------------------------------
Next ==
  \/ \E u \in Users : Start(u) \/ Read(u) \/ Cut(u) \/ CloseNext(u) \/ Check(u) \/ Send(u)
                      \/ Fault(u)
  \/ \E c \in Calls, outcome \in Outcomes : Return(c, outcome)
  \/ \E j \in Journals : Appended(j) \/ \E left \in {"nothing", "record", "half"} :
                           AppendFails(j, left)
  \/ Repair \/ ClearFault \/ Crash

Spec == Init /\ [][Next]_vars

-----------------------------------------------------------------------------
(***************************************************************************)
(* Properties.                                                             *)
(***************************************************************************)
\* The file can be read by the next process: its records are whole, and numbered
\* without a gap.
Readable == Valid(file)

\* What the file says of a call.
Recorded(c) ==
  LET ends == {i \in 1..Len(file) : file[i].kind = "terminal" /\ file[i].call = c}
  IN CASE ends = {} -> IF c \in Ids(file, "intent") THEN "intent" ELSE "nothing"
       [] Cardinality(ends) = 1 -> file[CHOOSE i \in ends : TRUE].outcome
       [] OTHER -> "twice"

\* A call has one outcome on record at most.
OneOutcome == \A c \in Calls : Recorded(c) # "twice"

\* The record of a call that was sent outlives every crash.
SentIsRecorded == \A c \in sent : Recorded(c) # "nothing"

\* Whatever crashes, fails, is cut off and repaired, the file stays readable,
\* unless it was opened by two at once, an append failed with others behind it,
\* or a crash cut its rewriting short.
ReadableInOrder == orderly => Readable

\* Over failed writes, repairs, crashes and the closing of what a dead process
\* left, and up to the same three accidents, the journal is such evidence: intent
\* before sending, one outcome, never revised, and no word to the model that the
\* file does not bear out.
Evidence == INSTANCE CallEvidence WITH recorded <- [c \in Calls |-> Recorded(c)]
KeepsEvidence == Evidence!Init /\ [][orderly' => Evidence!Next]_(Evidence!vars)
=============================================================================
