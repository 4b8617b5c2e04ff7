------------------------------ MODULE Approval ------------------------------
(***************************************************************************)
(* Who may let a tool call run: the mode of its conversation, the person   *)
(* asked, the expiry timer, a stop, and a change of mode meanwhile.        *)
(*                                                                         *)
(* Sessions are root conversations and their child agents; a child is      *)
(* governed by the mode of its root.  Each session prepares one call       *)
(* (a session prepares its calls one after the other), so a session stands *)
(* for its call and for the one question that call may raise.              *)
(*                                                                         *)
(* An action runs from one await to the next.  A record appended to a log  *)
(* is durable once onDisk has reached it.                                  *)
(***************************************************************************)
EXTENDS Integers, Sequences, FiniteSets

CONSTANTS
  Sessions,
  Root,        \* the root conversation of each session; a root is its own
  Modes,       \* mode snapshots, as far as they concern the tool called
  Default,     \* the workspace's mode, which a new conversation starts in
  KindOf,      \* what is special about each call
  MaxSwitches, \* bound: mode selections in one behaviour
  MaxPosts     \* bound: answers being read at once

\* A mode exposes the tool or not; its permissionDefaults name the tool, or a
\* wildcard that covers it, or leave it to the host's default ("rest").
Rules == {"allow", "ask", "deny"}
Mode == [exposes : BOOLEAN, exact : Rules \cup {"none"}, rest : Rules]

\* "forced": a dangerous command, or a tool that requires interaction.
\* "outside": touches a path no granted folder covers.  "mcp": an MCP tool.
Kind == {"plain", "forced", "outside", "mcp"}

ASSUME ApprovalAssumption ==
  /\ IsFiniteSet(Sessions)
  /\ Root \in [Sessions -> Sessions]
  /\ \A s \in Sessions : Root[Root[s]] = Root[s]
  /\ Modes \subseteq Mode /\ Default \in Modes
  /\ KindOf \in [Sessions -> Kind]
  /\ MaxSwitches \in Nat /\ MaxPosts \in Nat

VARIABLES
  \* --- the logs
  log, onDisk, chain,
  \* --- the modes
  mode,        \* of each session that is a root: its latest snapshot
  selecting,   \* selections stamped and not yet durable, oldest first
  made,
  \* --- the calls
  phase, barrier,
  decision,    \* what settled the question
  aborted,     \* the run's abort signal
  \* --- the answer route
  reading,     \* answers whose request body is still being read
  winner,      \* the answer that took the question
  widen,       \* PathScopeMatch.grantForSession
  \* --- history
  eased        \* since the call was prepared, a mode then in force or then
               \* being selected admitted it unasked

logVars == <<log, onDisk, chain>>
modeVars == <<mode, selecting, made>>
callVars == <<phase, barrier, decision>>
answerVars == <<reading, winner, widen>>
vars == <<logVars, modeVars, callVars, aborted, answerVars, eased>>

Roots == {Root[s] : s \in Sessions}
Governing(s) == mode[Root[s]]

\* modeFor: the exact name, then a wildcard, then the default.
ModeFor(m) == IF m.exact # "none" THEN m.exact ELSE m.rest

ForceAsk(k) == k \in {"forced", "outside"}

\* exposureDenial refuses what the governing mode does not expose.
Exposed(s) == Governing(s).exposes

Admits(m, k) == m.exposes /\ ModeFor(m) = "allow" /\ ~ForceAsk(k)

Phases == {"idle", "requesting", "asking", "deciding", "granting", "ready",
           "running", "denied"}
Decisions == {"allow", "deny", "expired", "cancelled"}
Answers == {"allow", "deny", "session"}

Init ==
  /\ log = [s \in Sessions |-> <<>>]
  /\ onDisk = [s \in Sessions |-> 0]
  /\ chain = [s \in Sessions |-> "sound"]
  /\ mode = [r \in Roots |-> Default]
  /\ selecting = [r \in Roots |-> <<>>]
  /\ made = 0
  /\ phase = [s \in Sessions |-> "idle"]
  /\ barrier = [s \in Sessions |-> 0]
  /\ decision = [s \in Sessions |-> "none"]
  /\ aborted = [s \in Sessions |-> FALSE]
  /\ reading = [s \in Sessions |-> {}]
  /\ winner = [s \in Sessions |-> "none"]
  /\ widen = [s \in Sessions |-> FALSE]
  /\ eased = [s \in Sessions |-> FALSE]

-----------------------------------------------------------------------------
(***************************************************************************)
(* The log of a session.  A rejected durable() poisons it: appends throw.  *)
(***************************************************************************)
RecordStored(s) ==
  /\ chain[s] = "sound" /\ onDisk[s] < Len(log[s])
  /\ onDisk' = [onDisk EXCEPT ![s] = @ + 1]
  /\ UNCHANGED <<log, chain, modeVars, callVars, aborted, answerVars, eased>>

StorageBreaks(s) ==
  /\ \A t \in Sessions : chain[t] = "sound"     \* bound: one log fails
  /\ onDisk[s] < Len(log[s])
  /\ chain' = [chain EXCEPT ![s] = "failing"]
  /\ UNCHANGED <<log, onDisk, modeVars, callVars, aborted, answerVars, eased>>

Poisoned(s) == chain[s] = "poisoned"
Durable(s) == barrier[s] <= onDisk[s]
DurableRejects(s) ==
  /\ ~Durable(s) /\ chain[s] # "sound"
  /\ chain' = [chain EXCEPT ![s] = "poisoned"]

-----------------------------------------------------------------------------
(***************************************************************************)
(* Settling questions.                                                     *)
(***************************************************************************)

\* The pending entry exists, in the policy's map and in the answer bridge.
Open(s) == phase[s] = "asking"

\* settle() for every session in `verdicts`' domain: the entry is claimed, the
\* decision appended, and the waiter told once it is durable.  A decision
\* that cannot be appended is a denial, whatever it was.
Settle(verdicts) ==
  LET claimed == DOMAIN verdicts
      recorded == {s \in claimed : ~Poisoned(s)}
  IN  /\ log' = [s \in Sessions |->
                   IF s \in recorded THEN Append(log[s], verdicts[s]) ELSE log[s]]
      /\ barrier' = [s \in Sessions |->
                       IF s \in claimed THEN Len(log'[s]) ELSE barrier[s]]
      /\ decision' = [s \in Sessions |->
                        IF s \in claimed THEN verdicts[s] ELSE decision[s]]
      /\ phase' = [s \in Sessions |->
                     IF s \in recorded THEN "deciding"
                     ELSE IF s \in claimed THEN "denied" ELSE phase[s]]

Only(s, verdict) == [t \in {s} |-> verdict]

-----------------------------------------------------------------------------
(***************************************************************************)
(* The authorization chain of ToolsService.gate.                           *)
(***************************************************************************)

\* A record the call waits for; when it cannot be appended the call is denied.
Await(s, record, await) ==
  IF Poisoned(s)
  THEN /\ phase' = [phase EXCEPT ![s] = "denied"]
       /\ UNCHANGED <<log, barrier>>
  ELSE /\ log' = [log EXCEPT ![s] = Append(@, record)]
       /\ barrier' = [barrier EXCEPT ![s] = Len(log'[s])]
       /\ phase' = [phase EXCEPT ![s] = await]

Moves(s, to) == phase' = [phase EXCEPT ![s] = to] /\ UNCHANGED <<log, barrier>>

\* A selection still being written admits calls of this kind.
BeingSelected(r, k) ==
  \E i \in DOMAIN selecting[r] : Admits(selecting[r][i].mode, k)

\* The exposure gate, then the policy: allow, deny, or the question.
Prepare(s) ==
  /\ phase[s] = "idle"
  /\ LET m == Governing(s)
     IN  /\ eased' = [eased EXCEPT ![s] =
                        Admits(m, KindOf[s]) \/ BeingSelected(Root[s], KindOf[s])]
         /\ \/ Admits(m, KindOf[s]) /\ Moves(s, "ready")
            \/ /\ ~Exposed(s) \/ ModeFor(m) = "deny" \/ aborted[s]
               /\ ~Admits(m, KindOf[s])
               /\ Moves(s, "denied")
            \/ /\ Exposed(s) /\ ModeFor(m) # "deny" /\ ~aborted[s]
               /\ ~Admits(m, KindOf[s])
               /\ Await(s, "request", "requesting")
  /\ UNCHANGED <<onDisk, chain, modeVars, decision, aborted, answerVars>>

\* The request is durable: the question opens, unless a stop came first.
RequestStored(s) ==
  /\ phase[s] = "requesting" /\ Durable(s)
  /\ IF aborted[s]
     THEN Settle(Only(s, "cancelled"))
     ELSE Moves(s, "asking") /\ UNCHANGED decision
  /\ UNCHANGED <<onDisk, chain, modeVars, aborted, answerVars, eased>>

\* Defective: the call goes on before its decision is on disk.
DecidedInMemory(s) ==
  /\ phase[s] = "deciding" /\ (Durable(s) \/ decision[s] = "allow")
  /\ IF decision[s] # "allow" THEN Moves(s, "denied")
     ELSE IF widen[s] THEN Await(s, "grants", "granting")
     ELSE Moves(s, "ready")
  /\ UNCHANGED <<onDisk, chain, modeVars, decision, aborted, answerVars, eased>>

\* The decision is durable.  After an allow the approved-path resolver records
\* the session's grant, when the answer asked for one.
DecisionStored(s) ==
  /\ phase[s] = "deciding" /\ Durable(s)
  /\ IF decision[s] # "allow" THEN Moves(s, "denied")
     ELSE IF widen[s] THEN Await(s, "grants", "granting")
     ELSE Moves(s, "ready")
  /\ UNCHANGED <<onDisk, chain, modeVars, decision, aborted, answerVars, eased>>

GrantStored(s) ==
  /\ phase[s] = "granting" /\ Durable(s)
  /\ Moves(s, "ready")
  /\ UNCHANGED <<onDisk, chain, modeVars, decision, aborted, answerVars, eased>>

\* Whatever the call waits for cannot be recorded: it does not run.
RecordFails(s) ==
  /\ phase[s] \in {"requesting", "deciding", "granting"} /\ DurableRejects(s)
  /\ Moves(s, "denied")
  /\ UNCHANGED <<onDisk, modeVars, decision, aborted, answerVars, eased>>

\* The final gate, right before the body.  The policy is looked up by the
\* exact name of the tool.
FinalGate(s) == Exposed(s) /\ Governing(s).exact # "deny"
StartBody(s) ==
  /\ phase[s] = "ready"
  /\ Moves(s, IF FinalGate(s) THEN "running" ELSE "denied")
  /\ UNCHANGED <<onDisk, chain, modeVars, decision, aborted, answerVars, eased>>

-----------------------------------------------------------------------------
(***************************************************************************)
(* What may settle an open question.                                       *)
(***************************************************************************)
SettleOne(s, verdict) ==
  /\ Open(s)
  /\ Settle(Only(s, verdict))
  /\ UNCHANGED <<onDisk, chain, modeVars, answerVars, eased>>

\* Defective: a timer that never fires.
NeverExpire(s) == FALSE /\ SettleOne(s, "expired") /\ UNCHANGED aborted

Expire(s) == SettleOne(s, "expired") /\ UNCHANGED aborted

\* A stop aborts the run's signal and cancels the question, if one is open.
Stop(s) ==
  /\ \A t \in Sessions : ~aborted[t]              \* bound: one stop
  /\ phase[s] \notin {"running", "denied"}
  /\ aborted' = [aborted EXCEPT ![s] = TRUE]
  /\ \/ SettleOne(s, "cancelled")
     \/ /\ ~Open(s)
        /\ UNCHANGED <<logVars, modeVars, callVars, answerVars, eased>>

\* Only a root's question about a path outside the grants can be answered for
\* the whole session; the route refuses others and changes nothing.
Answerable(s, answer) == answer = "session" => KindOf[s] = "outside" /\ Root[s] = s

\* POST /api/approvals/:id found the question; its body is read next.
PostAnswer(s, answer) ==
  /\ Open(s) /\ Answerable(s, answer) /\ answer \notin reading[s]
  /\ Cardinality({x \in Sessions \X Answers : x[2] \in reading[x[1]]}) < MaxPosts
  /\ reading' = [reading EXCEPT ![s] = @ \cup {answer}]
  /\ UNCHANGED <<logVars, modeVars, callVars, aborted, winner, widen, eased>>

\* The body is read: the first answer to delete the entry wins it, a later one
\* is told 404.  An allow is still checked against the policy of the moment.
AnswerLands(s, answer) ==
  /\ answer \in reading[s]
  /\ reading' = [reading EXCEPT ![s] = @ \ {answer}]
  /\ IF Open(s)
     THEN /\ winner' = [winner EXCEPT ![s] = answer]
          /\ widen' = [widen EXCEPT ![s] = answer = "session"]
          /\ Settle(Only(s, IF answer = "deny" \/ ModeFor(Governing(s)) = "deny"
                            THEN "deny" ELSE "allow"))
     ELSE UNCHANGED <<winner, widen, log, callVars>>
  /\ UNCHANGED <<onDisk, chain, modeVars, aborted, eased>>

-----------------------------------------------------------------------------
(***************************************************************************)
(* PUT of a conversation's mode.                                           *)
(***************************************************************************)

\* stampRootMode: the new mode governs as soon as it is in the log.
SelectMode(r, m) ==
  /\ made < MaxSwitches /\ ~Poisoned(r)
  /\ made' = made + 1
  /\ log' = [log EXCEPT ![r] = Append(@, "mode")]
  /\ mode' = [mode EXCEPT ![r] = m]
  /\ selecting' = [selecting EXCEPT ![r] = Append(@, [mode |-> m, at |-> Len(log'[r])])]
  /\ eased' = [s \in Sessions |->
                 eased[s] \/ (Root[s] = r /\ phase[s] # "idle" /\ Admits(m, KindOf[s]))]
  /\ UNCHANGED <<onDisk, chain, callVars, aborted, answerVars>>

\* Defective: a re-evaluation forgets what forces a question.
VerdictUnforced(s, m) ==
  IF ~m.exposes \/ KindOf[s] = "mcp" THEN "cancelled"
  ELSE IF ModeFor(m) = "deny" THEN "deny"
  ELSE IF ModeFor(m) = "allow" THEN "allow"
  ELSE "ask"

\* reevaluate(): what becomes of an open question under mode m.  The names in
\* a mode's toolExposure are never those of MCP tools.
Verdict(s, m) ==
  IF ~m.exposes \/ KindOf[s] = "mcp" THEN "cancelled"
  ELSE IF ModeFor(m) = "deny" THEN "deny"
  ELSE IF Admits(m, KindOf[s]) THEN "allow"
  ELSE "ask"

\* The questions of one conversation that the mode settles.
Affected(r, m) ==
  {s \in Sessions : Root[s] = r /\ Open(s) /\ Verdict(s, m) # "ask"}

\* The selection is durable: the questions of this conversation, and of its
\* children, are re-evaluated against the mode this request selected.
SelectionStored(r) ==
  /\ selecting[r] # <<>> /\ Head(selecting[r]).at <= onDisk[r]
  /\ selecting' = [selecting EXCEPT ![r] = Tail(@)]
  /\ LET m == Head(selecting[r]).mode
     IN  Settle([s \in Affected(r, m) |-> Verdict(s, m)])
  /\ UNCHANGED <<onDisk, chain, mode, made, aborted, answerVars, eased>>

SelectionFails(r) ==
  /\ selecting[r] # <<>> /\ Head(selecting[r]).at > onDisk[r]
  /\ chain[r] # "sound"
  /\ chain' = [chain EXCEPT ![r] = "poisoned"]
  /\ selecting' = [selecting EXCEPT ![r] = Tail(@)]
  /\ UNCHANGED <<log, onDisk, mode, made, callVars, aborted, answerVars, eased>>

-----------------------------------------------------------------------------
Advance(s) ==
  Prepare(s) \/ RequestStored(s) \/ DecisionStored(s) \/ GrantStored(s)
  \/ RecordFails(s) \/ StartBody(s)

Answering(s) ==
  \E answer \in Answers : PostAnswer(s, answer) \/ AnswerLands(s, answer)

Selecting(r) ==
  (\E m \in Modes : SelectMode(r, m)) \/ SelectionStored(r) \/ SelectionFails(r)

Next ==
  \/ \E s \in Sessions :
       \/ RecordStored(s) \/ StorageBreaks(s)
       \/ Advance(s) \/ Expire(s) \/ Stop(s) \/ Answering(s)
  \/ \E r \in Roots : Selecting(r)

Spec == Init /\ [][Next]_vars

\* Writes complete or fail, awaited promises go on, and timers fire.
\* Nobody has to answer, to stop or to select a mode.
FairSpec ==
  /\ Spec
  /\ \A s \in Sessions :
       /\ WF_vars(RecordStored(s)) /\ WF_vars(Advance(s)) /\ WF_vars(Expire(s))

-----------------------------------------------------------------------------
Recorded(s, type) == {p \in DOMAIN log[s] : log[s][p] = type}
Stored(s, type) == \E p \in Recorded(s, type) : p <= onDisk[s]
\* A call that raised a question runs only once "allow" is on disk, so
\* the audit explains every side effect that needed a permission.
RunsOnRecord ==
  \A s \in Sessions :
    phase[s] = "running" /\ Recorded(s, "request") # {} => Stored(s, "allow")

\* A call runs because a person let it, or because a mode its conversation had,
\* or was being given, since the call was prepared admits it unasked.  In
\* particular no mode ever releases a call whose question was forced.
RunsByAuthority ==
  \A s \in Sessions :
    phase[s] = "running" => eased[s] \/ winner[s] \in {"allow", "session"}

\* Nobody need ever answer: every call that is prepared runs or is denied,
\* because a question expires and a failed write denies.
EveryCallEnds ==
  \A s \in Sessions : phase[s] # "idle" ~> phase[s] \in {"running", "denied"}

-----------------------------------------------------------------------------
(***************************************************************************)
(* Promises of the documents that the code does not keep.                  *)
(***************************************************************************)

\* "calls still requiring ask remain pending": a call released without an
\* answer is one the conversation's mode admits.
ReleasedByCurrentMode ==
  [][\A s \in Sessions :
       phase[s] = "asking" /\ phase'[s] = "deciding" /\ decision'[s] = "allow"
       /\ winner'[s] = "none" => Admits(Governing(s), KindOf[s])]_vars

\* "A newly unexposed or denied call ends truthfully without running": no body
\* starts in a mode that denies the tool.
DeniedNeverStarts ==
  [][\A s \in Sessions :
       phase[s] = "ready" /\ phase'[s] = "running" =>
         Exposed(s) /\ ModeFor(Governing(s)) # "deny"]_vars
=============================================================================
