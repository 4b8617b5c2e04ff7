----------------------------- MODULE AgentTurn -----------------------------
(***************************************************************************)
(* One root agent: the driver loop of Agent (run, turn, step), the HTTP    *)
(* requests that accept, stop and steer, and the session log they share.   *)
(*                                                                         *)
(* The driver is one asynchronous function.  `pc` names the await it is    *)
(* parked on; an action is what runs, without interruption, from one await *)
(* to the next.  Requests interleave at every await.                       *)
(*                                                                         *)
(* The log keeps the facts the properties read; step and message records   *)
(* ride along unseen.  What a failed write or sync leaves in the file is   *)
(* the subject of SessionLog: here the chain is intact or broken.          *)
(***************************************************************************)
EXTENDS Subsequences, SequencesExt

CONSTANTS
  Inputs,      \* the messages users submit
  MaxPending,  \* limits.maxPendingInputs
  MaxReplies,  \* bound: model replies in one turn
  Calls,       \* bound: the numbers of tool calls a reply may have
  MaxIntents   \* bound: stops, steers and retries in one behaviour

ASSUME AgentAssumption ==
  /\ IsFiniteSet(Inputs)
  /\ MaxPending \in Nat
  /\ MaxReplies \in Nat \ {0} /\ Calls \subseteq Nat /\ 0 \in Calls
  /\ MaxIntents \in Nat

VARIABLES
  \* --- the session
  log, onDisk,    \* the facts, and how many of them are written and synced
  broken,         \* a write or sync has failed
  poisoned,       \* a durable() has rejected: every append throws
  \* --- the agent
  inbox, claimed, \* inputs waiting, and those the running turn has taken
  pc, barrier,    \* the await of the driver; what its durable() waits for
  outcome,        \* how the running turn, or the latest one, ends
  unstarted,      \* calls of the latest reply not yet prepared
  owing,          \* whether the latest reply had calls
  replies,        \* model replies in this turn
  leaving,        \* why the run loop was left: drained, stopped, threw
  aborted, cause, \* the run's AbortController and abortCause
  steering,       \* steerRequested
  \* --- the requests
  request,        \* each submission: none, accepting, accepted, refused
  stale,          \* the pending inputs it read before it waited
  \* --- history
  begun,          \* the newest execution whose tool body has begun
  told,           \* inputs whose sender was told they are accepted
  quiet,          \* the latest intent of the user is a stop
  intents

sessionVars == <<log, onDisk, broken, poisoned>>
boxVars == <<inbox, claimed>>
turnVars == <<pc, barrier, outcome, unstarted, owing, replies>>
abortVars == <<aborted, cause, steering>>
requestVars == <<request, stale, told>>
vars == <<sessionVars, boxVars, turnVars, leaving, abortVars, requestVars,
          begun, quiet, intents>>

Fact(type, of) == [type |-> type, of |-> of]

Of(type) == {p \in 1..Len(log) : log[p].type = type}
Turns == Cardinality(Of("turn/start"))
Executions == Cardinality(Of("tool/call"))

\* Where in the log an input was accepted.
Position(input) == CHOOSE p \in Of("input/queued") : log[p].of = input
Queued(input) == \E p \in Of("input/queued") : log[p].of = input

\* SessionsService.pendingInputs: accepted and not yet admitted or settled, in
\* log order.
Unsettled(input) == ~\E p \in Of("input/settled") : log[p].of = input
Pending ==
  LET queued == Picked(log, {p \in Of("input/queued") : Unsettled(log[p].of)})
  IN  [k \in DOMAIN queued |-> queued[k].of]

-----------------------------------------------------------------------------
Init ==
  /\ log = <<>> /\ onDisk = 0 /\ broken = FALSE /\ poisoned = FALSE
  /\ inbox = <<>> /\ claimed = <<>>
  /\ pc = "idle" /\ barrier = 0 /\ outcome = "none"
  /\ unstarted = 0 /\ owing = FALSE /\ replies = 0
  /\ leaving = "drained"
  /\ aborted = FALSE /\ cause = "stop" /\ steering = FALSE
  /\ request = [input \in Inputs |-> "none"]
  /\ stale = [input \in Inputs |-> <<>>]
  /\ begun = 0 /\ told = {} /\ quiet = FALSE
  /\ intents = 0

-----------------------------------------------------------------------------
(***************************************************************************)
(* Storage.  A durable() that can go on does so before the next write or   *)
(* sync completes: promise reactions run before the next I/O callback.     *)
(***************************************************************************)
Flushes == {"admission", "intent", "answer", "stepClose", "skipped",
            "stopClose", "turnEnd", "errorNoted", "failedEnd"}

Ready(input) == request[input] = "accepting" /\ Position(input) <= onDisk
ReactionsRun ==
  /\ ~(pc \in Flushes /\ barrier <= onDisk)
  /\ \A input \in Inputs : ~Ready(input)

\* The next record of the chain is written and synced.
RecordStored ==
  /\ ~broken /\ onDisk < Len(log) /\ ReactionsRun
  /\ onDisk' = onDisk + 1
  /\ UNCHANGED <<log, broken, poisoned, boxVars, turnVars, leaving, abortVars,
                 requestVars, begun, quiet, intents>>

\* The next record's write or sync fails, and with it every later one.
StorageBreaks ==
  /\ ~broken /\ onDisk < Len(log) /\ ReactionsRun
  /\ broken' = TRUE
  /\ UNCHANGED <<log, onDisk, poisoned, boxVars, turnVars, leaving, abortVars,
                 requestVars, begun, quiet, intents>>

-----------------------------------------------------------------------------
(***************************************************************************)
(* Pieces of the driver.                                                   *)
(***************************************************************************)

StopReason == IF steering THEN "steered" ELSE "cancelled"

\* Append facts and wait for them at `await`; the append throws when the session
\* is poisoned, and the turn then fails with nothing recorded.
Record(facts, await, how) ==
  IF poisoned
  THEN /\ pc' = "return" /\ outcome' = "failed"
       /\ UNCHANGED <<log, barrier>>
  ELSE /\ log' = log \o facts /\ barrier' = Len(log')
       /\ pc' = await /\ outcome' = how

EndTurn(facts, reason) ==
  Record(Append(facts, Fact("turn/end", Turns)), "turnEnd", reason)

\* The catch block of turn().
Fail == Record(<<Fact("turn/error", Turns)>>, "errorNoted", "failed")

\* closeOpenStep, on the way to a cancelled or steered end.
CloseStep == Record(<<>>, "stopClose", outcome)

\* One "input/settled" for every claimed input, and its message when admitted.
Settled == [k \in DOMAIN claimed |-> Fact("input/settled", claimed[k])]

\* Opening a turn on the waiting inputs, up to the await of agent/pre-step.
BeginTurn(waiting) ==
  IF poisoned
  THEN /\ pc' = "exit" /\ leaving' = "threw"
       /\ inbox' = waiting
       /\ UNCHANGED <<log, claimed, barrier, outcome, unstarted, owing, replies>>
  ELSE /\ log' = Append(log, Fact("turn/start", Turns + 1))
       /\ claimed' = waiting /\ inbox' = <<>>
       /\ pc' = "preStep" /\ outcome' = "open"
       /\ UNCHANGED <<barrier, leaving, unstarted, owing, replies>>

\* Agent.run from idle, with something in the inbox.
BeginRun(waiting) ==
  /\ aborted' = FALSE /\ cause' = "stop" /\ steering' = FALSE
  /\ BeginTurn(waiting)

\* What a driver action leaves to the requests and to the storage.
OutsideDriver == <<onDisk, broken, requestVars, quiet, intents>>
\* ... and what most of them leave alone besides.
OutsideTurn == <<poisoned, boxVars, leaving, abortVars, OutsideDriver>>

Flushed(await) == pc = await /\ barrier <= onDisk /\ ~broken

-----------------------------------------------------------------------------
(***************************************************************************)
(* Agent.turn: admission.                                                  *)
(***************************************************************************)

\* A stop or steer landed while agent/pre-step ran: the inputs go back, oldest
\* first.  They stay claimed until the turn has returned.
PreStepHandsBack ==
  /\ pc = "preStep" /\ aborted
  /\ inbox' = claimed \o inbox
  /\ EndTurn(<<>>, StopReason)
  /\ UNCHANGED <<poisoned, claimed, leaving, abortVars, unstarted, owing,
                 replies, begun, OutsideDriver>>

\* The first half of step(): admitted inputs are logged before the model is asked.
PreStepEnters ==
  /\ pc = "preStep" /\ ~aborted
  /\ Record(Settled, "admission", "open")
  /\ UNCHANGED <<unstarted, owing, replies, begun, OutsideTurn>>

PreStepRejects ==
  /\ pc = "preStep" /\ ~aborted
  /\ EndTurn(Append(Settled, Fact("turn/error", Turns)),
             "rejected")
  /\ UNCHANGED <<unstarted, owing, replies, begun, OutsideTurn>>

PreStepAdmitsNothing ==
  /\ pc = "preStep" /\ ~aborted
  /\ EndTurn(Settled, "empty")
  /\ UNCHANGED <<unstarted, owing, replies, begun, OutsideTurn>>

\* A listener throws: the turn fails, and its inputs are in nobody's hands.
PreStepThrows ==
  /\ pc = "preStep"
  /\ Fail
  /\ UNCHANGED <<unstarted, owing, replies, begun, OutsideTurn>>

-----------------------------------------------------------------------------
(***************************************************************************)
(* Agent.step: the request and the reply.                                  *)
(***************************************************************************)

\* assertLive, before and after the context and request are assembled.
GoOnUnlessStopped(await) ==
  IF aborted THEN CloseStep
  ELSE pc' = await /\ UNCHANGED <<log, barrier, outcome>>

AdmissionFlushed ==
  /\ Flushed("admission")
  /\ GoOnUnlessStopped("request")
  /\ UNCHANGED <<unstarted, owing, replies, begun, OutsideTurn>>

RequestReady ==
  /\ pc = "request"
  /\ GoOnUnlessStopped("stream")
  /\ UNCHANGED <<unstarted, owing, replies, begun, OutsideTurn>>

\* A listener of agent/context or agent/request throws.
RequestThrows ==
  /\ pc = "request"
  /\ Fail
  /\ UNCHANGED <<unstarted, owing, replies, begun, OutsideTurn>>

\* The provider fails, or its answer is empty.
ProviderFails ==
  /\ pc = "stream"
  /\ Fail
  /\ UNCHANGED <<unstarted, owing, replies, begun, OutsideTurn>>

\* The watchdog: the stream stayed silent for too long.
StreamSilent ==
  /\ pc = "stream" /\ ~aborted
  /\ aborted' = TRUE /\ cause' = "inactivity"
  /\ UNCHANGED <<sessionVars, boxVars, turnVars, leaving, steering, requestVars,
                 begun, quiet, intents>>

\* Defective: only a user's abort ends the wait for the provider.
StreamStopped ==
  /\ pc = "stream" /\ aborted /\ cause = "stop"
  /\ CloseStep
  /\ UNCHANGED <<unstarted, owing, replies, begun, OutsideTurn>>

\* raceAbort: an abort ends the wait for the provider's next event.
StreamAborted ==
  /\ pc = "stream" /\ aborted
  /\ IF cause = "stop" THEN CloseStep ELSE Fail
  /\ UNCHANGED <<unstarted, owing, replies, begun, OutsideTurn>>

\* The whole reply has arrived, with `calls` tool calls.  No call: close the step.
StreamDone(calls) ==
  /\ pc = "stream" /\ ~aborted
  /\ calls > 0 => replies + 1 < MaxReplies
  /\ IF calls = 0 THEN Record(<<>>, "stepClose", outcome)
     ELSE IF poisoned THEN Fail
     ELSE pc' = "prepare" /\ UNCHANGED <<log, barrier, outcome>>
  /\ unstarted' = calls /\ owing' = (calls > 0) /\ replies' = replies + 1
  /\ UNCHANGED <<begun, OutsideTurn>>

-----------------------------------------------------------------------------
(***************************************************************************)
(* Agent.step: the calls, one after the other.                             *)
(***************************************************************************)
Call(n) == Fact("tool/call", n)
Result(n) == Fact("tool/result", n)

\* Every gate is passed (or one has denied the call): the intent is recorded and
\* must be durable before the body may start.
CallPrepared ==
  /\ pc = "prepare"
  /\ Record(<<Call(Executions + 1)>>, "intent", outcome)
  /\ unstarted' = unstarted - 1
  /\ UNCHANGED <<owing, replies, begun, OutsideTurn>>

PrepareThrows ==
  /\ pc = "prepare"
  /\ Record(<<Call(Executions + 1), Result(Executions + 1)>>,
            "answer", outcome)
  /\ unstarted' = unstarted - 1
  /\ UNCHANGED <<owing, replies, begun, OutsideTurn>>

\* Defective: the intent is recorded, but not waited for.
IntentRecorded ==
  /\ pc = "intent" /\ ~broken
  /\ begun' \in {begun, Executions}
  /\ pc' = "tool"
  /\ UNCHANGED <<log, barrier, outcome, unstarted, owing, replies, OutsideTurn>>

\* The side effect boundary.  A denied call runs no body.
IntentFlushed ==
  /\ Flushed("intent")
  /\ begun' \in {begun, Executions}
  /\ pc' = "tool"
  /\ UNCHANGED <<log, barrier, outcome, unstarted, owing, replies, OutsideTurn>>

\* The body returned or threw.
ToolReturns ==
  /\ pc = "tool"
  /\ Record(<<Result(Executions)>>, "answer", outcome)
  /\ UNCHANGED <<unstarted, owing, replies, begun, OutsideTurn>>

\* Defective: calls a stop left unstarted are declared, and never answered.
SkippedUnanswered == [k \in 1 .. unstarted |-> Call(Executions + k)]

\* Calls a stop left unstarted are logged as such, with their answers.
Skipped ==
  [k \in 1 .. 2 * unstarted |->
     IF k % 2 = 1 THEN Call(Executions + (k + 1) \div 2)
     ELSE Result(Executions + k \div 2)]

\* The head of the loop over the calls, and step/end after the last one.
AnswerFlushed ==
  /\ Flushed("answer")
  /\ \/ unstarted = 0 /\ Record(<<>>, "stepClose", outcome)
     \/ unstarted > 0 /\ aborted /\ Record(Skipped, "skipped", outcome)
     \/ unstarted > 0 /\ ~aborted /\ pc' = "prepare" /\ UNCHANGED <<log, barrier, outcome>>
  /\ unstarted' = IF aborted THEN 0 ELSE unstarted
  /\ UNCHANGED <<owing, replies, begun, OutsideTurn>>

SkippedFlushed ==
  /\ Flushed("skipped")
  /\ CloseStep
  /\ UNCHANGED <<unstarted, owing, replies, begun, OutsideTurn>>

\* While tools owe the model their results there is another step.
StepClosed ==
  /\ Flushed("stepClose")
  /\ IF owing THEN Record(<<>>, "admission", outcome)
     ELSE pc' = "stopping" /\ UNCHANGED <<log, barrier, outcome>>
  /\ UNCHANGED <<unstarted, owing, replies, begun, OutsideTurn>>

-----------------------------------------------------------------------------
(***************************************************************************)
(* How a turn ends.                                                        *)
(***************************************************************************)

\* agent/turn-stopping has been heard.
TurnStops ==
  /\ pc = "stopping"
  /\ EndTurn(<<>>, IF aborted THEN StopReason ELSE "completed")
  /\ UNCHANGED <<unstarted, owing, replies, begun, OutsideTurn>>

TurnStoppingThrows ==
  /\ pc = "stopping"
  /\ Fail
  /\ UNCHANGED <<unstarted, owing, replies, begun, OutsideTurn>>

StopClosed ==
  /\ Flushed("stopClose")
  /\ EndTurn(<<>>, StopReason)
  /\ UNCHANGED <<unstarted, owing, replies, begun, OutsideTurn>>

ErrorFlushed ==
  /\ Flushed("errorNoted")
  /\ Record(<<Fact("turn/end", Turns)>>, "failedEnd", "failed")
  /\ UNCHANGED <<unstarted, owing, replies, begun, OutsideTurn>>

\* The end is durable; agent/turn-settled is dispatched.
EndFlushed ==
  /\ Flushed("turnEnd") \/ Flushed("failedEnd")
  /\ pc' = "return"
  /\ UNCHANGED <<log, barrier, outcome, unstarted, owing, replies, begun,
                 OutsideTurn>>

\* A durable() of the driver rejects, wherever it is: the turn fails unrecorded.
FlushFails ==
  /\ pc \in Flushes /\ broken
  /\ poisoned' = TRUE
  /\ pc' = "return" /\ outcome' = "failed"
  /\ UNCHANGED <<log, barrier, unstarted, owing, replies, boxVars, leaving,
                 abortVars, begun, OutsideDriver>>

\* The finally block of turn(); the locals of turn() and step() are gone.
TurnReturns ==
  /\ pc = "return"
  /\ claimed' = <<>>
  /\ pc' = "loop"
  /\ barrier' = 0 /\ unstarted' = 0 /\ owing' = FALSE /\ replies' = 0
  /\ UNCHANGED <<sessionVars, inbox, outcome, leaving, abortVars, requestVars,
                 begun, quiet, intents>>

-----------------------------------------------------------------------------
(***************************************************************************)
(* Agent.run: the loop over turns, and going idle.                         *)
(***************************************************************************)
Closes == {"completed", "rejected", "empty"}

RunLoops ==
  /\ pc = "loop"
  /\ outcome \in Closes /\ inbox # <<>> /\ ~aborted
  /\ BeginTurn(inbox)
  /\ UNCHANGED <<poisoned, abortVars, begun, OutsideDriver>>

RunLeaves ==
  /\ pc = "loop"
  /\ outcome \notin Closes \/ inbox = <<>> \/ aborted
  /\ leaving' = IF outcome \in Closes /\ inbox = <<>> THEN "drained" ELSE "stopped"
  /\ pc' = "exit"
  /\ UNCHANGED <<sessionVars, boxVars, barrier, outcome, unstarted, owing, replies,
                 abortVars, requestVars, begun, quiet, intents>>

\* Defective: a stop that raced a turn finishing on its own is forgotten.
RunsAgainUnlessLeft ==
  /\ inbox # <<>> /\ leaving # "threw"
  /\ leaving # "stopped" \/ (steering /\ ~poisoned)

\* Defective: what arrived while the loop was being left stays behind.
RunsAgainForSteersOnly ==
  inbox # <<>> /\ leaving # "threw" /\ steering /\ ~poisoned

\* Whether the run, now idle, starts over: for what came in since the loop looked,
\* unless it was stopped, and for a steer even then.
RunsAgain ==
  /\ inbox # <<>> /\ leaving # "threw"
  /\ \/ leaving # "stopped" /\ ~(aborted /\ cause = "stop")
     \/ steering /\ ~poisoned

\* The finally block of run() and the recheck after it.
RunSettles ==
  /\ pc = "exit"
  /\ IF RunsAgain THEN BeginRun(inbox)
     ELSE /\ pc' = "idle" /\ aborted' = FALSE /\ steering' = FALSE
          /\ cause' = "stop"
          /\ UNCHANGED <<log, boxVars, barrier, outcome, unstarted, owing, replies,
                         leaving>>
  /\ UNCHANGED <<poisoned, begun, OutsideDriver>>

-----------------------------------------------------------------------------
(***************************************************************************)
(* The requests: acceptMessage, steerSession, Stop.                        *)
(***************************************************************************)

\* The driver's part of the state, for the requests that leave it alone.
Driver == <<boxVars, turnVars, leaving, abortVars, begun>>

\* acceptMessage, up to its wait: what is pending is read, the new input logged.
Submit(input) ==
  /\ request[input] = "none"
  /\ IF poisoned \/ Len(Pending) >= MaxPending
     THEN /\ request' = [request EXCEPT ![input] = "refused"]
          /\ UNCHANGED <<log, stale>>
     ELSE /\ request' = [request EXCEPT ![input] = "accepting"]
          /\ log' = Append(log, Fact("input/queued", input))
          /\ stale' = [stale EXCEPT ![input] = Pending]
  /\ UNCHANGED <<onDisk, broken, poisoned, Driver, told, quiet, intents>>

\* The same clientRequestId again: an input in the log is reported as accepted.
Resubmit(input) ==
  /\ Queued(input) /\ intents < MaxIntents
  /\ intents' = intents + 1
  /\ told' = told \cup {input}
  /\ UNCHANGED <<sessionVars, Driver, request, stale, quiet>>

\* The append was not made durable: the sender is told so.
NotAccepted(input) ==
  /\ request[input] = "accepting" /\ broken
  /\ poisoned' = TRUE
  /\ request' = [request EXCEPT ![input] = "refused"]
  /\ stale' = [stale EXCEPT ![input] = <<>>]
  /\ UNCHANGED <<log, onDisk, broken, Driver, told, quiet, intents>>

\* Agent.adoptPending: pending inputs move to the end, in order, but for the
\* claimed ones, which leave the inbox.
Adopted(pending) ==
  Picked(inbox, {i \in DOMAIN inbox : inbox[i] \notin ToSet(pending)})
    \o Picked(pending, {i \in DOMAIN pending : pending[i] \notin ToSet(claimed)})

\* Defective: an input that waits already is queued a second time.
EnqueuedBlindly(waiting, input) == Append(waiting, input)

\* Agent.enqueueAccepted.
Enqueued(waiting, input) ==
  IF input \in ToSet(claimed) \cup ToSet(waiting) THEN waiting
  ELSE Append(waiting, input)

\* Agent.steer on a busy agent.
Steered ==
  /\ steering' = TRUE /\ aborted' = TRUE
  /\ cause' = IF aborted THEN cause ELSE "stop"

\* dispatchInbox: an idle agent starts a run, a busy one is steered or left alone.
Dispatch(waiting, delivery) ==
  \/ /\ pc = "idle"
     /\ BeginRun(waiting) /\ quiet' = FALSE
  \/ /\ pc # "idle" /\ delivery = "steer"
     /\ Steered /\ quiet' = FALSE
     /\ inbox' = waiting
     /\ UNCHANGED <<log, claimed, turnVars, leaving>>
  \/ /\ pc # "idle" /\ delivery # "steer"
     /\ inbox' = waiting
     /\ UNCHANGED <<log, claimed, turnVars, leaving, abortVars, quiet>>

\* acceptMessage goes on: what was pending then is adopted, and the new input.
Accepted(input) ==
  /\ Ready(input) /\ ~broken
  /\ \E delivery \in {"queue", "steer"} :
       /\ delivery = "steer" => intents < MaxIntents
       /\ intents' = IF delivery = "steer" THEN intents + 1 ELSE intents
       /\ Dispatch(Enqueued(Adopted(stale[input]), input), delivery)
  /\ request' = [request EXCEPT ![input] = "accepted"]
  /\ stale' = [stale EXCEPT ![input] = <<>>]
  /\ told' = told \cup {input}
  /\ UNCHANGED <<onDisk, broken, poisoned, begun>>

\* steerSession ("Send now"): only input nobody has claimed counts as waiting.
SteerSession ==
  /\ intents < MaxIntents
  /\ ToSet(Pending) \ ToSet(claimed) # {}
  /\ intents' = intents + 1
  /\ Dispatch(Adopted(Pending), "steer")
  /\ UNCHANGED <<onDisk, broken, poisoned, requestVars, begun>>

\* Agent.stop on a busy agent.  The latest intent wins over an earlier steer, but
\* not over an inactivity abort.
Stop ==
  /\ pc # "idle" /\ intents < MaxIntents
  /\ intents' = intents + 1 /\ quiet' = TRUE
  /\ steering' = FALSE /\ aborted' = TRUE
  /\ cause' = IF aborted THEN cause ELSE "stop"
  /\ UNCHANGED <<sessionVars, boxVars, turnVars, leaving, requestVars, begun>>

-----------------------------------------------------------------------------
SomeReply == \E calls \in Calls : StreamDone(calls)

Continue ==
  \/ PreStepHandsBack \/ PreStepEnters \/ PreStepRejects \/ PreStepAdmitsNothing
  \/ PreStepThrows
  \/ AdmissionFlushed \/ RequestReady \/ RequestThrows
  \/ StreamSilent \/ StreamAborted
  \/ CallPrepared \/ PrepareThrows \/ IntentFlushed \/ ToolReturns
  \/ AnswerFlushed \/ SkippedFlushed \/ StepClosed
  \/ TurnStops \/ TurnStoppingThrows \/ StopClosed
  \/ ErrorFlushed \/ EndFlushed \/ FlushFails \/ TurnReturns
  \/ RunLoops \/ RunLeaves \/ RunSettles

Provider == SomeReply \/ ProviderFails

Request ==
  \/ \E input \in Inputs :
       Submit(input) \/ Resubmit(input) \/ NotAccepted(input) \/ Accepted(input)
  \/ SteerSession \/ Stop

Next == Continue \/ Provider \/ Request \/ RecordStored \/ StorageBreaks

\* A human may leave an approval, and with it the preparation of a call, open for
\* ever; a stop releases it.  A tool body is only sure to return once it is told to
\* stop.  A provider need never answer: the watchdog is what ends a silent stream.
WaitsOnOthers == pc \in {"prepare", "tool"} /\ ~aborted

Fairness ==
  /\ WF_vars(Continue /\ ~WaitsOnOthers)
  /\ WF_vars(RecordStored)
  /\ \A input \in Inputs : WF_vars(Accepted(input) \/ NotAccepted(input))

Spec == Init /\ [][Next]_vars
FairSpec == Spec /\ Fairness

-----------------------------------------------------------------------------
(***************************************************************************)
(* Properties                                                              *)
(***************************************************************************)
\* An accepted input reaches the model at most once, however acceptance, "Send now",
\* the hand-back of a stopped turn and the reruns overlap.
InputRunsOnce ==
  \A p, q \in Of("input/settled") : log[p].of = log[q].of => p = q

\* No tool body begins before the record of its call is on disk: after a crash the
\* log tells of every side effect that may have happened.
IntentBeforeEffect ==
  begun > 0 => \E p \in Of("tool/call") : log[p].of = begun /\ p <= onDisk

\* The log is a transcript a provider accepts and a reader can trust: turns do not
\* overlap, none ends twice, and when one has ended every call it recorded has
\* exactly one answer, whatever stopped or failed in between.
TranscriptCloses ==
  \A p \in Of("turn/end") :
    /\ Cardinality({q \in Of("turn/start") : q < p}) = log[p].of
    /\ Cardinality({q \in Of("turn/end") : q <= p}) = log[p].of
    /\ \A q \in Of("tool/call") : q < p =>
         Cardinality({r \in Of("tool/result") : r < p /\ log[r].of = log[q].of}) = 1

\* After a stop nothing queued is run on its own, at whichever await the stop
\* landed: a turn begins only once the user has sent or steered again.
StopNeverAdvances == [][Len(log') > Len(log) /\ Turns' > Turns => ~quiet']_vars

\* An agent goes idle over waiting input only when the user stopped it or the latest
\* turn failed: what arrives while a run is ending is not stranded.
NothingStranded ==
  pc = "idle" /\ inbox # <<>> /\ ~poisoned =>
    quiet \/ leaving = "threw" \/ outcome \in {"failed", "cancelled"}

\* A stopped or steered run comes to an end: the abort reaches the driver wherever it
\* waits, and every path out of a turn gets past its barriers or fails.
AbortSettles == aborted ~> ~aborted

\* The comment in acceptMessage: accepted input is never lost and runs in submission
\* order.  So a turn takes all that is pending, oldest first.
RunsInSubmissionOrder ==
  pc = "preStep" =>
    /\ \A i, j \in DOMAIN claimed : i < j => Position(claimed[i]) < Position(claimed[j])
    /\ \A input \in ToSet(Pending) \ ToSet(claimed) :
         \A i \in DOMAIN claimed : Position(claimed[i]) < Position(input)

\* The comment in acceptMessage: a clientRequestId already accepted returns the
\* original input.  So what is reported as accepted is not an input that storage lost.
ToldMeansDurable == broken => \A input \in told : Position(input) <= onDisk
=============================================================================
