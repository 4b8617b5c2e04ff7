------------------------------- MODULE Context -------------------------------
(***************************************************************************)
(* What the model is sent of a conversation.  Every request of a turn is   *)
(* assembled from the log: the window the mode's history setting allows,   *)
(* less what the budget makes it drop.  Compaction, asked for or set off   *)
(* by a settled turn, summarizes the finished turns into a checkpoint that *)
(* stands for them from then on.                                           *)
(*                                                                         *)
(* Both compactions, the turns and crashes interleave.  A message, a       *)
(* source and a summary each cost one unit of the budget; a summary is the *)
(* messages it was made from, which are not all that it stands for when    *)
(* they are too many to ask about.  The log keeps the messages and the     *)
(* ends of turns, all that a request depends on; the manifests and the     *)
(* records of compactions are left out.                                    *)
(***************************************************************************)
EXTENDS Subsequences, SequencesExt

CONSTANTS
  TailTurns,      \* compactionTailTurns
  Loads,          \* the sets of optional sources a request may have
  Budgets,        \* the budgets it may have
  MaxInput,       \* what a summarizer is given at most, in messages
  MaxWork,        \* bound: turns, compactions and crashes
  MaxCalls        \* bound: tool calls

DropOrder == <<"skill-catalog", "skills", "parent-context", "memory">>
Settings == {"none", "recent", "compact"}
Triggers == {"manual", "automatic"}

ASSUME ContextAssumption ==
  /\ TailTurns \in Nat
  /\ Loads \subseteq SUBSET ToSet(DropOrder) /\ Budgets \subseteq Nat
  /\ {MaxInput, MaxWork, MaxCalls} \subseteq Nat

VARIABLES
  events,    \* the session's log
  stored,    \* how many of them are on disk
  turn,      \* phase of the driver
  stop,      \* whether the user has stopped this run
  read,      \* seq covered by the checkpoint a request found, or 0
  request,   \* the request being answered, or NoRequest
  measured,  \* whether the manifest of a request is known
  job,       \* of each trigger: its compaction
  begun,     \* compactions begun
  files,     \* checkpoint files, by the seq in their name
  boot       \* incarnation of the host

contextVars == <<events, stored, turn, stop, read, request, measured, job, begun, files, boot>>

Entry(kind) == [kind |-> kind, run |-> boot]
Messages == {"user", "answer", "calls", "result"}
Positions(kinds, l) == {i \in DOMAIN l : l[i].kind \in kinds}
Newest(S) == IF S = {} THEN 0 ELSE CHOOSE i \in S : \A j \in S : j <= i
Number(kinds) == Cardinality(Positions(kinds, events))
Worked == Number({"turn/start"}) + begun + boot

NoRequest == [sent |-> {}]
NoJob == [pc |-> "none", covers |-> 0, text |-> <<>>]

ContextInit ==
  /\ events = <<>> /\ stored = 0 /\ turn = "idle" /\ stop = FALSE
  /\ read = 0 /\ request = NoRequest /\ measured = FALSE
  /\ job = [t \in Triggers |-> NoJob] /\ begun = 0 /\ files = <<>> /\ boot = 0

-----------------------------------------------------------------------------
(***************************************************************************)
(* Turns in the log.                                                       *)
(***************************************************************************)

LastEnd(l) == Newest(Positions({"turn/end"}, l))

\* lastOpenTurnStart: 0 when none is open.
OpenTurn(l) ==
  LET start == Newest(Positions({"turn/start"}, l))
  IN IF start > LastEnd(l) THEN start ELSE 0

\* completedTurnStarts
CompletedStarts(after) ==
  {i \in Positions({"turn/start"}, events) : after < i /\ i < LastEnd(events)}

\* completedTurnBoundaries, those that still drop something
Boundaries(from, open) ==
  {i + 1 : i \in Positions({"turn/end"}, events)} \cap (from..open)

\* deriveDatedMessages
Dated(from) == {i \in Positions(Messages, events) : i >= from}

-----------------------------------------------------------------------------
(***************************************************************************)
(* buildContext.                                                           *)
(***************************************************************************)

\* The last TailTurns of the completed turns that the checkpoint does not cover.
TailStart(covered, open) ==
  LET starts == CompletedStarts(covered)
      beyond == Cardinality(starts) - TailTurns
  IN IF beyond <= 0 THEN covered + 1
     ELSE IF TailTurns = 0 THEN open
     ELSE Nth(starts, beyond + 1)

\* The bug of a window that forgets the turns between the summary and the tail.
WindowUnsaid(setting, covered, open) ==
  [from |-> IF setting = "none" THEN open
            ELSE IF setting = "recent" \/ covered = 0 THEN 1
            ELSE TailStart(covered, open),
   omitted |-> {}]

\* historyWindow: where the history starts, and the messages that fall between
\* the summary and the tail, recorded as an omission.
Window(setting, covered, open) ==
  LET from == TailStart(covered, open)
  IN IF setting = "none" THEN [from |-> open, omitted |-> {}]
     ELSE IF setting = "recent" \/ covered = 0 THEN [from |-> 1, omitted |-> {}]
     ELSE [from |-> from, omitted |-> Dated(covered + 1) \ Dated(from)]

\* fixedCost + historyCost
Cost(sources, summary, from) ==
  1 + Cardinality(sources) + (IF summary > 0 THEN 1 ELSE 0) + Cardinality(Dated(from))

\* Optional sources go first, in their order, until the request fits.
KeptSources(loaded, summary, from, available) ==
  LET after(n) == loaded \ {DropOrder[i] : i \in 1..n}
      enough == {n \in 0..Len(DropOrder) : Cost(after(n), summary, from) <= available}
  IN after(IF enough = {} THEN Len(DropOrder) ELSE Min(enough))

\* The bug of a trimmer that takes a request that just fits for one too large.
HistoryLessOne(window, sources, summary, available, open) ==
  LET choices == {window.from} \cup Boundaries(window.from + 1, open)
      fitting == {b \in choices : Cost(sources, summary, b) < available}
      from == IF fitting = {} THEN Newest(choices) ELSE Min(fitting)
  IN [from |-> from, omitted |-> window.omitted \cup (Dated(window.from) \ Dated(from))]

\* Then whole turns that have ended, oldest first, until it fits or the open turn
\* is left; what goes is noted.
KeptHistory(window, sources, summary, available, open) ==
  LET choices == {window.from} \cup Boundaries(window.from + 1, open)
      fitting == {b \in choices : Cost(sources, summary, b) <= available}
      from == IF fitting = {} THEN Newest(choices) ELSE Min(fitting)
  IN [from |-> from, omitted |-> window.omitted \cup (Dated(window.from) \ Dated(from))]

\* The request, with what its manifest says was left out; or the refusal.
Assembled(setting, loaded, available) ==
  LET open == OpenTurn(events)
      summary == IF setting = "compact" THEN read ELSE 0
      window == Window(setting, summary, open)
      sources == KeptSources(loaded, summary, window.from, available)
      history == KeptHistory(window, sources, summary, available, open)
  IN [openOnly |-> setting = "none", loaded |-> loaded, available |-> available,
      window |-> window.from, sources |-> sources, summary |-> summary,
      from |-> history.from, omitted |-> history.omitted, sent |-> Dated(history.from),
      refused |-> Cost(sources, summary, history.from) > available]

-----------------------------------------------------------------------------
(***************************************************************************)
(* A turn.                                                                 *)
(***************************************************************************)

StartTurn ==
  /\ turn = "idle" /\ Worked < MaxWork
  /\ events' = Append(events, Entry("turn/start")) /\ turn' = "admitting"
  /\ UNCHANGED <<stored, stop, read, request, measured, job, begun, files, boot>>

Admit ==
  /\ turn = "admitting"
  /\ events' = Append(events, Entry("user")) /\ turn' = "step"
  /\ UNCHANGED <<stored, stop, read, request, measured, job, begun, files, boot>>

\* CheckpointStore.latest: the newest whole file.
Latest == Newest({c \in DOMAIN files : files[c].whole})

\* A step begins once everything so far is on disk; the checkpoint is read
\* first, the log when the request is built.
ReadCheckpoint ==
  /\ turn = "step" /\ stored = Len(events) /\ ~stop
  /\ read' = Latest /\ turn' = "building"
  /\ UNCHANGED <<events, stored, stop, request, measured, job, begun, files, boot>>

Build ==
  /\ turn = "building"
  /\ \E setting \in Settings, loaded \in Loads, available \in Budgets :
       request' = Assembled(setting, loaded, available)
  /\ read' = 0
  /\ IF request'.refused
     THEN turn' = "refused" /\ UNCHANGED measured
     ELSE turn' = "waiting" /\ measured' = TRUE
  /\ UNCHANGED <<events, stored, stop, job, begun, files, boot>>

\* The provider answers, or calls a tool.
Reply(kind) ==
  /\ turn = "waiting" /\ ~stop
  /\ kind = "calls" => Number({"calls"}) < MaxCalls
  /\ events' = Append(events, Entry(kind)) /\ request' = NoRequest
  /\ turn' = IF kind = "calls" THEN "tool" ELSE "stopping"
  /\ UNCHANGED <<stored, stop, read, measured, job, begun, files, boot>>

\* Its result, or the record that it was cancelled.
ToolReturns ==
  /\ turn = "tool"
  /\ events' = Append(events, Entry("result")) /\ turn' = "step"
  /\ UNCHANGED <<stored, stop, read, request, measured, job, begun, files, boot>>

\* The turn ends: answered, refused by the budget, rejected, stopped, failed
\* or silent for too long.
EndTurn ==
  /\ \/ turn \in {"admitting", "waiting", "refused", "stopping"}
     \/ turn = "step" /\ stop
  /\ events' = Append(events, Entry("turn/end")) /\ request' = NoRequest
  /\ turn' = "ending"
  /\ UNCHANGED <<stored, stop, read, measured, job, begun, files, boot>>

\* The user stops the run.
StopRun ==
  /\ turn # "idle" /\ ~stop
  /\ stop' = TRUE
  /\ UNCHANGED <<events, stored, turn, read, request, measured, job, begun, files, boot>>

\* turn-settled is dispatched once the end is on disk; without compaction, and
\* after it, the driver is free.
TurnSettles ==
  /\ \/ turn = "ending" /\ stored = Len(events)
     \/ turn = "settling" /\ job["automatic"].pc = "none"
  /\ turn' = "idle" /\ stop' = FALSE
  /\ UNCHANGED <<events, stored, read, request, measured, job, begun, files, boot>>

\* durable(), for whoever waits for it.
StoreEvents ==
  /\ stored < Len(events)
  /\ \/ turn \in {"step", "ending"}
     \/ \E t \in Triggers : job[t].pc = "starting"
  /\ stored' = Len(events)
  /\ UNCHANGED <<events, turn, stop, read, request, measured, job, begun, files, boot>>

-----------------------------------------------------------------------------
(***************************************************************************)
(* compactSession.                                                         *)
(***************************************************************************)

\* compaction/start is appended; no turn is open, and one has ended.
Begin(t) ==
  /\ job[t].pc = "none" /\ Worked < MaxWork
  /\ OpenTurn(events) = 0 /\ events # <<>>
  /\ begun' = begun + 1
  /\ job' = [job EXCEPT ![t] = [pc |-> "starting", covers |-> LastEnd(events), text |-> <<>>]]

\* POST .../compact, whatever the driver is about to do.
BeginManual ==
  /\ Begin("manual")
  /\ UNCHANGED <<events, stored, turn, stop, read, request, measured, files, boot>>

\* A turn has settled, and the newest manifest says that a request came close to
\* its budget; the driver waits.
BeginAutomatic ==
  /\ turn = "ending" /\ stored = Len(events) /\ measured
  /\ Begin("automatic") /\ turn' = "settling"
  /\ UNCHANGED <<events, stored, stop, read, request, measured, files, boot>>

\* projectForSummary
Projection(l, covers) == Picked(l, {i \in Positions(Messages, l) : i <= covers})

\* What the summarizer is asked about: a projection that is too long is cut at
\* its end.
SummaryInput(l, covers) ==
  LET text == Projection(l, covers)
  IN IF Len(text) > MaxInput THEN SubSeq(text, 1, MaxInput) ELSE text

\* The bug of a compaction that does not wait for its start to be durable.
SummarizeUnsynced(t) ==
  /\ job[t].pc = "starting"
  /\ job' = [job EXCEPT ![t].pc = "summarizing", ![t].text = SummaryInput(events, job[t].covers)]
  /\ UNCHANGED <<events, stored, turn, stop, read, request, measured, begun, files, boot>>

\* The bug of a compaction that waits for an idle driver, which waits for it.
SummarizeWhenIdle(t) ==
  /\ job[t].pc = "starting" /\ stored = Len(events) /\ turn = "idle"
  /\ job' = [job EXCEPT ![t].pc = "summarizing", ![t].text = SummaryInput(events, job[t].covers)]
  /\ UNCHANGED <<events, stored, turn, stop, read, request, measured, begun, files, boot>>

\* The start is on disk, and all before it; the summarizer is asked.
Summarize(t) ==
  /\ job[t].pc = "starting" /\ stored = Len(events)
  /\ job' = [job EXCEPT ![t].pc = "summarizing", ![t].text = SummaryInput(events, job[t].covers)]
  /\ UNCHANGED <<events, stored, turn, stop, read, request, measured, begun, files, boot>>

\* The summary has come; save() creates or empties the file of that seq.
OpenFile(t) ==
  /\ job[t].pc = "summarizing"
  /\ job' = [job EXCEPT ![t].pc = "saving"]
  /\ files' = [c \in DOMAIN files \cup {job[t].covers} |->
                 IF c = job[t].covers THEN [whole |-> FALSE, text |-> <<>>] ELSE files[c]]
  /\ UNCHANGED <<events, stored, turn, stop, read, request, measured, begun, boot>>

WriteFile(t) ==
  /\ job[t].pc = "saving"
  /\ job' = [job EXCEPT ![t].pc = "saved"]
  /\ files' = [files EXCEPT ![job[t].covers] = [whole |-> TRUE, text |-> job[t].text]]
  /\ UNCHANGED <<events, stored, turn, stop, read, request, measured, begun, boot>>

\* compaction/end is recorded: the summary is saved, or the summarizer or the
\* write has failed.
End(t) ==
  /\ job[t].pc \in {"summarizing", "saving", "saved"}
  /\ job' = [job EXCEPT ![t] = NoJob]
  /\ UNCHANGED <<events, stored, turn, stop, read, request, measured, begun, files, boot>>

-----------------------------------------------------------------------------
(***************************************************************************)
(* The host stops; loading the session closes the turn it finds open.      *)
(***************************************************************************)

\* recover(): a call whose record made it to disk is answered, then the turn is
\* closed.
Reloaded(l, recorded) ==
  LET stamped(kind) == [kind |-> kind, run |-> boot + 1]
      owing == Newest(Positions({"calls"}, l)) > Newest(Positions({"result"}, l))
  IN IF OpenTurn(l) = 0 THEN l
     ELSE l \o (IF owing /\ recorded THEN <<stamped("result")>> ELSE <<>>)
            \o <<stamped("turn/end")>>

Crash ==
  /\ Worked < MaxWork
  /\ \E kept \in stored..Len(events), recorded \in BOOLEAN :
       events' = Reloaded(SubSeq(events, 1, kept), recorded)
  /\ stored' = Len(events') /\ boot' = boot + 1
  /\ measured' \in {FALSE, Positions({"answer", "calls"}, events') # {}}
  /\ turn' = "idle" /\ stop' = FALSE /\ read' = 0 /\ request' = NoRequest
  /\ job' = [t \in Triggers |-> NoJob]
  /\ UNCHANGED <<begun, files>>

-----------------------------------------------------------------------------
Driver ==
  \/ StartTurn \/ Admit \/ ReadCheckpoint \/ Build
  \/ \E kind \in {"answer", "calls"} : Reply(kind)
  \/ ToolReturns \/ EndTurn \/ StopRun \/ TurnSettles

Compaction(t) ==
  Summarize(t) \/ OpenFile(t) \/ WriteFile(t) \/ End(t)

ContextNext ==
  \/ Driver \/ StoreEvents \/ BeginManual \/ BeginAutomatic
  \/ \E t \in Triggers : Compaction(t)
  \/ Crash

\* The disk writes, the driver goes on wherever it waits for nobody, a tool
\* returns (it has its own time limit), and the watchdog ends a turn whose
\* provider is silent.
DriverGoesOn ==
  /\ WF_contextVars(Admit \/ ReadCheckpoint \/ Build \/ ToolReturns \/ EndTurn)
  /\ WF_contextVars(TurnSettles \/ BeginAutomatic)

Asks(t) == job[t].pc # "summarizing" /\ Compaction(t)

\* The provider of a summary comes to answer, or to fail.
ContextSpec ==
  /\ ContextInit /\ [][ContextNext]_contextVars
  /\ WF_contextVars(StoreEvents) /\ \A t \in Triggers : WF_contextVars(Compaction(t))

\* No time limit guards the summarizer: this much the code assures by itself.
SilentSpec ==
  /\ ContextInit /\ [][ContextNext]_contextVars
  /\ WF_contextVars(StoreEvents) /\ \A t \in Triggers : WF_contextVars(Asks(t))
  /\ DriverGoesOn

-----------------------------------------------------------------------------
(***************************************************************************)
(* What the context promises.                                              *)
(***************************************************************************)

TurnOf(i) == Cardinality({j \in Positions({"turn/start"}, events) : j <= i})

\* Every message of the conversation is either sent, or older than the end of the
\* summary that is sent, or named by an omission of the manifest; none is sent twice
\* over.  A turn is sent whole or not at all, so no call is parted from its
\* result, and the open turn always is.
Complete(r) ==
  LET all == Dated(1)
      open == OpenTurn(events)
  IN /\ \A i \in all :
          i \in r.sent <=>
            IF r.openOnly THEN i >= open
            ELSE i > r.summary /\ i \notin r.omitted
     /\ \A i, j \in all :
          TurnOf(i) = TurnOf(j) => (i \in r.sent <=> j \in r.sent)
     /\ Dated(open) \subseteq r.sent

NothingForgotten == request # NoRequest => Complete(request)

\* What a request has dropped of the sources and of the window, and the last of
\* each: a source in the order of dropping, a turn by its start.
TooMuch(r, sources, from) == Cost(sources, r.summary, from) > r.available
Order(s) == CHOOSE n \in DOMAIN DropOrder : DropOrder[n] = s
Gone(r) == r.loaded \ r.sources
LastGone(r) == CHOOSE s \in Gone(r) : \A t \in Gone(r) : Order(t) <= Order(s)
Lost(r) == Dated(r.window) \ r.sent
LastLost(r) ==
  Newest({j \in Positions({"turn/start"}, events) : j <= Newest(Lost(r))})

\* A request drops no more than it must, and in the promised order: what it
\* sends fits, the last thing it dropped would not have, and it is refused
\* only when the open turn alone, without any source, is too much.
Least(r) ==
  /\ r.refused <=> TooMuch(r, {}, OpenTurn(events))
  /\ ~r.refused => ~TooMuch(r, r.sources, r.from)
  /\ \A s \in Gone(r), t \in r.sources : Order(s) < Order(t)
  /\ Lost(r) # {} => r.sources = {} /\ TooMuch(r, {}, LastLost(r))
  /\ Lost(r) = {} /\ Gone(r) # {} =>
       TooMuch(r, r.sources \cup {LastGone(r)}, r.from)

TrimsLeast == request # NoRequest => Least(request)

\* Across crashes that shorten the log and turns that regrow it, a checkpoint
\* ends where a turn ended and was made from the messages up to there, from the
\* first on and from no others: from all of them, unless they are more than a
\* summarizer is given.
CheckpointsTrue ==
  \A c \in DOMAIN files : files[c].whole =>
    LET covered == Projection(events, c)
        text == files[c].text
    IN /\ c \in Positions({"turn/end"}, events)
       /\ Len(text) <= Len(covered) /\ \A k \in DOMAIN text : text[k] = covered[k]
       /\ Len(text) < MaxInput => Len(text) = Len(covered)

\* The comment at compaction.ts:11 says that the summary replaces the covered
\* range: a summary that is sent was made from every message it stands for.
SummaryStandsForAll ==
  request # NoRequest /\ request.summary > 0 =>
    files[request.summary].text = Projection(events, request.summary)

\* A compaction that has begun is concluded, with or without a summary, and
\* frees the driver that waits for it.
CompactionEnds == \A t \in Triggers : job[t].pc # "none" ~> job[t].pc = "none"

\* The comment at agent.ts:707 says that a provider that never yields cannot hold
\* the loop past a stop: a stopped run comes to rest.
StopFreesLoop == stop ~> ~stop

=============================================================================
