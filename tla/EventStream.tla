----------------------------- MODULE EventStream -----------------------------
(***************************************************************************)
(* What the browser shows of a conversation.  The host replays the log to  *)
(* every connection, from the last event id the browser names or from the  *)
(* start, and relays what is appended and asked after that; the page folds *)
(* it into a transcript and a list of questions, over connections that     *)
(* drop, hosts that restart and conversations that are opened again.       *)
(*                                                                         *)
(* A connection is a FIFO of frames; the frames of a dropped one are lost. *)
(* Of an event only what the questions depend on is kept: a request, a     *)
(* decision, the end of a turn, or anything else ("text").  A record is    *)
(* broadcast before it is written, so a host that stops may take with it   *)
(* records the page has shown; the next host numbers its own from there.   *)
(***************************************************************************)
EXTENDS Integers, Sequences, FiniteSets, SequencesExt

CONSTANTS
  Own,          \* questions of this conversation's own calls
  Relayed,      \* questions of its children: not in this log
  MaxEvents,    \* bound: records
  MaxDrops,     \* bound: connections that end
  MaxRestarts   \* bound

ASSUME StreamAssumption ==
  /\ IsFiniteSet(Own) /\ IsFiniteSet(Relayed) /\ Own \cap Relayed = {}
  /\ "none" \notin Own \cup Relayed
  /\ MaxEvents \in Nat /\ MaxDrops \in Nat /\ MaxRestarts \in Nat

Questions == Own \cup Relayed
NoQuestion == "none"

VARIABLES
  \* --- the host
  history,    \* the session's events, in memory
  synced,     \* how many of them are on disk
  phase,      \* of a question: "none", "recorded", "pending", "answered", "done"
  asked,      \* the questions an answer is accepted for
  run,        \* incarnation of the host, stamped on what it appends
  \* --- the connection
  open, wire,
  gone,       \* the EventSource was refused and does not try again
  \* --- the page
  lastId,     \* the EventSource's last event id, or NoId
  seen,       \* highest seq taken in
  shown,      \* events in the projection
  batch,      \* events waiting for the next frame of the page
  cards,      \* questions on display
  drops,
  lost        \* history: records that went with a host, by their place

hostVars == <<history, synced, phase, asked, run>>
pageVars == <<lastId, seen, shown, batch, cards>>
others == <<gone, drops, lost>>
streamVars == <<hostVars, open, wire, pageVars, others>>

NoId == -1
Event(kind, q) == [kind |-> kind, q |-> q, run |-> run]
Unsettled == {"recorded", "pending", "answered"}

StreamInit ==
  /\ history = <<>> /\ synced = 0 /\ phase = [q \in Questions |-> "none"]
  /\ asked = {} /\ run = 0 /\ open = FALSE /\ wire = <<>>
  /\ lastId = NoId /\ seen = 0 /\ shown = <<>> /\ batch = <<>> /\ cards = {}
  /\ drops = 0 /\ gone = FALSE /\ lost = {}

-----------------------------------------------------------------------------
(***************************************************************************)
(* Frames.  One that carries events carries the seq of the first, and the  *)
(* id of the last; the others have no id.                                  *)
(***************************************************************************)

Carry(kind, from, events) ==
  [kind |-> kind, from |-> from, events |-> events, q |-> NoQuestion]
About(kind, q) == [kind |-> kind, from |-> 0, events |-> <<>>, q |-> q]

LastSeq(f) == f.from + Len(f.events) - 1

\* Relay to the connection, if there is one.
Send(frames) == wire' = IF open THEN wire \o frames ELSE wire

\* session.append broadcasts at once; the record is synced later.
Appended(e) == Carry("session", Len(history) + 1, <<e>>)

Text ==
  /\ Len(history) < MaxEvents
  /\ history' = Append(history, Event("text", NoQuestion))
  /\ Send(<<Appended(Event("text", NoQuestion))>>)
  /\ UNCHANGED <<synced, phase, asked, run, open, pageVars, others>>

\* A turn waits for its own calls, not for children it left running.
TurnEnds ==
  /\ Len(history) < MaxEvents /\ history # <<>> /\ Last(history).kind # "turn/end"
  /\ \A q \in Own : phase[q] \notin Unsettled
  /\ history' = Append(history, Event("turn/end", NoQuestion))
  /\ Send(<<Appended(Event("turn/end", NoQuestion))>>)
  /\ UNCHANGED <<synced, phase, asked, run, open, pageVars, others>>

Sync ==
  /\ synced < Len(history)
  /\ synced' = Len(history)
  /\ UNCHANGED <<history, phase, asked, run, open, wire, pageVars, others>>

-----------------------------------------------------------------------------
(***************************************************************************)
(* Questions.                                                              *)
(***************************************************************************)

\* The request of an own call is recorded before it is asked.
Request(q) ==
  /\ phase[q] = "none"
  /\ phase' = [phase EXCEPT ![q] = "recorded"]
  /\ IF q \in Own
     THEN /\ Len(history) + 1 < MaxEvents   \* room for its decision
          /\ history' = Append(history, Event("request", q))
          /\ Send(<<Appended(Event("request", q))>>)
     ELSE UNCHANGED <<history, wire>>
  /\ UNCHANGED <<synced, asked, run, open, pageVars, others>>

\* askUser: the answer route knows the question, and the page is told.
Ask(q) ==
  /\ phase[q] = "recorded" /\ (q \in Own => synced = Len(history))
  /\ phase' = [phase EXCEPT ![q] = "pending"] /\ asked' = asked \cup {q}
  /\ Send(<<About("approval", q)>>)
  /\ UNCHANGED <<history, synced, run, open, pageVars, others>>

\* POST /api/approvals/:id, from this page.
Answer(q) ==
  /\ q \in cards /\ q \in asked
  /\ phase' = [phase EXCEPT ![q] = "answered"] /\ asked' = asked \ {q}
  /\ UNCHANGED <<history, synced, run, open, wire, pageVars, others>>

\* The response takes the card away, whatever the stream has done since.
Dismiss(q) ==
  /\ q \in cards /\ phase[q] = "answered"
  /\ cards' = cards \ {q}
  /\ UNCHANGED <<hostVars, open, wire, lastId, seen, shown, batch, others>>

\* settle: answered, expired or cancelled.  The decision is appended, then
\* the question is retired.
Settle(q) ==
  /\ phase[q] \in {"pending", "answered"}
  /\ phase' = [phase EXCEPT ![q] = "done"] /\ asked' = asked \ {q}
  /\ IF q \in Own
     THEN /\ Len(history) < MaxEvents
          /\ history' = Append(history, Event("decision", q))
          /\ Send(<<Appended(Event("decision", q)), About("approval-settled", q)>>)
     ELSE Send(<<About("approval-settled", q)>>) /\ UNCHANGED history
  /\ UNCHANGED <<synced, run, open, pageVars, others>>

-----------------------------------------------------------------------------
(***************************************************************************)
(* The connection.                                                         *)
(***************************************************************************)

Resumable(cursor) == cursor # NoId /\ cursor <= Len(history)

\* The bug of a replay that leaves out the event after the cursor.
ReplayAfterNext(cursor) ==
  IF Resumable(cursor)
  THEN Carry("resume", cursor + 1, SubSeq(history, cursor + 2, Len(history)))
  ELSE Carry("snapshot", 1, history)

\* A valid cursor resumes after itself; any other replays the whole log.
Replay(cursor) ==
  IF Resumable(cursor)
  THEN Carry("resume", cursor + 1, SubSeq(history, cursor + 1, Len(history)))
  ELSE Carry("snapshot", 1, history)

\* streamEvents replays, repeats the open questions and subscribes in one go.
Connect ==
  /\ ~open /\ ~gone
  /\ open' = TRUE
  /\ wire' = <<Replay(lastId)>>
               \o SetToSeq({About("approval", q) : q \in asked})
  /\ UNCHANGED <<hostVars, pageVars, others>>

\* Any other answer than the stream (a revoked session, a conversation that was
\* deleted) is final: the EventSource closes, and nothing opens another.
Refuse ==
  /\ ~open /\ ~gone
  /\ gone' = TRUE
  /\ UNCHANGED <<hostVars, open, wire, pageVars, drops, lost>>

\* The EventSource comes back by itself, with the last id it was given.
Drop ==
  /\ open /\ drops < MaxDrops
  /\ open' = FALSE /\ wire' = <<>> /\ drops' = drops + 1
  /\ UNCHANGED <<hostVars, pageVars, gone, lost>>

\* Another conversation is selected, and this one again: a new EventSource.
Reopen ==
  /\ drops < MaxDrops
  /\ open' = FALSE /\ wire' = <<>> /\ gone' = FALSE /\ drops' = drops + 1
  /\ lastId' = NoId /\ seen' = 0 /\ shown' = <<>> /\ batch' = <<>> /\ cards' = {}
  /\ UNCHANGED <<hostVars, lost>>

Undecided(events) ==
  {q \in Own :
     /\ \E i \in DOMAIN events : events[i].kind = "request" /\ events[i].q = q
     /\ \A i \in DOMAIN events : events[i].kind = "decision" => events[i].q # q}

\* What a host adds to the log it loads: decisions and the end of the turn.
Closures(rest) ==
  LET stamp(kind, q) == [kind |-> kind, q |-> q, run |-> run + 1]
  IN SetToSeq({stamp("decision", q) : q \in Undecided(rest)})
       \o (IF rest = <<>> \/ Last(rest).kind = "turn/end" THEN <<>>
           ELSE <<stamp("turn/end", NoQuestion)>>)

\* The host stops, with any of the records that were not synced, and starts;
\* loading the conversation closes what is open, and syncs what it adds.
Restart ==
  /\ run < MaxRestarts
  /\ \E kept \in synced..Len(history) :
       LET rest == SubSeq(history, 1, kept)
       IN /\ history' = rest \o Closures(rest)
          /\ synced' = IF Closures(rest) = <<>> THEN synced ELSE Len(history')
          /\ lost' = lost \cup {<<i, history[i]>> : i \in (kept + 1)..Len(history)}
  /\ Len(history') <= MaxEvents
  /\ run' = run + 1
  /\ phase' = [q \in Questions |-> IF phase[q] = "none" THEN "none" ELSE "done"]
  /\ asked' = {} /\ open' = FALSE /\ wire' = <<>>
  /\ UNCHANGED <<pageVars, gone, drops>>

-----------------------------------------------------------------------------
(***************************************************************************)
(* The page.                                                               *)
(***************************************************************************)

\* What takes the card of a question away.  (The result of its call does too, and
\* comes after the decision.)
Removes(e, q) == e.kind = "turn/end" \/ (e.kind = "decision" /\ e.q = q)

\* reconcileApprovals: on display is what was, or was requested, and what nothing
\* has taken away since.
Reconcile(start, events) ==
  LET standing(q, i) == \A j \in DOMAIN events : j > i => ~Removes(events[j], q)
  IN {q \in Questions :
        \/ q \in start /\ standing(q, 0)
        \/ \E i \in DOMAIN events :
             events[i].kind = "request" /\ events[i].q = q /\ standing(q, i)}

\* The bug of a page that drops the first event it has not seen.
UnseenButOne(f) ==
  IF LastSeq(f) <= seen THEN <<>>
  ELSE SubSeq(f.events, seen - f.from + 3, Len(f.events))

Unseen(f) ==
  IF LastSeq(f) <= seen THEN <<>>
  ELSE SubSeq(f.events, seen - f.from + 2, Len(f.events))

TakeSnapshot(f) ==
  /\ f.kind = "snapshot"
  /\ shown' = f.events /\ batch' = <<>> /\ seen' = Len(f.events)
  /\ cards' = Reconcile({}, f.events)

\* The bug of a resume that leaves the questions as they were.
TakeEventsOnly(f) ==
  /\ f.kind \in {"resume", "session"}
  /\ batch' = batch \o Unseen(f)
  /\ seen' = IF LastSeq(f) > seen THEN LastSeq(f) ELSE seen
  /\ cards' = IF f.kind = "resume" THEN cards ELSE Reconcile(cards, Unseen(f))
  /\ UNCHANGED shown

TakeEvents(f) ==
  /\ f.kind \in {"resume", "session"}
  /\ batch' = batch \o Unseen(f)
  /\ seen' = IF LastSeq(f) > seen THEN LastSeq(f) ELSE seen
  /\ cards' = Reconcile(cards, Unseen(f))
  /\ UNCHANGED shown

TakeQuestion(f) ==
  /\ \/ f.kind = "approval" /\ cards' = cards \cup {f.q}
     \/ f.kind = "approval-settled" /\ cards' = cards \ {f.q}
  /\ UNCHANGED <<seen, shown, batch>>

Deliver ==
  /\ wire # <<>>
  /\ wire' = Tail(wire)
  /\ LET f == Head(wire)
     IN /\ TakeSnapshot(f) \/ TakeEvents(f) \/ TakeQuestion(f)
        /\ lastId' = IF f.from > 0 THEN LastSeq(f) ELSE lastId
  /\ UNCHANGED <<hostVars, open, others>>

\* The page's next animation frame.
Flush ==
  /\ batch # <<>>
  /\ shown' = shown \o batch /\ batch' = <<>>
  /\ UNCHANGED <<hostVars, open, wire, lastId, seen, cards, others>>

-----------------------------------------------------------------------------
StreamNext ==
  \/ Text \/ TurnEnds \/ Sync
  \/ \E q \in Questions :
       Request(q) \/ Ask(q) \/ Answer(q) \/ Dismiss(q) \/ Settle(q)
  \/ Connect \/ Refuse \/ Drop \/ Reopen \/ Restart
  \/ Deliver \/ Flush

\* A visible page reconnects, takes its frames and paints; nothing obliges the
\* host to append or the user to answer.
StreamSpec ==
  /\ StreamInit /\ [][StreamNext]_streamVars
  /\ WF_streamVars(Connect) /\ WF_streamVars(Deliver) /\ WF_streamVars(Flush)

-----------------------------------------------------------------------------
(***************************************************************************)
(* What the page promises.                                                 *)
(***************************************************************************)

View == shown \o batch

\* The record at this place of the history, or one that was there until a host took
\* it with it.
InPlace(i, e) == (i <= Len(history) /\ e = history[i]) \/ <<i, e>> \in lost

\* What is shown, with what waits for the next paint, is the history record by
\* record, as far as the page has come: over every drop, resume, snapshot and
\* restart none is left out, shown twice or out of order.  A place where the page
\* shows another record than the log is one whose record went with a host.
ViewIsHistory == Len(View) = seen /\ \A i \in 1..seen : InPlace(i, View[i])

\* The questions of the conversation's own calls.  Once everything sent has been
\* taken in, every one that an answer would be accepted for is on display, whatever
\* was lost; and no question is, ever, whose decision the page has been given.
CardsAgree ==
  /\ open /\ wire = <<>> => asked \cap Own \subseteq cards
  /\ \A q \in cards \cap Own, i \in 1..seen :
       ~(View[i].kind = "decision" /\ View[i].q = q)

\* Connections that drop and hosts that restart only delay the page, unless it is
\* refused: when they stop it comes to show a record for each of the conversation,
\* the one in the log where none went with a host.
ViewCatchesUp ==
  <>[](\/ gone
       \/ /\ Len(shown) = Len(history)
          /\ \A i \in 1..Len(shown) : InPlace(i, shown[i]))

-----------------------------------------------------------------------------
(***************************************************************************)
(* What its documents say, and the code does not do.                       *)
(***************************************************************************)

\* Nothing being under way, the page shows the conversation as it is: what
\* docs/web.md says a connection relays are live durable events.
OpenViewIsTrue == open /\ wire = <<>> => View = history

\* A question of a child that can be answered is on display on the conversation of
\* its root, as docs/web.md has it.
ChildAskIsShown == open /\ wire = <<>> => asked \cap Relayed \subseteq cards

\* The open questions are rebuilt from the log, on a reconnect too: one of a child
\* that was settled meanwhile is no longer on display.
CardsAreRebuilt ==
  open /\ wire = <<>> => \A q \in cards \cap Relayed : phase[q] # "done"

=============================================================================
