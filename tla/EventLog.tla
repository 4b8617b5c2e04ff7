------------------------------ MODULE EventLog ------------------------------
(***************************************************************************)
(* The durable facts of one session and the two pure computations over     *)
(* them: what reading an event file yields, and which records recovery     *)
(* appends to close what a restart left open.                              *)
(*                                                                         *)
(* A fact is [seq, type, id, recovered].  Of the thirty-odd event types    *)
(* the code knows, the ones kept are the pairs recovery looks at and one   *)
(* plain fact, "input/queued"; ids are minted once, so an id names one     *)
(* pair for ever.                                                          *)
(***************************************************************************)
EXTENDS Subsequences, SequencesExt

\* Every opening type and the type that closes it, in the order in which
\* recovery closes them: tool results, approval decisions, turn ends.
OpeningTypes == <<"tool/call", "approval/request", "turn/start">>
Closing ==
  [type \in {"tool/call", "approval/request", "turn/start"} |->
     CASE type = "tool/call" -> "tool/result"
       [] type = "approval/request" -> "approval/decision"
       [] type = "turn/start" -> "turn/end"]
PlainType == "input/queued"
EventTypes ==
  DOMAIN Closing \cup {Closing[type] : type \in DOMAIN Closing} \cup {PlainType}

Events(Ids) ==
  [seq : Nat \ {0}, type : EventTypes, id : Ids, recovered : BOOLEAN]

\* A line of the file that does not parse: two writes glued together.
Junk == [seq |-> 0, type |-> "junk", id |-> <<0, 0>>, recovered |-> FALSE]

\* Defective: numbers start at 0.
StampedFromZero(log, type, id, recovered) ==
  [seq |-> Len(log), type |-> type, id |-> id, recovered |-> recovered]

\* `stamped` in Session.append: the next sequence number, then the payload.
Stamped(log, type, id, recovered) ==
  [seq |-> Len(log) + 1, type |-> type, id |-> id, recovered |-> recovered]

Closed(log, event) ==
  \E other \in ToSet(log) :
    other.type = Closing[event.type] /\ other.id = event.id

\* The facts of one opening type that nothing has closed, oldest first.
Unclosed(log, type) ==
  Picked(log, {i \in 1..Len(log) : log[i].type = type /\ ~Closed(log, log[i])})

\* Defective: recovery leaves the open turns open.
RecoveryTailWithoutTurns(log) ==
  LET open == Unclosed(log, OpeningTypes[1]) \o Unclosed(log, OpeningTypes[2])
  IN  [i \in 1..Len(open) |->
         [seq |-> Len(log) + i, type |-> Closing[open[i].type],
          id |-> open[i].id, recovered |-> TRUE]]

\* What recover() appends: one closing record for each unclosed fact.
RecoveryTail(log) ==
  LET open == Unclosed(log, OpeningTypes[1]) \o Unclosed(log, OpeningTypes[2])
                \o Unclosed(log, OpeningTypes[3])
  IN  [i \in 1..Len(open) |->
         [seq |-> Len(log) + i, type |-> Closing[open[i].type],
          id |-> open[i].id, recovered |-> TRUE]]

Recovered(log) == log \o RecoveryTail(log)

-----------------------------------------------------------------------------
(***************************************************************************)
(* readEventLog.  A file is its complete lines plus the shape of its end:  *)
(*   clean         the last line ends with a newline (or there is none)    *)
(*   unterminated  the last line is a whole record without its newline     *)
(*   torn          a partial record follows the last line                  *)
(***************************************************************************)
Tails == {"clean", "unterminated", "torn"}

\* Every line parses and carries the sequence number of its position.
Sound(lines) == \A i \in 1..Len(lines) : lines[i].seq = i

\* Defective: a torn end takes the whole record before it along.
WithoutTornAndPrevious(lines, tail) ==
  IF tail = "torn" /\ lines # <<>> THEN SubSeq(lines, 1, Len(lines) - 1) ELSE lines

\* The lines but a last one that does not parse, which reading treats as torn.
WithoutTornLast(lines, tail) ==
  IF tail # "torn" /\ lines # <<>> /\ lines[Len(lines)] = Junk
  THEN SubSeq(lines, 1, Len(lines) - 1)
  ELSE lines

\* Whether reading succeeds, the lines it returns (and leaves in the file),
\* and whether it had to rewrite and sync the end of the file.
ReadLog(lines, tail) ==
  LET kept == WithoutTornLast(lines, tail)
  IN  [ok |-> Sound(kept), lines |-> kept,
       repaired |-> tail # "clean" \/ kept # lines]
=============================================================================
