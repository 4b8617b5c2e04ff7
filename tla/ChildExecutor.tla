---------------------------- MODULE ChildExecutor ----------------------------
(***************************************************************************)
(* Delegation: turns of root conversations spawn child agents; the         *)
(* executor admits, queues, dispatches, cancels and settles them, and the  *)
(* log of the root says what became of each.                               *)
(*                                                                         *)
(* A turn is a conversation turn of the root's agent, whose spawns are     *)
(* tool calls, one at a time; or a delegation turn made by one HTTP spawn  *)
(* while the agent is idle.  The two may overlap.                          *)
(*                                                                         *)
(* spawn(), finish(), reconcile() and the closing of a turn are            *)
(* asynchronous; `spawn`, `finish`, `repair` and `turn` name the await     *)
(* each is parked on.  An action runs from one await to the next.          *)
(***************************************************************************)
EXTENDS Subsequences, SequencesExt

CONSTANTS
  Roots, Turns, Children,
  RootOf,       \* the root of each turn
  Manual,       \* the delegation turns
  TurnOf,       \* the turn each child is spawned by
  MaxPerRoot,   \* MAX_ACTIVE_PER_ROOT
  MaxGlobal,    \* MAX_ACTIVE_GLOBAL
  MaxPerTurn,   \* MAX_CHILDREN_PER_TURN
  OrderedReads, \* whether a read of a file never overtakes an earlier one
  MaxFaults,    \* bound: writes that fail
  MaxSpawns,    \* bound: spawns asked for
  MaxRestarts   \* bound

ASSUME ExecutorAssumption ==
  /\ IsFiniteSet(Roots) /\ IsFiniteSet(Children) /\ Manual \subseteq Turns
  /\ RootOf \in [Turns -> Roots] /\ TurnOf \in [Children -> Turns]
  /\ \A c, d \in Children : TurnOf[c] = TurnOf[d] /\ TurnOf[c] \in Manual => c = d
  /\ MaxPerRoot \in Nat /\ MaxGlobal \in Nat /\ MaxPerTurn \in Nat
  /\ OrderedReads \in BOOLEAN
  /\ MaxFaults \in Nat /\ MaxSpawns \in Nat /\ MaxRestarts \in Nat

Parent == [c \in Children |-> RootOf[TurnOf[c]]]

VARIABLES
  \* --- the logs of the roots: facts, synced, in the file, writer
  log, synced, filed, writer,
  \* --- the logs of the children: how the turn ended, and whether that is filed
  ending, endFiled,
  faults, restarts,
  \* --- ChildExecutor
  active, reserved, attempts, lock, slots, pending, runnable,
  \* --- per child
  status, spawn, finish, repair,
  \* --- per turn: its stage, and the settlements its end waits for
  turn, awaited,
  unended,      \* whether the last turn record of a root is a start
  agents        \* the children an agent was created for

storeVars == <<log, synced, filed, writer, ending, endFiled>>
admissionVars == <<active, reserved, attempts, lock>>
dispatchVars == <<slots, pending, runnable, agents>>
turnVars == <<turn, awaited, unended>>
vars == <<storeVars, faults, restarts, admissionVars, dispatchVars, status, spawn,
          finish, repair, turnVars>>

Fact(type, of, outcome) == [type |-> type, of |-> of, outcome |-> outcome]
SpawnOf(c) == Fact("spawn", c, "queued")
IsResult(fact, c) == fact.type = "result" /\ fact.of = c

\* What readCanonicalEvents finds.
Canonical(r) == SubSeq(log[r], 1, filed[r])
SpawnCommitted(c) == Contains(Canonical(Parent[c]), SpawnOf(c))
ResultsOf(c) == {p \in 1..filed[Parent[c]] : IsResult(log[Parent[c]][p], c)}

\* The position of the last fact appended of a kind.
LastAt(r, type, of) ==
  LET at == {p \in DOMAIN log[r] : log[r][p].type = type /\ log[r][p].of = of}
  IN  CHOOSE p \in at : \A q \in at : q <= p
SpawnAt(c) == LastAt(Parent[c], "spawn", c)
ResultAt(c) == LastAt(Parent[c], "result", c)

Init ==
  /\ log = [r \in Roots |-> <<>>]
  /\ synced = [r \in Roots |-> 0] /\ filed = [r \in Roots |-> 0]
  /\ writer = [r \in Roots |-> "sound"]
  /\ ending = [c \in Children |-> "none"]
  /\ endFiled = [c \in Children |-> FALSE]
  /\ faults = 0 /\ restarts = 0
  /\ active = {} /\ slots = {} /\ runnable = <<>> /\ agents = {}
  /\ reserved = [r \in Roots |-> 0] /\ attempts = [t \in Turns |-> 0]
  /\ lock = [r \in Roots |-> "free"]
  /\ pending = [r \in Roots |-> <<>>]
  /\ status = [c \in Children |-> "none"]
  /\ spawn = [c \in Children |-> "none"]
  /\ finish = [c \in Children |-> "none"]
  /\ repair = [c \in Children |-> "none"]
  /\ turn = [t \in Turns |-> "none"]
  /\ awaited = [t \in Turns |-> {}]
  /\ unended = [r \in Roots |-> FALSE]

-----------------------------------------------------------------------------
(***************************************************************************)
(* Storage.  A failed write leaves its record out of the file; a failed    *)
(* sync leaves it in.  Either rejects every durable() that covers it.      *)
(***************************************************************************)
Fails == faults < MaxFaults /\ faults' = faults + 1

RecordStored(r) ==
  /\ writer[r] = "sound" /\ synced[r] < Len(log[r])
  /\ synced' = [synced EXCEPT ![r] = @ + 1]
  /\ filed' = [filed EXCEPT ![r] = @ + 1]
  /\ UNCHANGED <<log, writer, ending, endFiled, faults, restarts, admissionVars,
                 dispatchVars, status, spawn, finish, repair, turnVars>>

StorageBreaks(r) ==
  /\ writer[r] = "sound" /\ synced[r] < Len(log[r]) /\ Fails
  /\ writer' = [writer EXCEPT ![r] = "failing"]
  /\ \E written \in {0, 1} : filed' = [filed EXCEPT ![r] = @ + written]
  /\ UNCHANGED <<log, synced, ending, endFiled, restarts, admissionVars,
                 dispatchVars, status, spawn, finish, repair, turnVars>>

\* append() throws on a poisoned session; a rejected durable() poisons it.
Poisoned(r) == writer[r] = "poisoned"
Record(r, fact) == log' = [log EXCEPT ![r] = Append(@, fact)]

\* A read of the canonical file may fail as well once a write has.
Unreadable(r) == writer[r] # "sound"

Durable(r, position) == position <= synced[r] /\ UNCHANGED writer
Rejected(r, position) ==
  /\ position > synced[r] /\ writer[r] # "sound"
  /\ writer' = [writer EXCEPT ![r] = "poisoned"]

-----------------------------------------------------------------------------
(***************************************************************************)
(* Dispatch: a slot semaphore over per-root queues served in rotation.     *)
(* pump() runs to completion whenever a child is queued or a slot freed:   *)
(* while it is due, nothing else runs.                                     *)
(***************************************************************************)
PumpDue == Cardinality(slots) < MaxGlobal /\ runnable # <<>>

Pump ==
  /\ PumpDue
  /\ LET r == Head(runnable)
         c == Head(pending[r])
         rest == Tail(pending[r])
     IN  /\ pending' = [pending EXCEPT ![r] = rest]
         /\ runnable' = IF rest = <<>> THEN Tail(runnable) ELSE Append(Tail(runnable), r)
         /\ IF status[c] = "queued"
            THEN /\ status' = [status EXCEPT ![c] = "running"]
                 /\ slots' = slots \cup {c}
            ELSE UNCHANGED <<status, slots>>
  /\ UNCHANGED <<storeVars, faults, restarts, admissionVars, spawn, finish, repair,
                 turnVars, agents>>

Enqueue(c) ==
  LET r == Parent[c]
  IN  /\ pending' = [pending EXCEPT ![r] = Append(@, c)]
      /\ runnable' = IF Contains(runnable, r) THEN runnable ELSE Append(runnable, r)

\* Counters never fall below none.
Less(n) == IF n > 0 THEN n - 1 ELSE 0

\* removeQueued, for a set of children.
RemoveQueued(gone) ==
  /\ pending' = [r \in Roots |-> Without(pending[r], gone)]
  /\ runnable' = Without(runnable, {r \in Roots : pending'[r] = <<>>})

-----------------------------------------------------------------------------
(***************************************************************************)
(* Spawning, under the admission writer of the root.  A conversation turn  *)
(* holds it for one spawn; a delegation turn from its start record to its  *)
(* closing record.                                                         *)
(***************************************************************************)
Ended(t) == turn[t] \in {"over", "interrupted"}
Busy(r) ==
  \E t \in Turns \ Manual : RootOf[t] = r /\ turn[t] # "none" /\ ~Ended(t)
InFlight(t) ==
  \E c \in Children : TurnOf[c] = t /\ spawn[c] \notin {"none", "out"}

\* A child is a fresh session: a turn takes the names left to it in one order.
Fresh(c) ==
  /\ spawn[c] = "none"
  /\ c = CHOOSE d \in Children : TurnOf[d] = TurnOf[c] /\ spawn[d] = "none"
  /\ Cardinality({d \in Children : spawn[d] # "none"}) < MaxSpawns

\* An agent's spawn is a tool call of its open turn; an HTTP spawn may come at
\* any time.
Ask(c) ==
  LET t == TurnOf[c]
  IN  /\ Fresh(c) /\ restarts = 0
      /\ IF t \in Manual THEN turn[t] = "none" ELSE turn[t] = "open" /\ ~InFlight(t)
      /\ spawn' = [spawn EXCEPT ![c] = "asked"]
      /\ UNCHANGED <<storeVars, faults, restarts, admissionVars, dispatchVars,
                     status, finish, repair, turnVars>>

\* spawnManual: refused while the agent is busy or a turn is open, else the
\* delegation turn is started.
EnterManual(c) ==
  LET t == TurnOf[c]
      r == RootOf[t]
  IN  /\ t \in Manual /\ spawn[c] = "asked" /\ lock[r] = "free"
      /\ IF Busy(r) \/ unended[r] \/ Poisoned(r)
         THEN /\ spawn' = [spawn EXCEPT ![c] = "out"]
              /\ turn' = [turn EXCEPT ![t] = "over"]
              /\ UNCHANGED <<log, lock, unended>>
         ELSE /\ Record(r, Fact("start", t, "none"))
              /\ spawn' = [spawn EXCEPT ![c] = "starting"]
              /\ turn' = [turn EXCEPT ![t] = "open"]
              /\ lock' = [lock EXCEPT ![r] = "held"]
              /\ unended' = [unended EXCEPT ![r] = TRUE]
      /\ UNCHANGED <<synced, filed, writer, ending, endFiled, faults, restarts,
                     active, reserved, attempts, dispatchVars, status, finish,
                     repair, awaited>>

ManualStarted(c) ==
  LET t == TurnOf[c]
      r == RootOf[t]
  IN  /\ spawn[c] = "starting"
      /\ \/ /\ Durable(r, LastAt(r, "start", t))
            /\ spawn' = [spawn EXCEPT ![c] = "ready"]
            /\ UNCHANGED <<turn, lock>>
         \/ /\ Rejected(r, LastAt(r, "start", t))
            /\ spawn' = [spawn EXCEPT ![c] = "out"]
            /\ turn' = [turn EXCEPT ![t] = "over"]
            /\ lock' = [lock EXCEPT ![r] = "free"]
      /\ UNCHANGED <<log, synced, filed, ending, endFiled, faults, restarts, active,
                     reserved, attempts, dispatchVars, status, finish, repair,
                     awaited, unended>>

Admissible(c) ==
  \/ TurnOf[c] \in Manual /\ spawn[c] = "ready"
  \/ TurnOf[c] \notin Manual /\ spawn[c] = "asked" /\ lock[Parent[c]] = "free"
Full(c) ==
  reserved[Parent[c]] >= MaxPerRoot \/ attempts[TurnOf[c]] >= MaxPerTurn

\* The spawn is over and has failed: a delegation turn is closed with it.
Fail(c) ==
  LET t == TurnOf[c]
      r == RootOf[t]
  IN  /\ spawn' = [spawn EXCEPT ![c] = "out"]
      /\ IF t \in Manual /\ ~Poisoned(r)
         THEN /\ log' = [log EXCEPT ![r] = @ \o <<Fact("closing", t, "none"),
                                                  Fact("end", t, "failed")>>]
              /\ turn' = [turn EXCEPT ![t] = "abandoning"]
              /\ unended' = [unended EXCEPT ![r] = FALSE]
              /\ UNCHANGED lock
         ELSE /\ turn' = IF t \in Manual THEN [turn EXCEPT ![t] = "over"] ELSE turn
              /\ lock' = [lock EXCEPT ![r] = "free"]
              /\ UNCHANGED <<log, unended>>

Refuse(c) ==
  /\ Admissible(c) /\ Full(c) /\ Fail(c)
  /\ UNCHANGED <<synced, filed, writer, ending, endFiled, faults, restarts, active,
                 reserved, attempts, dispatchVars, status, finish, repair, awaited>>

\* Check and reserve, with no await between; then the child's own log.
Admit(c) ==
  LET r == Parent[c]
  IN  /\ Admissible(c) /\ ~Full(c)
      /\ lock' = [lock EXCEPT ![r] = "held"]
      /\ reserved' = [reserved EXCEPT ![r] = @ + 1]
      /\ attempts' = [attempts EXCEPT ![TurnOf[c]] = @ + 1]
      /\ active' = active \cup {c}
      /\ status' = [status EXCEPT ![c] = "queued"]
      /\ spawn' = [spawn EXCEPT ![c] = "meta"]
      /\ UNCHANGED <<storeVars, faults, restarts, dispatchVars, finish, repair,
                     turnVars>>

\* Nothing may survive an attempt the parent did not record; its session is
\* being deleted.
Undo(c) ==
  /\ active' = active \ {c}
  /\ status' = [status EXCEPT ![c] = IF @ = "queued" THEN "failed" ELSE @]
  /\ finish' = [finish EXCEPT ![c] = "done"]
  /\ spawn' = [spawn EXCEPT ![c] = "undo"]

\* Defective: the reservation of a failed attempt is kept.
UndoneKeeping(c) ==
  /\ spawn[c] = "undo" /\ Fail(c)
  /\ attempts' = [attempts EXCEPT ![TurnOf[c]] = Less(@)]
  /\ UNCHANGED <<synced, filed, writer, ending, endFiled, faults, restarts, active,
                 reserved, dispatchVars, status, finish, repair, awaited>>

Undone(c) ==
  /\ spawn[c] = "undo" /\ Fail(c)
  /\ reserved' = [reserved EXCEPT ![Parent[c]] = Less(@)]
  /\ attempts' = [attempts EXCEPT ![TurnOf[c]] = Less(@)]
  /\ UNCHANGED <<synced, filed, writer, ending, endFiled, faults, restarts, active,
                 dispatchVars, status, finish, repair, awaited>>

\* The child's metadata is durable; the parent's record is the commit point.
MetaStored(c) ==
  /\ spawn[c] = "meta"
  /\ IF Poisoned(Parent[c])
     THEN Undo(c) /\ UNCHANGED log
     ELSE /\ Record(Parent[c], SpawnOf(c))
          /\ spawn' = [spawn EXCEPT ![c] = "commit"]
          /\ UNCHANGED <<active, status, finish>>
  /\ UNCHANGED <<synced, filed, writer, ending, endFiled, faults, restarts, reserved,
                 attempts, lock, dispatchVars, repair, turnVars>>

MetaFails(c) ==
  /\ spawn[c] = "meta" /\ Fails /\ Undo(c)
  /\ UNCHANGED <<storeVars, restarts, reserved, attempts, lock, dispatchVars, repair,
                 turnVars>>

\* spawnAdmitted has returned.  A delegation turn is closed at once, unless its
\* log will take no record: then it stays open there.
Spawned(c) ==
  LET t == TurnOf[c]
      r == RootOf[t]
  IN  /\ spawn' = [spawn EXCEPT ![c] = "out"]
      /\ IF t \in Manual /\ writer'[r] # "poisoned"
         THEN /\ Record(r, Fact("closing", t, "none"))
              /\ turn' = [turn EXCEPT ![t] = "marking"]
              /\ UNCHANGED lock
         ELSE /\ turn' = IF t \in Manual THEN [turn EXCEPT ![t] = "over"] ELSE turn
              /\ lock' = [lock EXCEPT ![r] = "free"]
              /\ UNCHANGED log

\* Committed: the child gets its agent and is queued, unless a cancel inside the
\* spawn window has already left it uncertain.
Launch(c) ==
  /\ IF status[c] = "uncertain"
     THEN UNCHANGED <<pending, runnable, agents>>
     ELSE Enqueue(c) /\ agents' = agents \cup {c}
  /\ UNCHANGED <<status, finish>>

\* Defective: what cannot be told is taken as committed.
RetainLaunching(c) == Launch(c)

\* Whether the parent has the record cannot be told: the child is retained and
\* never launched.
Retain(c) ==
  /\ status' = [status EXCEPT ![c] = "uncertain"]
  /\ finish' = [finish EXCEPT ![c] = "done"]
  /\ UNCHANGED <<pending, runnable, agents>>

\* reconcileParentAppend for the spawn record.
Commit(c) ==
  LET r == Parent[c]
  IN  /\ spawn[c] = "commit"
      /\ \/ /\ Durable(r, SpawnAt(c)) \/ (Rejected(r, SpawnAt(c)) /\ SpawnCommitted(c))
            /\ Launch(c) /\ Spawned(c) /\ UNCHANGED active
         \/ /\ Rejected(r, SpawnAt(c)) /\ ~SpawnCommitted(c)
            /\ Undo(c) /\ UNCHANGED <<log, lock, turn, pending, runnable, agents>>
         \/ /\ Rejected(r, SpawnAt(c)) /\ Unreadable(r)
            /\ Retain(c) /\ Spawned(c) /\ UNCHANGED active
      /\ UNCHANGED <<synced, filed, ending, endFiled, faults, restarts, reserved, attempts,
                     slots, repair, awaited, unended>>

-----------------------------------------------------------------------------
(***************************************************************************)
(* Cancelling and settling.                                                *)
(***************************************************************************)
Live(c) == c \in active /\ status[c] \in {"queued", "running"}
LiveOf(r) == {c \in Children : Parent[c] = r /\ Live(c)}

\* Defective: a queued child is marked, and nobody settles it.
CancelAllMarking(who) ==
  /\ status' = [c \in Children |-> IF c \in who THEN "cancelled" ELSE status[c]]
  /\ RemoveQueued({c \in who : status[c] = "queued"})
  /\ UNCHANGED finish

\* Cancel the live children in `who`: the queued ones settle at once, the
\* running ones when their run has ended.
CancelAll(who) ==
  LET queued == {c \in who : status[c] = "queued"}
  IN  /\ status' = [c \in Children |-> IF c \in who THEN "cancelled" ELSE status[c]]
      /\ finish' = [c \in Children |-> IF c \in queued THEN "child" ELSE finish[c]]
      /\ RemoveQueued(queued)

Cancel(c) ==
  /\ Live(c) /\ CancelAll({c})
  /\ UNCHANGED <<storeVars, faults, restarts, admissionVars, slots, agents, spawn,
                 repair, turnVars>>

\* The stop route and steering cancel every child of the root.
Stop(r) ==
  /\ LiveOf(r) # {} /\ CancelAll(LiveOf(r))
  /\ UNCHANGED <<storeVars, faults, restarts, admissionVars, slots, agents, spawn,
                 repair, turnVars>>

\* The child's run returns.  A cancelled child may still have completed; that it
\* failed is not told apart from its having stopped.
RunEnds(c) ==
  /\ c \in slots /\ finish[c] = "none"
  /\ \E how \in {"completed", IF status[c] = "cancelled" THEN "cancelled" ELSE "failed"} :
       /\ ending' = [ending EXCEPT ![c] = how]
       /\ status' = [status EXCEPT ![c] = IF @ = "running" THEN how ELSE @]
  /\ finish' = [finish EXCEPT ![c] = "child"]
  /\ UNCHANGED <<log, synced, filed, writer, endFiled, faults, restarts,
                 admissionVars, dispatchVars, spawn, repair, turnVars>>

\* finalizeCanonical: capacity is released and the entry evicted.
Finalize(c, outcome) ==
  /\ status' = [status EXCEPT ![c] = outcome]
  /\ finish' = [finish EXCEPT ![c] = "done"]
  /\ slots' = slots \ {c}
  /\ active' = active \ {c}
  /\ reserved' = [reserved EXCEPT ![Parent[c]] = Less(@)]

\* finish() gives up: the child stays active and keeps its reservation.
GiveUp(c) ==
  /\ status' = [status EXCEPT ![c] = "uncertain"]
  /\ finish' = [finish EXCEPT ![c] = "done"]
  /\ slots' = slots \ {c}
  /\ UNCHANGED <<active, reserved>>

\* The result goes to the parent's log, if it takes any.
Report(c) ==
  IF Poisoned(Parent[c])
  THEN GiveUp(c) /\ UNCHANGED log
  ELSE /\ Record(Parent[c], Fact("result", c, status[c]))
       /\ finish' = [finish EXCEPT ![c] = "parent"]
       /\ UNCHANGED <<status, slots, active, reserved>>

\* Defective: the parent is told before the child's own log is flushed.
ChildFlushSkipped(c) ==
  /\ finish[c] = "child" /\ spawn[c] # "meta" /\ Report(c)
  /\ UNCHANGED <<synced, filed, writer, ending, endFiled, faults, restarts, attempts,
                 lock, pending, runnable, agents, spawn, repair, turnVars>>

\* finish() flushes the child's log first; the flush of its metadata is part.
ChildFlushed(c) ==
  /\ finish[c] = "child" /\ spawn[c] # "meta" /\ Report(c)
  /\ endFiled' = [endFiled EXCEPT ![c] = ending[c] # "none"]
  /\ UNCHANGED <<synced, filed, writer, ending, faults, restarts, attempts, lock,
                 pending, runnable, agents, spawn, repair, turnVars>>

ChildFlushFails(c) ==
  /\ finish[c] = "child" /\ spawn[c] # "meta" /\ Fails /\ GiveUp(c)
  /\ \E written \in BOOLEAN :
       endFiled' = [endFiled EXCEPT ![c] = written /\ ending[c] # "none"]
  /\ UNCHANGED <<log, synced, filed, writer, ending, restarts, attempts, lock,
                 pending, runnable, agents, spawn, repair, turnVars>>

\* reconcileParentAppend for the result record.
Settle(c) ==
  LET r == Parent[c]
      kept == ResultAt(c) \in ResultsOf(c)
  IN  /\ finish[c] = "parent"
      /\ \/ /\ Durable(r, ResultAt(c)) \/ (Rejected(r, ResultAt(c)) /\ kept)
            /\ Finalize(c, status[c])
         \/ Rejected(r, ResultAt(c)) /\ (~kept \/ Unreadable(r)) /\ GiveUp(c)
      /\ UNCHANGED <<log, synced, filed, ending, endFiled, faults, restarts, attempts, lock,
                     pending, runnable, agents, spawn, repair, turnVars>>

-----------------------------------------------------------------------------
(***************************************************************************)
(* reconcile(): the repair of an uncertain child, live or found after a    *)
(* restart.  It reads the canonical logs first.                            *)
(***************************************************************************)
\* The spawn of a child cancelled in its window may still be reading the same
\* file, since before the repair began.
Uncertain(c) ==
  /\ c \in active /\ status[c] = "uncertain" /\ finish[c] = "done"
  /\ OrderedReads => spawn[c] = "out"
Historical(c) == c \notin active /\ restarts > 0 /\ SpawnCommitted(c)

CanonicalResult(c) ==
  log[Parent[c]][CHOOSE p \in ResultsOf(c) : \A q \in ResultsOf(c) : q <= p].outcome

\* A retained spawn the parent never recorded, and no agent was made for: undone.
RepairUndoes(c) ==
  /\ Uncertain(c) /\ repair[c] = "none" /\ ~SpawnCommitted(c) /\ c \notin agents
  /\ active' = active \ {c}
  /\ reserved' = [reserved EXCEPT ![Parent[c]] = Less(@)]
  /\ UNCHANGED <<storeVars, faults, restarts, attempts, lock, dispatchVars, status,
                 spawn, finish, repair, turnVars>>

\* A canonical result decides; a committed child without an agent never ran.
RepairAdopts(c) ==
  /\ Uncertain(c) /\ repair[c] = "none" /\ SpawnCommitted(c)
  /\ \/ ResultsOf(c) # {} /\ Finalize(c, CanonicalResult(c))
     \/ /\ ResultsOf(c) = {} /\ ~endFiled[c] /\ c \notin agents
        /\ Finalize(c, "interrupted")
  /\ UNCHANGED <<storeVars, faults, restarts, attempts, lock, pending, runnable,
                 agents, spawn, repair, turnVars>>

\* The child's own ending is recorded, or, when no runner can be left, that it
\* was interrupted.
AppendRepair(c) ==
  /\ repair[c] = "none" /\ SpawnCommitted(c) /\ ~Poisoned(Parent[c])
  /\ (Uncertain(c) /\ endFiled[c]) \/ Historical(c)
  /\ Record(Parent[c],
            Fact("result", c, IF endFiled[c] THEN ending[c] ELSE "interrupted"))
  /\ repair' = [repair EXCEPT ![c] = "parent"]
  /\ UNCHANGED <<synced, filed, writer, ending, endFiled, faults, restarts,
                 admissionVars, dispatchVars, status, spawn, finish, turnVars>>

\* Only where the parent's file has no result.
RepairRecords(c) == ResultsOf(c) = {} /\ AppendRepair(c)

\* The record is read back before it is adopted.
RepairSettles(c) ==
  LET r == Parent[c]
      kept == ResultAt(c) \in ResultsOf(c)
      nothing == UNCHANGED <<status, finish, slots, active, reserved>>
  IN  /\ repair[c] = "parent"
      /\ repair' = [repair EXCEPT ![c] = "none"]
      /\ Durable(r, ResultAt(c)) \/ Rejected(r, ResultAt(c))
      /\ \/ /\ kept
            /\ IF c \in active THEN Finalize(c, log[r][ResultAt(c)].outcome) ELSE nothing
         \/ (~kept \/ Unreadable(r)) /\ nothing
      /\ UNCHANGED <<log, synced, filed, ending, endFiled, faults, restarts, attempts, lock,
                     pending, runnable, agents, spawn, turnVars>>

-----------------------------------------------------------------------------
(***************************************************************************)
(* Turns.                                                                  *)
(***************************************************************************)
notTurn == <<synced, filed, ending, endFiled, faults, restarts, active, reserved,
             slots, agents, spawn, repair>>

Begin(t) ==
  /\ t \notin Manual /\ turn[t] = "none" /\ ~Busy(RootOf[t]) /\ restarts = 0
  /\ turn' = [turn EXCEPT ![t] = "open"]
  /\ unended' = [unended EXCEPT ![RootOf[t]] = TRUE]
  /\ UNCHANGED <<notTurn, log, writer, attempts, lock, pending, runnable, status,
                 finish, awaited>>

\* closeTurn refuses new spawns before its first await.
Close(t) ==
  /\ t \notin Manual /\ turn[t] = "open" /\ ~InFlight(t)
  /\ turn' = [turn EXCEPT ![t] = "closing"]
  /\ UNCHANGED <<notTurn, log, writer, attempts, lock, pending, runnable, status,
                 finish, awaited, unended>>

\* resolveForRootCompletion: cancel what is live, and wait for just those.
CancelRest(t) ==
  LET rest == {c \in LiveOf(RootOf[t]) : TurnOf[c] = t}
  IN  /\ turn' = [turn EXCEPT ![t] = "cancelling"]
      /\ awaited' = [awaited EXCEPT ![t] = rest]
      /\ CancelAll(rest)

\* The turn is charged with no spawn: no record.
CloseUnmarked(t) ==
  /\ turn[t] = "closing" /\ attempts[t] = 0 /\ CancelRest(t)
  /\ UNCHANGED <<notTurn, log, writer, attempts, lock, unended>>

Mark(t) ==
  LET r == RootOf[t]
  IN  /\ turn[t] = "closing" /\ attempts[t] > 0 /\ lock[r] = "free"
      /\ IF Poisoned(r)
         THEN /\ turn' = [turn EXCEPT ![t] = "failed"]
              /\ unended' = [unended EXCEPT ![r] = FALSE]
              /\ UNCHANGED <<log, lock>>
         ELSE /\ Record(r, Fact("closing", t, "none"))
              /\ lock' = [lock EXCEPT ![r] = "held"]
              /\ turn' = [turn EXCEPT ![t] = "marking"]
              /\ UNCHANGED unended
      /\ UNCHANGED <<notTurn, writer, attempts, pending, runnable, status, finish,
                     awaited>>

\* The closing record is durable: a conversation turn cancels its children, a
\* delegation turn waits for its own.
Marked(t) ==
  LET r == RootOf[t]
      at == LastAt(r, "closing", t)
  IN  /\ turn[t] = "marking"
      /\ lock' = [lock EXCEPT ![r] = "free"]
      /\ \/ /\ t \notin Manual /\ Durable(r, at) /\ CancelRest(t) /\ UNCHANGED unended
         \/ /\ t \in Manual /\ Durable(r, at)
            /\ turn' = [turn EXCEPT ![t] = "settling"]
            /\ awaited' = [awaited EXCEPT ![t] = {c \in active : TurnOf[c] = t}]
            /\ UNCHANGED <<status, finish, pending, runnable, unended>>
         \/ /\ Rejected(r, at)
            /\ turn' = [turn EXCEPT ![t] = IF t \in Manual THEN "over" ELSE "failed"]
            /\ unended' = [unended EXCEPT ![r] = t \in Manual /\ @]
            /\ UNCHANGED <<awaited, status, finish, pending, runnable>>
      /\ UNCHANGED <<notTurn, log, attempts>>

Settled(t) == \A c \in awaited[t] : finish[c] = "done"

\* Every child waited for has settled: turn/end.
Complete(t) ==
  /\ turn[t] = "cancelling" /\ Settled(t)
  /\ turn' = [turn EXCEPT ![t] = "completed"]
  /\ unended' = [unended EXCEPT ![RootOf[t]] = FALSE]
  /\ UNCHANGED <<notTurn, log, writer, attempts, lock, pending, runnable, status,
                 finish, awaited>>

\* finishManualTurn.
FinishManual(t) ==
  LET r == RootOf[t]
  IN  /\ turn[t] = "settling" /\ Settled(t)
      /\ IF Poisoned(r)
         THEN turn' = [turn EXCEPT ![t] = "failed"] /\ UNCHANGED <<log, unended>>
         ELSE /\ Record(r, Fact("end", t, "completed"))
              /\ turn' = [turn EXCEPT ![t] = "ending"]
              /\ unended' = [unended EXCEPT ![r] = FALSE]
      /\ UNCHANGED <<notTurn, writer, attempts, lock, pending, runnable, status,
                     finish, awaited>>

ManualEnds(t) ==
  LET r == RootOf[t]
      at == LastAt(r, "end", t)
  IN  /\ turn[t] \in {"ending", "abandoning"}
      /\ \/ /\ turn[t] = "ending"
            /\ turn' = [turn EXCEPT ![t] = IF at <= synced[r] THEN "completed" ELSE "failed"]
            /\ UNCHANGED lock
         \/ /\ turn[t] = "abandoning"
            /\ turn' = [turn EXCEPT ![t] = "over"]
            /\ lock' = [lock EXCEPT ![r] = "free"]
      /\ Durable(r, at) \/ Rejected(r, at)
      /\ UNCHANGED <<notTurn, log, attempts, pending, runnable, status, finish,
                     awaited, unended>>

\* The turn fails, or is stopped: nothing closes it to its children.
EndOtherwise(t) ==
  /\ t \notin Manual /\ turn[t] = "open" /\ ~InFlight(t)
  /\ turn' = [turn EXCEPT ![t] = "failed"]
  /\ unended' = [unended EXCEPT ![RootOf[t]] = FALSE]
  /\ UNCHANGED <<notTurn, log, writer, attempts, lock, pending, runnable, status,
                 finish, awaited>>

\* The spawn budgets of the root are dropped, those of every turn of it.
ReleaseTurns(t) ==
  /\ turn[t] \in {"completed", "failed"} /\ lock[RootOf[t]] = "free"
  /\ turn' = [turn EXCEPT ![t] = "over"]
  /\ attempts' = [u \in Turns |-> IF RootOf[u] = RootOf[t] THEN 0 ELSE attempts[u]]
  /\ UNCHANGED <<notTurn, log, writer, lock, pending, runnable, status, finish,
                 awaited, unended>>

-----------------------------------------------------------------------------
\* The process stops and starts again: the files are what is left.
Restart ==
  /\ restarts < MaxRestarts
  /\ restarts' = restarts + 1
  /\ log' = [r \in Roots |-> Canonical(r)]
  /\ synced' = filed
  /\ writer' = [r \in Roots |-> "sound"]
  /\ ending' = [c \in Children |-> IF endFiled[c] THEN ending[c] ELSE "none"]
  /\ active' = {} /\ slots' = {} /\ runnable' = <<>> /\ agents' = {}
  /\ reserved' = [r \in Roots |-> 0] /\ attempts' = [t \in Turns |-> 0]
  /\ lock' = [r \in Roots |-> "free"]
  /\ pending' = [r \in Roots |-> <<>>]
  /\ status' = [c \in Children |-> "none"]
  /\ spawn' = [c \in Children |-> "out"]
  /\ finish' = [c \in Children |-> "done"]
  /\ repair' = [c \in Children |-> "none"]
  /\ turn' = [t \in Turns |-> "interrupted"]
  /\ awaited' = [t \in Turns |-> {}]
  /\ unended' = [r \in Roots |-> FALSE]
  /\ UNCHANGED <<filed, endFiled, faults>>

SpawnStep(c) ==
  EnterManual(c) \/ ManualStarted(c) \/ Refuse(c) \/ Admit(c) \/ MetaStored(c)
    \/ MetaFails(c) \/ Commit(c) \/ Undone(c)
FinishStep(c) ==
  RunEnds(c) \/ ChildFlushed(c) \/ ChildFlushFails(c) \/ Settle(c)
RepairStep(c) ==
  RepairUndoes(c) \/ RepairAdopts(c) \/ RepairRecords(c) \/ RepairSettles(c)
EndStep(t) ==
  CloseUnmarked(t) \/ Mark(t) \/ Marked(t) \/ Complete(t) \/ FinishManual(t)
    \/ ManualEnds(t) \/ ReleaseTurns(t)

Next ==
  \/ Pump
  \/ /\ ~PumpDue
     /\ \/ \E r \in Roots : RecordStored(r) \/ StorageBreaks(r) \/ Stop(r)
        \/ \E t \in Turns : Begin(t) \/ Close(t) \/ EndStep(t) \/ EndOtherwise(t)
        \/ \E c \in Children :
             Ask(c) \/ SpawnStep(c) \/ Cancel(c) \/ FinishStep(c) \/ RepairStep(c)
        \/ Restart

Spec == Init /\ [][Next]_vars

\* The process does not idle while one of its own steps can be taken: the disk
\* answers, runs end, and so do the turns that have begun to.  Nobody need
\* spawn, close, cancel or repair.  Which step comes first is left open.
Progress ==
  \/ Pump
  \/ /\ ~PumpDue
     /\ \/ \E r \in Roots : RecordStored(r)
        \/ \E t \in Turns : EndStep(t)
        \/ \E c \in Children : SpawnStep(c) \/ FinishStep(c)

FairSpec == Spec /\ WF_vars(Progress)

-----------------------------------------------------------------------------
(***************************************************************************)
(* Properties.                                                             *)
(***************************************************************************)

\* The reservations of a root are its active children and the failed attempts
\* still being undone, and never exceed the limit: however a spawn fails, a
\* cancel meets it, or a settlement is repaired, nothing is released twice or
\* not at all.
CapacityExact ==
  \A r \in Roots :
    /\ reserved[r] = Cardinality({c \in Children :
                       Parent[c] = r /\ (c \in active \/ spawn[c] = "undo")})
    /\ reserved[r] <= MaxPerRoot

\* A child takes a slot only when the file of its root has its spawn: what runs
\* is found again after a restart.
RunsOnCommit == \A c \in slots : SpawnCommitted(c)

\* A root's file says that a child has completed only if the child's own file
\* says so too.
CompletedIsTrue ==
  \A c \in Children : \A p \in ResultsOf(c) :
    log[Parent[c]][p].outcome = "completed" => endFiled[c] /\ ending[c] = "completed"

\* No spawn in flight, no child that is neither settled nor given up as
\* uncertain, no turn that is closing.
AtRest ==
  /\ \A c \in Children :
       spawn[c] \in {"none", "out"} /\ (c \in active => finish[c] = "done")
  /\ \A t \in Turns : turn[t] \in {"none", "open"} \/ Ended(t)

\* Delegation always comes to rest again (the requests of a behaviour are
\* bounded): every spawn is answered, every child settles or is given up, and
\* every turn that has begun to close is over, whatever fails or is cancelled.
ComesToRest == []<>AtRest

\* A completed turn hides no active work: none of its children still runs.
CompletedHidesNothing ==
  \A t \in Turns : turn[t] = "completed" => \A c \in slots : TurnOf[c] # t

\* One turn makes no more spawn attempts than the limit.
BudgetPerTurn ==
  \A t \in Turns : Cardinality({c \in agents : TurnOf[c] = t}) <= MaxPerTurn

=============================================================================
