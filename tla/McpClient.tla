------------------------------ MODULE McpClient ------------------------------
(***************************************************************************)
(* The client of one MCP server: a connection shared by every caller, a    *)
(* circuit breaker, a health check and a recovery timer, and the transport *)
(* (a child process, or an HTTP session) it replaces when one fails.       *)
(*                                                                         *)
(* A user is whatever may be parked in the client at once: the tool calls, *)
(* the first listing of tools, the recovery, a health check and the        *)
(* refresh a notification asks for.  `at` is the await each is parked on   *)
(* and `on` the transport its request was written to.  What runs between   *)
(* two awaits is one action; a connection that settles resumes everybody   *)
(* who waits for it in the same burst.                                     *)
(***************************************************************************)
EXTENDS Integers, FiniteSets

CONSTANTS
  Calls,          \* the tools/call requests
  Threshold,      \* failures that open the breaker (5 in the code)
  MaxTransports   \* bound: transports built

ASSUME ClientAssumption ==
  /\ IsFiniteSet(Calls) /\ Calls \cap {"list", "recovery", "tick", "refresh"} = {}
  /\ Threshold \in Nat \ {0} /\ MaxTransports \in Nat

Transports == 1..MaxTransports
Once == Calls \cup {"list"}   \* the users that come once
Users == Calls \cup {"list", "recovery", "tick", "refresh"}

VARIABLES
  \* --- McpServerClient
  state, breaker, elapsed, failures, transport, connecting, retired,
  timer,     \* recoveryTimer; "late": breakerUntil was moved after it was set
  health,    \* healthTimer; not "none" once onReconnected is known
  again,     \* refreshAgain
  disconnection,   \* disconnect()
  \* --- the transports built so far
  built, child, stopped,
  forgotten,       \* (history) let go of by a recovery without being stopped
  \* --- the users
  at, on, outcome, aborted

breakerVars == <<breaker, elapsed, failures, timer>>
transportVars == <<built, child, stopped>>
userVars == <<at, on, outcome, aborted>>
connectionVars == <<state, breakerVars, transport, connecting, retired, health, again,
          disconnection, transportVars, forgotten, userVars>>

ClientInit ==
  /\ state = "disabled" /\ breaker = "closed" /\ elapsed = TRUE /\ failures = 0
  /\ transport = 0 /\ connecting = 0 /\ retired = FALSE
  /\ timer = "off" /\ health = "none" /\ again = FALSE /\ disconnection = "none"
  /\ built = 0
  /\ child = [t \in Transports |-> "none"]
  /\ stopped = [t \in Transports |-> FALSE] /\ forgotten = {}
  /\ at = [u \in Users |-> "idle"] /\ on = [u \in Users |-> 0]
  /\ outcome = [u \in Once |-> "none"] /\ aborted = [u \in Calls |-> FALSE]

-----------------------------------------------------------------------------
(***************************************************************************)
(* The transport.  stop() kills the child; whoever awaits it goes on when  *)
(* the exit is reported, or two seconds later.                             *)
(***************************************************************************)
Stop(t) ==
  IF t = 0 THEN UNCHANGED <<child, stopped>>
  ELSE /\ stopped' = [stopped EXCEPT ![t] = TRUE]
       /\ child' = [child EXCEPT ![t] = IF @ = "up" THEN "gone" ELSE @]

\* The process dies, or a watchdog ends it.
ChildExits(t) ==
  /\ child[t] = "up"
  /\ child' = [child EXCEPT ![t] = "gone"]
  /\ UNCHANGED <<state, breakerVars, transport, connecting, retired, forgotten, health, again,
                 disconnection, built, stopped, userVars>>

(***************************************************************************)
(* The breaker.                                                            *)
(***************************************************************************)
RecordSuccess ==
  /\ failures' = 0 /\ elapsed' = TRUE /\ breaker' = "closed" /\ state' = "ready"
  /\ UNCHANGED timer

ScheduleRecovery == timer' = IF timer = "off" THEN "set" ELSE "late"
SetTimer == IF health = "none" THEN UNCHANGED timer ELSE ScheduleRecovery

OpenBreaker ==
  /\ elapsed' = FALSE /\ breaker' = "open" /\ state' = "failed" /\ failures' = 0
  /\ Stop(transport) /\ transport' = 0
  /\ SetTimer

RecordFailures(n) ==
  IF failures + n >= Threshold
    THEN OpenBreaker
    ELSE /\ failures' = failures + n
         /\ UNCHANGED <<breaker, elapsed, timer, state, transport, child, stopped>>
RecordFailure == RecordFailures(1)

BreakerElapses ==
  /\ ~elapsed /\ elapsed' = TRUE
  /\ UNCHANGED <<state, breaker, failures, timer, transport, connecting, retired,
                 forgotten, health, again, disconnection, transportVars, userVars>>

-----------------------------------------------------------------------------
(***************************************************************************)
(* What becomes of the users in `us` when they are let through, or not.    *)
(***************************************************************************)
Leave(u) == IF u \in Once THEN "done" ELSE "idle"
TurnedAway(us) ==
  /\ at' = [u \in Users |-> IF u \in us THEN Leave(u) ELSE at[u]]
  /\ outcome' = [u \in Once |-> IF u \in us THEN "notSent" ELSE outcome[u]]
  /\ UNCHANGED <<on, aborted>>
\* `u` is done with its request.
Finish(u, result, next) ==
  /\ at' = [at EXCEPT ![u] = next]
  /\ IF u \in Once
       THEN outcome' = [outcome EXCEPT ![u] = result] /\ UNCHANGED on
       ELSE on' = [on EXCEPT ![u] = 0] /\ UNCHANGED outcome

\* callTool() looks at `retired` and at its signal again before it writes.
Withheld(us) == {u \in us \cap Calls : retired \/ aborted[u]}
Granted(us, t) ==
  /\ at' = [u \in Users |-> IF u \in us THEN IF u \in Withheld(us) THEN "done" ELSE "sent"
                            ELSE at[u]]
  /\ on' = [u \in Users |-> IF u \in us \ Withheld(us) THEN t ELSE on[u]]
  /\ outcome' = [u \in Once |-> IF u \in Withheld(us) THEN "notSent" ELSE outcome[u]]
  /\ UNCHANGED aborted

\* A listing is retried by its caller; the others count what failed.
Counted(us) == Cardinality(us \cap (Calls \cup {"tick", "refresh"}))

\* connect() up to its first await: the transport it replaces is stopped.
BeginConnect ==
  /\ built < MaxTransports
  /\ state' = "connecting"
  /\ built' = built + 1 /\ transport' = built + 1 /\ connecting' = built + 1
  /\ Stop(transport)

\* The part of ensureConnected() before its await, for a user let in.
EnsureConnected(u) ==
  /\ breaker' = IF breaker = "open" THEN "half-open" ELSE breaker
  /\ UNCHANGED <<elapsed, failures, timer>>
  /\ IF transport # 0 /\ state = "ready"
       THEN /\ Granted({u}, transport)
            /\ UNCHANGED <<state, transport, connecting, transportVars>>
       ELSE /\ at' = [at EXCEPT ![u] = "connecting"]
            /\ UNCHANGED <<on, outcome, aborted>>
            /\ IF connecting = 0
                 THEN BeginConnect
                 ELSE UNCHANGED <<state, transport, connecting, transportVars>>

\* ensureConnected() throws at once.
Barred(u) == retired \/ (breaker = "open" /\ ~elapsed /\ u # "recovery")

\* A user comes in: a call, the first listing or a health check.
Enter(u) ==
  /\ at[u] = "idle" /\ u \in Calls \cup {"list", "tick"}
  /\ u = "tick" => health = "on" /\ breaker # "open"
  /\ IF Barred(u) \/ (u # "tick" /\ ~elapsed)
       THEN /\ TurnedAway({u}) /\ RecordFailures(Counted({u}))
            /\ UNCHANGED <<connecting, built>>
       ELSE EnsureConnected(u)
  /\ UNCHANGED <<retired, forgotten, health, again, disconnection>>

\* Defective: stop() before the spawn is not noticed.
SpawnAnyway ==
  /\ connecting # 0 /\ child[connecting] = "none"
  /\ child' = [child EXCEPT ![connecting] = "up"]
  /\ UNCHANGED <<state, breakerVars, transport, connecting, retired, forgotten, health, again,
                 disconnection, built, stopped, userVars>>

\* start() after the previous transport was stopped.
Spawn ==
  /\ connecting # 0 /\ child[connecting] = "none" /\ ~stopped[connecting]
  /\ child' = [child EXCEPT ![connecting] = "up"]
  /\ UNCHANGED <<state, breakerVars, transport, connecting, retired, forgotten, health, again,
                 disconnection, built, stopped, userVars>>

Waiting == {u \in Users : at[u] = "connecting"}

\* The handshake succeeds: every waiter goes on.  Those withheld count as
\* failures; when that opens the breaker, a call that resumes after it finds no
\* transport, writes nothing, and takes that for an answer.
Connects ==
  /\ connecting # 0 /\ child[connecting] = "up" /\ ~stopped[connecting]
  /\ transport = connecting /\ connecting' = 0
  /\ LET withheld == Withheld(Waiting)
     IN  IF failures + Cardinality(withheld) < Threshold
           THEN /\ state' = "ready" /\ failures' = failures + Cardinality(withheld)
                /\ UNCHANGED <<breaker, elapsed, timer, transport, child, stopped>>
                /\ Granted(Waiting, connecting)
           ELSE /\ Stop(transport) /\ transport' = 0 /\ SetTimer
                /\ \E late \in SUBSET ((Waiting \cap Calls) \ withheld) :
                     /\ at' = [u \in Users |->
                          IF u \in withheld \cup late THEN "done"
                          ELSE IF u \in Waiting THEN "sent" ELSE at[u]]
                     /\ on' = [u \in Users |->
                          IF u \in Waiting \ (withheld \cup late) THEN connecting ELSE on[u]]
                     /\ outcome' = [u \in Once |->
                          IF u \in withheld THEN "notSent"
                          ELSE IF u \in late THEN "ok" ELSE outcome[u]]
                     /\ failures' = 0 /\ UNCHANGED aborted
                     /\ IF late = {}
                          THEN elapsed' = FALSE /\ breaker' = "open" /\ state' = "failed"
                          ELSE elapsed' = TRUE /\ breaker' = "closed" /\ state' = "ready"
  /\ UNCHANGED <<retired, forgotten, health, again, disconnection, built>>

\* The handshake of a transport the recovery has let go of succeeds.  The
\* recovery, which waits for it like the others, and a health check find no
\* transport to ask for the tools; a call writes nothing, and takes that for an
\* answer.  Whether the breaker ends up open or closed depends on who resumes
\* last, the recovery or such a call; a health check may fail after that.
ConnectsForgotten ==
  /\ connecting # 0 /\ child[connecting] = "up" /\ ~stopped[connecting]
  /\ transport = 0 /\ connecting' = 0
  /\ LET withheld == Withheld(Waiting)
         served == (Waiting \cap Calls) \ withheld
     IN  /\ at' = [u \in Users |-> IF u \notin Waiting THEN at[u]
                                  ELSE IF u = "list" THEN "sent" ELSE Leave(u)]
         /\ outcome' = [u \in Once |-> IF u \in withheld THEN "notSent"
                                       ELSE IF u \in served THEN "ok" ELSE outcome[u]]
         /\ \/ /\ elapsed' = FALSE /\ breaker' = "open" /\ state' = "failed"
               /\ \E n \in 0..Cardinality(Waiting \cap {"tick"}) :
                    failures' = n % Threshold
            \/ /\ served # {} /\ elapsed' = TRUE /\ breaker' = "closed" /\ state' = "ready"
               /\ \E n \in 0..Cardinality(Waiting \cap {"tick"}) :
                    n < Threshold /\ failures' = n
  /\ ScheduleRecovery
  /\ UNCHANGED <<transport, transportVars, retired, forgotten, health, again,
                 disconnection, on, aborted>>

\* Defective: the failed child is left to itself.
HandshakeAbandons ==
  /\ connecting # 0 /\ ~stopped[connecting] /\ child[connecting] = "up"
  /\ connecting' = 0 /\ transport' = 0 /\ state' = "failed"
  /\ TurnedAway(Waiting)
  /\ UNCHANGED <<breakerVars, retired, forgotten, health, again, disconnection, transportVars>>

\* The handshake fails or times out: the child is torn down.
HandshakeFails ==
  /\ connecting # 0 /\ ~stopped[connecting]
  /\ Stop(connecting)
  /\ UNCHANGED <<state, breakerVars, transport, connecting, retired, forgotten, health, again,
                 disconnection, built, userVars>>

\* connect() throws: it failed, or somebody stopped its transport meanwhile.
\* A recovery that was waiting opens the breaker again.
ConnectFails ==
  /\ connecting # 0
  /\ stopped[connecting] \/ child[connecting] = "gone"
  /\ connecting' = 0
  /\ IF "recovery" \in Waiting \/ failures + Counted(Waiting) >= Threshold
       THEN /\ elapsed' = FALSE /\ breaker' = "open" /\ failures' = 0 /\ SetTimer
            /\ transport' = 0
       ELSE /\ failures' = failures + Counted(Waiting)
            /\ UNCHANGED <<breaker, elapsed, timer>>
            /\ transport' = IF transport = connecting THEN 0 ELSE transport
  /\ Stop(connecting)
  /\ state' = "failed"
  /\ TurnedAway(Waiting)
  /\ UNCHANGED <<retired, forgotten, health, again, disconnection, built>>

-----------------------------------------------------------------------------
(***************************************************************************)
(* Requests on a transport, and what each user does with the answer.       *)
(***************************************************************************)
Served(u) == at[u] = "sent" /\ on[u] # 0 /\ child[on[u]] = "up" /\ ~stopped[on[u]]

CallAnswered(u) ==
  /\ u \in Calls \cup {"list", "tick"} /\ Served(u)
  /\ Finish(u, "ok", Leave(u))
  /\ IF u = "list" THEN UNCHANGED <<state, breakerVars>> ELSE RecordSuccess
  /\ UNCHANGED <<transport, connecting, retired, forgotten, health, again, disconnection,
                 transportVars, aborted>>

\* Defective: a transport that is gone does not settle what is pending on it.
CallFailsServed(u) ==
  /\ u \in Calls \cup {"list", "tick"} /\ Served(u)
  /\ Finish(u, "unknown", Leave(u))
  /\ RecordFailures(Counted({u}))
  /\ UNCHANGED <<connecting, retired, forgotten, health, again, disconnection, built, aborted>>

\* A timeout, a reply that is an error, or a transport that is gone.
CallFails(u) ==
  /\ u \in Calls \cup {"list", "tick"} /\ at[u] = "sent"
  /\ Finish(u, "unknown", Leave(u))
  /\ RecordFailures(Counted({u}))
  /\ UNCHANGED <<connecting, retired, forgotten, health, again, disconnection, built, aborted>>

\* The first listing is tried again, on whatever transport there is then.
ListAgain ==
  /\ at["list"] = "sent" /\ transport # 0
  /\ on' = [on EXCEPT !["list"] = transport]
  /\ UNCHANGED <<state, breakerVars, transport, connecting, retired, forgotten, health,
                 again, disconnection, transportVars, at, outcome, aborted>>

\* The turn is stopped: a call that is sent is given up at once.
Abort(u) ==
  /\ u \in Calls /\ at[u] \in {"connecting", "sent"} /\ ~aborted[u]
  /\ aborted' = [aborted EXCEPT ![u] = TRUE]
  /\ IF at[u] = "sent"
       THEN Finish(u, "unknown", "done") /\ RecordFailure
       ELSE UNCHANGED <<at, on, outcome, state, breakerVars, transport, child, stopped>>
  /\ UNCHANGED <<connecting, retired, forgotten, health, again, disconnection, built>>

\* The first listing succeeded and its caller starts the health checks.
StartHealthChecks ==
  /\ at["list"] = "done" /\ outcome["list"] = "ok" /\ health = "none"
  /\ health' = "on"
  /\ IF breaker = "open" THEN ScheduleRecovery ELSE UNCHANGED timer
  /\ UNCHANGED <<state, breaker, elapsed, failures, transport, connecting, retired,
                 forgotten, again, disconnection, transportVars, userVars>>

-----------------------------------------------------------------------------
(***************************************************************************)
(* Recovery.                                                               *)
(***************************************************************************)
\* The recovery goes on once the old transport is stopped.  It lets go of the
\* transport there is now, which need not be the one it stopped: a caller that
\* came in meanwhile has built another.  `pending` is the timer that may have
\* been set meanwhile.
Reconnect(pending) ==
  /\ forgotten' = forgotten \cup {t \in {transport} \ {0} : ~stopped[t]}
  /\ IF Barred("recovery")
       THEN /\ elapsed' = FALSE /\ breaker' = "open" /\ state' = "failed" /\ failures' = 0
            /\ timer' = (IF pending = "off" THEN "set" ELSE "late") /\ transport' = 0
            /\ at' = [at EXCEPT !["recovery"] = "idle"]
            /\ UNCHANGED <<connecting, transportVars, on, outcome, aborted>>
       ELSE /\ breaker' = "half-open" /\ timer' = pending /\ UNCHANGED <<elapsed, failures>>
            /\ at' = [at EXCEPT !["recovery"] = "connecting"]
            /\ UNCHANGED <<on, outcome, aborted>>
            /\ IF connecting = 0
                 THEN /\ built < MaxTransports /\ state' = "connecting"
                      /\ built' = built + 1 /\ transport' = built + 1
                      /\ connecting' = built + 1 /\ UNCHANGED <<child, stopped>>
                 ELSE transport' = 0 /\ UNCHANGED <<state, connecting, transportVars>>

TimerFires ==
  /\ (timer = "set" /\ elapsed) \/ timer = "late"
  /\ IF at["recovery"] # "idle"
       THEN timer' = "off"
            /\ UNCHANGED <<state, breaker, elapsed, failures, transport, connecting,
                           transportVars, forgotten, userVars>>
       ELSE IF transport # 0
         THEN /\ breaker' = "half-open" /\ timer' = "off" /\ Stop(transport)
              /\ at' = [at EXCEPT !["recovery"] = "stopping"]
              /\ UNCHANGED <<state, elapsed, failures, transport, connecting, built,
                             forgotten, on, outcome, aborted>>
         ELSE Reconnect("off")
  /\ UNCHANGED <<retired, health, again, disconnection>>

OldTransportStopped ==
  /\ at["recovery"] = "stopping"
  /\ Reconnect(timer)
  /\ UNCHANGED <<retired, health, again, disconnection>>

\* The listing after the reconnect, then the hook that publishes the tools.
RecoveryListed ==
  /\ Served("recovery")
  /\ RecordSuccess
  /\ Finish("recovery", "ok", "hook")
  /\ UNCHANGED <<transport, connecting, retired, forgotten, health, again, disconnection,
                 transportVars, aborted>>

RecoveryFails ==
  /\ at["recovery"] \in {"sent", "hook"}
  /\ OpenBreaker
  /\ Finish("recovery", "unknown", "idle")
  /\ UNCHANGED <<connecting, retired, forgotten, health, again, disconnection, built, aborted>>

RecoveryPublished ==
  /\ at["recovery"] = "hook"
  /\ at' = [at EXCEPT !["recovery"] = "idle"]
  /\ UNCHANGED <<state, breakerVars, transport, connecting, retired, forgotten, health, again,
                 disconnection, transportVars, on, outcome, aborted>>

-----------------------------------------------------------------------------
(***************************************************************************)
(* tools/list_changed.                                                     *)
(***************************************************************************)
\* One pass of the refresh, on whatever transport there is.
BeginPass ==
  /\ again' = FALSE
  /\ IF transport # 0
       THEN /\ at' = [at EXCEPT !["refresh"] = "sent"]
            /\ on' = [on EXCEPT !["refresh"] = transport]
            /\ UNCHANGED <<state, breakerVars, transport, child, stopped>>
       ELSE /\ at' = [at EXCEPT !["refresh"] = "idle"] /\ UNCHANGED on
            /\ RecordFailure
  /\ UNCHANGED <<outcome, aborted>>

ListChanged(t) ==
  /\ child[t] = "up"
  /\ IF at["refresh"] # "idle"
       THEN again' = TRUE /\ UNCHANGED <<userVars, state, breakerVars, transport, child, stopped>>
       ELSE BeginPass
  /\ UNCHANGED <<connecting, retired, forgotten, health, disconnection, built>>

RefreshListed ==
  /\ Served("refresh")
  /\ Finish("refresh", "ok", "hook")
  /\ UNCHANGED <<state, breakerVars, transport, connecting, retired, forgotten, health, again,
                 disconnection, transportVars, aborted>>

RefreshFails ==
  /\ at["refresh"] \in {"sent", "hook"}
  /\ Finish("refresh", "unknown", "idle")
  /\ RecordFailure
  /\ UNCHANGED <<connecting, retired, forgotten, health, again, disconnection, built, aborted>>

RefreshPublished ==
  /\ at["refresh"] = "hook"
  /\ IF again /\ ~retired
       THEN BeginPass
       ELSE /\ at' = [at EXCEPT !["refresh"] = "idle"]
            /\ UNCHANGED <<again, on, outcome, aborted, state, breakerVars, transport,
                           child, stopped>>
  /\ UNCHANGED <<connecting, retired, forgotten, health, disconnection, built>>

-----------------------------------------------------------------------------
(***************************************************************************)
(* disconnect(), by the host: the generation is fenced.                    *)
(***************************************************************************)
Disconnect ==
  /\ disconnection # "stopping" /\ (disconnection = "done" => health = "on")
  /\ retired' = TRUE
  /\ health' = IF health = "on" THEN "off" ELSE health
  /\ timer' = "off"
  /\ Stop(transport)
  /\ disconnection' = "stopping"
  /\ UNCHANGED <<state, breaker, elapsed, failures, transport, connecting, again, built,
                 forgotten, userVars>>

DisconnectEnds ==
  /\ disconnection = "stopping"
  /\ transport' = 0 /\ state' = "disabled" /\ disconnection' = "done"
  /\ UNCHANGED <<breakerVars, connecting, retired, forgotten, health, again, transportVars, userVars>>

-----------------------------------------------------------------------------
ClientProgress ==
  \/ Spawn \/ Connects \/ ConnectsForgotten \/ HandshakeFails \/ ConnectFails
  \/ \E u \in Users : CallAnswered(u) \/ CallFails(u)
  \/ TimerFires \/ OldTransportStopped \/ RecoveryListed \/ RecoveryPublished
  \/ RecoveryFails
  \/ RefreshListed \/ RefreshFails \/ RefreshPublished \/ DisconnectEnds
ClientNext ==
  \/ ClientProgress
  \/ \E t \in Transports : ChildExits(t) \/ ListChanged(t)
  \/ BreakerElapses \/ ListAgain \/ StartHealthChecks \/ Disconnect
  \/ \E u \in Users : Enter(u) \/ Abort(u)

ClientSpec == ClientInit /\ [][ClientNext]_connectionVars
\* Every request and every handshake has a timeout, and timers fire.
ClientFairSpec ==
  /\ ClientSpec
  /\ WF_connectionVars(Connects \/ ConnectsForgotten \/ HandshakeFails \/ ConnectFails)
  /\ \A u \in Users : WF_connectionVars(CallAnswered(u) \/ CallFails(u))

-----------------------------------------------------------------------------
(***************************************************************************)
(* Properties.                                                             *)
(***************************************************************************)
\* A process that nobody has told to stop is the one the client refers to, or
\* one that a recovery let go of: whatever fails, exits, is fenced or
\* reconnects, no other step leaves a process behind.
OrphansAreForgotten ==
  \A t \in Transports : child[t] = "up" /\ ~stopped[t] => t = transport \/ t \in forgotten

\* Once a fenced client is disconnected it runs nothing, and nothing starts,
\* but what a recovery let go of: not a connect that was under way, a health
\* check, a refresh or a recovery.
FencedStartsNothing ==
  [][disconnection = "done" =>
       \A t \in Transports \ forgotten : child[t] # "up" /\ (child[t] # "up")']_connectionVars

\* Refuted (client.ts:771-772: a transport is replaced, never abandoned): each
\* process that nobody has told to stop is the one the client refers to.
NoOrphan == \A t \in Transports : child[t] = "up" /\ ~stopped[t] => t = transport

\* Refuted (client.ts:660-662, 670): once a fenced client is disconnected it
\* has no process and gets none.
FencedLeavesNothing ==
  [][disconnection = "done" =>
       \A t \in Transports : child[t] # "up" /\ (child[t] # "up")']_connectionVars

\* Every tool call ends, whatever dies, is stopped or is fenced.
EveryCallEnds == \A u \in Calls : at[u] # "idle" ~> at[u] = "done"
=============================================================================
