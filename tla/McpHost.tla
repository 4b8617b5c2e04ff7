------------------------------- MODULE McpHost -------------------------------
(***************************************************************************)
(* The host's side of one MCP server of one workspace: the requests that   *)
(* change its desired state (mcp.json, secrets), the connections that      *)
(* bring it up, the fence that ends the clients of an older generation,    *)
(* and the tool calls that come in between.                                *)
(*                                                                         *)
(* A connection is the asynchronous body of ensureMcpServer(); connection  *)
(* and client have the same number.  `pc` is the await a request is parked *)
(* on, `flow` the one a connection is parked on.  `rev` numbers the        *)
(* contents of the two files: every write makes a new one.                 *)
(*                                                                         *)
(* A write appends an intent with the old content to the mutation log, and *)
(* a commit or an abort line that closes it.  Any of these appends may     *)
(* fail, having stored the line, half of it or nothing.                    *)
(***************************************************************************)
EXTENDS Integers, Sequences, FiniteSets

CONSTANTS
  Requests,      \* numbered in the order in which they arrive
  Callers,       \* bound: these only call, at any time, in runs without mishaps
  MaxClients,    \* bound: connections begun
  MaxMishaps     \* bound: edits of mcp.json outside Settings, appends to the
                 \* mutation log that fail, and crashes

ASSUME HostAssumption ==
  /\ IsFiniteSet(Requests) /\ Requests \subseteq Nat /\ Callers \subseteq Requests
  /\ MaxClients \in Nat /\ MaxMishaps \in Nat

Clients == 1..MaxClients
Writes == {"enable", "disable", "reconnect", "save", "delete", "rotate"}
Kinds == Writes \cup {"call", "close"}
NoIntent == [target |-> "none", on |-> FALSE, rev |-> 0]

VARIABLES
  \* --- on disk: mcp.json, the revision of the secrets, and the mutation log
  file, secret,
  intent,         \* the intent of the write under way, while it is open
  left,           \* the open intents of writes that have ended, oldest first
  log,            \* what the log's lines are fit for
  revs,
  \* --- history: the last answered write of each file and the kind of that of
  \* mcp.json; whether a restart has restored an intent of `left`; the client each
  \* fence or cancel waits for; the clients whose key another's end has deleted
  acked, rotated, by, undone, awaited, lost,
  \* --- the host
  up, closing, gen, cancelled, watch, drifted,
  queue,          \* mcpMutationQueue: the writes in turn, the first one running
  map,            \* mcpClients: the client under the server's key, or 0
  mcpConnecting,  \* the connection in progress, or 0
  \* --- per client and its connection
  flow, clientGen, clientRev, live, clientRetired, begun,
  \* --- per request
  kind, pc, expected, got,
  mishaps

logVars == <<intent, left, log>>
ackVars == <<acked, rotated, by>>
diskVars == <<file, secret, logVars, revs, ackVars, undone>>
history == <<awaited, lost>>
hostVars == <<closing, gen, cancelled, watch, drifted, queue>>
clientVars == <<flow, clientGen, clientRev, live, clientRetired, begun>>
requestVars == <<kind, pc, expected, got>>
vars == <<diskVars, up, hostVars, map, mcpConnecting, clientVars, history, requestVars, mishaps>>

\* The server is down, or a request of before has brought it up.
Init ==
  /\ file \in {[on |-> b, rev |-> 1] : b \in BOOLEAN}
  /\ secret = 1 /\ intent = NoIntent /\ left = <<>> /\ log \in {"empty", "whole"}
  /\ revs = 1 /\ acked = 0 /\ rotated = 0 /\ by = "none" /\ undone = FALSE
  /\ awaited = [r \in Requests |-> 0] /\ lost = {}
  /\ up = TRUE /\ closing = FALSE /\ gen = 1 /\ cancelled = FALSE
  /\ drifted = FALSE /\ queue = <<>>
  /\ begun \in {n \in 0..MaxClients : n = 0 \/ (n = 1 /\ file.on)}
  /\ map = begun /\ mcpConnecting = 0 /\ watch = begun
  /\ flow = [c \in Clients |-> IF c = begun THEN "published" ELSE "none"]
  /\ clientGen = [c \in Clients |-> IF c = begun THEN 1 ELSE 0]
  /\ clientRev = [c \in Clients |-> IF c = begun THEN 1 ELSE 0]
  /\ live = [c \in Clients |-> c = begun] /\ clientRetired = [c \in Clients |-> FALSE]
  /\ kind = [r \in Requests |-> "none"] /\ pc = [r \in Requests |-> "idle"]
  /\ expected = [r \in Requests |-> 0] /\ got = [r \in Requests |-> 0]
  /\ mishaps = 0

-----------------------------------------------------------------------------
To(r, next) == pc' = [pc EXCEPT ![r] = next]

Mishap ==
  /\ mishaps < MaxMishaps /\ mishaps' = mishaps + 1
  /\ \A r \in Callers : pc[r] = "idle"

\* Those that may be of any kind come in their order.
MayArrive(r, k) ==
  IF r \in Callers THEN k = "call" /\ mishaps = 0
  ELSE \A q \in Requests \ Callers : q < r => pc[q] # "idle"

\* disconnect() up to its await: no connect succeeds any more, the process is
\* killed.
Disconnected(cs) ==
  /\ clientRetired' = [c \in Clients |-> clientRetired[c] \/ c \in cs]
  /\ live' = [c \in Clients |-> live[c] /\ c \notin cs]

\* The client ensureMcpServer() hands out: the one in the map, of this generation.
\* One that is being disconnected is not yet `disabled`, and has left the map when
\* it is.
Usable == map # 0 /\ clientGen[map] = gen

\* ensureMcpServer() up to its await: the client in the map, the connection in
\* progress, or a new one unless that is `barred`.
Ensure(r, barred) ==
  \/ /\ Usable
     /\ To(r, "have") /\ got' = [got EXCEPT ![r] = map]
     /\ UNCHANGED <<map, mcpConnecting, clientVars>>
  \/ /\ ~Usable
     /\ map' = 0 /\ Disconnected({map} \ {0})
     /\ \/ /\ mcpConnecting # 0
           /\ To(r, "await") /\ got' = [got EXCEPT ![r] = mcpConnecting]
           /\ UNCHANGED <<mcpConnecting, flow, clientGen, clientRev, begun>>
        \/ /\ mcpConnecting = 0 /\ barred
           /\ To(r, "done")
           /\ UNCHANGED <<got, mcpConnecting, flow, clientGen, clientRev, begun>>
        \/ /\ mcpConnecting = 0 /\ ~barred
           /\ begun < MaxClients /\ begun' = begun + 1
           /\ mcpConnecting' = begun + 1
           /\ flow' = [flow EXCEPT ![begun + 1] = "load"]
           /\ clientGen' = [clientGen EXCEPT ![begun + 1] = gen]
           /\ To(r, "await") /\ got' = [got EXCEPT ![r] = begun + 1]
           /\ UNCHANGED clientRev

-----------------------------------------------------------------------------
(***************************************************************************)
(* The connection.                                                         *)
(***************************************************************************)
Stale(c) == closing \/ cancelled \/ clientGen[c] # gen

\* Defective: a connection that failed stays the one in progress.
SettleStuck(c, result) ==
  /\ mcpConnecting' = IF result = "failed" THEN mcpConnecting ELSE 0
  /\ flow' = [flow EXCEPT ![c] = result]
  /\ pc' = [r \in Requests |->
       IF pc[r] = "await" /\ got[r] = c /\ result = "published" THEN "have" ELSE pc[r]]
  /\ UNCHANGED <<kind, expected, got>>

\* A connection that ended resumes the requests that share it.
Settle(c, result) ==
  /\ mcpConnecting' = 0
  /\ flow' = [flow EXCEPT ![c] = result]
  /\ pc' = [r \in Requests |->
       IF pc[r] = "await" /\ got[r] = c
         THEN IF result = "published" THEN "have" ELSE "done"
         ELSE pc[r]]
  /\ UNCHANGED <<kind, expected, got>>

LoadConfig(c) ==
  /\ flow[c] = "load"
  /\ IF file.on
       THEN /\ flow' = [flow EXCEPT ![c] = "build"]
            /\ clientRev' = [clientRev EXCEPT ![c] = file.rev]
            /\ UNCHANGED <<mcpConnecting, requestVars>>
       ELSE Settle(c, "failed") /\ UNCHANGED clientRev
  /\ UNCHANGED <<diskVars, up, hostVars, map, clientGen, live, clientRetired, begun, history, mishaps>>

\* The client is built and goes into the map before it is connected.
Build(c) ==
  /\ flow[c] = "build"
  /\ IF cancelled \/ clientGen[c] # gen
       THEN Settle(c, "failed") /\ UNCHANGED <<map, live>>
       ELSE /\ map' = c /\ live' = [live EXCEPT ![c] = TRUE]
            /\ flow' = [flow EXCEPT ![c] = "list"]
            /\ UNCHANGED <<mcpConnecting, requestVars>>
  /\ UNCHANGED <<diskVars, up, hostVars, clientGen, clientRev, clientRetired, begun, history, mishaps>>

Listed(c) ==
  /\ flow[c] = "list" /\ ~clientRetired[c]
  /\ flow' = [flow EXCEPT ![c] = "latest"]
  /\ UNCHANGED <<diskVars, up, hostVars, map, mcpConnecting, clientGen, clientRev, live,
                 clientRetired, begun, requestVars, history, mishaps>>

\* The server does not come up, or the client was disconnected meanwhile.
ListFails(c) ==
  /\ flow[c] = "list"
  /\ Disconnected({c})
  /\ flow' = [flow EXCEPT ![c] = "failing"]
  /\ UNCHANGED <<diskVars, up, hostVars, map, mcpConnecting, clientGen, clientRev, begun,
                 requestVars, history, mishaps>>

\* Whether the connection is still wanted is looked at once more.
Publish(c) ==
  /\ flow[c] = "latest"
  /\ IF Stale(c) \/ ~file.on
       THEN /\ Disconnected({c})
            /\ flow' = [flow EXCEPT ![c] = "failing"]
            /\ UNCHANGED <<map, mcpConnecting, requestVars>>
       ELSE map' = c /\ Settle(c, "published") /\ UNCHANGED <<live, clientRetired>>
  /\ UNCHANGED <<diskVars, up, hostVars, clientGen, clientRev, begun, history, mishaps>>

GiveUp(c) ==
  /\ flow[c] = "failing"
  /\ map' = IF map = c THEN 0 ELSE map
  /\ Settle(c, "failed")
  /\ UNCHANGED <<diskVars, up, hostVars, clientGen, clientRev, live, clientRetired, begun, history, mishaps>>

-----------------------------------------------------------------------------
(***************************************************************************)
(* The fence: a new generation; what is connecting is cancelled, the       *)
(* client in the map ends.  The key is deleted after the disconnect.       *)
(***************************************************************************)
Fence(r, next) ==
  /\ gen' = gen + 1
  /\ cancelled' = (cancelled \/ mcpConnecting # 0)
  /\ Disconnected({map} \ {0}) /\ awaited' = [awaited EXCEPT ![r] = map]
  /\ To(r, next)

\* A write takes its turn when those before it have ended.
Arrive(r, k) ==
  /\ up /\ ~closing /\ pc[r] = "idle" /\ k \in Kinds /\ MayArrive(r, k)
  /\ kind' = [kind EXCEPT ![r] = k]
  /\ expected' = [expected EXCEPT ![r] = gen]
  /\ CASE k \in Writes \ {"delete"} -> To(r, "turn") /\ queue' = Append(queue, r)
       [] k = "delete" -> To(r, "cancel") /\ UNCHANGED queue
       [] k = "call" -> To(r, "admit") /\ UNCHANGED queue
       [] k = "close" -> To(r, "close") /\ UNCHANGED queue
  /\ UNCHANGED <<diskVars, up, closing, gen, cancelled, watch, drifted, map, mcpConnecting,
                 clientVars, got, history, mishaps>>

Refused(r) == kind[r] \in {"enable", "reconnect"} /\ gen # expected[r]

Turn(r) == pc[r] = "turn" /\ queue # <<>> /\ Head(queue) = r

\* The content a write replaces.
Backup(r) ==
  IF kind[r] = "rotate" THEN [target |-> "secrets", on |-> FALSE, rev |-> secret]
  ELSE [target |-> "config", on |-> file.on, rev |-> file.rev]

\* The log after an append that stored a line, half of one or nothing.  A line
\* after a torn end makes one that cannot be parsed; a torn end is dropped by the
\* readers, but for one that is all there is.
Appended(stored) ==
  CASE stored = "nothing" -> log
    [] stored = "half" -> IF log \in {"whole", "torn"} THEN "torn" ELSE "unreadable"
    [] stored = "line" -> IF log \in {"empty", "whole"} THEN "whole" ELSE "unreadable"

\* An append that fails, whatever it stored.
Failing(stored) ==
  /\ Mishap
  /\ log' = Appended(stored)

Stored == {"nothing", "half", "line"}

\* The turn of a write: it reads the file, decides, stores its intent and puts
\* up the fence.
Begin(r) ==
  /\ Turn(r)
  /\ IF Refused(r)
       THEN /\ To(r, "done") /\ queue' = Tail(queue)
            /\ UNCHANGED <<intent, log, gen, cancelled, live, clientRetired, awaited>>
       ELSE /\ intent' = Backup(r) /\ log' = Appended("line")
            /\ Fence(r, IF map = 0 THEN "write" ELSE "fenced")
            /\ UNCHANGED queue
  /\ UNCHANGED <<file, secret, left, revs, ackVars, undone, up, closing, watch, drifted, map,
                 mcpConnecting, flow, clientGen, clientRev, begun, lost, kind, expected, got,
                 mishaps>>

\* The intent is refused; its line may be in the log all the same.
BeginFails(r) ==
  /\ Turn(r) /\ ~Refused(r)
  /\ \E stored \in Stored :
       /\ Failing(stored)
       /\ left' = IF stored = "line" THEN Append(left, Backup(r)) ELSE left
  /\ To(r, "done") /\ queue' = Tail(queue)
  /\ UNCHANGED <<file, secret, intent, revs, ackVars, undone, up, closing, gen, cancelled, watch,
                 drifted, map, mcpConnecting, clientVars, history, kind, expected, got>>

\* The key is deleted, whichever client is under it by then.
KeyDeleted(r) ==
  /\ map' = 0 /\ awaited' = [awaited EXCEPT ![r] = 0]
  /\ lost' = lost \cup {c \in Clients : /\ c = map /\ live[c]
                                        /\ c \notin {awaited[r], mcpConnecting}}

FenceEnds(r) ==
  /\ pc[r] = "fenced"
  /\ KeyDeleted(r)
  /\ To(r, IF kind[r] = "call" THEN "done" ELSE "write")
  /\ UNCHANGED <<diskVars, up, hostVars, mcpConnecting, clientVars, kind, expected, got, mishaps>>

Wanted(r) ==
  CASE kind[r] \in {"enable", "reconnect"} -> TRUE
    [] kind[r] \in {"disable", "delete"} -> FALSE
    [] kind[r] = "save" -> intent.on

Save(r) ==
  /\ pc[r] = "write"
  /\ revs' = revs + 1
  /\ IF kind[r] = "rotate"
       THEN secret' = revs + 1 /\ UNCHANGED file
       ELSE file' = [on |-> Wanted(r), rev |-> revs + 1] /\ UNCHANGED secret
  /\ To(r, "commit")
  /\ UNCHANGED <<logVars, ackVars, undone, up, hostVars, map, mcpConnecting, clientVars, history,
                 kind, expected, got, mishaps>>

SaveFails(r) ==
  /\ pc[r] = "write"
  /\ To(r, "abort")
  /\ UNCHANGED <<diskVars, up, hostVars, map, mcpConnecting, clientVars, history,
                 kind, expected, got, mishaps>>

\* What follows the write of each route.
AfterWrite(k) ==
  CASE k \in {"disable", "reconnect", "rotate"} -> "cancel"
    [] k = "enable" -> "publish"
    [] k \in {"save", "delete"} -> "done"

\* Settings accepts the mcp.json it has just written.
Accepted(r) ==
  IF kind[r] = "rotate" THEN UNCHANGED <<watch, drifted>>
  ELSE watch' = file.rev /\ drifted' = FALSE

\* The write is answered, and its route goes on.
Acknowledge(r) ==
  /\ IF kind[r] = "rotate"
       THEN rotated' = secret /\ UNCHANGED <<acked, by>>
       ELSE acked' = file.rev /\ by' = kind[r] /\ UNCHANGED rotated
  /\ Accepted(r)
  /\ queue' = Tail(queue)
  /\ expected' = [expected EXCEPT ![r] = gen]
  /\ To(r, IF kind[r] = "rotate" /\ ~file.on THEN "done" ELSE AfterWrite(kind[r]))

\* Defective: the answer does not wait for the commit line.
CommitLater(r) ==
  /\ pc[r] = "commit"
  /\ UNCHANGED <<intent, log>>
  /\ Acknowledge(r)
  /\ UNCHANGED <<file, secret, left, revs, undone, up, closing, gen, cancelled, map, mcpConnecting,
                 clientVars, history, kind, got, mishaps>>

Commit(r) ==
  /\ pc[r] = "commit"
  /\ intent' = NoIntent /\ log' = Appended("line")
  /\ Acknowledge(r)
  /\ UNCHANGED <<file, secret, left, revs, undone, up, closing, gen, cancelled, map, mcpConnecting,
                 clientVars, history, kind, got, mishaps>>

\* A commit line that is in the log closes the intent, answered or not.
CommitFails(r) ==
  /\ pc[r] = "commit"
  /\ \E stored \in Stored :
       /\ Failing(stored)
       /\ intent' = IF stored = "line" /\ log' = "whole" THEN NoIntent ELSE intent
  /\ To(r, "abort")
  /\ UNCHANGED <<file, secret, left, revs, ackVars, undone, up, hostVars, map, mcpConnecting,
                 clientVars, history, kind, expected, got>>

\* What an intent has kept is put back.
Restore(x) ==
  /\ file' = IF x.target = "config" THEN [on |-> x.on, rev |-> x.rev] ELSE file
  /\ secret' = IF x.target = "secrets" THEN x.rev ELSE secret

\* abort(), after a save or a commit that failed.
RollBack(r) ==
  /\ pc[r] = "abort" /\ log # "unreadable"
  /\ Restore(intent) /\ intent' = NoIntent /\ log' = Appended("line")
  /\ queue' = Tail(queue) /\ To(r, "done")
  /\ UNCHANGED <<left, revs, ackVars, undone, up, closing, gen, cancelled, watch, drifted, map,
                 mcpConnecting, clientVars, history, kind, expected, got, mishaps>>

\* abort() fails too: on reading the log, on restoring, or on its own line.
RollBackFails(r) ==
  /\ pc[r] = "abort"
  /\ \/ /\ log = "unreadable" \/ intent # NoIntent
        /\ UNCHANGED <<file, secret, log, mishaps>>
     \/ /\ log # "unreadable" /\ Restore(intent)
        /\ \E stored \in Stored \ {"line"} : Failing(stored)
  /\ left' = IF intent = NoIntent THEN left ELSE Append(left, intent)
  /\ intent' = NoIntent
  /\ queue' = Tail(queue) /\ To(r, "done")
  /\ UNCHANGED <<revs, ackVars, undone, up, closing, gen, cancelled, watch, drifted, map,
                 mcpConnecting, clientVars, history, kind, expected, got>>

-----------------------------------------------------------------------------
(***************************************************************************)
(* cancelMcpConnection() and what the routes do after it.                  *)
(***************************************************************************)
CancelDone(r) ==
  CASE kind[r] = "delete" -> "turn"
    [] kind[r] \in {"reconnect", "rotate"} -> "publish"
    [] kind[r] = "disable" -> "done"

\* After the key is gone.
AfterDrop(r) ==
  /\ To(r, CancelDone(r))
  /\ queue' = IF kind[r] = "delete" THEN Append(queue, r) ELSE queue

\* Defective: relies on the fence for the client in the map.
DropForgets(r) ==
  IF map = 0
    THEN AfterDrop(r) /\ UNCHANGED <<live, clientRetired, awaited>>
    ELSE /\ awaited' = [awaited EXCEPT ![r] = map]
         /\ To(r, "dropping") /\ UNCHANGED <<queue, live, clientRetired>>

\* The client in the map is disconnected, if there is one.
DropMap(r) ==
  IF map = 0
    THEN AfterDrop(r) /\ UNCHANGED <<live, clientRetired, awaited>>
    ELSE /\ Disconnected({map}) /\ awaited' = [awaited EXCEPT ![r] = map]
         /\ To(r, "dropping") /\ UNCHANGED queue

\* A connection in progress is waited for.
Cancel(r) ==
  /\ pc[r] = "cancel"
  /\ cancelled' = TRUE
  /\ IF mcpConnecting # 0
       THEN /\ To(r, "cancelling") /\ got' = [got EXCEPT ![r] = mcpConnecting]
            /\ UNCHANGED <<queue, live, clientRetired, awaited>>
       ELSE DropMap(r) /\ UNCHANGED got
  /\ UNCHANGED <<diskVars, up, closing, gen, watch, drifted, map, mcpConnecting, flow, clientGen,
                 clientRev, begun, lost, kind, expected, mishaps>>

\* It has ended; the client it has made is disconnected, ...
CancelEnds(r) ==
  /\ pc[r] = "cancelling" /\ flow[got[r]] \in {"published", "failed"}
  /\ IF flow[got[r]] = "published"
       THEN Disconnected({got[r]}) /\ To(r, "ending") /\ UNCHANGED <<queue, awaited>>
       ELSE DropMap(r)
  /\ UNCHANGED <<diskVars, up, closing, gen, cancelled, watch, drifted, map, mcpConnecting, flow,
                 clientGen, clientRev, begun, lost, kind, expected, got, mishaps>>

\* ... and then the one that is in the map by now.
Drop(r) ==
  /\ pc[r] = "ending"
  /\ DropMap(r)
  /\ UNCHANGED <<diskVars, up, closing, gen, cancelled, watch, drifted, map, mcpConnecting, flow,
                 clientGen, clientRev, begun, lost, kind, expected, got, mishaps>>

Dropped(r) ==
  /\ pc[r] = "dropping"
  /\ KeyDeleted(r)
  /\ AfterDrop(r)
  /\ UNCHANGED <<diskVars, up, closing, gen, cancelled, watch, drifted, mcpConnecting,
                 clientVars, kind, expected, got, mishaps>>

\* enable, reconnect and rotate end by bringing the server up again.
BringUp(r) ==
  /\ pc[r] = "publish"
  /\ IF kind[r] # "rotate" /\ (gen # expected[r] \/ ~file.on)
       THEN To(r, "done") /\ UNCHANGED <<cancelled, map, mcpConnecting, clientVars, got>>
       ELSE cancelled' = FALSE /\ Ensure(r, closing)
  /\ UNCHANGED <<diskVars, up, closing, gen, watch, drifted, queue, kind, expected, history, mishaps>>

(***************************************************************************)
(* A tool call: an edit outside Settings puts up the fence and refuses it. *)
(***************************************************************************)
Admit(r) ==
  /\ pc[r] = "admit"
  /\ IF watch \notin {0, file.rev}
       THEN /\ drifted' = TRUE /\ watch' = file.rev
            /\ Fence(r, IF map = 0 THEN "done" ELSE "fenced")
            /\ UNCHANGED <<map, mcpConnecting, flow, clientGen, clientRev, begun, got>>
       ELSE /\ watch' = file.rev
            /\ IF drifted \/ ~file.on
                 THEN To(r, "done") /\ UNCHANGED <<map, mcpConnecting, clientVars, got>>
                 ELSE Ensure(r, closing \/ cancelled)
            /\ UNCHANGED <<drifted, gen, cancelled, awaited>>
  /\ UNCHANGED <<diskVars, up, closing, queue, lost, kind, expected, mishaps>>

\* A route has its server; a call goes on to the journal and then to callTool().
Send(r) ==
  /\ pc[r] = "have"
  /\ To(r, IF kind[r] # "call" \/ clientRetired[got[r]] THEN "done" ELSE "sent")
  /\ UNCHANGED <<diskVars, up, hostVars, map, mcpConnecting, clientVars,
                 kind, expected, got, history, mishaps>>

Answered(r) ==
  /\ pc[r] = "sent" /\ To(r, "done")
  /\ UNCHANGED <<diskVars, up, hostVars, map, mcpConnecting, clientVars,
                 kind, expected, got, history, mishaps>>

\* POST acknowledge-drift.
AcknowledgeDrift ==
  /\ up /\ drifted
  /\ watch' = file.rev /\ drifted' = FALSE
  /\ UNCHANGED <<diskVars, up, closing, gen, cancelled, queue, map, mcpConnecting, clientVars,
                 requestVars, history, mishaps>>

-----------------------------------------------------------------------------
(***************************************************************************)
(* close(), crashes, and edits outside Settings.                           *)
(***************************************************************************)
Close(r) ==
  /\ pc[r] = "close"
  /\ closing' = TRUE /\ cancelled' = (cancelled \/ mcpConnecting # 0)
  /\ To(r, "draining")
  /\ UNCHANGED <<diskVars, up, gen, watch, drifted, queue, map, mcpConnecting, clientVars,
                 kind, expected, got, history, mishaps>>

Closed(r) ==
  /\ pc[r] = "draining" /\ mcpConnecting = 0
  /\ Disconnected({map} \ {0}) /\ map' = 0
  /\ To(r, "done")
  /\ UNCHANGED <<diskVars, up, hostVars, mcpConnecting, flow, clientGen, clientRev, begun,
                 kind, expected, got, history, mishaps>>

Writing(r) ==
  pc[r] \in {"write", "commit", "abort"} \/ (pc[r] = "fenced" /\ kind[r] # "call")

\* Not during a write, which would overwrite it.
Edit ==
  /\ Mishap
  /\ \A r \in Requests : ~Writing(r)
  /\ revs' = revs + 1
  /\ \E b \in BOOLEAN : file' = [on |-> b, rev |-> revs + 1]
  /\ UNCHANGED <<secret, logVars, ackVars, undone, up, hostVars, map, mcpConnecting, clientVars,
                 history, requestVars>>

\* What is in memory is gone, and the server processes with it; the line that is
\* being appended may be torn.
Crash ==
  /\ up /\ Mishap
  /\ up' = FALSE /\ map' = 0 /\ mcpConnecting' = 0 /\ queue' = <<>>
  /\ flow' = [c \in Clients |-> IF flow[c] = "none" THEN "none" ELSE "failed"]
  /\ live' = [c \in Clients |-> FALSE]
  /\ pc' = [r \in Requests |-> IF pc[r] = "idle" THEN "idle" ELSE "done"]
  /\ closing' = FALSE /\ gen' = 1 /\ cancelled' = FALSE /\ watch' = 0 /\ drifted' = FALSE
  /\ \/ UNCHANGED log
     \/ /\ \E r \in Requests : Turn(r) \/ pc[r] \in {"commit", "abort"}
        /\ log' = Appended("half")
  /\ UNCHANGED <<file, secret, intent, left, revs, ackVars, undone, history, clientGen, clientRev,
                 clientRetired, begun, kind, expected, got>>

\* The host comes up when no intent is open in a log that can be read.
Start ==
  /\ ~up /\ log # "unreadable" /\ left = <<>> /\ intent = NoIntent
  /\ up' = TRUE
  /\ UNCHANGED <<diskVars, hostVars, map, mcpConnecting, clientVars, history, requestVars, mishaps>>

\* recover(), one open intent at a time: the file is restored, the intent closed.
\* After the last one the host is up, and its log not read again.
Recover ==
  /\ ~up /\ log # "unreadable" /\ (left # <<>> \/ intent # NoIntent)
  /\ IF left # <<>>
       THEN Restore(Head(left)) /\ left' = Tail(left) /\ undone' = TRUE /\ UNCHANGED intent
       ELSE Restore(intent) /\ intent' = NoIntent /\ UNCHANGED <<left, undone>>
  /\ log' = Appended("line")
  /\ up' = (left' = <<>> /\ intent' = NoIntent)
  /\ UNCHANGED <<revs, ackVars, hostVars, map, mcpConnecting, clientVars, history, requestVars,
                 mishaps>>

\* The line of the abort fails, and with it the start.
RecoverFails ==
  /\ ~up /\ log # "unreadable" /\ (left # <<>> \/ intent # NoIntent)
  /\ IF left # <<>>
       THEN Restore(Head(left)) /\ undone' = TRUE
       ELSE Restore(intent) /\ UNCHANGED undone
  /\ \E stored \in Stored \ {"line"} : Failing(stored)
  /\ UNCHANGED <<intent, left, revs, ackVars, up, hostVars, map, mcpConnecting, clientVars, history,
                 requestVars>>

-----------------------------------------------------------------------------
\* What goes on by itself.
Progress ==
  \/ \E r \in Requests :
       \/ Begin(r) \/ BeginFails(r) \/ FenceEnds(r) \/ Save(r) \/ SaveFails(r)
       \/ Commit(r) \/ CommitFails(r) \/ RollBack(r) \/ RollBackFails(r)
       \/ Cancel(r) \/ CancelEnds(r) \/ Drop(r) \/ Dropped(r) \/ BringUp(r) \/ Admit(r) \/ Send(r)
       \/ Answered(r) \/ Close(r) \/ Closed(r)
  \/ \E c \in Clients :
       LoadConfig(c) \/ Build(c) \/ Listed(c) \/ ListFails(c) \/ Publish(c) \/ GiveUp(c)
  \/ Start \/ Recover \/ RecoverFails

Next ==
  \/ Progress
  \/ \E r \in Requests, k \in Kinds : Arrive(r, k)
  \/ AcknowledgeDrift \/ Edit \/ Crash

Spec == Init /\ [][Next]_vars
FairSpec == Spec /\ WF_vars(Progress)

-----------------------------------------------------------------------------
(***************************************************************************)
(* Properties.                                                             *)
(***************************************************************************)
Quiet ==
  /\ \A r \in Requests : pc[r] \in {"idle", "done"}
  /\ mcpConnecting = 0 /\ up

Kept == Clients \ lost

\* The server has one process at most, whoever brings it up while others fence,
\* cancel or replace the client of before, but for the client whose key was
\* deleted by one that waited for another's end.
OneKept == \A c, d \in Kept : live[c] /\ live[d] => c = d

\* When nothing is under way, no process is left of a host that was closed, nor,
\* of a server that Settings disabled, one that runs under the configuration the
\* disabling replaced, with the same exception, however that raced enabling,
\* reconnects, calls and edits.
DisabledKeepsNone ==
  Quiet =>
    /\ closing => \A c \in Kept : ~live[c]
    /\ file.rev = acked /\ by = "disable" =>
         \A c \in Kept : live[c] => clientRev[c] > acked

\* A write that was answered is not undone by the failure of another, by a crash
\* or by a restart, unless this one restored a write whose own failure had left
\* its intent open.
AnsweredStays == ~undone => file.rev >= acked /\ secret >= rotated

\* Every request is answered: again and again there is none under way (each comes
\* once), whatever fences, waits for connections and turns it met.
EveryRequestEnds == []<>(\A r \in Requests : pc[r] \in {"idle", "done"})

\* "exactly one process/HTTP session exists per (workspace, server)": TLC finds two.
OneProcess == \A c, d \in Clients : live[c] /\ live[d] => c = d

\* A server that Settings disabled has no process of the configuration that was
\* replaced: TLC finds one.
DisabledIsDown ==
  Quiet /\ file.rev = acked /\ by = "disable" =>
    \A c \in Clients : live[c] => clientRev[c] > acked

\* An answered write is in the file: TLC finds one undone.
AckedSurvives == file.rev >= acked /\ secret >= rotated

\* A write that a crash cut in half is put back by the next start, which needs a log
\* it can read: TLC finds one it cannot.
HalfAppliedIsRestored ==
  ~up /\ intent.target = "config" /\ file.rev # intent.rev => log # "unreadable"

\* Once a save of the configuration was answered, no call goes out on a client
\* that was built from what it replaced: TLC finds one.
NoDispatchUnderOldConfig ==
  [][\A r \in Requests :
       by = "save" /\ pc[r] = "have" /\ pc'[r] = "sent" => clientRev[got[r]] >= acked]_vars
=============================================================================
