# Formal models of dnt-harness

This directory holds the verification development of the durable agent harness
in this repository: TLA+ modules translated from the TypeScript under `src/`,
TLC configurations that model-check them on small instances, and proofs that
TLAPS checks for every value of the constants.

    tlc -workers 2 -config SessionLog.cfg SessionLog     # one run
    tlapm SessionLogProofs.tla                           # one proof module

`PROJECT.json` lists the components, the runs with their properties, for each
property a mutant of the code that violates it, the source lines every
definition stands for, the findings, the hazards and the theorems.

1. [The system](#1-the-system) · 2. [Plan](#2-plan) ·
3. [The modules](#3-the-modules) · 4. [The runs](#4-the-runs) ·
5. [What is proved](#5-what-is-proved) · 6. [Findings](#6-findings) ·
7. [Limits](#7-limits)

## 1. The system

dnt-harness is one Node process. Layer 0 is a plugin kernel; layer 1 the agent
harness (session log, agent driver, tools, approval, delegation, workspaces,
modes, MCP, memory, skills); layer 2 the file and shell tools; layer 3 a web host
that exposes it all over HTTP and server-sent events. JavaScript runs one thing
at a time, so what interleaves is *what runs between two awaits*: HTTP requests,
the driver loops of agents, timers, promise continuations, I/O completions. The
process may be killed at any await, the machine may stop, and other processes
may open the same directory.

Parts, the state they keep, and what makes them correct. "Module" is where they
are modelled; a dash means that it is not (`PROJECT.json` says why).

| Part (source) | State | Operations | Hard because | Correct when | Module |
|---|---|---|---|---|---|
| Session (`harness/session/session.ts`) | log, write chain, poisoned flag | `append`, `durable` | an append returns before its write; a failed write poisons later | `durable` vouches only for what is on disk | SessionLog |
| File store (`harness/storage`) | `events.jsonl`, writer chain per session | append, flush, read, repair the end | crash between write and fsync, torn lines, failed writes | the file is a prefix of the memory; repair loses nothing promised | SessionLog |
| Sessions service (`session/service.ts`) | map of sessions, summaries, loads and deletions under way | create, load, recover, canonical read, delete, summaries, boot, close | recovery interrupted by a crash; reads, loads and deletions racing writes | each open fact is closed once; a fact declared absent stays absent; a deletion is final; the listing is true | SessionLog, SessionCatalog |
| Agent driver (`harness/agent/agent.ts`) | inbox, claimed inputs, run, abort | `run`, `turn`, `step`, stop, steer, hand back | stop, steer and new input at every await | an input runs once; no effect before its record; transcripts close; runs end | AgentTurn |
| Acceptance (`web/server.ts`, messages, steer, stop) | none of its own | accept, adopt, dispatch | state read before `durable()` and used after | accepted input is neither lost nor stranded | AgentTurn |
| Approval (`approval/policy.ts`, `tools/service.ts`, answer and mode routes) | open questions, timers, the conversation's mode | ask, answer, expire, cancel, re-evaluate, final gate | two answers, a timer, a stop and a mode change for one question | settled once; a body runs on a recorded permission of someone entitled | Approval |
| Child executor (`agents/executor.ts`, `agent-delegation.ts`) | active children, reservations, slots, queues, closing turns | spawn, dispatch, cancel, finish, reconcile, close, release, restart | a three-step durable spawn, cancelled or failing inside; repair racing settlement | capacity is exact; nothing runs unrecorded; one true result per child; turns end | ChildExecutor |
| Workspaces (`workspace/service.ts`) | records, project roots | create, delete, bind | check, await, write | no overlapping roots | - |
| MCP client (`mcp/client.ts`) | transport, breaker, timers, callers | connect, call, health check, refresh, recover, disconnect, retire | late answers, failing handshakes, reconnects racing a fence | calls end; only a recovery leaves a process behind; a fenced client starts none | McpClient |
| MCP execution journal (`execution-journal.ts`, `execution-coordinator.ts`) | journal file, objects, fault file | open, intent, dispatch, terminal, repair | crash, failed or torn append between intent and answer; two first calls | an effect has an intent on disk; what the model is told is on record | McpJournal |
| MCP host, mutation store (`web/server.ts`, `mutation-store.ts`) | desired state, intents and backups, clients, connections, generation | write, enable, disable, reconnect, rotate, call, fence; begin, commit, abort, recover | fence against connections under way; crash between save and commit; an abort that fails | a disabled server keeps no process; an answered write stays | McpHost |
| MCP lock (`ownership-lock.ts`) | lock file, heartbeat | acquire, release | two hosts, non-atomic create | one owner | - |
| Plugin kernel (`kernel/`) | entries, services, listeners, fibers | mount, provide, flush, restart, dispose | nested flushes | the program mounts once and disposes once | - |
| Processes, terminals (`processes/registry.ts`, `web/terminals.ts`) | process table, sockets, idle timers | register, kill, exit, dispose; attach, detach | exit, error and kill racing | one terminal status per process, truthful | - |
| Context, compaction (`context/`, routes and listener of `web/server.ts`) | checkpoint files, manifests | build, trim, compact by hand or when a turn settles | the log moves while a summary is made; crash between file and log; the driver waits | nothing is forgotten silently; no more is dropped than needed; a checkpoint stands for what it was made from | Context |
| Event stream (`web/server.ts`, `src/web/hooks/useSessionStream.ts`) | subscriptions; transcript, batch and cards of the page | replay, relay, resume, snapshot, reconcile | drops, refusals, restarts that lose records, decisions while the page is away | the page shows the history and the open questions, and catches up | EventStream |
| File tools (`capabilities/fs`) | observed versions, grants | read, write, edit | another writer between observation and write | an edit never overwrites what was not seen | - |
| Modes, guard, hooks, memory, skills, prompts, attachments, LLM seam, auth, binaries | files and caches | | mostly parsing and I/O | | in part in Approval and AgentTurn, otherwise - |

How they interact. A request appends to a *session* and waits for `durable()`;
then it puts the input into the *agent*'s inbox. The agent's loop turns inputs
into records, waits for them, streams a reply and prepares its tool calls through
*tools service* and *approval*, which records the request and the decision in the
same session and waits again. The delegation tool calls the *child executor*,
which writes to the logs of the child and of its root and starts another agent.
At the end of a turn the host's listeners close the executor's turn and wait for
its children before `turn/end` is written; once it is, `recordTurnEnd` waits for
the listeners of `agent/turn-settled`, of which one may compact the log. A call of
an MCP tool goes through the journal and the client of its server, which the host
connects on demand and fences when the configuration changes. The page of a
conversation folds what the event stream replays and relays. Everything goes through the log: the
log is the shared state the modules agree on, and `durable()` the barrier at
which one component may rely on another.

## 2. Plan

In this order; "done" is in this directory.

1. **EventLog, DurableLog, SessionLog** (done): everything else relies on
   `durable()`. Abstract specification DurableLog, refinement checked
   (`KeepsPromises`), safety proved.
2. **AgentTurn** (done): the driver and acceptance over an abstract session: a log
   with a durable prefix that breaks at most once.
3. **Approval** (done): who may let a call run.
4. **ChildExecutor** (done): delegation over the logs of a root and its children.
5. **McpClient**, **McpHost**, **McpJournal** (done): one MCP server seen from its
   client, from the host's routes and from the file of evidence.
6. **SessionCatalog** (done): listing, loads, deletion and shutdown.
7. **EventStream** (done): the conversation and the page that shows it.
8. **Context** (done): windows, trimming, checkpoints and both compactions.
9. Not written: **Workspaces** (overlapping roots under concurrent requests),
   **ProcessRegistry** and **Terminals** (one status per process), **Observations**
   (a file edited between read and edit), **OwnershipLock** (two hosts).

Each module has one passing run with its properties, at bounds where every action
fires and which ends within minutes. Two more runs show what the documents say and the
code does not do; other such formulas have a configuration each, in section 6.

Theorems, in order of worth. Done: the durability of the log, that what a canonical
read missed stays missing, that recovery closes everything once, and that SessionLog
implements DurableLog; the five safety properties of AgentTurn; that McpJournal stays
readable and implements CallEvidence; `RunsOnRecord` and `RunsByAuthority` of Approval;
`OrphansAreForgotten` and `FencedStartsNothing` of McpClient; `AnsweredStays`, `OneKept`
and `DisabledKeepsNone` of McpHost; the three safety properties of SessionCatalog and the
three of ChildExecutor; the two of EventStream; the three of Context: every safety
property that a passing run checks. Left to TLC: liveness (the end of section 5).

## 3. The modules

**Subsequences** - the elements of a sequence at some of its positions, in order: the
filter that `recover` and `pendingInputs` apply to a log, and `removeQueued` to the
queues of the executor (`Without`). It is written by rank,
because the provers know nothing of SelectSeq and cannot do induction.

**EventLog** - records and files as data: what a log leaves open, the records that
close it (`SessionsService.recover`), what reading a file yields when its last
line is torn or lacks its newline (`readEventLog`, `terminateLastLine`). Records
are a type and an identity; payloads play no part.

**DurableLog** - the abstract specification: a log that grows, a prefix of which is
promised, restarts that cut it but never inside what was promised and close what
the cut left open.

**SessionLog** - one session on one disk.

| State | Code |
|---|---|
| `file`, `tail`, `synced` | `events.jsonl`: its lines, the shape of its end, how many are past an fsync |
| `log`, `base`, `poisoned` | `Session.log`, `adoptHistory`, `poisonedError` |
| `written`, `inflight`, `tailFailed` | `Session.writeTail`: the promise chain of the session |
| `writerFailed` | `FileSessionStore.writers`: the chain of the session id, which outlives the Session |
| `waiting`, `probe` | `durable()` and `readCanonicalEvents()` calls under way |
| `phase` | down, listed, recovering, live |
| `acked`, `said`, `missing`, ... | history, read by no action of the program |

Actions are the steps of a write (`StartWrite`, `WriteDone`, `SyncDone` and their
failures), the two ends of a barrier, of a canonical read and of a load, a crash
of the process or of the machine with any part of the unsynced bytes lost, and
the boot of the next process. An action is what runs between two awaits.

**AgentTurn** - one root agent with its requests. `pc` names the await on which
`Agent.run`/`turn`/`step` is parked; `inbox`, `claimed`, `aborted`, `cause` and
`steering` are fields of Agent; `request` is the progress of each submission
through `acceptMessage`, with `stale` the pending inputs it read before its
await. The session appears as `log`, `onDisk`, `broken`, `poisoned`, the view
SessionLog justifies: appends are remembered at once, become durable in order,
and after a failed write no barrier resolves again.

**Approval** - root conversations and their children, one call each. `phase` is
where the preparation of the call is parked (`tools/pre-execute`, the open
question, the record of its decision, the final gate, the body); `mode` and
`selecting` are the snapshots of the conversation; `reading`, `winner` and
`widen` belong to the answer route. A child is governed by the mode of its root.

**ChildExecutor** - roots, turns and children. `spawn`, `finish`, `repair` and
`turn` name the awaits of the executor's asynchronous functions for each child or
turn; `active`, `reserved`, `attempts`, `lock`, `slots`, `pending` and `runnable`
are its fields; each root has a log with a synced part, a part in the file and a
writer. A failed write leaves its record possibly in the file (`writer` is then
not `sound`), which is why a repair has to read before it writes. A restart keeps
what is in the files and rebuilds the rest (`recoverFromStorage`).

Assumptions of ChildExecutor, all of them stated in the module: the spawns of a
conversation turn are tool calls and come one at a time; a read of a file never
overtakes one asked for earlier (`OrderedReads`; with FALSE, `CapacityExact`
fails, see the hazards); the canonical read of a log may fail once a write of
that log has; a child frees its slot in the step that ends its run.
`keepOpen` batches and `forgetRoot` are left out.

**SessionCatalog** - one conversation in the registry. The log is the number of its
synced records (SessionLog has the rest); `dir`, `log` and `sum` are what is on
disk, `known` the listed summary. `loader`, `writer`, `del` and `host` name the
awaits of a load, of the summary writer, of `delete()` and of `closeStores()`.
Its hazard is order: everything that can write the directory again meets a
deletion, everything that can reach the store meets its closing. `Served` is what the
listing shows: of a session in memory a summary of its memory, otherwise `known`. A
start that cannot write a summary it rebuilt leaves the session out (`hidden`).

**EventStream** - `history`, `asked` and `phase` are the host's; `open` and `wire` the
connection, a queue of frames that a drop loses; `shown`, `batch`, `seen` and
`cards` what `useSessionStream` holds. A frame is handled as one action, with the
cards it adds and takes away; a paint flushes the batch. A resume replays from
the id the browser names when the log still reaches it, otherwise a snapshot is
taken. A question of a child is not in this log and reaches the page by frames. A
record is broadcast when it is appended, so a `Restart` may drop any record that was not
synced, shown or not, and the next host numbers its own from there; `lost` remembers
them, by their place. A connection may be refused for good (`gone`).

**McpClient** - one server over standard input and output. `at` is the await each
user of the client is parked on: tool calls, the first listing, the recovery, a
health check and the refresh a notification asks for. `transport` is the one
`McpServerClient` refers to, `child` and `stopped` those of every transport built;
a connection that settles resumes all who wait for it in one step, as promise
continuations do. A recovery that has awaited the stop of the transport it found lets
go of whatever transport the client has by then; `forgotten` remembers which one.

**McpHost** - the routes of one server. `pc` is the await of a request, `flow` that
of a connection (`ensureMcpServer`), `queue` the order of desired-state writes,
`file` and `secret` the two files, each content with its number (`rev`). Of the
mutation log the module keeps the intent of the write under way (`intent`), those that
failed writes have left open (`left`) and what its lines are fit for (`log`: empty,
whole, torn at the end, or unreadable, when a line was glued to a torn one). Each
append of `begin`, `commit`, `abort` and `recover` may fail, having stored its line,
half of it or nothing. `map` is the client under the server's key, `live` and
`clientRev` say of every client whether its process runs and which contents it came
from. The end of a disconnect deletes the key, whoever is under it by then
(`KeyDeleted`). A crash ends the process; `Recover` restores the open intents one at a
time, and the host comes up behind the last. The server may be up when a behaviour
begins. A rotation of secrets leaves the drift of `mcp.json` as it was (`Accepted`);
enable, reconnect and rotate take back a cancellation before they connect (`Ensure`).
`undone`, `awaited` and `lost` are history: whether a restart has restored an intent of
a failed write, the client a fence or cancel waits for, and the clients whose key was
deleted over them.

**McpJournal** - `file` is the lines of `executions.jsonl`, `half` whether it ends in
half a line; journal objects append one record at a time. A failed append leaves
nothing, the record or half of it; an object that failed is poisoned, and what is
queued behind the failed append is written all the same. An object enters the map
(`current`) only when it is open, so that a second may be opened beside it. A crash
while the file is rewritten without a torn line leaves any beginning of it
(`CutShort`). `orderly` is history: none of these three accidents has happened.

**CallEvidence** - the abstract specification of the journal: a call is recorded
before it is sent, its outcome is recorded once and never revised, and the model
is told what is on record. McpJournal implements it under the mapping `Recorded`,
which reads a call's state off the lines of the file.

**Context** - what a request of a turn is assembled from. `events` keeps messages and
the ends of turns; `request` is what `buildContext` returned, with the omissions
its manifest states; `job` is the compaction under way of each trigger; `files`
the checkpoints by the number in their name. A message, a source and a summary
cost one unit each. A summary is the messages it was made from; a summarizer is given
the first `MaxInput` at most (`SummaryInput`), whatever the summary then replaces.
AgentTurn takes the listeners of `agent/turn-settled` as prompt; here they are
not: the driver is `settling` while an automatic compaction runs.

**MCApproval**, **MCChildExecutor** - the families, modes, kinds of call, turns and
children of the runs. The other modules are instantiated by their `.cfg` alone. No symmetry is used: with liveness properties it would be unsound.

## 4. The runs

Ten passing runs, one for each module; between them they fire every action.

**session_log** - one session, two caller records out of three types, two
barriers at a time, two crashes and one failed operation.
`AckedSurvives`: what `durable()` vouched for is in synced lines, in order, across
crashes. `FileIsPrefixOfMemory`: whatever tore or failed, the file of a loaded
session is a prefix of its log. `MissingStaysMissing`: a canonical read that did
not find a fact is right for good. `RestartClosesOnce`: recovery, itself
interrupted or not, closes everything open and nothing twice. `BarriersSettle`:
no `durable()` hangs. `KeepsPromises`: SessionLog implements DurableLog under the
mapping of `log` and `acked`. Two crashes are what it takes to interrupt a
recovery and recover again; two records what it takes for one to be queued behind
a failing one.

**agent_turn** - two submissions, up to two replies of zero or two calls, two
intents (stop, steer, retry), one storage failure. `InputRunsOnce`,
`IntentBeforeEffect`, `TranscriptCloses`, `NothingStranded`, `StopNeverAdvances`,
`AbortSettles`. Two calls in one reply let a stop fall between them; two inputs
let one wait while the other runs.

**approval** - a root and its child, modes that allow, ask and deny, a plain call
and one outside the granted folders, one mode selection, two answers at once.
`RunsOnRecord`: a body runs only on a permission that is on disk. `RunsByAuthority`:
somebody entitled gave it, a mode or an answer, whoever else was answering.
`EveryCallEnds`.

**child_executor** - a conversation turn with two children and an HTTP delegation
with one, of the same root, over one slot and a reservation limit of two, one
failed write, two spawns and one restart. `CapacityExact`, `RunsOnCommit`,
`CompletedIsTrue`, `ComesToRest`.

**session_catalog** - three records, two failed file operations, one crash.
`DeletedStaysDeleted`, `ListedIsTrue`, `QuietAfterClose`, `SummaryCatchesUp`. Three
records are what it takes for a third prefix to become durable while the writer
writes the first and the second waits; two faults let a recovery fail after a
write did. `ListedIsTrue` is about what the listing serves: what is stored of a session
counts no record that is not in the synced log, and what is shown of one in memory
counts more only while records wait to be written or have failed to be.

**event_stream** - four records, a question of the conversation and one of a child,
one dropped connection and one restart that may lose records. `ViewIsHistory`: what is
shown is the history, record by record; where it differs, the record went with a host.
`CardsAgree`: the conversation's own questions that can be answered are on display, and
none is whose decision the page was given. `ViewCatchesUp`, unless the page is refused.
Four records hold a question, its decision, the end of the turn and something after.
None of this holds of the questions of children: section 6 has two configurations.

**mcp_client** - one call with the first listing, health checks, refreshes and the
recovery, three transports, a breaker that opens after two failures. `OrphansAreForgotten`:
a process nobody has told to stop is the one the client refers to, or one a recovery let
go of. `FencedStartsNothing`: once a fenced client is disconnected nothing runs or
starts, but for those. `EveryCallEnds`. Three transports let a replaced one be replaced
again.

**mcp_host** - two requests of any kind on a server that is up or down, and either a
call between them or two mishaps, each an edit outside the program, an append to the
mutation log that fails, or a crash. `OneKept`: the server has one process at most, but
for a client whose key the end of another's disconnect deleted. `DisabledKeepsNone`:
with nothing under way, a disabled server runs nothing of the configuration that was
replaced and a closed host nothing at all, with the same exception. `AnsweredStays`: an
answered write is undone only by a restart that restores a write whose own failure had
left its intent open. `EveryRequestEnds`. Two requests let a write meet a call, a call a
call, and a write another write whose commit fails; the call between lets a connection
begin after the fence of one write and be published into the cancel of the other. Two
mishaps let an abort that failed meet a restart, or an edit meet either. Requests are
numbered as they arrive, which loses nothing; with four connections no request waits
for the bound.

**mcp_journal** - two calls and the repair, four journal objects, two failed
appends, two crashes. `ReadableInOrder`: the next process can read the file, whatever
tore. `KeepsEvidence`: McpJournal implements CallEvidence. Both hold up to the first
of three accidents the code does not guard against: a second opening beside the first,
an append that fails with others behind it, a crash in the middle of a rewriting. Two
faults and two crashes let a repair, or the closing of what a dead process left, fail
in its turn.

**context** - every history setting, requests with two optional sources, two budgets,
five turns, compactions and crashes altogether, one tool call, a tail of one turn.
`NothingForgotten`, `TrimsLeast`, `CheckpointsTrue`, `CompactionEnds`. Five of them
hold a compaction, turns beyond its tail and another compaction, or a crash
between; the budgets make some requests drop sources, some drop turns, and some
refuse. A summarizer is given three messages at most, which some conversations exceed.

The other two runs each show one violation; see section 6. They use the module of a
passing run with other bounds, and the same actions.

Deadlock is not checked: every run has bounds on requests and faults, and an idle
system is one nobody asks anything of. What must not stop is stated as liveness.

**Fairness.** Weak fairness of the steps the runtime itself takes, because the event
loop runs every ready callback: the next write of a chain, the completion of a
write and its fsync, the settlement of a barrier or of a load (SessionLog); the
driver's continuation, the storage and the answer to a request (AgentTurn);
storage, the continuation of a call and the expiry timer of a question
(Approval). In ChildExecutor one condition over all such steps (`Progress`): the
process does not idle while one of its own steps can be taken, in whatever order.
Nobody has to send, answer, stop, cancel, spawn, repair or select, and no fault or
crash has to happen. SessionCatalog: the summary writer, the write chain, barriers, loads, deletions and
the shutdown each go on. EventStream: the browser reconnects unless it was refused,
the connection delivers, the page paints. McpClient: every request and every handshake has a
timeout, so each comes to an end. McpHost: one condition over its steps, as in
ChildExecutor. Context, in its passing run: the disk syncs and a compaction goes
on, which takes a provider that answers or fails; `SilentSpec` drops that and adds
the driver. AgentTurn does not assume that a provider answers (its
watchdog ends a silent stream), that anybody decides on an approval, nor that a
tool body returns before it has been told to stop (`WaitsOnOthers`); it is assumed
to return then. ChildExecutor assumes that the run of a child ends: an agent's run
ends when it is stopped (`AbortSettles`), and otherwise when its tools return.

## 5. What is proved

`EventLogProofs`: what recovery appends, for every log. `LeastNat` (every non-empty
set of naturals has a least element, from the well-foundedness of `<`) stands in for
induction; from it come the facts about ranks (`NthHasRank`, `NthOfRest`) that locate
each closing record in the tail (`TailInOrder`). Then: recovery closes every opening
(`RecoveredCloses`), adds no second record under an identity (`RecoveredDistinct`),
and is resumable (`RecoveredAgain`): whatever part of the closing records reached the
file before a crash, the next recovery appends the others in the same order, so the
log comes out the same.

`SessionLogProofs`, for every choice of `Types`, `Ids` and bounds that satisfies
`LogAssumption`, and for `ShortWrites = FALSE`:

- `Invariance`: `IInv` is inductive;
- `TypeCorrect`: `Spec => []TypeOK`;
- `AckedIsSafe`: `Spec => []AckedSurvives`;
- `FileIsPrefix`: `Spec => []FileIsPrefixOfMemory`;
- `HistoryInvariance`: `HInv` holds as well;
- `MissingIsFinal`: `Spec => []MissingStaysMissing`;
- `ClosedOnce`: `Spec => []RestartClosesOnce`;
- `Refinement`: `Spec => KeepsPromises`, SessionLog implements DurableLog.

The argument. `AckedSurvives` alone is not inductive: a barrier may vouch for a
record only because the chain is healthy and has written everything before it.
`IInv` therefore adds how the file relates to the memory while a Session exists
(`FileFollowsLog`: what was written and at most one record more) and what a
healthy writer leaves behind (`WriterState`: a clean end and no extra record).
From these, a barrier that resolves vouches for a prefix of the synced lines
(`VouchedOnDisk`); a write extends the file by the next record of the log; a
failure breaks both chains, so nothing is added after it; a repair returns the
same lines (`ReadFacts`) with a clean end; a crash keeps at least `synced` of
them. One lemma per action, combined in `Invariance`.

`HInv` adds the past. An identity names one fact of each type (`OneRecordEach`), so a
record declared absent is at one place of the log; the read that declared it absent
had waited until the chain was broken, so no process that remembers it writes again
(`MissingInMemory`), and a later process neither mints its identity nor writes it
during recovery (`MissingIsKnown`). `ComesFromSaid` says that between a crash and the
end of the next load the file is n records of the log cut off, n covering everything
promised, and a beginning of the records recovery adds to those n. It survives crashes
during recovery because of `RecoveredAgain`, and it is what makes the end of a load a
`Restart` of DurableLog; an append is its `Say`, a barrier that resolves its `Promise`,
and every other step a stutter.

The assumption on `write()` is real: with `ShortWrites = TRUE` TLC finds
`AckedSurvives` violated, since the code ignores the number of bytes stored.

`McpJournalProofs`, for any set of calls and any number of journals, faults and
crashes, with no hypothesis: `AlwaysReadable` (`ReadableInOrder`) and `EvidenceKept`,
which is that McpJournal implements CallEvidence up to the first of the three accidents
(`KeepsEvidence`). What is invariant is `orderly => IInv`; that an accident is not taken
back is `OrderlySteps`. `IInv` relates four things. `OneJournal`: of all the
journals ever opened one is being opened or in use, so there is one writer.
`KnowsFile`: that one knows the length of the file, and the file ends with a whole
line when it writes; hence numbers have no gap. `QueueOK`: what waits to be written
belongs to a call that is waiting for it, or closes one a dead process left.
`CallsRecorded` and `CallsTold`: what the file says of a call at each point of its
progress. The refinement is by actions: a step of McpJournal either writes one line,
and a line is one thing recorded (`LineIsRecorded`), or sends, or tells, or is a
stutter of CallEvidence; that a call is closed only when the file holds an intent and
no outcome is what makes an outcome final. Each of the three accidents has to be
excepted: TLC shows what each does (section 6).

`ApprovalProofs`, for any sessions, modes and kinds of calls, with no further
hypothesis: `EffectsAreOnRecord` (`RunsOnRecord`), `EffectsAreAuthorised`
(`RunsByAuthority`) and `ForcedNeedsPerson` (a call no mode may release runs only on
the answer of a person). Neither property is inductive. `Explained` adds what the
log holds from the question on: the decision a call waits for is the record at its
barrier, so that it is on disk when the barrier is passed; `Authorised` carries who
let the call go on from the decision to the body; `Eases` says that a mode that is
still being selected counts already among those which admit the call, which is what
the re-evaluation of open questions relies on.

`McpProofs`, about McpClient, for any number of calls and transports and any threshold,
with no hypothesis: `OrphansAreTheRecoverys` (`OrphansAreForgotten`) and
`FencedStaysDown` (`FencedStartsNothing`). The invariant adds that only the connection
being made may start a process and that it is the current one, stopped, or let go of by
a recovery (`ConnectingIsCurrent`), that whoever waits for a `stop()` waits for a
transport that is stopped (`AwaitsStop`), and that a fenced client stays retired
(`FencedStays`). Without the exception both are refuted (section 6).

`McpProofs`, about McpHost, for any requests and any number of connections, edits,
failing appends and crashes, with no hypothesis. `AnsweredWritesSurvive` (`AnsweredStays`): its
invariant `RecordInv` is about the files only, and says that the writer is the head of
the queue with its intent on disk (`WriterOK`) and that neither the files nor that
intent are older than the last answers, unless a restart has restored what a failed
write left open (`RevsOK`). `OneServerProcess` (`OneKept`) and `DisablingHolds`
(`DisabledKeepsNone`) rest on `IInv`. It adds who owns a process: the client in the map,
the one being connected, or one whose key was deleted over it (`LiveOK`, `FlowOK`);
what a fence or a cancel waits for has been disconnected (`AwaitedOK`), so that a key
deleted at the end of that wait is nobody's or another client's; what was disabled is
off wherever it is kept, in the file or in an intent (`OffOK`); and a client of what was
replaced is one the disabling request still has to end (`DisabledOK`).

`ConversationProofs`, about SessionCatalog, for logs of any length and any number of faults and crashes:
`DeletionIsFinal` (`DeletedStaysDeleted`), `ClosedIsQuiet` (`QuietAfterClose`), and
`ListingIsTrue` (`ListedIsTrue`), with no hypothesis. The invariant
says of each asynchronous function what the steps behind it have established:
`DeletesInOrder` (a drained chain stays drained until the directory is gone, because
the session is closed and no load can begin), `LoadsInOrder`, `ListsInOrder` (what
the summary writer holds is never ahead of the log, and the memory never behind it) and
`EndsInOrder`.

`ConversationProofs`, about EventStream, for any number of records, questions, drops
and restarts, whatever records they lose: `PageIsTrue` (`ViewIsHistory`). That the page
shows a beginning of the history is not inductive, because what it shows next is on
the wire. `WireOK` says what is there: each frame starts at most one record after what
the page keeps and the frames before it bring, and an open connection brings the page
up to the host's log. The page may have come further than the log of the host that
follows; it then names an id that log does not have, is sent a snapshot, and keeps
nothing (`Base`), or the log has caught up and it keeps records that are `lost`.
`PageOK` relates what is shown, batched and seen.

`CardsAreTrue` (`CardsAgree`) compares the questions the host would take an answer for
with the page's cards. What holds between, of each question of the conversation
(`CardsInv`): the log has its request once it is raised and no decision before it, and
a decision that went with a host leaves the question settled (`RecordOf`); a question
whose decision the page has is not on display (`CardOf`), and no frame asks it after
its decision (`AboutOf`); one that can be answered is on display or asked by a frame,
behind which nothing on the wire takes it away (`Told`). `ReconcileIs` says what
reconciling with a piece of the log leaves on display, which is why `Reconcile` states
its result (the last event about a question decides) and does not fold over the events.
Of the questions of children nothing is proved: section 6 shows two ways they go wrong.

`ConversationProofs`, about Context, for any number of turns, compactions and crashes,
for any limit on the input of a summary, and with no hypothesis: `CheckpointsAreTrue`
(`CheckpointsTrue`, that a checkpoint was made from the first messages it stands for,
from all of them unless they are too many), `NothingIsForgotten`
(`NothingForgotten`) and `TrimsNoMore` (`TrimsLeast`). For the first, `FilesOK` and
`JobsOK` say that whatever a file or a running compaction stands for is on disk: a
compaction covers the log up to the end of a turn, waits for the disk before it asks
for the summary, and a crash cuts nothing that is on disk. `TurnsFirst` is needed
where a compaction begins: with no turn open and a log that is not empty, there is
an end to cover up to (`EndIsThere`).

The other two are about what `buildContext` computes, for any log the steps can leave.
`TurnsApart` says of such a log that turns do not overlap and hold every message
(`ApartKept` for each record appended, `PrefixApart` and `ReloadedShape` for a crash);
`LatestIs`, from the files, that a checkpoint that is read lies at the end of a turn.
Hence every place where a history may begin separates turns (`CutsCut`, `CutParts`),
and the window of each setting, the sources that are kept and the trimmed history are
what their lemmas say (`WindowIs`, `SourcesAre`, `HistoryIs`). `NothingForgotten` then
follows place by place. For `TrimsLeast` two facts are not obvious: the last place to
cut leaves exactly the open turn (`LastChoice`), so a request is refused only for that
turn; and the place before the last turn that was dropped is one that had been tried
and did not fit (`LastLostIs`), because between a message and a later turn there is an
end (`EndBetween`). The steps between the assembly and the answer leave the log alone.

`AgentTurnProofs`, for any inputs, limits, numbers of replies, calls and intents, and
a storage that breaks at any record, under `AgentAssumption` alone: `RunsOnce`
(`InputRunsOnce`), `IntentIsDurable` (`IntentBeforeEffect`), `TurnsClose`
(`TranscriptCloses`), `StopHolds` (`StopNeverAdvances`) and `IdleHasReason`
(`NothingStranded`). `Invariance` shows the inductive invariant `IInv`. Its parts
follow the questions:

- What a step adds to the log is one of a few shapes (`LogStep`), each tied to where
  the driver is (`Phase`). `Books` counts on them: turns begun and ended differ by
  whether one is open, calls are numbered by their order, and all but the one being
  made have exactly one answer. Hence what is true of the log when `turn/end` is
  recorded (`ClosesNow`); later records do not disturb it (`ClosedStays`).
- `IntentKnown`: at the await of an intent its record lies below the barrier.
- `StopInv` ties the user's last intent to the abort and to the reason for which the
  run was left: while a stop is in force a run that has not ended is aborted, and a
  run left `drained` had nothing but completed turns. A turn begins on a live
  controller only.
- `InputInv`, for `InputRunsOnce`. What waits in the inbox is accepted and unsettled,
  and a turn that has not yet admitted its inputs has none of them waiting as well
  (`Held`). The difficulty is `acceptMessage`, which adopts after its wait what was
  pending before it: meanwhile a turn may have settled some of that. `Overtaken` says
  when this can be: only for inputs the running turn has claimed, whose settlement
  lies behind the record the request waits for. Since the turn returns, and lets go
  of its inputs, only when that settlement is on disk (`Reached`), and the request's
  own record, being older, is then on disk too and its continuation has run, the
  request finds them claimed and leaves them alone. When the storage has broken no
  request goes on.

`ChildExecutorProofs`, for any roots, turns and children, limits, faults, spawns and
restarts: `RunningIsOnRecord` (`RunsOnCommit`) and `CompletionIsTrue`
(`CompletedIsTrue`) with no further hypothesis, `CapacityIsExact` (`CapacityExact`)
under `OrderedReads`. The first two follow from `IInv`, which speaks of each child:

- `SpawnKnown`: at which await of its spawn the parent's record may and must be in
  memory; before it nothing of the child is active or settled.
- `FinishKnown`: who waits for the record of a result has one in the log; who holds
  a slot has its spawn in the file, is out of `spawnAdmitted`, and stays active
  until it settles.
- `ResultKnown`: before the child's log is synced there is no result; a result that
  says completed was written when the child's `turn/end` was in its file and said so.
  A result follows its spawn in the log, so a file that was cut at a crash and still
  has the one has the other.
- `QueueOK`: what waits for a slot is on record and belongs to the root it waits
  under; the rotation has the roots with something waiting, once each. `RemoveQueued`
  is where this is at risk (`Dequeued`).
- `FilesOK`: a file is a beginning of its log, and holds nothing unsynced while its
  writer is sound, so a repair that reads nothing there may conclude that nothing was
  written.

Most steps leave the logs alone or add records that are no results; `LogKept` and
`NoNews` say so once, and `QuietStep` carries the invariant over them. A restart is
the long case: it keeps a prefix of every log and rebuilds status and ending from it.
`CapOK` counts: a reservation of a root belongs to an active child or to a spawn being
undone (`Held`), and a spawn parked at its commit is active or already on record
(`CapKnown`). A spawn that reads no record undoes itself and is the only one to
release it. That needs `OrderedReads`: a repair may otherwise have read earlier and
settle later, and with FALSE TLC refutes the property.

Model-checked only: every liveness property. Liveness under fairness, ENABLED,
induction over data and recursive operators are out of the prover's reach and stay
with TLC.

## 6. Findings

Places where TLC contradicts a comment, a document or the evident intent of the
code. Two are runs of `PROJECT.json`, which quotes them:

| Run | What happens |
|---|---|
| agent_turn_order | an accepted input that a stop handed back is in nobody's hands, and a newer one overtakes it |
| context_silent_summarizer | a provider that never answers a summary holds the agent's loop past a stop, because the driver waits for the compaction a settled turn set off |

Most of the next ones are why a property of section 4 carries an exception: they are
the formula without it. TLC refutes each with the configuration named.

    tlc -workers 2 -config McpClientOrphan.cfg McpClient

- `McpClientOrphan.cfg` (McpClient `NoOrphan`; src/src/harness/mcp/client.ts:718). A
  caller that comes in while a recovery waits for the old transport to stop connects a
  new one; the recovery lets go of it, and its process runs with nobody to stop it.
  connect() says 'A failed or dead transport is replaced, never abandoned: its process
  (and watchdog timers) would otherwise outlive the reference to it.'
  (src/src/harness/mcp/client.ts:771-772); a recovery awaits stop() of the transport it
  found (717) and then sets this.transport to undefined (718), whatever it is by then: a
  call or a health check that came in during the stop, up to two seconds, has put a
  transport of its own there, and that one's process runs on with nothing that refers to
  it.
- `McpClientFenced.cfg` (McpClient `FencedLeavesNothing`;
  src/src/harness/mcp/client.ts:681). The transport a recovery let go of starts its
  process after the client was fenced and disconnected. retire() says 'Further connects
  throw instead of spawning another process from the old config.'
  (src/src/harness/mcp/client.ts:661-662) and disconnect() 'Disconnect with verified
  subprocess cleanup.' (670); disconnect() stops this.transport only (681), and a
  connection a recovery has let go of (718) is not there any more: it spawns its process
  after the fence, from the configuration that was replaced.
- `McpHostOneProcess.cfg` (McpHost `OneProcess`; src/src/web/server.ts:1283). A
  connection comes up while a fence awaits the disconnect of the client before it; the
  fence deletes it from the map, and the next request starts a second process.
  ensureMcpServer() says 'Publish the promise synchronously before the first await:
  exactly one process/HTTP session exists per (workspace, server).'
  (src/src/web/server.ts:1408-1409); fenceWorkspace() awaits the disconnect of the
  client it found (1282) and then deletes whatever is under its key (1283): a connection
  put there meanwhile runs on with no key, and the next request starts another.
- `McpHostDisabledIsDown.cfg` (McpHost `DisabledIsDown`; src/src/web/server.ts:1283).
  The disabling's fence deletes the key over a client it has not disconnected; the
  cancel after it finds no client, and the process stays. cancelMcpConnection() says
  'Cancel/await an in-flight or connected server, then remove descriptors.'
  (src/src/web/server.ts:1245), and disabling relies on it; the fence of the write
  before it, or another cancel, deletes the key of a client it has not disconnected
  (1283, 1255), and the cancel then finds nothing under it: the process of the disabled
  server stays.
- `McpHostAckedSurvives.cfg` (McpHost `AckedSurvives`; src/src/web/server.ts:1310). The
  abort of a failed write fails as well; a later write is answered, and the next start
  restores what the first one had replaced. The test 'keeps a committed write and rolls
  back only the one left open' (src/tests/web/mcp-desired-state.spec.ts:113) says what a
  restart may undo; abort() in the error path of writeDesiredState() may fail itself
  (mutation-store.ts:59-70), the request fails with the intent left open, later writes
  are answered, and recover() (76-94) puts the old bytes of the failed write over them.
- `McpHostHalfAppliedIsRestored.cfg` (McpHost `HalfAppliedIsRestored`;
  src/src/harness/mcp/mutation-store.ts:119). A line of the mutation log is torn and the
  next one glued to it; the write a crash then cuts in half is not put back, the host
  does not start. The module says 'An intent without a commit is incomplete: startup
  restores the captured previous bytes instead of leaving a half-applied file.'
  (src/src/harness/mcp/mutation-store.ts:3-4); a failed or cut append leaves a torn line
  that nothing closes, the next append is glued to it (96-109), and readLines() throws
  on what cannot be parsed (124): recover() restores nothing and createWebHost() fails
  (server.ts:547).
- `McpHostNoDispatchUnderOldConfig.cfg` (McpHost `NoDispatchUnderOldConfig`;
  src/src/web/server.ts:1414). A connection that began after the fence has read the file
  before the save; the save is answered, and a call goes out on that connection. The
  plan requires 'After mutation acknowledgment, no new dispatch starts under old
  config/credential generation.'
  (src/plans/260922-1139-mcp-production-completion/phase-07-desired-state-runtime-reconciliation.md:20);
  a connection begun between the fence and the save has the new generation and the old
  content (1414), and publication looks at the generation and at 'enabled' only
  (1453-1454).
- `McpJournalFailedBehind.cfg` (McpJournal `Readable`;
  src/src/harness/mcp/execution-journal.ts:205). One append fails, the one queued behind
  it is written all the same, and the next process cannot read the file. The repair says
  'a transient fault (a full disk, a permission since fixed) recovers once the file
  validates, while a genuinely corrupt file still fails its checks and stays blocked'
  (src/src/web/server.ts:2383-2385); append() looks at `poisoned` when it queues and not
  when it writes, so the append behind the failed one is written after the half line or
  the number the failure left, and the file never validates again although the fault was
  transient.
- `McpJournalTwoOpeners.cfg` (McpJournal `OneOutcome`; src/src/web/server.ts:1261). Two
  first calls open two journals of one file: the second closes the first one's call,
  which then gets a second outcome. The plan says 'Enforce one terminal record per
  invocation.'
  (src/plans/260922-1139-mcp-production-completion/phase-04-safe-tool-calls-and-audit-integrity.md:73);
  journalFor() puts a journal into the map only when it is open, two first calls open
  one each, the second finds the first one's intent unresolved and closes it, and the
  call ends with a second terminal record under a number already used.
- `McpJournalCutShort.cfg` (McpJournal `SentIsRecorded`;
  src/src/harness/mcp/execution-journal.ts:113). A crash while the file is rewritten
  without its torn line takes the records of a call that was sent. The module says 'It
  does survive a process crash between intent and terminal record.'
  (src/src/harness/mcp/execution-journal.ts:3-4); open() drops a torn line with
  fs.writeFile, which empties the file before it fills it: a second crash there takes
  the intents of calls that were sent.
- `SessionCatalogHidden.cfg` (SessionCatalog `NoneHidden`;
  src/src/harness/session/service.ts:490). A start that cannot write the summary it
  rebuilt leaves a conversation with records out of the listing, and out of reach. The
  comment at src/src/harness/session/service.ts:185-186 says: "Deleting derived state
  must never hide a canonical session: rebuild the projection from events.jsonl right
  here." rebuildSummary writes the summary inside the try that reads the log
  (service.ts:490), and its catch, whose comment says that "the log itself is
  unreadable" (:493), returns undefined for a write that failed too: the log is read and
  whole, but boot does not enter the session in known, so that the listing does not show
  it and has() denies it until the next start.
- `SessionCatalogShown.cfg` (SessionCatalog `ShownIsDurable`;
  src/src/harness/session/service.ts:304). The listing summarises a conversation in
  memory from its own log, and goes on showing what a failed write will never make
  durable. The comment at src/src/web/server.ts:5933 says of the titles of the listing:
  "Both are durable, so a session listed straight from storage shows the same title it
  shows once loaded." summaries() overlays every loaded session with a summary of its
  in-memory log (service.ts:304), which holds records that were appended and not yet
  written; when their write fails the session is poisoned and stays loaded, and the
  listing goes on showing their title, count and date, which the next start does not.
- `EventStreamOpenView.cfg` (EventStream `OpenViewIsTrue`;
  src/src/harness/session/session.ts:118). A record is broadcast before it is written: a
  host that stops takes it along, and the page goes on showing it in place of what the
  next host wrote there. Docs at src/docs/web.md:512 say of the frame that relays an
  appended record: "one live durable event". Session.append queues the write and
  notifies the observers in the same call (session.ts:105-121), so the record that is
  relayed is not durable yet. When the host stops before the write is synced, the next
  one numbers its own records from the same place; the page resumes after the last id it
  was given, shows none of those it has a number for already, and shows the lost record
  in their place until the conversation is opened again.
- `EventStreamChildAsk.cfg` (EventStream `ChildAskIsShown`;
  src/web/hooks/useSessionStream.ts:26). The end of a turn takes every card off the
  page, also that of a child that is still waiting for its answer. Docs at
  src/docs/web.md:689 say of the approval bridge that "a child ask is answerable on the
  root conversation". reconcileApprovals clears every card at turn/end
  (useSessionStream.ts:26), those relayed from a child as well; a child may outlive the
  turn that spawned it, its question is then still pending in the host, is not announced
  again, and is off the page until the next connection.
- `EventStreamRebuilt.cfg` (EventStream `CardsAreRebuilt`; src/src/web/server.ts:6481).
  A question of a child that is settled while the page is away is in no log the page
  replays, and its card stays. The comment at src/web/hooks/useSessionStream.ts:6 says:
  "Rebuild pending questions from durable facts, including reconnect replay." A resume
  replays this conversation's log after the cursor and repeats the open questions
  (server.ts:6475-6486); the decision of a child's question is in the child's log alone,
  and approval-settled is sent only to who is connected. A question of a child that was
  settled while the page was away therefore stays on display after the reconnect.
- `ContextLongSummary.cfg` (Context `SummaryStandsForAll`;
  src/src/harness/context/compaction.ts:138). A conversation longer than a summarizer is
  given is cut at its end, and the summary then replaces messages it was not made from.
  The comments at src/src/harness/context/compaction.ts:11 and :13 say of a checkpoint:
  "The checkpoint covers log events with seq <= this value." and "The summary text that
  replaces the covered range in context." A projection longer than the limit is cut at
  its end (compaction.ts:138, web/llm-summarizer.ts:36, where the limit is 200 000
  characters; the extractive fallback keeps 120 lines, :30), while coversSeq stays the
  end of the last turn: the newest of the covered messages, which the summary was not
  made from, are replaced by it and named by no omission. Every compaction starts from
  the first message again, so the cut falls on ever more of them.

Further formulas about what the code or its documents say are stated in the modules
and belong to no run: TLC refutes each of them with the constants given (those not
named are those of the module's passing run).

| Formula | Constants | What happens |
|---|---|---|
| SessionLog `LoadFailsOnlyOnFault` | | a load fails for ever because the rejected chain of an earlier failure is kept for the session id (`file-session-store.ts:133`; `service.ts:228` promises a retry from disk) |
| SessionLog `DurableMeansSynced` | | after a restart `durable()` resolves over adopted records that were never synced (`session.ts:42`) |
| AgentTurn `ToldMeansDurable` | `Calls = {0, 2}` | a retry is told its input was accepted although its write failed (`server.ts:5641`) |
| Approval `ReleasedByCurrentMode` | `Default <- NamedAsk`, `Modes <- FewModes`, two switches | an older mode selection releases a question the mode in force asks about (`policy.ts:34`) |
| Approval `DeniedNeverStarts` | `Modes <- WildcardModes`, `Default <- Asking` | a call denied by a wildcard rule passes the final gate, which tests the exact name (`server.ts:1761`) |
| ChildExecutor `CompletedHidesNothing` | no faults, no restart | a turn completes while a child cancelled just before still runs (`server.ts:1033`) |
| ChildExecutor `BudgetPerTurn` | `MaxPerTurn = 1`, three spawns | the end of a delegation turn resets the spawn budget of the running conversation turn (`executor.ts:991`) |
| SessionCatalog `FailedCreateLeavesNothing` | | the deletion of a session whose first write failed is refused; it stays listed and cannot be loaded (`service.ts:346`, `executor.ts:633`) |

Differences read off the code while modelling it, which no formula states:

- After a trim the manifest counts the oldest turn that is sent as left out: it
  counts turns from the first message that survived, which comes after the start of
  its turn (`builder.ts:495`; `docs/harness.md:531` calls the manifest truthful).
- `deriveDatedMessages` takes the calls of a reply as the model wrote them, where
  `deriveMessages` (`events.ts:298`) takes them as they were rewritten.
- A second compaction at the same boundary empties and rewrites the checkpoint
  file, which `docs/web.md:133` calls immutable; a crash between leaves an older
  checkpoint, or none, in force.
- A delete stops the process before it removes the entry (`server.ts:3656`), but a
  rotation under way takes back the cancellation and connects before the save; the
  deleted server keeps its process.
- An enable whose commit fails is undone in the files only: a client that a call
  connected meanwhile from the enabled contents stays up until the next fence
  (`server.ts:1305`). `DisabledKeepsNone` allows for exactly this: it speaks of
  processes of the configuration the disabling replaced.
- "Compaction never runs mid-Turn" (`compaction.ts:100`) holds when it begins: a
  turn may start while a manual one waits for its summary. `CheckpointsTrue` holds
  all the same.
- The guard of `server.ts:968` never stops anything: the newest event is always
  later than what a checkpoint covers.

## 7. Limits

- Data is abstracted: payloads, names, prompts and paths are members of small
  sets. Wire formats, parsing and wording are not modelled.
- The file system is the one the code relies on: appends go to the end, fsync
  makes what was written survive the machine, a process crash loses nothing the
  system has cached. Directory entries and renames are taken as atomic. In McpHost and
  McpJournal a crash is one of the process; a machine that stops as well could lose
  what was not synced (the renaming of `mcp.json`, a file put back; the logs are synced).
- Where a file is written over in place, a write cut short is modelled for the journal
  only (`CutShort`). `fs.writeFile` also restores a file in `abort()` and `recover()`
  of the mutation store and saves summaries; those are single steps here. With a torn
  log and two open intents the code's `recover()` restores some files before it throws;
  here an unreadable log restores none.
- AgentTurn models one agent: ephemeral `send()` and injected context, which are
  never durable, are left out. Approval has one call per session.
- Assumptions that are constants of the modules, both about the operating system, and
  what they leave out: `ShortWrites` (a write that stores part of its bytes and says
  so), `OrderedReads` (a read that overtakes one asked for earlier).
- McpHost takes it that nobody edits `mcp.json` while the program is writing it, and
  that the ownership lock is held. McpClient has no HTTP transport.
- Not modelled: workspaces (a registry with one writer; no caller takes its lease),
  the plugin kernel (mounted once, disposed of once), processes and terminals, the
  file tools, OAuth, the ownership lock, the rendering of the web client,
  authentication tokens, parsing of configurations and definitions, provider
  protocols, Git and file browsing routes.
- Hazards that no property covers carry a note in `PROJECT.json`.
