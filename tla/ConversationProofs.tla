------------------------- MODULE ConversationProofs -------------------------
(***************************************************************************)
(* Proofs about what a user has of a conversation: the listing it is found *)
(* in (SessionCatalog), the page that shows it (EventStream) and the       *)
(* checkpoints that stand for it (Context).                                *)
(***************************************************************************)
EXTENDS SessionCatalog, EventStream, Context, EventLogProofs

-----------------------------------------------------------------------------
(***************************************************************************)
(* The listing of a conversation (SessionCatalog), for logs of any length  *)
(* and any number of faults and crashes.                                   *)
(***************************************************************************)

Sessions == [st : {"none", "loading", "loaded"}, mem : Nat,
             closed : BOOLEAN, poisoned : BOOLEAN]

-----------------------------------------------------------------------------
(* The inductive invariant. *)

CatalogTypes ==
  /\ log \in Nat /\ sum \in Nat \cup {None} /\ known \in Nat \cup {None}
  /\ target \in Nat /\ writer \in Nat /\ barriers \subseteq Nat
  /\ session \in Sessions
  /\ birth \in {"none", "snapshot", "kept", "failed"}

\* What the store is writing belongs to a session, whose chain is sound.
WritesInOrder == inflight => Queued /\ ~broken

\* Nothing is there before the session is created.
NothingUnborn ==
  birth = "none" =>
    /\ ~dir /\ known = None /\ session.st = "none" /\ loader = "none" /\ ~deleting
    /\ ~inflight /\ writer = 0 /\ barriers = {}

\* A session is in memory once its load has got as far.
LoadsInOrder ==
  /\ loader \in {"none", "read", "recover", "summary"}
  /\ loader = "none" => session.st # "loading"
  /\ loader = "read" => session.st = "none"
  /\ loader \in {"recover", "summary"} => session.st = "loading"
  /\ loader = "summary" => ~Queued

\* What a deletion has drained stays drained until the directory is gone.
DeletesInOrder ==
  /\ del \in {"load", "drain", "writer", "remove"} => deleting
  /\ del # "none" => birth \notin {"none", "snapshot"}
  /\ del \in {"drain", "writer", "remove", "gone"} => loader = "none"
  /\ del = "writer" => ~Queued
  /\ del \in {"remove", "gone"} =>
       writer = 0 /\ session.st = "none" /\ known = None /\ barriers = {} /\ ~inflight
  /\ del = "gone" => ~dir
  /\ deleting /\ Loaded => session.closed
  /\ birth = "snapshot" => Loaded /\ host # "down" /\ ~deleting

\* Nothing is summarised that is not in the log, and what may still be written
\* is listed; so is what is in the log, unless a start could not rebuild it.  A
\* session in memory is never behind the log.
ListsInOrder ==
  /\ ~dir => log = 0
  /\ session.st # "none" => log <= session.mem
  /\ ~deleting =>
       /\ target <= log /\ writer <= log
       /\ host # "down" => known <= log
       /\ session.st # "none" \/ loader # "none" => known # None
  /\ ~hidden /\ ~deleting /\ host # "down" /\ log > 0 => known # None

\* A process that ended leaves nothing in memory; one that closes its stores
\* has no summary to write, and then no record and no handle.
EndsInOrder ==
  /\ host \in {"up", "draining", "projecting", "closing", "closed", "down"}
  /\ host = "down" =>
       /\ known = None /\ ~deleting /\ session.st = "none" /\ loader = "none"
       /\ target = 0 /\ writer = 0 /\ ~inflight /\ barriers = {}
  /\ host \in {"closing", "closed"} => writer = 0
  /\ host = "closed" => ~inflight /\ ~handle

CatalogInv ==
  /\ CatalogTypes /\ NothingUnborn /\ WritesInOrder /\ LoadsInOrder /\ DeletesInOrder
  /\ ListsInOrder /\ EndsInOrder

\* A session that is not in memory.
LEMMA SessionFacts ==
  NoSession \in Sessions /\ NoSession.st = "none" /\ NoSession.mem = 0
BY DEF NoSession, Sessions

-----------------------------------------------------------------------------
(* The steps. *)

\* The summary writer lists what it wrote, which was durable.
LEMMA SummariesKeep ==
  ASSUME CatalogAssumption, CatalogInv,
         SummaryLands \/ SummaryFails
  PROVE  CatalogInv'
<1>1. CASE SummaryLands
  <2>1. /\ host # "down" /\ writer > 0 /\ dir' /\ sum' = writer
        /\ known' = IF deleting THEN known ELSE writer
        /\ writer' = OtherPass
        /\ UNCHANGED <<log, host, deleting, loader, target, session,
                        inflight, broken, handle,
                        barriers, birth, del, hidden>>
    BY <1>1 DEF SummaryLands, chainVars
  <2>2. writer' \in {0, target} /\ (~deleting => writer' <= log)
    BY <2>1 DEF OtherPass, CatalogInv, CatalogTypes, ListsInOrder
  <2>3. host \notin {"closing", "closed"} /\ del \notin {"remove", "gone"}
    BY <2>1 DEF CatalogInv, CatalogTypes, EndsInOrder, DeletesInOrder
  <2>4. CatalogTypes'
    BY <2>1, <2>2, <2>3 DEF CatalogInv, CatalogTypes, None
  <2>5. NothingUnborn'
    BY <2>1, <2>2, <2>3 DEF CatalogInv, NothingUnborn
  <2>6. DeletesInOrder'
    BY <2>1, <2>2, <2>3 DEF CatalogInv, DeletesInOrder, Queued, Loaded
  <2>7. ListsInOrder'
    BY <2>1, <2>2, <2>3 DEF CatalogInv, ListsInOrder, CatalogTypes, None
  <2>8. EndsInOrder'
    BY <2>1, <2>2, <2>3 DEF CatalogInv, EndsInOrder, None
  <2>9. WritesInOrder' /\ LoadsInOrder'
    BY <2>1 DEF CatalogInv, WritesInOrder, LoadsInOrder, Queued
  <2> QED BY <2>4, <2>5, <2>6, <2>7, <2>8, <2>9 DEF CatalogInv
<1>2. CASE SummaryFails
  <2>1. /\ host # "down" /\ writer' = 0
        /\ \/ UNCHANGED <<loader, session>>
           \/ loader = "summary" /\ loader' = "none" /\ session' = NoSession
        /\ UNCHANGED <<dir, log, sum, host, known, deleting, target,
                        inflight, broken, handle,
                        barriers, birth, del, hidden>>
    BY <1>2 DEF SummaryFails, Fault, chainVars, diskVars
  <2>2. /\ session' \in Sessions
        /\ \/ UNCHANGED <<loader, session>>
           \/ /\ loader' = "none" /\ session'.st = "none"
              /\ ~inflight /\ birth # "snapshot"
    BY <2>1, SessionFacts DEF CatalogInv, CatalogTypes, LoadsInOrder, WritesInOrder, DeletesInOrder,
           Loaded
  <2>3. CatalogTypes'
    BY <2>1, <2>2 DEF CatalogInv, CatalogTypes
  <2>4. NothingUnborn'
    BY <2>1, <2>2 DEF CatalogInv, NothingUnborn
  <2>5. WritesInOrder'
    BY <2>1, <2>2 DEF CatalogInv, WritesInOrder, Queued
  <2>6. LoadsInOrder'
    BY <2>1, <2>2 DEF CatalogInv, LoadsInOrder, Queued
  <2>7. DeletesInOrder'
    BY <2>1, <2>2 DEF CatalogInv, DeletesInOrder, Queued, Loaded
  <2>8. ListsInOrder'
    BY <2>1, <2>2 DEF CatalogInv, ListsInOrder, CatalogTypes
  <2>9. EndsInOrder'
    BY <2>1, <2>2 DEF CatalogInv, EndsInOrder
  <2> QED BY <2>3, <2>4, <2>5, <2>6, <2>7, <2>8, <2>9 DEF CatalogInv
<1> QED BY <1>1, <1>2

\* A record reaches the log, of a session that is listed.
LEMMA ChainKeeps ==
  ASSUME CatalogAssumption, CatalogInv,
         Submit \/ RecordLands \/ RecordFails
  PROVE  CatalogInv'
<1>1. CASE Submit
  <2>1. /\ \/ /\ host \notin {"closing", "closed", "down"} /\ Queued /\ ~broken
              /\ inflight' /\ broken' = broken
           \/ ~inflight' /\ ~inflight
        /\ host # "down" /\ Queued
        /\ UNCHANGED <<dir, log, sum, host, known, deleting, loader, target,
                        writer, session, handle,
                        barriers, birth, del, hidden>>
    BY <1>1 DEF Submit, StoreRefuses, diskVars, summaryVars
  <2>2. NothingUnborn'
    BY <2>1 DEF CatalogInv, NothingUnborn, Queued
  <2>3. WritesInOrder'
    BY <2>1 DEF CatalogInv, WritesInOrder, Queued
  <2>4. DeletesInOrder'
    BY <2>1 DEF CatalogInv, DeletesInOrder, Queued, Loaded
  <2>5. EndsInOrder'
    BY <2>1 DEF CatalogInv, EndsInOrder
  <2>6. CatalogTypes' /\ LoadsInOrder' /\ ListsInOrder'
    BY <2>1 DEF CatalogInv, CatalogTypes, LoadsInOrder, ListsInOrder, Queued
  <2> QED BY <2>2, <2>3, <2>4, <2>5, <2>6 DEF CatalogInv
<1>2. CASE RecordLands
  <2>1. /\ host # "down" /\ inflight
        /\ log' = log + 1 /\ dir' /\ ~inflight'
        /\ UNCHANGED <<sum, host, known, deleting, loader, target, writer,
                        session, broken, barriers,
                        birth, del, hidden>>
    BY <1>2 DEF RecordLands, summaryVars
  <2>2. Queued /\ log \in Nat /\ session.mem \in Nat
    BY <2>1 DEF CatalogInv, CatalogTypes, WritesInOrder, Sessions
  <2>3. CatalogTypes'
    BY <2>1, <2>2 DEF CatalogInv, CatalogTypes
  <2>4. NothingUnborn'
    BY <2>1, <2>2 DEF CatalogInv, NothingUnborn
  <2>5. WritesInOrder'
    BY <2>1, <2>2 DEF CatalogInv, WritesInOrder, Queued
  <2>6. LoadsInOrder'
    BY <2>1, <2>2 DEF CatalogInv, LoadsInOrder, Queued
  <2>7. DeletesInOrder'
    BY <2>1, <2>2 DEF CatalogInv, DeletesInOrder, Queued, Loaded
  <2>8. ListsInOrder'
    BY <2>1, <2>2 DEF CatalogInv, ListsInOrder, CatalogTypes, Queued
  <2>9. EndsInOrder'
    BY <2>1, <2>2 DEF CatalogInv, EndsInOrder
  <2> QED BY <2>3, <2>4, <2>5, <2>6, <2>7, <2>8, <2>9 DEF CatalogInv
<1>3. CASE RecordFails
  <2>1. /\ host # "down" /\ inflight /\ ~inflight' /\ (dir => dir')
        /\ UNCHANGED <<log, sum, host, known, deleting, loader, target,
                        writer, session, barriers,
                        birth, del, hidden>>
    BY <1>3 DEF RecordFails, Fault, summaryVars
  <2>2. NothingUnborn'
    BY <2>1 DEF CatalogInv, NothingUnborn
  <2>3. WritesInOrder'
    BY <2>1 DEF CatalogInv, WritesInOrder, Queued
  <2>4. DeletesInOrder'
    BY <2>1 DEF CatalogInv, DeletesInOrder, WritesInOrder, Queued, Loaded
  <2>5. ListsInOrder'
    BY <2>1 DEF CatalogInv, ListsInOrder
  <2>6. EndsInOrder'
    BY <2>1 DEF CatalogInv, EndsInOrder
  <2>7. CatalogTypes' /\ LoadsInOrder'
    BY <2>1 DEF CatalogInv, CatalogTypes, LoadsInOrder, Queued
  <2> QED BY <2>2, <2>3, <2>4, <2>5, <2>6, <2>7 DEF CatalogInv
<1> QED BY <1>1, <1>2, <1>3

\* A caller appends, waits, or reads the log.
LEMMA CallersKeep ==
  ASSUME CatalogAssumption, CatalogInv,
         AppendEvent \/ Durable \/ ReadCanonical
  PROVE  CatalogInv'
<1>1. CASE AppendEvent
  <2>1. /\ Loaded /\ ~session.closed /\ birth = "kept"
        /\ session' = [session EXCEPT !.mem = @ + 1]
        /\ UNCHANGED <<dir, log, sum, host, known, deleting, loader, target,
                        writer, inflight, broken,
                        handle, barriers, birth, del, hidden>>
    BY <1>1 DEF AppendEvent, diskVars, summaryVars
  <2>2. /\ session' \in Sessions
        /\ session'.st = session.st /\ session'.mem = session.mem + 1
        /\ (session'.closed <=> session.closed) /\ session.mem \in Nat
    BY <2>1 DEF CatalogInv, CatalogTypes, Sessions
  <2>3. log \in Nat
    BY DEF CatalogInv, CatalogTypes
  <2>4. CatalogTypes'
    BY <2>1, <2>2, <2>3 DEF CatalogInv, CatalogTypes
  <2>5. NothingUnborn'
    BY <2>1, <2>2, <2>3 DEF CatalogInv, NothingUnborn, Loaded
  <2>6. WritesInOrder'
    BY <2>1, <2>2, <2>3 DEF CatalogInv, WritesInOrder, CatalogTypes, Queued
  <2>7. LoadsInOrder'
    BY <2>1, <2>2, <2>3 DEF CatalogInv, LoadsInOrder, Loaded, Queued
  <2>8. DeletesInOrder'
    BY <2>1, <2>2, <2>3 DEF CatalogInv, DeletesInOrder, Queued, Loaded
  <2>9. ListsInOrder'
    BY <2>1, <2>2, <2>3 DEF CatalogInv, ListsInOrder
  <2>10. EndsInOrder'
    BY <2>1, <2>2, <2>3 DEF CatalogInv, EndsInOrder
  <2> QED BY <2>4, <2>5, <2>6, <2>7, <2>8, <2>9, <2>10 DEF CatalogInv
<1>2. CASE Durable
  <2>1. /\ host # "down" /\ Loaded /\ barriers' = barriers \cup {session.mem}
        /\ UNCHANGED <<dir, log, sum, host, known, deleting, loader, target,
                        writer, session, inflight,
                        broken, handle, birth, del, hidden>>
    BY <1>2 DEF Durable, diskVars, summaryVars
  <2>2. session.mem \in Nat /\ session.st = "loaded"
    BY <2>1 DEF CatalogInv, CatalogTypes, Sessions, Loaded
  <2>3. CatalogTypes'
    BY <2>1, <2>2 DEF CatalogInv, CatalogTypes
  <2>4. NothingUnborn'
    BY <2>1, <2>2 DEF CatalogInv, NothingUnborn
  <2>5. DeletesInOrder'
    BY <2>1, <2>2 DEF CatalogInv, DeletesInOrder, Queued, Loaded
  <2>6. EndsInOrder'
    BY <2>1, <2>2 DEF CatalogInv, EndsInOrder
  <2>7. WritesInOrder' /\ LoadsInOrder' /\ ListsInOrder'
    BY <2>1 DEF CatalogInv, WritesInOrder, LoadsInOrder, ListsInOrder, Queued
  <2> QED BY <2>3, <2>4, <2>5, <2>6, <2>7 DEF CatalogInv
<1>3. CASE ReadCanonical
  <2>1. /\ ~handle'
        /\ UNCHANGED <<dir, log, sum, host, known, deleting, loader, target,
                        writer, session, inflight,
                        broken, barriers, birth, del, hidden>>
    BY <1>3 DEF ReadCanonical, diskVars, summaryVars
  <2>2. EndsInOrder'
    BY <2>1 DEF CatalogInv, EndsInOrder
  <2>3. CatalogTypes' /\ NothingUnborn' /\ WritesInOrder' /\ LoadsInOrder' /\
        DeletesInOrder' /\ ListsInOrder'
    BY <2>1 DEF CatalogInv, CatalogTypes, NothingUnborn, WritesInOrder, LoadsInOrder,
            DeletesInOrder, ListsInOrder, Queued, Loaded
  <2> QED BY <2>2, <2>3 DEF CatalogInv
<1> QED BY <1>1, <1>2, <1>3

\* A load puts a session in memory only when nobody deletes it.
LEMMA LoadingKeeps ==
  ASSUME CatalogAssumption, CatalogInv,
         Load \/ Loading
  PROVE  CatalogInv'
<1>1. CASE Load
  <2>1. /\ host # "down" /\ known # None /\ ~deleting /\ session.st = "none"
        /\ loader = "none" /\ loader' = "read"
        /\ UNCHANGED <<dir, log, sum, host, known, deleting, target, writer,
                        session, inflight, broken,
                        handle, barriers, birth, del, hidden>>
    BY <1>1 DEF Load, diskVars, chainVars, summaryVars
  <2>2. NothingUnborn'
    BY <2>1 DEF CatalogInv, NothingUnborn
  <2>3. LoadsInOrder'
    BY <2>1 DEF CatalogInv, LoadsInOrder, Queued
  <2>4. DeletesInOrder'
    BY <2>1 DEF CatalogInv, DeletesInOrder, Queued, Loaded
  <2>5. ListsInOrder'
    BY <2>1 DEF CatalogInv, ListsInOrder
  <2>6. EndsInOrder'
    BY <2>1 DEF CatalogInv, EndsInOrder
  <2>7. CatalogTypes' /\ WritesInOrder'
    BY <2>1 DEF CatalogInv, CatalogTypes, WritesInOrder, Queued
  <2> QED BY <2>2, <2>3, <2>4, <2>5, <2>6, <2>7 DEF CatalogInv
<1>2. CASE History
  <2>1. /\ host # "down" /\ loader = "read" /\ ~inflight /\ ~handle'
        /\ \/ deleting /\ loader' = "none" /\ session' = session
           \/ /\ ~deleting /\ loader' = "recover"
              /\ \E more \in {0, 1} :
                   session' = [NoSession EXCEPT !.st = "loading", !.mem = log + more]
        /\ UNCHANGED <<dir, log, sum, host, known, deleting, target, writer,
                        inflight, broken, barriers,
                        birth, del, hidden>>
    BY <1>2 DEF History, diskVars, summaryVars
  <2>2. /\ log \in Nat /\ session.st = "none"
        /\ del \notin {"drain", "writer", "remove", "gone"}
    BY <2>1 DEF CatalogInv, CatalogTypes, LoadsInOrder, DeletesInOrder
  <2>3. ~deleting =>
          /\ session' \in Sessions /\ session'.st = "loading" /\ loader' = "recover"
          /\ log <= session'.mem
    <3> SUFFICES ASSUME ~deleting
                 PROVE  /\ session' \in Sessions /\ session'.st = "loading"
                        /\ loader' = "recover" /\ log <= session'.mem
      OBVIOUS
    <3>1. PICK more \in {0, 1} :
            session' = [NoSession EXCEPT !.st = "loading", !.mem = log + more]
      BY <2>1
    <3>2. session' = [st |-> "loading", mem |-> log + more, closed |-> FALSE, poisoned |-> FALSE]
      BY <3>1 DEF NoSession
    <3> QED BY <2>1, <2>2, <3>2 DEF Sessions
  <2>4. session' \in Sessions /\ (deleting => session' = session /\ loader' = "none")
    BY <2>1, <2>3 DEF CatalogInv, CatalogTypes
  <2>5. CatalogTypes'
    BY <2>1, <2>2, <2>3, <2>4 DEF CatalogInv, CatalogTypes
  <2>6. NothingUnborn'
    BY <2>1, <2>2, <2>3, <2>4 DEF CatalogInv, NothingUnborn
  <2>7. WritesInOrder'
    BY <2>1, <2>2, <2>3, <2>4 DEF CatalogInv, WritesInOrder, Queued
  <2>8. LoadsInOrder'
    BY <2>1, <2>2, <2>3, <2>4 DEF CatalogInv, LoadsInOrder, Queued
  <2>9. DeletesInOrder'
    BY <2>1, <2>2, <2>3, <2>4 DEF CatalogInv, DeletesInOrder, Queued, Loaded
  <2>10. ListsInOrder'
    BY <2>1, <2>2, <2>3, <2>4 DEF CatalogInv, ListsInOrder
  <2>11. EndsInOrder'
    BY <2>1, <2>2, <2>3, <2>4 DEF CatalogInv, EndsInOrder
  <2> QED BY <2>5, <2>6, <2>7, <2>8, <2>9, <2>10, <2>11 DEF CatalogInv
<1>3. CASE HistoryFails
  <2>1. /\ loader = "read" /\ loader' = "none"
        /\ UNCHANGED <<dir, log, sum, host, known, deleting, target, writer,
                        session, inflight, broken,
                        handle, barriers, birth, del, hidden>>
    BY <1>3 DEF HistoryFails, Fault, diskVars, chainVars, summaryVars
  <2>2. NothingUnborn'
    BY <2>1 DEF CatalogInv, NothingUnborn
  <2>3. LoadsInOrder'
    BY <2>1 DEF CatalogInv, LoadsInOrder, Queued
  <2>4. DeletesInOrder'
    BY <2>1 DEF CatalogInv, DeletesInOrder, Queued, Loaded
  <2>5. ListsInOrder'
    BY <2>1 DEF CatalogInv, ListsInOrder
  <2>6. EndsInOrder'
    BY <2>1 DEF CatalogInv, EndsInOrder
  <2>7. CatalogTypes' /\ WritesInOrder'
    BY <2>1 DEF CatalogInv, CatalogTypes, WritesInOrder, Queued
  <2> QED BY <2>2, <2>3, <2>4, <2>5, <2>6, <2>7 DEF CatalogInv
<1>4. CASE RecoveryLands
  <2>1. /\ host # "down" /\ loader = "recover" /\ ~Queued
        /\ \/ /\ deleting /\ loader' = "none" /\ session' = NoSession
              /\ UNCHANGED <<target, writer>>
           \/ /\ ~deleting /\ loader' = "summary" /\ session' = session
              /\ Schedule(session.mem)
        /\ UNCHANGED <<dir, log, sum, host, known, deleting, inflight,
                        broken, handle, barriers,
                        birth, del, hidden>>
    BY <1>4 DEF RecoveryLands, diskVars
  <2>2. /\ session \in Sessions /\ session.mem \in Nat
        /\ session.st = "loading" /\ session.mem <= log
    BY <2>1 DEF CatalogInv, CatalogTypes, LoadsInOrder, Sessions, Queued
  <2>3. /\ deleting => loader' = "none" /\ session' \in Sessions /\ session'.st = "none"
        /\ ~deleting => loader' = "summary" /\ session' = session
    BY <2>1, SessionFacts
  <2>4. /\ target' \in Nat /\ writer' \in Nat
        /\ deleting \/ host # "up" => UNCHANGED <<target, writer>>
        /\ ~deleting => target' <= log /\ writer' <= log
    BY <2>1, <2>2 DEF Schedule, CatalogInv, CatalogTypes, ListsInOrder
  <2>5. CatalogTypes'
    BY <2>1, <2>2, <2>3, <2>4 DEF CatalogInv, CatalogTypes
  <2>6. NothingUnborn'
    BY <2>1, <2>2, <2>3, <2>4 DEF CatalogInv, NothingUnborn
  <2>7. WritesInOrder'
    BY <2>1, <2>2, <2>3, <2>4 DEF CatalogInv, WritesInOrder, Queued
  <2>8. LoadsInOrder'
    BY <2>1, <2>2, <2>3, <2>4 DEF CatalogInv, LoadsInOrder, Queued
  <2>9. DeletesInOrder'
    BY <2>1, <2>2, <2>3, <2>4 DEF CatalogInv, DeletesInOrder, LoadsInOrder, Queued,
            Loaded
  <2>10. ListsInOrder'
    BY <2>1, <2>2, <2>3, <2>4 DEF CatalogInv, ListsInOrder
  <2>11. EndsInOrder'
    BY <2>1, <2>2, <2>3, <2>4 DEF CatalogInv, EndsInOrder
  <2> QED BY <2>5, <2>6, <2>7, <2>8, <2>9, <2>10, <2>11 DEF CatalogInv
<1>5. CASE RecoveryFails
  <2>1. /\ loader = "recover" /\ broken /\ loader' = "none" /\ session' = NoSession
        /\ UNCHANGED <<dir, log, sum, host, known, deleting, target, writer,
                        inflight, broken, handle,
                        barriers, birth, del, hidden>>
    BY <1>5 DEF RecoveryFails, diskVars, summaryVars
  <2>2. session' \in Sessions /\ session'.st = "none"
    BY <2>1, SessionFacts
  <2>3. CatalogTypes'
    BY <2>1, <2>2 DEF CatalogInv, CatalogTypes
  <2>4. NothingUnborn'
    BY <2>1, <2>2 DEF CatalogInv, NothingUnborn
  <2>5. WritesInOrder'
    BY <2>1, <2>2 DEF CatalogInv, WritesInOrder, Queued
  <2>6. LoadsInOrder'
    BY <2>1, <2>2 DEF CatalogInv, LoadsInOrder, Queued
  <2>7. DeletesInOrder'
    BY <2>1, <2>2 DEF CatalogInv, DeletesInOrder, LoadsInOrder, Queued, Loaded
  <2>8. ListsInOrder'
    BY <2>1, <2>2 DEF CatalogInv, ListsInOrder
  <2>9. EndsInOrder'
    BY <2>1, <2>2 DEF CatalogInv, EndsInOrder
  <2> QED BY <2>3, <2>4, <2>5, <2>6, <2>7, <2>8, <2>9 DEF CatalogInv
<1>6. CASE Registers
  <2>1. /\ host # "down" /\ loader = "summary" /\ loader' = "none"
        /\ session' = IF deleting THEN NoSession ELSE [session EXCEPT !.st = "loaded"]
        /\ UNCHANGED <<dir, log, sum, host, known, deleting, target, writer,
                        inflight, broken, handle,
                        barriers, birth, del, hidden>>
    BY <1>6 DEF Registers, diskVars, summaryVars
  <2>2. /\ session' \in Sessions
        /\ deleting => session'.st = "none"
        /\ ~deleting => session'.st = "loaded" /\ session'.mem = session.mem
    BY <2>1, SessionFacts DEF CatalogInv, CatalogTypes, Sessions
  <2>3. CatalogTypes'
    BY <2>1, <2>2 DEF CatalogInv, CatalogTypes
  <2>4. NothingUnborn'
    BY <2>1, <2>2 DEF CatalogInv, NothingUnborn, LoadsInOrder
  <2>5. WritesInOrder'
    BY <2>1, <2>2 DEF CatalogInv, WritesInOrder, LoadsInOrder, Queued
  <2>6. LoadsInOrder'
    BY <2>1, <2>2 DEF CatalogInv, LoadsInOrder, Queued
  <2>7. DeletesInOrder'
    BY <2>1, <2>2 DEF CatalogInv, DeletesInOrder, LoadsInOrder, Queued, Loaded
  <2>8. ListsInOrder'
    BY <2>1, <2>2 DEF CatalogInv, LoadsInOrder, ListsInOrder
  <2>9. EndsInOrder'
    BY <2>1, <2>2 DEF CatalogInv, EndsInOrder
  <2> QED BY <2>3, <2>4, <2>5, <2>6, <2>7, <2>8, <2>9 DEF CatalogInv
<1> QED BY <1>1, <1>2, <1>3, <1>4, <1>5, <1>6 DEF Loading

\* A deletion goes from one drain to the next.
LEMMA DeletionKeeps ==
  ASSUME CatalogAssumption, CatalogInv,
         Delete \/ Deletion
  PROVE  CatalogInv'
<1>1. CASE Delete
  <2>1. /\ host # "down" /\ birth = "kept" /\ deleting' /\ del' = "load"
        /\ session' = IF Loaded THEN [session EXCEPT !.closed = TRUE] ELSE session
        /\ UNCHANGED <<dir, log, sum, host, known, loader, target, writer,
                        inflight, broken, handle,
                        barriers, birth, hidden>>
    BY <1>1 DEF Delete, BeginDelete, diskVars, summaryVars
  <2>2. /\ session' \in Sessions /\ session'.st = session.st /\ session'.mem = session.mem
        /\ Loaded => session'.closed
    BY <2>1 DEF CatalogInv, CatalogTypes, Sessions
  <2>3. CatalogTypes'
    BY <2>1, <2>2 DEF CatalogInv, CatalogTypes
  <2>4. NothingUnborn'
    BY <2>1, <2>2 DEF CatalogInv, NothingUnborn
  <2>5. WritesInOrder'
    BY <2>1, <2>2 DEF CatalogInv, WritesInOrder, Queued
  <2>6. LoadsInOrder'
    BY <2>1, <2>2 DEF CatalogInv, LoadsInOrder, Queued
  <2>7. DeletesInOrder'
    BY <2>1, <2>2 DEF CatalogInv, DeletesInOrder, Queued, Loaded
  <2>8. ListsInOrder'
    BY <2>1, <2>2 DEF CatalogInv, ListsInOrder
  <2>9. EndsInOrder'
    BY <2>1, <2>2 DEF CatalogInv, EndsInOrder
  <2> QED BY <2>3, <2>4, <2>5, <2>6, <2>7, <2>8, <2>9 DEF CatalogInv
<1>2. CASE LoadDrained
  <2>1. /\ del = "load" /\ loader = "none" /\ del' = "drain"
        /\ UNCHANGED <<dir, log, sum, host, known, deleting, loader, target,
                        writer, session, inflight,
                        broken, handle, barriers,
                        birth, hidden>>
    BY <1>2 DEF LoadDrained, diskVars, chainVars, summaryVars
  <2>2. DeletesInOrder'
    BY <2>1 DEF CatalogInv, DeletesInOrder, Queued, Loaded
  <2>3. CatalogTypes' /\ NothingUnborn' /\ WritesInOrder' /\ LoadsInOrder' /\
        ListsInOrder' /\ EndsInOrder'
    BY <2>1 DEF CatalogInv, CatalogTypes, NothingUnborn, WritesInOrder, LoadsInOrder,
            ListsInOrder, EndsInOrder, Queued
  <2> QED BY <2>2, <2>3 DEF CatalogInv
<1>3. CASE AppendsDrained
  <2>1. /\ del = "drain" /\ ((~Queued /\ ~inflight /\ del' = "writer") \/ del' = "refused")
        /\ UNCHANGED <<dir, log, sum, host, known, deleting, loader, target,
                        writer, session, inflight,
                        broken, handle, barriers,
                        birth, hidden>>
    BY <1>3 DEF AppendsDrained, diskVars, chainVars, summaryVars
  <2>2. DeletesInOrder'
    BY <2>1 DEF CatalogInv, DeletesInOrder, Queued, Loaded
  <2>3. CatalogTypes' /\ NothingUnborn' /\ WritesInOrder' /\ LoadsInOrder' /\
        ListsInOrder' /\ EndsInOrder'
    BY <2>1 DEF CatalogInv, CatalogTypes, NothingUnborn, WritesInOrder, LoadsInOrder,
            ListsInOrder, EndsInOrder, Queued
  <2> QED BY <2>2, <2>3 DEF CatalogInv
<1>4. CASE Forget
  <2>1. /\ host # "down" /\ del = "writer" /\ writer = 0 /\ del' = "remove"
        /\ known' = None /\ target' = 0 /\ session' = NoSession /\ barriers' = {}
        /\ UNCHANGED <<dir, log, sum, host, deleting, loader, writer,
                        inflight, broken, handle,
                        birth, hidden>>
    BY <1>4 DEF Forget, SummaryAwaited, diskVars
  <2>2. /\ session' \in Sessions /\ session'.st = "none" /\ loader = "none" /\ deleting
        /\ ~inflight /\ birth \notin {"none", "snapshot"}
    BY <2>1, SessionFacts DEF CatalogInv, DeletesInOrder, WritesInOrder
  <2>3. CatalogTypes'
    BY <2>1, <2>2 DEF CatalogInv, CatalogTypes, None
  <2>4. NothingUnborn'
    BY <2>1, <2>2 DEF CatalogInv, NothingUnborn
  <2>5. WritesInOrder'
    BY <2>1, <2>2 DEF CatalogInv, WritesInOrder, Queued
  <2>6. LoadsInOrder'
    BY <2>1, <2>2 DEF CatalogInv, LoadsInOrder, Queued
  <2>7. DeletesInOrder'
    BY <2>1, <2>2 DEF CatalogInv, DeletesInOrder, Queued, Loaded
  <2>8. ListsInOrder'
    BY <2>1, <2>2 DEF CatalogInv, ListsInOrder
  <2>9. EndsInOrder'
    BY <2>1, <2>2 DEF CatalogInv, EndsInOrder
  <2> QED BY <2>3, <2>4, <2>5, <2>6, <2>7, <2>8, <2>9 DEF CatalogInv
<1>5. CASE RemovePart
  <2>1. /\ del = "remove" /\ ~handle' /\ log' \in {log, 0} /\ sum' \in {sum, None}
        /\ UNCHANGED <<dir, host, known, deleting, loader, target, writer,
                        session, inflight, broken,
                        barriers, birth, del, hidden>>
    BY <1>5 DEF RemovePart, summaryVars
  <2>2. deleting /\ session.st = "none" /\ ~inflight /\ loader = "none"
    BY <2>1 DEF CatalogInv, DeletesInOrder
  <2>3. CatalogTypes'
    BY <2>1, <2>2 DEF CatalogInv, CatalogTypes
  <2>4. WritesInOrder'
    BY <2>1, <2>2 DEF CatalogInv, WritesInOrder, Queued
  <2>5. LoadsInOrder'
    BY <2>1, <2>2 DEF CatalogInv, LoadsInOrder, Queued
  <2>6. DeletesInOrder'
    BY <2>1, <2>2 DEF CatalogInv, DeletesInOrder, Queued, Loaded
  <2>7. ListsInOrder'
    BY <2>1, <2>2 DEF CatalogInv, ListsInOrder
  <2>8. EndsInOrder'
    BY <2>1, <2>2 DEF CatalogInv, EndsInOrder
  <2>9. NothingUnborn'
    BY <2>1 DEF CatalogInv, NothingUnborn
  <2> QED BY <2>3, <2>4, <2>5, <2>6, <2>7, <2>8, <2>9 DEF CatalogInv
<1>6. CASE Removed
  <2>1. /\ del = "remove" /\ ~handle' /\ ~dir' /\ log' = 0 /\ sum' = None /\ del' = "gone"
        /\ UNCHANGED <<host, known, deleting, loader, target, writer,
                        session, inflight, broken,
                        barriers, birth, hidden>>
    BY <1>6 DEF Removed, summaryVars
  <2>2. deleting /\ session.st = "none" /\ ~inflight /\ loader = "none"
    BY <2>1 DEF CatalogInv, DeletesInOrder
  <2>3. CatalogTypes'
    BY <2>1, <2>2 DEF CatalogInv, CatalogTypes
  <2>4. NothingUnborn'
    BY <2>1, <2>2 DEF CatalogInv, NothingUnborn
  <2>5. WritesInOrder'
    BY <2>1, <2>2 DEF CatalogInv, WritesInOrder, Queued
  <2>6. LoadsInOrder'
    BY <2>1, <2>2 DEF CatalogInv, LoadsInOrder, Queued
  <2>7. DeletesInOrder'
    BY <2>1, <2>2 DEF CatalogInv, DeletesInOrder, Queued, Loaded
  <2>8. ListsInOrder'
    BY <2>1, <2>2 DEF CatalogInv, ListsInOrder
  <2>9. EndsInOrder'
    BY <2>1, <2>2 DEF CatalogInv, EndsInOrder
  <2> QED BY <2>3, <2>4, <2>5, <2>6, <2>7, <2>8, <2>9 DEF CatalogInv
<1>7. CASE RemoveFails
  <2>1. /\ del = "remove" /\ del' = "refused"
        /\ UNCHANGED <<dir, log, sum, host, known, deleting, loader, target,
                        writer, session, inflight,
                        broken, handle, barriers,
                        birth, hidden>>
    BY <1>7 DEF RemoveFails, Fault, diskVars, chainVars, summaryVars
  <2>2. DeletesInOrder'
    BY <2>1 DEF CatalogInv, DeletesInOrder, Queued, Loaded
  <2>3. CatalogTypes' /\ NothingUnborn' /\ WritesInOrder' /\ LoadsInOrder' /\
        ListsInOrder' /\ EndsInOrder'
    BY <2>1 DEF CatalogInv, CatalogTypes, NothingUnborn, WritesInOrder, LoadsInOrder,
            ListsInOrder, EndsInOrder, Queued
  <2> QED BY <2>2, <2>3 DEF CatalogInv
<1> QED BY <1>1, <1>2, <1>3, <1>4, <1>5, <1>6, <1>7 DEF Deletion

\* The host closes its stores, ends, and starts again.
LEMMA HostKeeps ==
  ASSUME CatalogAssumption, CatalogInv,
         Close \/ StoresClosing \/ Stop \/ Boot
  PROVE  CatalogInv'
<1>1. CASE Close
  <2>1. /\ host = "up" /\ host' = "draining"
        /\ session' = IF Loaded THEN [session EXCEPT !.closed = TRUE] ELSE session
        /\ UNCHANGED <<dir, log, sum, known, deleting, loader, target,
                        writer, inflight, broken,
                        handle, barriers, birth, del, hidden>>
    BY <1>1 DEF Close, diskVars, summaryVars
  <2>2. /\ session' \in Sessions /\ session'.st = session.st /\ session'.mem = session.mem
        /\ Loaded => session'.closed
    BY <2>1 DEF CatalogInv, CatalogTypes, Sessions
  <2>3. CatalogTypes'
    BY <2>1, <2>2 DEF CatalogInv, CatalogTypes
  <2>4. NothingUnborn'
    BY <2>1, <2>2 DEF CatalogInv, NothingUnborn
  <2>5. WritesInOrder'
    BY <2>1, <2>2 DEF CatalogInv, WritesInOrder, Queued
  <2>6. LoadsInOrder'
    BY <2>1, <2>2 DEF CatalogInv, LoadsInOrder, Queued
  <2>7. DeletesInOrder'
    BY <2>1, <2>2 DEF CatalogInv, DeletesInOrder, Queued, Loaded
  <2>8. ListsInOrder'
    BY <2>1, <2>2 DEF CatalogInv, ListsInOrder
  <2>9. EndsInOrder'
    BY <2>1, <2>2 DEF CatalogInv, EndsInOrder
  <2> QED BY <2>3, <2>4, <2>5, <2>6, <2>7, <2>8, <2>9 DEF CatalogInv
<1>2. CASE SessionsDrained
  <2>1. /\ host = "draining" /\ host' = "projecting"
        /\ UNCHANGED <<dir, log, sum, known, deleting, loader, target,
                        writer, session, inflight,
                        broken, handle, barriers,
                        birth, del, hidden>>
    BY <1>2 DEF SessionsDrained, diskVars, chainVars, summaryVars
  <2>2. DeletesInOrder'
    BY <2>1 DEF CatalogInv, DeletesInOrder, Queued, Loaded
  <2>3. ListsInOrder'
    BY <2>1 DEF CatalogInv, ListsInOrder
  <2>4. EndsInOrder'
    BY <2>1 DEF CatalogInv, EndsInOrder
  <2>5. CatalogTypes' /\ NothingUnborn' /\ WritesInOrder' /\ LoadsInOrder'
    BY <2>1 DEF CatalogInv, CatalogTypes, NothingUnborn, WritesInOrder, LoadsInOrder,
            Queued
  <2> QED BY <2>2, <2>3, <2>4, <2>5 DEF CatalogInv
<1>3. CASE SummariesDrained
  <2>1. /\ host = "projecting" /\ writer = 0 /\ host' = "closing"
        /\ UNCHANGED <<dir, log, sum, known, deleting, loader, target,
                        writer, session, inflight,
                        broken, handle, barriers,
                        birth, del, hidden>>
    BY <1>3 DEF SummariesDrained, diskVars, chainVars, summaryVars
  <2>2. DeletesInOrder'
    BY <2>1 DEF CatalogInv, DeletesInOrder, Queued, Loaded
  <2>3. ListsInOrder'
    BY <2>1 DEF CatalogInv, ListsInOrder
  <2>4. EndsInOrder'
    BY <2>1 DEF CatalogInv, EndsInOrder
  <2>5. CatalogTypes' /\ NothingUnborn' /\ WritesInOrder' /\ LoadsInOrder'
    BY <2>1 DEF CatalogInv, CatalogTypes, NothingUnborn, WritesInOrder, LoadsInOrder,
            Queued
  <2> QED BY <2>2, <2>3, <2>4, <2>5 DEF CatalogInv
<1>4. CASE StoresClosed
  <2>1. /\ host = "closing" /\ ~inflight /\ host' = "closed" /\ ~handle'
        /\ UNCHANGED <<dir, log, sum, known, deleting, loader, target,
                        writer, session, inflight,
                        broken, barriers, birth, del, hidden>>
    BY <1>4 DEF StoresClosed, diskVars, summaryVars
  <2>2. DeletesInOrder'
    BY <2>1 DEF CatalogInv, DeletesInOrder, Queued, Loaded
  <2>3. ListsInOrder'
    BY <2>1 DEF CatalogInv, ListsInOrder
  <2>4. EndsInOrder'
    BY <2>1 DEF CatalogInv, EndsInOrder
  <2>5. CatalogTypes' /\ NothingUnborn' /\ WritesInOrder' /\ LoadsInOrder'
    BY <2>1 DEF CatalogInv, CatalogTypes, NothingUnborn, WritesInOrder, LoadsInOrder,
            Queued
  <2> QED BY <2>2, <2>3, <2>4, <2>5 DEF CatalogInv
<1>5. CASE Stop
  <2>1. /\ host # "down" /\ host' = "down"
        /\ \/ dir' = dir /\ log' = log /\ sum' = sum
           \/ inflight /\ log' = log + 1 /\ dir' /\ sum' = sum
           \/ writer > 0 /\ sum' = writer /\ dir' /\ log' = log
        /\ known' = None /\ ~deleting' /\ loader' = "none" /\ target' = 0 /\ writer' = 0
        /\ session' = NoSession /\ ~inflight' /\ barriers' = {}
        /\ birth' = IF birth = "snapshot" THEN "kept" ELSE birth
        /\ del' = IF del = "gone" THEN "gone" ELSE "none"
        /\ UNCHANGED <<>>
    BY <1>5 DEF Stop, diskVars
  <2>2. session' \in Sessions /\ session'.st = "none"
    BY <2>1, SessionFacts
  <2>3. CatalogTypes'
    BY <2>1, <2>2 DEF CatalogInv, CatalogTypes, None
  <2>4. NothingUnborn'
    BY <2>1, <2>2 DEF CatalogInv, NothingUnborn
  <2>5. WritesInOrder'
    BY <2>1, <2>2 DEF CatalogInv, WritesInOrder, Queued
  <2>6. LoadsInOrder'
    BY <2>1, <2>2 DEF CatalogInv, LoadsInOrder, Queued
  <2>7. DeletesInOrder'
    BY <2>1, <2>2 DEF CatalogInv, DeletesInOrder, Queued, Loaded
  <2>8. ListsInOrder'
    BY <2>1, <2>2 DEF CatalogInv, ListsInOrder, CatalogTypes, None
  <2>9. EndsInOrder'
    BY <2>1, <2>2 DEF CatalogInv, EndsInOrder
  <2> QED BY <2>3, <2>4, <2>5, <2>6, <2>7, <2>8, <2>9 DEF CatalogInv
<1>6. CASE Boot
  <2>1. /\ host = "down" /\ host' = "up"
        /\ \/ ~dir /\ known' = known /\ sum' = sum
           \/ dir /\ known' = log /\ sum' \in {sum, log}
           \/ dir /\ hidden' /\ known' = known /\ sum' = sum
        /\ UNCHANGED <<dir, log, deleting, loader, target, writer, session,
                        inflight, broken, handle,
                        barriers, birth, del>>
    BY <1>6 DEF Boot, Trusted, Fault, chainVars
  <2>2. CatalogTypes'
    BY <2>1 DEF CatalogInv, CatalogTypes
  <2>3. NothingUnborn'
    BY <2>1 DEF CatalogInv, NothingUnborn
  <2>4. DeletesInOrder'
    BY <2>1 DEF CatalogInv, DeletesInOrder, EndsInOrder, Queued, Loaded
  <2>5. ListsInOrder'
    BY <2>1 DEF CatalogInv, ListsInOrder, EndsInOrder, CatalogTypes, None
  <2>6. EndsInOrder'
    BY <2>1 DEF CatalogInv, EndsInOrder, None
  <2>7. WritesInOrder' /\ LoadsInOrder'
    BY <2>1 DEF CatalogInv, WritesInOrder, LoadsInOrder, Queued
  <2> QED BY <2>2, <2>3, <2>4, <2>5, <2>6, <2>7 DEF CatalogInv
<1> QED BY <1>1, <1>2, <1>3, <1>4, <1>5, <1>6 DEF StoresClosing

\* A session is created once.
LEMMA CreateKeeps ==
  ASSUME CatalogAssumption, CatalogInv,
         Create
  PROVE  CatalogInv'
<1>1. CASE Create
  <2>1. /\ host = "up" /\ birth = "none" /\ birth' = "snapshot"
        /\ known' = 0 /\ barriers' = {1}
        /\ session' = [st |-> "loaded", mem |-> 1, closed |-> FALSE, poisoned |-> FALSE]
        /\ UNCHANGED <<dir, log, sum, host, deleting, loader, target,
                        writer, inflight, broken,
                        handle, del>>
    BY <1>1 DEF Create, NoSession, diskVars
  <2>2. session' \in Sessions /\ session'.st = "loaded" /\ session'.mem = 1
    BY <2>1 DEF Sessions
  <2>3. /\ ~dir /\ log = 0 /\ ~deleting /\ loader = "none" /\ ~inflight /\ writer = 0
        /\ del = "none"
    BY <2>1 DEF CatalogInv, NothingUnborn, ListsInOrder, DeletesInOrder
  <2>4. CatalogTypes'
    BY <2>1, <2>2, <2>3 DEF CatalogInv, CatalogTypes
  <2>5. NothingUnborn'
    BY <2>1, <2>2, <2>3 DEF CatalogInv, NothingUnborn
  <2>6. WritesInOrder'
    BY <2>1, <2>2, <2>3 DEF CatalogInv, WritesInOrder, Queued
  <2>7. LoadsInOrder'
    BY <2>1, <2>2, <2>3 DEF CatalogInv, LoadsInOrder, Queued
  <2>8. DeletesInOrder'
    BY <2>1, <2>2, <2>3 DEF CatalogInv, DeletesInOrder, Queued, Loaded
  <2>9. ListsInOrder'
    BY <2>1, <2>2, <2>3 DEF CatalogInv, ListsInOrder, CatalogTypes, None
  <2>10. EndsInOrder'
    BY <2>1, <2>2, <2>3 DEF CatalogInv, EndsInOrder
  <2> QED BY <2>4, <2>5, <2>6, <2>7, <2>8, <2>9, <2>10 DEF CatalogInv
<1> QED BY <1>1

\* A barrier that is reached schedules a summary of what is durable; one that
\* is not fails the session, and ends the creation it belongs to.
LEMMA BarriersKeep ==
  ASSUME CatalogAssumption, CatalogInv, Barriers
  PROVE  CatalogInv'
<1>1. PICK k \in barriers : Vouch(k) \/ Reject(k)
  BY DEF Barriers
<1>2. k \in Nat /\ birth # "none" /\ log \in Nat /\ session \in Sessions
  BY DEF CatalogInv, CatalogTypes, NothingUnborn
<1>3. CASE Vouch(k)
  <2>1. /\ host # "down" /\ k <= log /\ Schedule(k) /\ barriers' = barriers \ {k}
        /\ birth' = IF birth = "snapshot" THEN "kept" ELSE birth
        /\ UNCHANGED <<dir, log, sum, host, known, deleting, loader, session,
                        inflight, broken, handle, del, hidden>>
    BY <1>3 DEF Vouch, diskVars
  <2>2. /\ target' \in Nat /\ writer' \in Nat
        /\ deleting \/ host # "up" => UNCHANGED <<target, writer>>
        /\ ~deleting => target' <= log /\ writer' <= log
    BY <1>2, <2>1 DEF Schedule, CatalogInv, CatalogTypes, ListsInOrder
  <2>3. CatalogTypes'
    BY <2>1, <2>2 DEF CatalogInv, CatalogTypes
  <2>4. NothingUnborn'
    BY <1>2, <2>1 DEF NothingUnborn
  <2>5. DeletesInOrder'
    BY <2>1, <2>2 DEF CatalogInv, DeletesInOrder, Queued, Loaded
  <2>6. ListsInOrder'
    BY <2>1, <2>2 DEF CatalogInv, ListsInOrder
  <2>7. EndsInOrder'
    BY <2>1, <2>2 DEF CatalogInv, EndsInOrder
  <2>8. WritesInOrder' /\ LoadsInOrder'
    BY <2>1 DEF CatalogInv, WritesInOrder, LoadsInOrder, Queued
  <2> QED BY <2>3, <2>4, <2>5, <2>6, <2>7, <2>8 DEF CatalogInv
<1>4. CASE Reject(k)
  <2>1. /\ host # "down" /\ broken /\ barriers' = barriers \ {k}
        /\ UNCHANGED <<dir, log, sum, host, known, loader, target, writer,
                        inflight, broken, handle, hidden>>
    BY <1>4 DEF Reject, diskVars, summaryVars
  <2>2. \/ /\ birth = "snapshot" /\ birth' = "failed" /\ deleting' /\ del' = "load"
           /\ session' = [session EXCEPT !.poisoned = TRUE, !.closed = TRUE]
        \/ /\ birth # "snapshot" /\ UNCHANGED <<birth, deleting, del>>
           /\ session' = [session EXCEPT !.poisoned = (@ \/ Loaded)]
    BY <1>4 DEF Reject
  <2>3. /\ session' \in Sessions /\ session'.st = session.st /\ session'.mem = session.mem
        /\ birth # "snapshot" => (session'.closed <=> session.closed)
        /\ birth = "snapshot" => session'.closed
    <3>1. session.closed \in BOOLEAN /\ session.poisoned \in BOOLEAN
      BY <1>2 DEF Sessions
    <3>2. (session.poisoned \/ Loaded) \in BOOLEAN
      OBVIOUS
    <3>3. CASE birth = "snapshot"
      BY <1>2, <2>2, <3>3 DEF Sessions
    <3>4. CASE birth # "snapshot"
      <4>1. session' = [session EXCEPT !.poisoned = (session.poisoned \/ Loaded)]
        BY <1>2, <2>2, <3>4 DEF Sessions
      <4> DEFINE p == session.poisoned \/ Loaded
      <4> HIDE DEF p
      <4>2. session' = [session EXCEPT !.poisoned = p] /\ p \in BOOLEAN
        BY <3>2, <4>1 DEF p
      <4> QED BY <1>2, <3>4, <4>2 DEF Sessions
    <3> QED BY <3>3, <3>4
  <2>4. CatalogTypes'
    BY <2>1, <2>2, <2>3 DEF CatalogInv, CatalogTypes
  <2>5. NothingUnborn'
    BY <1>2, <2>2 DEF NothingUnborn
  <2>6. WritesInOrder'
    BY <2>1, <2>3 DEF CatalogInv, WritesInOrder, Queued
  <2>7. LoadsInOrder'
    BY <2>1, <2>3 DEF CatalogInv, LoadsInOrder, Queued
  <2>8. DeletesInOrder'
    BY <2>1, <2>2, <2>3 DEF CatalogInv, DeletesInOrder, Queued, Loaded
  <2>9. ListsInOrder'
    BY <2>1, <2>2, <2>3 DEF CatalogInv, ListsInOrder
  <2>10. EndsInOrder'
    BY <2>1, <2>2, <2>3 DEF CatalogInv, EndsInOrder
  <2> QED BY <2>4, <2>5, <2>6, <2>7, <2>8, <2>9, <2>10 DEF CatalogInv
<1> QED BY <1>1, <1>3, <1>4

-----------------------------------------------------------------------------
(* The theorems. *)

\* At first there is nothing.
LEMMA CatalogStarts ==
  ASSUME CatalogAssumption, Init
  PROVE  CatalogInv
<1>1. /\ ~dir /\ log = 0 /\ sum = None /\ host = "up" /\ known = None /\ ~deleting
      /\ loader = "none" /\ target = 0 /\ writer = 0 /\ ~inflight /\ barriers = {}
      /\ birth = "none" /\ del = "none" /\ session \in Sessions /\ session.st = "none"
  BY SessionFacts DEF Init
<1>2. CatalogTypes /\ NothingUnborn /\ WritesInOrder /\ LoadsInOrder
  BY <1>1 DEF CatalogTypes, NothingUnborn, WritesInOrder, LoadsInOrder
<1>3. DeletesInOrder /\ ListsInOrder /\ EndsInOrder
  BY <1>1 DEF DeletesInOrder, ListsInOrder, EndsInOrder, Loaded, None
<1> QED BY <1>2, <1>3 DEF CatalogInv

\* Every step keeps the inductive invariant.
LEMMA CatalogStep ==
  ASSUME CatalogAssumption, CatalogInv, [Next]_vars
  PROVE  CatalogInv'
<1>1. CASE UNCHANGED vars
  BY <1>1 DEF vars, diskVars, chainVars, summaryVars, CatalogInv, CatalogTypes, NothingUnborn,
     WritesInOrder, LoadsInOrder, DeletesInOrder, ListsInOrder, EndsInOrder, Queued, Loaded
<1>2. CASE Next
  BY <1>2, SummariesKeep, ChainKeeps, BarriersKeep, LoadingKeeps, DeletionKeeps, HostKeeps,
     CreateKeeps, CallersKeep
     DEF Next, Summaries, Chain
<1> QED BY <1>1, <1>2

\* The inductive invariant holds for any length of the log and any number of
\* faults and crashes.
THEOREM CatalogInvariance ==
  ASSUME CatalogAssumption
  PROVE  Spec => []CatalogInv
<1>1. Init => CatalogInv
  BY CatalogStarts
<1>2. CatalogInv /\ [Next]_vars => CatalogInv'
  BY CatalogStep
<1> QED BY <1>1, <1>2, PTL DEF Spec

\* A deletion that was answered is final: nothing a crash, a start, a load or a
\* late write does brings the directory or the entry back.
THEOREM DeletionIsFinal ==
  ASSUME CatalogAssumption
  PROVE  Spec => []DeletedStaysDeleted
<1>1. CatalogInv => DeletedStaysDeleted
  BY DEF CatalogInv, DeletesInOrder, DeletedStaysDeleted
<1> QED BY <1>1, CatalogInvariance, PTL

\* What is stored for the listing counts no record that is not in the synced log,
\* what is served counts others only while they wait to be written or have failed,
\* and every session with a record is listed unless the start could not rebuild it.
THEOREM ListingIsTrue ==
  ASSUME CatalogAssumption
  PROVE  Spec => []ListedIsTrue
<1>1. CatalogInv => ListedIsTrue
  BY DEF CatalogInv, CatalogTypes, Sessions, ListsInOrder, ListedIsTrue, Served, Loaded,
         Queued, None
<1> QED BY <1>1, CatalogInvariance, PTL

\* closeStores leaves no handle open, and after it no record and no summary is
\* written, whatever load or deletion was under way.
THEOREM ClosedIsQuiet ==
  ASSUME CatalogAssumption
  PROVE  Spec => QuietAfterClose
<1> DEFINE Quiet == host = "closed" /\ host' = "closed" =>
                      ~handle' /\ log' <= log /\ (sum' = sum \/ sum' = None)
<1>1. ASSUME CatalogInv, CatalogInv', [Next]_vars PROVE Quiet
  <2> SUFFICES ASSUME host = "closed", host' = "closed"
               PROVE  ~handle' /\ log' <= log /\ (sum' = sum \/ sum' = None)
    OBVIOUS
  <2>1. ~handle'
    BY <1>1 DEF CatalogInv, EndsInOrder
  <2>2. ~inflight /\ writer = 0 /\ log \in Nat
    BY <1>1 DEF CatalogInv, EndsInOrder, CatalogTypes
  <2>3. CASE UNCHANGED <<log, sum>>
    BY <2>1, <2>2, <2>3
  <2>4. CASE RemovePart \/ Removed
    BY <2>1, <2>2, <2>4 DEF RemovePart, Removed
  <2>5. CASE SummaryLands \/ RecordLands \/ Stop \/ Boot
    BY <2>2, <2>5 DEF SummaryLands, RecordLands, Stop, Boot
  <2>6. CASE \/ SummaryFails \/ Submit \/ RecordFails \/ AppendEvent \/ Durable \/ Barriers
             \/ Create \/ Load \/ Loading \/ ReadCanonical \/ Delete \/ LoadDrained
             \/ AppendsDrained \/ Forget \/ RemoveFails \/ Close \/ StoresClosing
    <3>1. UNCHANGED <<log, sum>>
      BY <2>6 DEF SummaryFails, Submit, RecordFails, AppendEvent, Durable, Barriers, Vouch, Reject,
         Create, Load, Loading, History, HistoryFails, RecoveryLands, RecoveryFails, Registers,
         ReadCanonical, Delete, LoadDrained, AppendsDrained, Forget, RemoveFails, Close,
         StoresClosing, SessionsDrained, SummariesDrained, StoresClosed, diskVars
    <3> QED BY <2>3, <3>1
  <2>7. CASE UNCHANGED vars
    BY <2>3, <2>7 DEF vars, diskVars
  <2> QED BY <1>1, <2>4, <2>5, <2>6, <2>7, Zenon DEF Next, Summaries, Chain, Deletion
<1>2. CatalogInv /\ CatalogInv' /\ [Next]_vars => Quiet
  BY <1>1
<1> QED BY <1>2, CatalogInvariance, PTL DEF Spec, QuietAfterClose

-----------------------------------------------------------------------------
(***************************************************************************)
(* The page of a conversation (EventStream).                               *)
(***************************************************************************)

StreamEvents == [kind : {"text", "turn/end", "request", "decision"},
           q : Questions \cup {NoQuestion}, run : Nat]
Frames == [kind : {"snapshot", "resume", "session", "approval", "approval-settled"},
           from : Nat, events : Seq(StreamEvents), q : Questions \cup {NoQuestion}]

\* A frame that carries events, and what is true of those it carries.
Carries(f) == f.kind \in {"snapshot", "resume", "session"}
Piece(f, h) ==
  /\ f.from >= 1 /\ LastSeq(f) <= Len(h)
  /\ f.events = SubSeq(h, f.from, LastSeq(f))

StreamTypes ==
  /\ history \in Seq(StreamEvents) /\ shown \in Seq(StreamEvents) /\ batch \in Seq(StreamEvents)
  /\ wire \in Seq(Frames)
  /\ seen \in Nat /\ lastId \in Nat \cup {NoId} /\ run \in Nat /\ synced \in Nat
  /\ asked \subseteq Questions

\* What the page keeps of what it has: nothing when a snapshot is under way.
Base == IF wire # <<>> /\ wire[1].kind = "snapshot" THEN 0 ELSE seen

\* How far a page comes that has come to `got` and takes in the frames of w before
\* the i-th: at least to n, and not beyond n.
Reached(w, got, i, n) ==
  n <= got \/ \E j \in 1..(i - 1) : Carries(w[j]) /\ n <= LastSeq(w[j])
Within(w, got, i, n) ==
  got <= n /\ \A j \in 1..(i - 1) : Carries(w[j]) => LastSeq(w[j]) <= n

\* A frame of events begins at most one after what those before it brought, and
\* brings no less.
FrameOK(w, h, got, i) ==
  /\ ~Carries(w[i]) => w[i].from = 0
  /\ Carries(w[i]) => /\ Piece(w[i], h) /\ Reached(w, got, i, w[i].from - 1)
                      /\ Within(w, got, i, LastSeq(w[i]))
  /\ w[i].kind = "snapshot" => i = 1 /\ w[i].from = 1

\* The page never leaves a gap, and an open connection brings all there is.  Without
\* one the page may have come further than the log: to records that are lost.
WireOK ==
  /\ \A i \in 1..Len(wire) : FrameOK(wire, history, Base, i)
  /\ open => Base <= Len(history) /\ Reached(wire, Base, Len(wire) + 1, Len(history))
  /\ ~open => wire = <<>>

PageOK ==
  /\ ViewIsHistory
  /\ lastId = NoId => seen = 0
  /\ lastId # NoId => lastId = seen

StreamInv == StreamTypes /\ WireOK /\ PageOK

-----------------------------------------------------------------------------
\* What the host appends leaves the beginning of the history as it was.
Extends ==
  /\ history' \in Seq(StreamEvents) /\ Len(history) <= Len(history')
  /\ \A i \in 1..Len(history) : history'[i] = history[i]

\* Sequences are equal when their elements are.
LEMMA SeqEqual ==
  ASSUME NEW S, NEW s \in Seq(S), NEW t \in Seq(S), Len(s) = Len(t),
         \A i \in 1..Len(s) : s[i] = t[i]
  PROVE  s = t
OBVIOUS

LEMMA Joined ==
  ASSUME NEW S, NEW s \in Seq(S), NEW t \in Seq(S)
  PROVE  /\ s \o t \in Seq(S) /\ Len(s \o t) = Len(s) + Len(t)
         /\ Len(s) \in Nat /\ Len(t) \in Nat
         /\ \A i \in 1..Len(s) : (s \o t)[i] = s[i]
OBVIOUS

LEMMA JoinedAgain ==
  ASSUME NEW S, NEW s \in Seq(S), NEW t \in Seq(S), NEW u \in Seq(S)
  PROVE  t \o u \in Seq(S) /\ s \o (t \o u) = (s \o t) \o u
<1>1. /\ s \o t \in Seq(S) /\ t \o u \in Seq(S)
      /\ Len(s) \in Nat /\ Len(t) \in Nat /\ Len(u) \in Nat
      /\ Len(s \o t) = Len(s) + Len(t) /\ Len(t \o u) = Len(t) + Len(u)
  OBVIOUS
<1>2. /\ s \o (t \o u) \in Seq(S) /\ (s \o t) \o u \in Seq(S)
      /\ Len(s \o (t \o u)) = Len(s) + Len(t) + Len(u)
      /\ Len((s \o t) \o u) = Len(s) + Len(t) + Len(u)
  BY <1>1
<1>3. \A i \in 1..Len(s \o (t \o u)) : (s \o (t \o u))[i] = ((s \o t) \o u)[i]
  <2> TAKE i \in 1..Len(s \o (t \o u))
  <2>1. CASE i <= Len(s)
    BY <1>1, <1>2, <2>1
  <2>2. CASE i > Len(s) /\ i <= Len(s) + Len(t)
    BY <1>1, <1>2, <2>2
  <2>3. CASE i > Len(s) + Len(t)
    BY <1>1, <1>2, <2>3
  <2> QED BY <1>1, <1>2, <2>1, <2>2, <2>3
<1> QED BY <1>1, <1>2, <1>3, SeqEqual

LEMMA SameBeginning ==
  ASSUME NEW S, NEW s \in Seq(S), NEW t \in Seq(S), Len(s) <= Len(t),
         \A i \in 1..Len(s) : t[i] = s[i], NEW a \in Nat \ {0}, NEW b \in Nat, b <= Len(s)
  PROVE  SubSeq(t, a, b) = SubSeq(s, a, b)
<1>1. /\ SubSeq(t, a, b) \in Seq(S) /\ SubSeq(s, a, b) \in Seq(S)
      /\ Len(SubSeq(t, a, b)) = (IF a <= b THEN b - a + 1 ELSE 0)
      /\ Len(SubSeq(s, a, b)) = (IF a <= b THEN b - a + 1 ELSE 0)
  OBVIOUS
<1>2. \A k \in 1..Len(SubSeq(s, a, b)) :
        SubSeq(t, a, b)[k] = t[a + k - 1] /\ SubSeq(s, a, b)[k] = s[a + k - 1]
  BY <1>1
<1>3. \A k \in 1..Len(SubSeq(s, a, b)) : SubSeq(t, a, b)[k] = SubSeq(s, a, b)[k]
  BY <1>1, <1>2
<1> QED BY <1>1, <1>3

LEMMA PieceKept ==
  ASSUME StreamTypes, Extends, NEW f \in Frames, Piece(f, history)
  PROVE  Piece(f, history')
<1>0. f.from \in Nat /\ f.events \in Seq(StreamEvents) /\ LastSeq(f) = LastSeq(f)'
  BY DEF Frames, LastSeq
<1>1. f.from \in Nat \ {0} /\ LastSeq(f) \in Nat
  BY <1>0 DEF Piece, LastSeq
<1>2. /\ history \in Seq(StreamEvents) /\ history' \in Seq(StreamEvents)
      /\ Len(history) \in Nat /\ Len(history') \in Nat /\ Len(history) <= Len(history')
      /\ \A i \in 1..Len(history) : history'[i] = history[i]
  BY DEF StreamTypes, Extends
<1>3. LastSeq(f) <= Len(history) /\ f.events = SubSeq(history, f.from, LastSeq(f))
  BY DEF Piece
<1>4. SubSeq(history', f.from, LastSeq(f)) = SubSeq(history, f.from, LastSeq(f))
  BY <1>1, <1>2, <1>3, SameBeginning
<1> QED BY <1>1, <1>2, <1>3, <1>4 DEF Piece

\* What the page shows of a history that grew is what it showed.
LEMMA PageKept ==
  ASSUME StreamInv, Extends, UNCHANGED <<lastId, seen, shown, batch, lost>>
  PROVE  PageOK'
<1>1. View' = View /\ seen \in Nat /\ Len(history) \in Nat
  BY DEF View, StreamInv, StreamTypes
<1>2. ASSUME NEW i \in 1..seen, InPlace(i, View[i]) PROVE InPlace(i, View[i])'
  <2>1. CASE <<i, View[i]>> \in lost
    BY <1>1, <2>1 DEF InPlace
  <2>2. CASE i <= Len(history) /\ View[i] = history[i]
    <3>1. i \in 1..Len(history) /\ i <= Len(history')
      BY <1>1, <2>2 DEF Extends, StreamInv, StreamTypes
    <3> QED BY <1>1, <2>2, <3>1 DEF InPlace, Extends
  <2> QED BY <1>2, <2>1, <2>2 DEF InPlace
<1> QED BY <1>1, <1>2 DEF StreamInv, PageOK, ViewIsHistory

\* A frame that was under way when more was said is what it was.
LEMMA FrameKept ==
  ASSUME StreamTypes, Extends, WireOK, NEW frames \in Seq(Frames), wire' = wire \o frames,
         UNCHANGED seen, \A k \in 1..Len(frames) : frames[k].kind # "snapshot"
  PROVE  /\ Base' = Base
         /\ \A i \in 1..Len(wire) : i \in 1..Len(wire') /\ wire'[i] = wire[i]
         /\ \A i \in 1..(Len(wire) + 1), k, n \in Int :
              i <= k /\ Reached(wire, Base, i, n) => Reached(wire', Base, k, n)
         /\ \A i \in 1..Len(wire) : FrameOK(wire', history', Base, i)
<1>1. /\ Len(wire') = Len(wire) + Len(frames) /\ Len(wire) \in Nat /\ Len(frames) \in Nat
      /\ \A i \in 1..Len(wire) : i \in 1..Len(wire') /\ wire'[i] = wire[i]
  BY DEF StreamTypes
<1>2. Base' = Base
  <2>1. CASE wire = <<>>
    <3>1. wire' = frames
      BY <2>1
    <3>2. frames # <<>> => 1 \in 1..Len(frames)
      OBVIOUS
    <3> QED BY <2>1, <3>1, <3>2 DEF Base
  <2>2. CASE wire # <<>>
    <3>1. 1 \in 1..Len(wire) /\ wire' # <<>> /\ wire'[1] = wire[1]
      BY <1>1, <2>2 DEF StreamTypes
    <3> QED BY <2>2, <3>1 DEF Base
  <2> QED BY <2>1, <2>2
<1>3. ASSUME NEW i \in 1..(Len(wire) + 1), NEW k \in Int, NEW n \in Int,
             i <= k, Reached(wire, Base, i, n)
      PROVE  Reached(wire', Base, k, n)
  <2>1. ASSUME NEW j \in 1..(i - 1), Carries(wire[j]), n <= LastSeq(wire[j])
        PROVE  Reached(wire', Base, k, n)
    <3>1. j \in 1..(k - 1) /\ wire'[j] = wire[j]
      BY <1>1, <1>3
    <3> QED BY <2>1, <3>1 DEF Reached
  <2> QED BY <1>3, <2>1 DEF Reached
<1>4. ASSUME NEW i \in 1..Len(wire) PROVE FrameOK(wire', history', Base, i)
  <2>1. wire'[i] = wire[i] /\ wire[i] \in Frames /\ FrameOK(wire, history, Base, i)
    BY <1>1 DEF StreamTypes, WireOK
  <2>2. CASE ~Carries(wire[i])
    BY <2>1, <2>2 DEF FrameOK, Carries
  <2>3. CASE Carries(wire[i])
    <3>0. wire[i].from - 1 \in Int /\ i \in 1..(Len(wire) + 1)
      BY <1>1, <2>1 DEF Frames
    <3>1. Piece(wire[i], history') /\ Reached(wire', Base, i, wire[i].from - 1)
      BY <1>3, <2>1, <2>3, <3>0, PieceKept DEF FrameOK
    <3>2. Within(wire', Base, i, LastSeq(wire[i]))
      <4>1. \A j \in 1..(i - 1) : wire'[j] = wire[j]
        BY <1>1
      <4> QED BY <2>1, <2>3, <4>1 DEF FrameOK, Within
    <3> QED BY <2>1, <3>1, <3>2 DEF FrameOK
  <2> QED BY <2>2, <2>3
<1> QED BY <1>1, <1>2, <1>3, <1>4

\* What the page will have come to is never beyond the log.
LEMMA WithinLog ==
  ASSUME StreamInv, open, NEW i \in 1..(Len(wire) + 1)
  PROVE  Within(wire, Base, i, Len(history))
<1>1. Base <= Len(history)
  BY DEF StreamInv, WireOK
<1>2. ASSUME NEW j \in 1..(i - 1), Carries(wire[j]) PROVE LastSeq(wire[j]) <= Len(history)
  <2>1. j \in 1..Len(wire)
    BY DEF StreamInv, StreamTypes
  <2> QED BY <1>2, <2>1 DEF StreamInv, WireOK, FrameOK, Piece
<1> QED BY <1>1, <1>2 DEF Within

\* The host appends, or says something, and the connection if there is one takes
\* it up.
LEMMA SendKeeps ==
  ASSUME StreamInv, Extends, NEW frames \in Seq(Frames), Send(frames), Len(frames) \in 1..2,
         UNCHANGED <<open, lastId, seen, shown, batch, run, synced, lost>>,
         asked' \subseteq Questions,
         \A k \in 1..Len(frames) :
           /\ frames[k].kind # "snapshot"
           /\ ~Carries(frames[k]) => frames[k].from = 0
           /\ Carries(frames[k]) => /\ k = 1 /\ Piece(frames[k], history')
                                    /\ frames[k].from = Len(history) + 1
                                    /\ LastSeq(frames[k]) = Len(history'),
         Len(history') = Len(history) \/ Carries(frames[1])
  PROVE  StreamInv'
<1>1. PageOK'
  BY PageKept
<1>2. StreamTypes'
  BY DEF StreamInv, StreamTypes, Extends, Send
<1>3. CASE ~open
  <2>1. wire = <<>> /\ wire' = <<>>
    BY <1>3 DEF StreamInv, WireOK, Send
  <2> QED BY <1>1, <1>2, <1>3, <2>1 DEF StreamInv, WireOK
<1>4. CASE open
  <2>1. /\ wire' = wire \o frames /\ Len(wire') = Len(wire) + Len(frames)
        /\ Len(wire) \in Nat /\ Len(frames) \in Nat /\ Len(history) \in Nat
        /\ Len(history') \in Nat /\ Len(history) <= Len(history')
        /\ \A i \in 1..Len(wire') : i > Len(wire) =>
             i - Len(wire) \in 1..Len(frames) /\ wire'[i] = frames[i - Len(wire)]
    BY <1>4 DEF StreamInv, StreamTypes, Send, Extends
  <2>2. /\ Base' = Base
        /\ \A i \in 1..Len(wire) : i \in 1..Len(wire') /\ wire'[i] = wire[i]
        /\ \A i \in 1..(Len(wire) + 1), k, n \in Int :
             i <= k /\ Reached(wire, Base, i, n) => Reached(wire', Base, k, n)
        /\ \A i \in 1..Len(wire) : FrameOK(wire', history', Base, i)
    BY <2>1, FrameKept DEF StreamInv
  <2>3. Reached(wire, Base, Len(wire) + 1, Len(history)) /\ Base <= Len(history) /\ Base \in Nat
    BY <1>4 DEF StreamInv, StreamTypes, WireOK, Base
  <2>4. ASSUME NEW i \in 1..Len(wire'), i > Len(wire)
        PROVE  FrameOK(wire', history', Base, i)
    <3> DEFINE k == i - Len(wire)
    <3>1. k \in 1..Len(frames) /\ wire'[i] = frames[k] /\ i = Len(wire) + k
      BY <2>1, <2>4
    <3> HIDE DEF k
    <3>2. CASE ~Carries(frames[k])
      BY <3>1, <3>2 DEF FrameOK
    <3>3. CASE Carries(frames[k])
      <4>1. i = Len(wire) + 1 /\ frames[k].from - 1 = Len(history)
            /\ LastSeq(frames[k]) = Len(history') /\ Piece(frames[k], history')
        BY <2>1, <3>1, <3>3
      <4>2. Reached(wire', Base, i, Len(history))
        BY <2>1, <2>2, <2>3, <4>1
      <4>3. Within(wire', Base, i, Len(history'))
        <5>1. Len(wire) + 1 \in 1..(Len(wire) + 1)
          BY <2>1
        <5>2. Within(wire, Base, Len(wire) + 1, Len(history))
          BY <1>4, <5>1, WithinLog
        <5>3. ASSUME NEW j \in 1..(i - 1), Carries(wire'[j]) PROVE LastSeq(wire'[j]) <= Len(history')
          <6>1. j \in 1..(Len(wire) + 1 - 1) /\ wire'[j] = wire[j] /\ wire[j] \in Frames
            BY <2>1, <2>2, <4>1 DEF StreamInv, StreamTypes
          <6>2. LastSeq(wire[j]) <= Len(history) /\ LastSeq(wire[j]) \in Int
            <7>1. j \in 1..Len(wire) /\ Carries(wire[j]) /\ LastSeq(wire[j]) \in Int
              BY <2>1, <5>3, <6>1 DEF Frames, LastSeq
            <7>2. Piece(wire[j], history)
              BY <7>1 DEF StreamInv, WireOK, FrameOK
            <7> QED BY <7>1, <7>2 DEF Piece
          <6> QED BY <2>1, <6>1, <6>2
        <5>4. Base <= Len(history')
          BY <2>1, <2>3
        <5> QED BY <5>3, <5>4 DEF Within
      <4> QED BY <3>1, <3>3, <4>1, <4>2, <4>3 DEF FrameOK
    <3> QED BY <3>2, <3>3
  <2>5. Reached(wire', Base, Len(wire') + 1, Len(history'))
    <3>1. CASE Len(history') = Len(history)
      <4>1. Len(wire) + 1 \in 1..(Len(wire) + 1) /\ Len(wire) + 1 <= Len(wire') + 1
            /\ Len(wire') + 1 \in Int
        BY <2>1
      <4> QED BY <2>2, <2>3, <3>1, <4>1
    <3>2. CASE Carries(frames[1])
      <4>0. Len(frames) >= 1
        OBVIOUS
      <4>1. Len(wire) + 1 \in 1..Len(wire') /\ Len(wire) + 1 > Len(wire) /\ Len(wire) + 1 - Len(wire) = 1
        BY <2>1, <4>0
      <4>2. wire'[Len(wire) + 1] = frames[1]
        BY <2>1, <4>1
      <4>3. LastSeq(frames[1]) = Len(history')
        BY <3>2
      <4>4. Len(wire) + 1 \in 1..(Len(wire') + 1 - 1)
        BY <2>1, <4>1
      <4> QED BY <2>1, <3>2, <4>2, <4>3, <4>4 DEF Reached
    <3> QED BY <3>1, <3>2
  <2>6. \A i \in 1..Len(wire') : FrameOK(wire', history', Base', i)
    <3> SUFFICES ASSUME NEW i \in 1..Len(wire') PROVE FrameOK(wire', history', Base, i)
      BY <2>2
    <3>1. CASE i <= Len(wire)
      BY <2>1, <2>2, <3>1
    <3>2. CASE i > Len(wire)
      BY <2>4, <3>2
    <3> QED BY <2>1, <3>1, <3>2
  <2>7. Base' <= Len(history')
    BY <2>1, <2>2, <2>3
  <2> QED BY <1>1, <1>2, <1>4, <2>2, <2>5, <2>6, <2>7 DEF StreamInv, WireOK
<1> QED BY <1>3, <1>4

\* An event is appended, and the question it settles is taken from the page.
LEMMA AppendKeeps ==
  ASSUME StreamInv, NEW e \in StreamEvents, history' = Append(history, e),
         UNCHANGED <<open, lastId, seen, shown, batch, run, synced, lost>>, asked' \subseteq Questions,
         \/ Send(<<Appended(e)>>)
         \/ \E q \in Questions : Send(<<Appended(e), About("approval-settled", q)>>)
  PROVE  StreamInv'
<1>1. Len(history) \in Nat /\ Len(history') = Len(history) + 1 /\ Extends
  BY DEF StreamInv, StreamTypes, Extends
<1>2. history'[Len(history) + 1] = e
  BY DEF StreamInv, StreamTypes
<1> DEFINE f == Appended(e)
<1>3. /\ f \in Frames /\ f.kind = "session" /\ f.from = Len(history) + 1
      /\ f.events = <<e>> /\ LastSeq(f) = Len(history) + 1
  BY <1>1 DEF Appended, Carry, Frames, LastSeq
<1>4. Piece(f, history')
  <2> DEFINE n == Len(history) + 1
             s == SubSeq(history', n, n)
  <2>0. n \in Nat \ {0} /\ Len(history') = n /\ history' \in Seq(StreamEvents) /\ history'[n] = e
    BY <1>1, <1>2 DEF Extends
  <2> HIDE DEF n
  <2>1. s = <<e>>
    <3>1. s \in Seq(StreamEvents) /\ Len(s) = 1 /\ s[1] = e
      BY <2>0
    <3> HIDE DEF s
    <3>2. <<e>> \in Seq(StreamEvents) /\ Len(<<e>>) = 1 /\ <<e>>[1] = e
      OBVIOUS
    <3>3. \A k \in 1..1 : s[k] = <<e>>[k]
      BY <3>1, <3>2
    <3> QED BY <3>1, <3>2, <3>3, SeqEqual
  <2> USE DEF n
  <2> QED BY <1>1, <1>3, <2>1 DEF Piece, LastSeq
<1>5. CASE Send(<<f>>)
  <2> DEFINE fs == <<f>>
  <2>1. fs \in Seq(Frames) /\ Len(fs) = 1 /\ fs[1] = f
    BY <1>3
  <2> HIDE DEF f, fs
  <2>2. Send(fs)
    BY <1>5 DEF fs
  <2>3. \A k \in 1..Len(fs) : k = 1 /\ fs[k] = f
    BY <2>1
  <2> QED BY <1>1, <1>3, <1>4, <2>1, <2>2, <2>3, SendKeeps DEF Carries
<1>6. ASSUME NEW q \in Questions, Send(<<f, About("approval-settled", q)>>)
      PROVE  StreamInv'
  <2> DEFINE g == About("approval-settled", q)
             fs == <<f, g>>
  <2>1. g \in Frames /\ g.kind = "approval-settled" /\ g.from = 0
    BY DEF About, Frames
  <2>2. fs \in Seq(Frames) /\ Len(fs) = 2 /\ fs[1] = f /\ fs[2] = g
    BY <1>3, <2>1
  <2> HIDE DEF f, g, fs
  <2>3. Send(fs)
    BY <1>6 DEF fs, f, g
  <2>4. \A k \in 1..Len(fs) :
          /\ fs[k].kind # "snapshot"
          /\ ~Carries(fs[k]) => fs[k].from = 0
          /\ Carries(fs[k]) => /\ k = 1 /\ Piece(fs[k], history')
                                 /\ fs[k].from = Len(history) + 1
                                 /\ LastSeq(fs[k]) = Len(history')
    <3> SUFFICES ASSUME NEW k \in 1..2
                 PROVE  /\ fs[k].kind # "snapshot"
                        /\ ~Carries(fs[k]) => fs[k].from = 0
                        /\ Carries(fs[k]) => /\ k = 1 /\ Piece(fs[k], history')
                                 /\ fs[k].from = Len(history) + 1
                                 /\ LastSeq(fs[k]) = Len(history')
      BY <2>2
    <3>1. CASE k = 1
      BY <1>1, <1>3, <1>4, <2>2, <3>1 DEF Carries
    <3>2. CASE k = 2
      BY <2>1, <2>2, <3>2 DEF Carries
    <3> QED BY <3>1, <3>2
  <2>5. Carries(fs[1]) /\ Len(fs) \in 1..2
    BY <1>1, <1>3, <2>2 DEF Carries
  <2> QED BY <1>1, <2>2, <2>3, <2>4, <2>5, SendKeeps
<1> QED BY <1>5, <1>6

LEMMA Unmoved ==
  ASSUME StreamInv, asked' \subseteq Questions, synced' \in Nat,
         UNCHANGED <<history, open, wire, lastId, seen, shown, batch, run, lost>>
  PROVE  StreamInv'
BY DEF StreamInv, StreamTypes, WireOK, FrameOK, Base, PageOK, ViewIsHistory, View, InPlace,
   Reached, Within, Piece

\* Something is said that is not an event.
LEMMA TellKeeps ==
  ASSUME StreamInv, UNCHANGED <<history, open, lastId, seen, shown, batch, run, synced, lost>>,
         asked' \subseteq Questions,
         NEW q \in Questions, NEW kind \in {"approval", "approval-settled"},
         Send(<<About(kind, q)>>) \/ wire' = wire
  PROVE  StreamInv'
<1>1. Extends
  BY DEF StreamInv, StreamTypes, Extends
<1>2. CASE wire' = wire
  BY <1>2, Unmoved DEF StreamInv, StreamTypes
<1>3. CASE Send(<<About(kind, q)>>)
  <2> DEFINE g == About(kind, q)
             fs == <<g>>
  <2>1. g \in Frames /\ g.kind = kind /\ g.from = 0
    BY DEF About, Frames
  <2>2. fs \in Seq(Frames) /\ Len(fs) = 1 /\ fs[1] = g
    BY <2>1
  <2> HIDE DEF g, fs
  <2>3. Send(fs)
    BY <1>3 DEF fs, g
  <2>4. Len(fs) \in 1..2 /\ \A k \in 1..Len(fs) : fs[k] = g
    BY <2>2
  <2> QED BY <1>1, <2>1, <2>2, <2>3, <2>4, SendKeeps DEF Carries
<1> QED BY <1>2, <1>3

\* The host's own steps.
LEMMA EventAppended ==
  ASSUME StreamAssumption, StreamInv, Text \/ TurnEnds
  PROVE  StreamInv'
<1>1. /\ Event("text", NoQuestion) \in StreamEvents /\ Event("turn/end", NoQuestion) \in StreamEvents
      /\ asked \subseteq Questions
  BY DEF StreamInv, StreamTypes, Event, StreamEvents
<1> QED BY <1>1, AppendKeeps DEF Text, TurnEnds, pageVars, others

LEMMA QuestionKeeps ==
  ASSUME StreamAssumption, StreamInv, NEW q \in Questions,
         Request(q) \/ Ask(q) \/ Answer(q) \/ Dismiss(q) \/ Settle(q)
  PROVE  StreamInv'
<1>1. Event("request", q) \in StreamEvents /\ Event("decision", q) \in StreamEvents
  BY DEF StreamInv, StreamTypes, Event, StreamEvents
<1>2. asked \subseteq Questions
  BY DEF StreamInv, StreamTypes
<1>3. CASE Answer(q) \/ Dismiss(q)
  <2>1. /\ UNCHANGED <<history, open, wire, lastId, seen, shown, batch, run, lost>>
        /\ asked' \subseteq Questions /\ synced' \in Nat
    BY <1>2, <1>3 DEF StreamInv, StreamTypes, Answer, Dismiss, hostVars, pageVars, others
  <2> QED BY <2>1, Unmoved
<1>4. CASE Request(q)
  <2>1. CASE q \in Own
    BY <1>1, <1>2, <1>4, <2>1, AppendKeeps DEF Request, pageVars, others
  <2>2. CASE q \notin Own
    BY <1>2, <1>4, <2>2, Unmoved DEF StreamInv, StreamTypes, Request, pageVars, others
  <2> QED BY <2>1, <2>2
<1>5. CASE Ask(q)
  BY <1>2, <1>5, TellKeeps DEF Ask, pageVars, others
<1>6. CASE Settle(q)
  <2>1. CASE q \in Own
    BY <1>1, <1>2, <1>6, <2>1, AppendKeeps DEF Settle, pageVars, others
  <2>2. CASE q \notin Own
    BY <1>2, <1>6, <2>2, TellKeeps DEF Settle, pageVars, others
  <2> QED BY <2>1, <2>2
<1> QED BY <1>3, <1>4, <1>5, <1>6

\* The elements of a finite set in some order.
LEMMA InSomeOrder ==
  ASSUME NEW S, IsFiniteSet(S)
  PROVE  /\ SetToSeq(S) \in Seq(S) /\ \A k \in 1..Len(SetToSeq(S)) : SetToSeq(S)[k] \in S
         /\ \A x \in S : \E k \in 1..Len(SetToSeq(S)) : SetToSeq(S)[k] = x
<1> DEFINE n == Cardinality(S)
           s == SetToSeq(S)
<1>1. n \in Nat /\ ExistsBijection(1..n, S)
  BY FS_CardinalityType
<1>2. PICK f \in [1..n -> S] : IsInjective(f)
  BY <1>1 DEF ExistsBijection, Bijection, Injection, IsInjective
<1>3. s \in [1..n -> S] /\ IsInjective(s)
  BY <1>2 DEF SetToSeq
<1>4. Cardinality(1..n) = n
  BY <1>1, FS_Interval
<1>5. s \in Injection(1..n, S)
  BY <1>3 DEF Injection, IsInjective
<1> HIDE DEF s, n
<1>6. s \in Surjection(1..n, S)
  <2>1. n = Cardinality(S)
    BY DEF n
  <2> QED BY <1>4, <1>5, <2>1, FS_Injection
<1>7. s \in Seq(S) /\ Len(s) = n
  BY <1>1, <1>3
<1>8. \A x \in S : \E k \in 1..n : s[k] = x
  BY <1>6 DEF Surjection
<1> QED BY <1>3, <1>7, <1>8 DEF s

\* A connection begins with what the page has not had.
LEMMA ConnectKeeps ==
  ASSUME StreamAssumption, StreamInv, Connect
  PROVE  StreamInv'
<1> DEFINE questions == {About("approval", q) : q \in asked}
           rest == SetToSeq(questions)
           f == Replay(lastId)
<1>1. /\ UNCHANGED <<history, lastId, seen, shown, batch, run, asked, synced, lost>>
      /\ open' = TRUE /\ wire' = <<f>> \o rest
  BY DEF Connect, hostVars, pageVars, others
<1>2. IsFiniteSet(questions)
  <2>1. IsFiniteSet(asked)
    <3>1. IsFiniteSet(Questions)
      BY FS_Union DEF StreamAssumption, Questions
    <3> QED BY <3>1, FS_Subset DEF StreamInv, StreamTypes
  <2> DEFINE put == [q \in asked |-> About("approval", q)]
  <2>2. put \in Surjection(asked, questions)
    BY DEF Surjection
  <2> QED BY <2>1, <2>2, FS_Surjection
<1>3. \A k \in 1..Len(rest) : /\ rest[k] \in Frames /\ rest[k].from = 0
                              /\ rest[k].kind = "approval"
  <2>1. \A g \in questions : g \in Frames /\ g.from = 0 /\ g.kind = "approval"
    <3> SUFFICES ASSUME NEW q \in asked
                 PROVE  /\ About("approval", q) \in Frames /\ About("approval", q).from = 0
                        /\ About("approval", q).kind = "approval"
      OBVIOUS
    <3>1. q \in Questions /\ <<>> \in Seq(StreamEvents)
      BY DEF StreamInv, StreamTypes
    <3> QED BY <3>1 DEF About, Frames
  <2> QED BY <1>2, <2>1, InSomeOrder
<1>4. rest \in Seq(Frames)
  <2>1. rest \in Seq(questions)
    BY <1>2, InSomeOrder
  <2> HIDE DEF questions, rest
  <2> QED BY <1>3, <2>1
<1>5. /\ f \in Frames /\ Carries(f) /\ Piece(f, history) /\ LastSeq(f) = Len(history)
      /\ f.kind = "snapshot" => f.from = 1
      /\ f.kind # "snapshot" => f.from - 1 = seen /\ seen <= Len(history)
  <2>1. /\ history \in Seq(StreamEvents) /\ Len(history) \in Nat /\ seen \in Nat
    BY DEF StreamInv, StreamTypes
  <2>2. CASE ~Resumable(lastId)
    <3>1. f = Carry("snapshot", 1, history)
      BY <2>2 DEF Replay
    <3>2. LastSeq(f) = Len(history) /\ SubSeq(history, 1, Len(history)) = history
      BY <2>1, <3>1 DEF Carry, LastSeq
    <3> QED BY <2>1, <2>2, <3>1, <3>2 DEF Carry, Frames, Carries, Piece
  <2>3. CASE Resumable(lastId)
    <3> DEFINE s == SubSeq(history, lastId + 1, Len(history))
    <3>1. lastId \in Nat /\ lastId = seen /\ lastId <= Len(history)
      BY <2>3 DEF StreamInv, StreamTypes, PageOK, Resumable
    <3>2. f = Carry("resume", lastId + 1, s)
      BY <2>1, <2>3, <3>1 DEF Replay
    <3>3. s \in Seq(StreamEvents) /\ Len(s) = Len(history) - lastId
      BY <2>1, <3>1
    <3> HIDE DEF f
    <3>4. /\ f.kind = "resume" /\ f.from = lastId + 1 /\ f.events = s /\ f.q = NoQuestion
          /\ f \in Frames
      <4> HIDE DEF s
      <4> QED BY <2>1, <3>1, <3>2, <3>3 DEF Carry, Frames
    <3>5. LastSeq(f) = Len(history)
      <4> HIDE DEF s
      <4> QED BY <2>1, <3>1, <3>3, <3>4 DEF LastSeq
    <3> QED BY <2>1, <2>3, <3>1, <3>4, <3>5 DEF Carries, Piece
  <2> QED BY <2>2, <2>3
<1> HIDE DEF questions, rest, f
<1>6. /\ wire' \in Seq(Frames) /\ Len(wire') = 1 + Len(rest) /\ Len(rest) \in Nat
      /\ wire'[1] = f
      /\ \A i \in 1..Len(wire') : i # 1 =>
           i - 1 \in 1..Len(rest) /\ wire'[i] = rest[i - 1]
  BY <1>1, <1>4, <1>5
<1>7. StreamTypes' /\ PageOK'
  BY <1>1, <1>6 DEF StreamInv, StreamTypes, PageOK, ViewIsHistory, View, InPlace
<1>8. /\ Base' = IF f.kind = "snapshot" THEN 0 ELSE seen
      /\ Base' \in Nat /\ Base' <= Len(history) /\ f.from - 1 = Base' /\ Len(history) \in Nat
  <2>1. wire' # <<>>
    BY <1>6
  <2>2. Len(history) \in Nat /\ seen \in Nat
    BY DEF StreamInv, StreamTypes
  <2> QED BY <1>1, <1>5, <1>6, <2>1, <2>2 DEF Base
<1>9. Reached(wire', Base', Len(wire') + 1, Len(history'))
  <2>1. 1 \in 1..(Len(wire') + 1 - 1)
    BY <1>6
  <2>2. Len(history) \in Nat /\ Len(history) <= LastSeq(wire'[1])
    BY <1>5, <1>6 DEF StreamInv, StreamTypes
  <2> QED BY <1>1, <1>5, <1>6, <2>1, <2>2 DEF Reached
<1>10. ASSUME NEW i \in 1..Len(wire')
       PROVE  FrameOK(wire', history', Base', i)
  <2>1. CASE i = 1
    <3>1. Reached(wire', Base', i, f.from - 1)
      BY <1>8 DEF Reached
    <3>2. Within(wire', Base', i, LastSeq(f))
      BY <1>5, <1>8, <2>1 DEF Within
    <3> QED BY <1>1, <1>5, <1>6, <2>1, <3>1, <3>2 DEF FrameOK
  <2>2. CASE i # 1
    BY <1>3, <1>6, <2>2 DEF Carries, FrameOK
  <2> QED BY <2>1, <2>2
<1> QED BY <1>1, <1>7, <1>8, <1>9, <1>10 DEF StreamInv, WireOK

\* A connection ends or is refused, or another conversation is selected.
LEMMA DropKeeps ==
  ASSUME StreamInv, Drop \/ Refuse \/ Reopen
  PROVE  StreamInv'
<1>1. UNCHANGED <<history, run, asked, synced, lost>>
  BY DEF Drop, Refuse, Reopen, hostVars
<1>2. CASE Drop
  <2>1. wire' = <<>> /\ open' = FALSE /\ UNCHANGED <<lastId, seen, shown, batch>>
    BY <1>2 DEF Drop, pageVars
  <2>2. WireOK' /\ wire' \in Seq(Frames)
    BY <2>1 DEF WireOK
  <2> QED BY <1>1, <2>1, <2>2 DEF StreamInv, StreamTypes, PageOK, ViewIsHistory, View, InPlace
<1>3. CASE Refuse
  BY <1>1, <1>3, Unmoved DEF Refuse, pageVars, StreamInv, StreamTypes
<1>4. CASE Reopen
  <2>1. /\ lastId' = NoId /\ seen' = 0 /\ shown' = <<>> /\ batch' = <<>>
        /\ history' \in Seq(StreamEvents) /\ wire' = <<>> /\ open' = FALSE
    BY <1>1, <1>4 DEF Reopen, StreamInv, StreamTypes
  <2>2. PageOK'
    BY <2>1 DEF PageOK, ViewIsHistory, View
  <2>3. WireOK' /\ wire' \in Seq(Frames)
    BY <2>1 DEF WireOK
  <2> QED BY <1>1, <2>1, <2>2, <2>3 DEF StreamInv, StreamTypes
<1> QED BY <1>2, <1>3, <1>4

LEMMA EventType ==
  ASSUME NEW kind \in {"text", "turn/end", "request", "decision"},
         NEW q \in Questions \cup {NoQuestion}, NEW n \in Nat
  PROVE  [kind |-> kind, q |-> q, run |-> n] \in StreamEvents
BY DEF StreamEvents

\* The host that starts cuts the log, and adds decisions of questions that have none
\* and the end of the turn; what is cut is lost.
LEMMA Restarted ==
  ASSUME StreamAssumption, StreamInv, Restart
  PROVE  \E kept \in Nat :
           /\ kept <= Len(history) /\ kept <= Len(history')
           /\ history' \in Seq(StreamEvents) /\ synced' \in Nat
           /\ \A i \in 1..kept : history'[i] = history[i]
           /\ \A j \in 1..Len(history') : j > kept =>
                /\ history'[j].kind \in {"decision", "turn/end"}
                /\ \E q \in Own \cup {NoQuestion} :
                     /\ history'[j].q = q
                     /\ q # NoQuestion =>
                          \E i \in 1..kept : history[i].kind = "request" /\ history[i].q = q
           /\ lost' = lost \cup {<<i, history[i]>> : i \in (kept + 1)..Len(history)}
<1>1. /\ history \in Seq(StreamEvents) /\ Len(history) \in Nat /\ run \in Nat
      /\ synced \in Nat
  BY DEF StreamInv, StreamTypes
<1>2. PICK kept \in synced..Len(history) :
        LET rest == SubSeq(history, 1, kept)
        IN /\ history' = rest \o Closures(rest)
           /\ synced' = IF Closures(rest) = <<>> THEN synced ELSE Len(history')
           /\ lost' = lost \cup {<<i, history[i]>> : i \in (kept + 1)..Len(history)}
  BY DEF Restart
<1> DEFINE rest == SubSeq(history, 1, kept)
           undecided == Undecided(rest)
           stamp(kind, q) == [kind |-> kind, q |-> q, run |-> run + 1]
           decisions == {stamp("decision", q) : q \in undecided}
           decided == SetToSeq(decisions)
           end == <<stamp("turn/end", NoQuestion)>>
           Adds == {e \in StreamEvents : /\ e.kind \in {"decision", "turn/end"}
                                        /\ e.q \in undecided \cup {NoQuestion}}
<1>3. /\ rest \in Seq(StreamEvents) /\ Len(rest) = kept /\ kept \in Nat
      /\ DOMAIN rest = 1..kept /\ kept <= Len(history)
      /\ \A i \in 1..kept : rest[i] = history[i]
  BY <1>1
<1>4. decided \in Seq(Adds)
  <2>1. IsFiniteSet(undecided)
    BY FS_Subset DEF Undecided, StreamAssumption
  <2>2. IsFiniteSet(decisions)
    <3> DEFINE put == [q \in undecided |-> stamp("decision", q)]
    <3>1. put \in Surjection(undecided, decisions)
      BY DEF Surjection
    <3> QED BY <2>1, <3>1, FS_Surjection
  <2>3. \A e \in decisions : e \in Adds
    <3>1. \A q \in undecided : q \in Questions \cup {NoQuestion}
      BY DEF Undecided, Questions
    <3>2. run + 1 \in Nat
      BY <1>1
    <3> HIDE DEF undecided
    <3> QED BY <3>1, <3>2, EventType
  <2>4. decided \in Seq(decisions)
    BY <2>2, InSomeOrder
  <2> HIDE DEF decisions, decided, Adds
  <2> QED BY <2>3, <2>4
<1>5. \A c \in {<<>>, end} : c \in Seq(Adds)
  <2> DEFINE e == stamp("turn/end", NoQuestion)
  <2>1. run + 1 \in Nat
    BY <1>1
  <2>2. e \in Adds /\ end = <<e>>
    BY <2>1, EventType
  <2> HIDE DEF e, end, Adds
  <2>3. <<e>> \in Seq(Adds) /\ <<>> \in Seq(Adds)
    BY <2>2
  <2> QED BY <2>2, <2>3
<1>6. Closures(rest) \in Seq(Adds)
  <2>1. \E c \in {<<>>, end} : Closures(rest) = decided \o c
    BY DEF Closures
  <2>2. PICK c \in {<<>>, end} : Closures(rest) = decided \o c
    BY <2>1
  <2>3. c \in Seq(Adds)
    BY <1>5
  <2> HIDE DEF decided, end, Adds
  <2> QED BY <1>4, <2>2, <2>3, Joined
<1> DEFINE c == Closures(rest)
<1>7. /\ history' = rest \o c /\ synced' \in {synced, Len(history')}
      /\ lost' = lost \cup {<<i, history[i]>> : i \in (kept + 1)..Len(history)}
  BY <1>2
<1>8. \A e \in Adds : /\ e \in StreamEvents /\ e.kind \in {"decision", "turn/end"}
                      /\ \E q \in Own \cup {NoQuestion} :
                           /\ e.q = q
                           /\ q # NoQuestion =>
                                \E i \in 1..kept : history[i].kind = "request" /\ history[i].q = q
  BY <1>3 DEF Undecided
<1> HIDE DEF rest, c, Adds
<1>9. c \in Seq(Adds) /\ c \in Seq(StreamEvents) /\ Len(c) \in Nat
  BY <1>6, <1>8 DEF c
<1>10. /\ history' \in Seq(StreamEvents) /\ Len(history') = kept + Len(c)
       /\ \A i \in 1..kept : history'[i] = rest[i]
       /\ \A j \in 1..Len(history') : j > kept =>
            j - kept \in 1..Len(c) /\ history'[j] = c[j - kept]
  <2>1. /\ rest \o c \in Seq(StreamEvents) /\ Len(rest \o c) = kept + Len(c)
        /\ \A i \in 1..kept : (rest \o c)[i] = rest[i]
    BY <1>3, <1>9, Joined
  <2>2. \A j \in 1..(kept + Len(c)) : j > kept =>
          j - kept \in 1..Len(c) /\ (rest \o c)[j] = c[j - kept]
    BY <1>3, <1>9
  <2> QED BY <1>7, <2>1, <2>2
<1>11. \A j \in 1..Len(history') : j > kept => history'[j] \in Adds
  BY <1>9, <1>10
<1>12. /\ kept \in Nat /\ kept <= Len(history) /\ kept <= Len(history') /\ synced' \in Nat
       /\ \A i \in 1..kept : history'[i] = history[i]
  BY <1>1, <1>3, <1>7, <1>9, <1>10
<1> QED BY <1>7, <1>8, <1>10, <1>11, <1>12

\* What the page shows is still in its place, or lost.
LEMMA RestartKeeps ==
  ASSUME StreamAssumption, StreamInv, Restart
  PROVE  StreamInv'
<1>1. /\ run' = run + 1 /\ asked' = {} /\ open' = FALSE /\ wire' = <<>>
      /\ UNCHANGED <<lastId, seen, shown, batch>>
  BY DEF Restart, pageVars
<1>2. PICK kept \in Nat :
        /\ kept <= Len(history) /\ kept <= Len(history')
        /\ history' \in Seq(StreamEvents) /\ synced' \in Nat
        /\ \A i \in 1..kept : history'[i] = history[i]
        /\ lost' = lost \cup {<<i, history[i]>> : i \in (kept + 1)..Len(history)}
  BY Restarted
<1>3. View' = View /\ seen \in Nat /\ Len(history) \in Nat /\ Len(history') \in Nat
  BY <1>1, <1>2 DEF View, StreamInv, StreamTypes
<1>4. ASSUME NEW i \in 1..seen, InPlace(i, View[i]) PROVE InPlace(i, View[i])'
  <2>1. CASE <<i, View[i]>> \in lost
    BY <1>2, <1>3, <2>1 DEF InPlace
  <2>2. CASE i <= Len(history) /\ View[i] = history[i]
    <3>1. CASE i <= kept
      BY <1>2, <1>3, <2>2, <3>1 DEF InPlace
    <3>2. CASE i > kept
      <4>1. i \in (kept + 1)..Len(history)
        BY <1>3, <2>2, <3>2
      <4> QED BY <1>2, <1>3, <2>2, <4>1 DEF InPlace
    <3> QED BY <1>2, <3>1, <3>2
  <2> QED BY <1>4, <2>1, <2>2 DEF InPlace
<1>5. PageOK'
  BY <1>1, <1>3, <1>4 DEF StreamInv, PageOK, ViewIsHistory
<1> QED BY <1>1, <1>2, <1>5 DEF StreamInv, StreamTypes, WireOK

LEMMA PartIs ==
  ASSUME NEW S, NEW s \in Seq(S), NEW a \in Nat \ {0}, NEW b \in Nat, a <= b + 1, b <= Len(s)
  PROVE  /\ SubSeq(s, a, b) \in Seq(S) /\ Len(SubSeq(s, a, b)) = b - a + 1
         /\ \A k \in 1..(b - a + 1) : SubSeq(s, a, b)[k] = s[a + k - 1]
OBVIOUS

\* What the page has not seen of a frame.
LEMMA UnseenIsNext ==
  ASSUME StreamInv, NEW f \in Frames, Piece(f, history), f.from - 1 <= seen,
         LastSeq(f) > seen
  PROVE  Unseen(f) = SubSeq(history, seen + 1, LastSeq(f))
<1> DEFINE a == f.from
           b == LastSeq(f)
           n == Len(f.events)
<1>1. /\ history \in Seq(StreamEvents) /\ seen \in Nat /\ a \in Nat \ {0} /\ n \in Nat
      /\ f.events \in Seq(StreamEvents) /\ b = a + n - 1 /\ b <= Len(history) /\ a <= seen + 1
      /\ b > seen /\ f.events = SubSeq(history, a, b) /\ b \in Nat
  BY DEF StreamInv, StreamTypes, Frames, Piece, LastSeq
<1>2. Unseen(f) = SubSeq(f.events, seen - a + 2, n)
  <2>1. ~(b <= seen)
    BY <1>1
  <2> QED BY <2>1 DEF Unseen
<1> HIDE DEF a, b, n
<1> DEFINE u == SubSeq(f.events, seen - a + 2, n)
           v == SubSeq(history, seen + 1, b)
<1>3. \A k \in 1..n : f.events[k] = history[a + k - 1]
  <2>1. b - a + 1 = n /\ a <= b + 1
    BY <1>1
  <2> QED BY <1>1, <2>1, PartIs
<1>4. seen - a + 2 \in 1..n
  BY <1>1
<1>5. /\ u \in Seq(StreamEvents) /\ Len(u) = b - seen
      /\ \A k \in 1..(b - seen) : u[k] = f.events[seen - a + 2 + k - 1]
  <2> DEFINE m == seen - a + 2
             s == f.events
             w == SubSeq(s, m, n)
  <2>1. s \in Seq(StreamEvents) /\ n = Len(s) /\ m \in 1..n /\ n - m + 1 = b - seen
    BY <1>1, <1>4 DEF n
  <2> HIDE DEF m, s
  <2>2. w \in Seq(StreamEvents) /\ Len(w) = n - m + 1 /\ \A k \in 1..(n - m + 1) : w[k] = s[m + k - 1]
    BY <1>1, <2>1, PartIs
  <2> QED BY <2>1, <2>2 DEF m, s
<1>6. /\ v \in Seq(StreamEvents) /\ Len(v) = b - seen
      /\ \A k \in 1..(b - seen) : v[k] = history[seen + 1 + k - 1]
  BY <1>1
<1>7. ASSUME NEW k \in 1..(b - seen) PROVE u[k] = v[k]
  <2>1. /\ seen - a + 2 + k - 1 \in 1..n
        /\ a + (seen - a + 2 + k - 1) - 1 = seen + 1 + k - 1
    BY <1>1
  <2> QED BY <1>3, <1>5, <1>6, <2>1
<1> HIDE DEF u, v
<1>8. u = v
  BY <1>5, <1>6, <1>7, SeqEqual
<1> QED BY <1>2, <1>8 DEF u, v, b

\* What the page holds after the first frame: what it keeps, and then the log.
Takes(f) ==
  /\ shown' \in Seq(StreamEvents) /\ batch' \in Seq(StreamEvents) /\ seen' \in Nat
  /\ Len(View') = seen' /\ Base <= seen'
  /\ \A i \in 1..seen' : i <= Base => View'[i] = View[i]
  /\ \A i \in 1..seen' : i > Base => i <= Len(history) /\ View'[i] = history[i]
  /\ Carries(f) => seen' = LastSeq(f)
  /\ ~Carries(f) => seen' = seen /\ Base = seen

LEMMA FrameTaken ==
  ASSUME StreamInv, wire # <<>>,
         TakeSnapshot(wire[1]) \/ TakeEvents(wire[1]) \/ TakeQuestion(wire[1])
  PROVE  Takes(wire[1])
<1> DEFINE f == wire[1]
<1>1. /\ history \in Seq(StreamEvents) /\ shown \in Seq(StreamEvents) /\ batch \in Seq(StreamEvents)
      /\ seen \in Nat /\ View = shown \o batch /\ View \in Seq(StreamEvents) /\ Len(View) = seen
      /\ Len(history) \in Nat
  BY DEF StreamInv, StreamTypes, PageOK, ViewIsHistory, View
<1>2. 1 \in 1..Len(wire) /\ f \in Frames /\ FrameOK(wire, history, Base, 1)
  BY DEF StreamInv, StreamTypes, WireOK
<1>3. f.events \in Seq(StreamEvents) /\ Len(f.events) \in Nat /\ f.from \in Nat /\ LastSeq(f) \in Int
  BY <1>2 DEF Frames, LastSeq
<1>4. /\ Carries(f) => Piece(f, history) /\ f.from - 1 <= Base /\ Base <= LastSeq(f)
      /\ f.kind = "snapshot" => f.from = 1 /\ Base = 0
      /\ f.kind # "snapshot" => Base = seen
  BY <1>2 DEF FrameOK, Reached, Within, Base
<1> SUFFICES Takes(f)
  OBVIOUS
<1> HIDE DEF f
<1>5. CASE TakeSnapshot(f)
  <2>1. /\ f.kind = "snapshot" /\ Carries(f) /\ f.from = 1 /\ Base = 0 /\ shown' = f.events
        /\ batch' = <<>> /\ seen' = Len(f.events)
    BY <1>4, <1>5 DEF TakeSnapshot, Carries
  <2>2. LastSeq(f) = Len(f.events) /\ Piece(f, history)
    BY <1>3, <1>4, <2>1 DEF LastSeq
  <2>3. f.events = SubSeq(history, 1, seen') /\ seen' <= Len(history)
    BY <1>3, <2>1, <2>2 DEF Piece
  <2>4. View' = f.events
    BY <1>3, <2>1 DEF View
  <2>5. \A i \in 1..seen' : i <= Len(history) /\ f.events[i] = history[i]
    BY <1>1, <1>3, <2>1, <2>3
  <2>6. shown' \in Seq(StreamEvents) /\ batch' \in Seq(StreamEvents) /\ seen' \in Nat
        /\ Len(View') = seen' /\ seen' = LastSeq(f)
    BY <1>3, <2>1, <2>2, <2>4
  <2> QED BY <2>1, <2>4, <2>5, <2>6 DEF Takes
<1>6. CASE TakeQuestion(f)
  <2>1. UNCHANGED <<seen, shown, batch>> /\ ~Carries(f) /\ f.kind # "snapshot"
    BY <1>6 DEF TakeQuestion, Carries
  <2>2. View' = View /\ Base = seen
    BY <1>4, <2>1 DEF View
  <2> QED BY <1>1, <2>1, <2>2 DEF Takes
<1>7. CASE TakeEvents(f)
  <2>1. /\ Carries(f) /\ f.kind # "snapshot" /\ shown' = shown /\ batch' = batch \o Unseen(f)
        /\ seen' = IF LastSeq(f) > seen THEN LastSeq(f) ELSE seen
    BY <1>7 DEF TakeEvents, Carries
  <2>2. Base = seen /\ Piece(f, history) /\ f.from - 1 <= seen /\ seen <= LastSeq(f)
    BY <1>4, <2>1
  <2>3. CASE LastSeq(f) <= seen
    <3>1. Unseen(f) = <<>>
      BY <2>3 DEF Unseen
    <3>2. batch' = batch /\ seen' = seen /\ seen' = LastSeq(f) /\ View' = View
      BY <1>1, <1>3, <2>1, <2>2, <2>3, <3>1 DEF View
    <3> QED BY <1>1, <2>1, <2>2, <3>2 DEF Takes
  <2>4. CASE LastSeq(f) > seen
    <3>1. seen' = LastSeq(f) /\ seen' \in Nat /\ seen <= seen' /\ seen' <= Len(history)
      BY <1>1, <1>3, <2>1, <2>2, <2>4 DEF Piece
    <3> DEFINE u == SubSeq(history, seen + 1, seen')
    <3>2. Unseen(f) = u
      BY <1>2, <2>2, <2>4, <3>1, UnseenIsNext DEF f
    <3>3. u \in Seq(StreamEvents) /\ Len(u) = seen' - seen
          /\ \A k \in 1..(seen' - seen) : u[k] = history[seen + k]
      <4>1. /\ u \in Seq(StreamEvents) /\ Len(u) = seen' - (seen + 1) + 1
            /\ \A k \in 1..(seen' - (seen + 1) + 1) : u[k] = history[(seen + 1) + k - 1]
        BY <1>1, <3>1, PartIs
      <4>2. /\ seen' - (seen + 1) + 1 = seen' - seen
            /\ \A k \in 1..(seen' - seen) : (seen + 1) + k - 1 = seen + k
        BY <1>1, <3>1
      <4> HIDE DEF u
      <4> QED BY <4>1, <4>2
    <3> HIDE DEF u
    <3>4. batch' \in Seq(StreamEvents) /\ View' = View \o u
      BY <1>1, <2>1, <3>2, <3>3, JoinedAgain, Joined DEF View
    <3>5. /\ Len(View \o u) = seen'
          /\ \A i \in 1..seen' : i <= seen => (View \o u)[i] = View[i]
          /\ \A i \in 1..seen' : i > seen => i - seen \in 1..(seen' - seen)
                                             /\ (View \o u)[i] = u[i - seen]
      BY <1>1, <3>1, <3>3
    <3>6. \A i \in 1..seen' : i > seen => i <= Len(history) /\ (View \o u)[i] = history[i]
      <4> SUFFICES ASSUME NEW i \in 1..seen', i > seen
                   PROVE  i <= Len(history) /\ (View \o u)[i] = history[i]
        OBVIOUS
      <4>1. i - seen \in 1..(seen' - seen) /\ seen + (i - seen) = i /\ i <= Len(history)
        BY <1>1, <3>1
      <4>2. u[i - seen] = history[seen + (i - seen)]
        BY <3>3, <4>1
      <4> QED BY <3>5, <4>1, <4>2
    <3> QED BY <1>1, <2>1, <2>2, <3>1, <3>4, <3>5, <3>6 DEF Takes
  <2> QED BY <1>1, <1>3, <2>3, <2>4
<1> QED BY <1>5, <1>6, <1>7 DEF f

LEMMA DeliverKeeps ==
  ASSUME StreamInv, Deliver
  PROVE  StreamInv' /\ Base' = seen'
<1> DEFINE f == wire[1]
           n == Len(wire)
<1>1. /\ wire \in Seq(Frames) /\ n \in Nat \ {0} /\ wire' = Tail(wire) /\ f \in Frames
      /\ UNCHANGED <<history, asked, run, synced, open, lost>>
      /\ TakeSnapshot(f) \/ TakeEvents(f) \/ TakeQuestion(f)
      /\ lastId' = IF f.from > 0 THEN LastSeq(f) ELSE lastId
      /\ wire # <<>>
  <2>1. wire \in Seq(Frames) /\ wire # <<>>
    BY DEF Deliver, StreamInv, StreamTypes
  <2>2. Head(wire) = f /\ n \in Nat \ {0} /\ f \in Frames
    BY <2>1
  <2> QED BY <2>1, <2>2 DEF Deliver, hostVars, others
<1>2. /\ wire' \in Seq(Frames) /\ Len(wire') = n - 1
      /\ \A i \in 1..(n - 1) : wire'[i] = wire[i + 1] /\ i + 1 \in 1..n
  BY <1>1
<1>3. \A i \in 1..n : FrameOK(wire, history, Base, i)
  BY DEF StreamInv, WireOK
<1>4. open /\ Reached(wire, Base, n + 1, Len(history)) /\ Base <= Len(history)
  BY <1>1 DEF StreamInv, WireOK
<1>5. Takes(f)
  BY <1>1, FrameTaken
<1> HIDE DEF n
<1>6. /\ seen \in Nat /\ seen' \in Nat /\ Base \in Nat /\ Base <= seen /\ LastSeq(f) \in Int
      /\ f.from \in Nat /\ Len(history) \in Nat
  BY <1>1, <1>5 DEF Takes, StreamInv, StreamTypes, Base, Frames, LastSeq
<1>7. 1 \in 1..n /\ (Carries(f) => Piece(f, history)) /\ (~Carries(f) => f.from = 0)
  BY <1>1, <1>3 DEF FrameOK
<1> HIDE DEF f
<1>8. PageOK' /\ lastId' \in Nat \cup {NoId} /\ seen' <= Len(history)
  <2>1. ViewIsHistory'
    <3>1. \A i \in 1..seen' : i <= Base => i \in 1..seen
      BY <1>6
    <3>2. \A i \in 1..seen : InPlace(i, View[i])
      BY DEF StreamInv, PageOK, ViewIsHistory
    <3>3. \A i \in 1..seen' : i <= Base => InPlace(i, View'[i])
      BY <1>5, <3>1, <3>2 DEF Takes
    <3>4. \A i \in 1..seen' : i > Base => InPlace(i, View'[i])
      BY <1>5 DEF Takes, InPlace
    <3>5. \A i \in 1..seen' : InPlace(i, View'[i])
      BY <1>6, <3>3, <3>4
    <3> QED BY <1>1, <1>5, <3>5 DEF Takes, ViewIsHistory, InPlace
  <2>2. CASE Carries(f)
    <3>1. f.from > 0 /\ LastSeq(f) \in Nat /\ LastSeq(f) <= Len(history)
      BY <1>5, <1>6, <1>7, <2>2 DEF Takes, Piece
    <3>2. lastId' = LastSeq(f) /\ lastId' = seen'
      BY <1>1, <1>5, <2>2, <3>1 DEF Takes
    <3> QED BY <1>6, <2>1, <3>1, <3>2 DEF PageOK, NoId
  <2>3. CASE ~Carries(f)
    <3>1. lastId' = lastId /\ seen' = seen /\ Base = seen
      BY <1>1, <1>5, <1>7, <2>3 DEF Takes
    <3> QED BY <1>4, <2>1, <3>1 DEF PageOK, StreamInv, StreamTypes
  <2> QED BY <2>2, <2>3
<1>9. Base' = seen'
  <2>1. CASE wire' = <<>>
    BY <2>1 DEF Base
  <2>2. CASE wire' # <<>>
    <3>1. 1 \in 1..(n - 1)
      BY <1>1, <1>2, <2>2 DEF n
    <3>2. wire'[1] = wire[2] /\ 2 \in 1..n
      BY <1>2, <3>1
    <3>3. wire'[1].kind # "snapshot"
      BY <1>3, <3>2 DEF FrameOK
    <3> QED BY <3>3 DEF Base
  <2> QED BY <2>1, <2>2
<1>10. ASSUME NEW i \in 1..n, NEW k \in Int, Reached(wire, Base, i + 1, k)
       PROVE  Reached(wire', seen', i, k)
  <2>1. Base <= seen'
    BY <1>5 DEF Takes
  <2>2. CASE k <= Base
    BY <1>6, <2>1, <2>2 DEF Reached
  <2>3. ASSUME NEW j \in 1..(i + 1 - 1), Carries(wire[j]), k <= LastSeq(wire[j])
        PROVE  Reached(wire', seen', i, k)
    <3>1. CASE j = 1
      <4>1. k <= seen'
        BY <1>5, <2>3, <3>1 DEF Takes, f
      <4> QED BY <4>1 DEF Reached
    <3>2. CASE j # 1
      <4>1. j - 1 \in 1..(i - 1) /\ wire'[j - 1] = wire[j]
        BY <1>1, <1>2, <3>2
      <4> QED BY <2>3, <4>1 DEF Reached
    <3> QED BY <3>1, <3>2
  <2> QED BY <1>10, <2>2, <2>3 DEF Reached
<1>11. ASSUME NEW i \in 1..n, NEW k \in Int, Within(wire, Base, i + 1, k)
       PROVE  Within(wire', seen', i, k)
  <2>1. seen' <= k
    <3>1. CASE Carries(f)
      <4>1. 1 \in 1..(i + 1 - 1)
        BY <1>1
      <4> QED BY <1>5, <1>11, <3>1, <4>1 DEF Takes, Within, f
    <3>2. CASE ~Carries(f)
      BY <1>5, <1>11, <3>2 DEF Takes, Within
    <3> QED BY <3>1, <3>2
  <2>2. \A j \in 1..(i - 1) : j + 1 \in 1..(i + 1 - 1) /\ wire'[j] = wire[j + 1]
    BY <1>1, <1>2
  <2> QED BY <1>11, <2>1, <2>2 DEF Within
<1>12. WireOK'
  <2>1. Reached(wire', seen', Len(wire') + 1, Len(history'))
    <3>1. n \in 1..n /\ Len(wire') + 1 = n /\ Len(history) \in Int
      BY <1>1, <1>2, <1>6
    <3> QED BY <1>1, <1>4, <1>10, <3>1
  <2>2. ASSUME NEW i \in 1..Len(wire')
        PROVE  FrameOK(wire', history', seen', i)
    <3>1. i \in 1..n /\ i + 1 \in 1..n /\ wire'[i] = wire[i + 1] /\ wire[i + 1] \in Frames
          /\ i + 1 # 1
      BY <1>1, <1>2 DEF n
    <3>2. wire[i + 1].from - 1 \in Int /\ LastSeq(wire[i + 1]) \in Int
      BY <3>1 DEF Frames, LastSeq
    <3>3. FrameOK(wire, history, Base, i + 1)
      BY <1>3, <3>1
    <3> QED BY <1>1, <1>10, <1>11, <3>1, <3>2, <3>3 DEF FrameOK
  <2> QED BY <1>1, <1>4, <1>8, <1>9, <2>1, <2>2 DEF WireOK
<1> QED BY <1>1, <1>2, <1>5, <1>8, <1>9, <1>12 DEF StreamInv, StreamTypes, Takes

LEMMA FlushKeeps ==
  ASSUME StreamInv, Flush
  PROVE  StreamInv'
<1>1. /\ shown' = shown \o batch /\ batch' = <<>>
      /\ UNCHANGED <<history, asked, run, synced, open, wire, lastId, seen, lost>>
      /\ shown \in Seq(StreamEvents) /\ batch \in Seq(StreamEvents)
  BY DEF Flush, hostVars, others, StreamInv, StreamTypes
<1>2. shown' \in Seq(StreamEvents) /\ batch' \in Seq(StreamEvents) /\ View' = View
  BY <1>1 DEF View
<1>3. PageOK'
  BY <1>1, <1>2 DEF StreamInv, PageOK, ViewIsHistory, InPlace
<1>4. WireOK'
  BY <1>1 DEF StreamInv, WireOK, FrameOK, Base, Reached, Within, Piece
<1> QED BY <1>1, <1>2, <1>3, <1>4 DEF StreamInv, StreamTypes

LEMMA StreamStarts ==
  ASSUME StreamInit
  PROVE  StreamInv
<1>1. /\ history = <<>> /\ asked = {} /\ run = 0 /\ open = FALSE /\ wire = <<>> /\ synced = 0
      /\ lastId = NoId /\ seen = 0 /\ shown = <<>> /\ batch = <<>>
  BY DEF StreamInit
<1>2. StreamTypes
  BY <1>1 DEF StreamTypes
<1>3. PageOK
  BY <1>1 DEF PageOK, ViewIsHistory, View
<1> QED BY <1>1, <1>2, <1>3 DEF StreamInv, WireOK

LEMMA StreamStep ==
  ASSUME StreamAssumption, StreamInv, [StreamNext]_streamVars
  PROVE  StreamInv'
<1>1. CASE UNCHANGED streamVars
  <2>1. /\ UNCHANGED <<history, open, wire, lastId, seen, shown, batch, run, lost>>
        /\ asked' \subseteq Questions /\ synced' \in Nat
    BY <1>1 DEF streamVars, hostVars, pageVars, others, StreamInv, StreamTypes
  <2> QED BY <2>1, Unmoved
<1>2. CASE Text \/ TurnEnds \/ Sync
  <2>1. CASE Text \/ TurnEnds
    BY <2>1, EventAppended
  <2>2. CASE Sync
    <3>1. asked \subseteq Questions /\ Len(history) \in Nat
      BY DEF StreamInv, StreamTypes
    <3> QED BY <2>2, <3>1, Unmoved DEF Sync, pageVars, others
  <2> QED BY <1>2, <2>1, <2>2
<1>3. ASSUME NEW q \in Questions,
             Request(q) \/ Ask(q) \/ Answer(q) \/ Dismiss(q) \/ Settle(q)
      PROVE  StreamInv'
  BY <1>3, QuestionKeeps
<1>4. CASE Connect
  BY <1>4, ConnectKeeps
<1>5. CASE Drop \/ Refuse \/ Reopen
  BY <1>5, DropKeeps
<1>6. CASE Restart
  BY <1>6, RestartKeeps
<1>7. CASE Deliver
  BY <1>7, DeliverKeeps
<1>8. CASE Flush
  BY <1>8, FlushKeeps
<1> QED BY <1>1, <1>2, <1>3, <1>4, <1>5, <1>6, <1>7, <1>8 DEF StreamNext

\* The inductive invariant of the connection and the page, for any questions,
\* records, drops and restarts, whatever part of the log goes with a host.
THEOREM StreamInvariance == StreamSpec => []StreamInv
<1>1. StreamInit => StreamInv
  BY StreamStarts
<1>2. StreamInv /\ [StreamNext]_streamVars => StreamInv'
  BY StreamAssumption, StreamStep
<1> QED BY <1>1, <1>2, PTL DEF StreamSpec

\* The page shows the history record by record, as far as it has come, over every
\* drop, resume, snapshot and restart: none is left out, shown twice or out of order,
\* and where it shows another record than the log, that record went with a host.
THEOREM PageIsTrue == StreamSpec => []ViewIsHistory
<1>1. StreamInv => ViewIsHistory
  BY DEF StreamInv, PageOK
<1> QED BY <1>1, StreamInvariance, PTL

-----------------------------------------------------------------------------
(***************************************************************************)
(* The questions on display (EventStream).                                 *)
(***************************************************************************)

Phases == {"none", "recorded", "pending", "answered", "done"}
\* The events of a question.
RequestOf(e, q) == e.kind = "request" /\ e.q = q
DecisionOf(e, q) == e.kind = "decision" /\ e.q = q

QuestionTypes ==
  /\ phase \in [Questions -> Phases]
  /\ \A q \in asked : phase[q] = "pending"

\* What the log says of a question, and what went with a host said: a decision
\* settles it, and comes after its request.
RecordOf(q) ==
  /\ \A i \in 1..Len(history) : RequestOf(history[i], q) => phase[q] # "none"
  /\ \A j \in 1..Len(history) : DecisionOf(history[j], q) => phase[q] = "done"
  /\ \A i, j \in 1..Len(history) :
       RequestOf(history[i], q) /\ DecisionOf(history[j], q) => i < j
  /\ \A j \in Nat, e \in StreamEvents :
       <<j, e>> \in lost /\ DecisionOf(e, q) =>
         /\ phase[q] = "done"
         /\ \A i \in 1..Len(history) : RequestOf(history[i], q) => i < j

\* A question whose decision the page has is not on display.
CardOf(q) == q \in cards => \A i \in 1..seen : ~DecisionOf(View[i], q)

\* Nor will it be: no frame asks it after its decision.
AboutOf(q) ==
  \A k \in 1..Len(wire) : wire[k].kind = "approval" /\ wire[k].q = q =>
    /\ \A i \in 1..Base : ~DecisionOf(View[i], q)
    /\ \A i \in 1..Len(history) :
         i > Base /\ Reached(wire, Base, k, i) => ~DecisionOf(history[i], q)

\* What takes a question off the page.
Clears(f, q, h) ==
  \/ f.kind = "snapshot"
  \/ f.kind = "approval-settled" /\ f.q = q
  \/ Carries(f) /\ \E j \in f.from..LastSeq(f) : Removes(h[j], q)

\* The page is told of a question that can be answered, and nothing that is said
\* after it takes it away.
Told(q) ==
  q \in asked /\ open =>
    \E k \in 0..Len(wire) :
      /\ k = 0 => q \in cards
      /\ k # 0 => wire[k].kind = "approval" /\ wire[k].q = q
      /\ \A m \in 1..Len(wire) : m > k => ~Clears(wire[m], q, history)

CardsInv ==
  QuestionTypes /\ \A q \in Own : RecordOf(q) /\ CardOf(q) /\ AboutOf(q) /\ Told(q)

-----------------------------------------------------------------------------
LEMMA QuestionFacts ==
  ASSUME StreamAssumption
  PROVE  Own \subseteq Questions /\ NoQuestion \notin Own
BY DEF StreamAssumption, Questions, NoQuestion

\* What is true of a history that grows by events the questions agree with.
LEMMA RecordGrows ==
  ASSUME StreamInv, Extends, NEW q \in Own, RecordOf(q), UNCHANGED lost,
         phase[q] # "none" => phase'[q] # "none",
         phase[q] = "done" => phase'[q] = "done",
         \A j \in 1..Len(history') : j > Len(history) =>
           /\ Len(history') = Len(history) + 1
           /\ RequestOf(history'[j], q) => phase[q] = "none" /\ phase'[q] # "none"
           /\ DecisionOf(history'[j], q) => phase'[q] = "done"
  PROVE  RecordOf(q)'
<1> DEFINE n == Len(history)
           m == Len(history')
<1>1. /\ n \in Nat /\ m \in Nat /\ n <= m
      /\ \A i \in 1..m : i <= n => i \in 1..n /\ history'[i] = history[i]
  BY DEF StreamInv, StreamTypes, Extends
<1> HIDE DEF n, m
<1>2. /\ \A i \in 1..n : RequestOf(history[i], q) => phase[q] # "none"
      /\ \A j \in 1..n : DecisionOf(history[j], q) => phase[q] = "done"
      /\ \A i, j \in 1..n : RequestOf(history[i], q) /\ DecisionOf(history[j], q) => i < j
      /\ \A j \in Nat, e \in StreamEvents : <<j, e>> \in lost /\ DecisionOf(e, q) =>
           phase[q] = "done" /\ \A i \in 1..n : RequestOf(history[i], q) => i < j
  BY DEF RecordOf, n
<1>3. \A j \in 1..m : j > n =>
        /\ j = m /\ m = n + 1
        /\ RequestOf(history'[j], q) => phase[q] = "none" /\ phase'[q] # "none"
        /\ DecisionOf(history'[j], q) => phase'[q] = "done"
  BY <1>1 DEF n, m
<1>4. \A i \in 1..m : RequestOf(history'[i], q) => phase'[q] # "none"
  BY <1>1, <1>2, <1>3
<1>5. \A j \in 1..m : DecisionOf(history'[j], q) => phase'[q] = "done"
  BY <1>1, <1>2, <1>3
<1>6. \A i, j \in 1..m : RequestOf(history'[i], q) /\ DecisionOf(history'[j], q) => i < j
  <2> SUFFICES ASSUME NEW i \in 1..m, NEW j \in 1..m, RequestOf(history'[i], q), DecisionOf(history'[j], q)
               PROVE  i < j
    OBVIOUS
  <2>1. CASE i > n
    <3>1. phase[q] = "none" /\ i = m /\ m = n + 1
      BY <1>3, <2>1
    <3>2. CASE j <= n
      BY <1>1, <1>2, <3>1, <3>2
    <3>3. CASE j > n
      <4>1. j = i
        BY <1>3, <3>1, <3>3
      <4> QED BY <4>1 DEF RequestOf, DecisionOf
    <3> QED BY <1>1, <3>2, <3>3
  <2>2. CASE i <= n /\ j <= n
    BY <1>1, <1>2, <2>2
  <2>3. CASE i <= n /\ j > n
    BY <2>3, <1>1
  <2> QED BY <1>1, <2>1, <2>2, <2>3
<1>7. ASSUME NEW j \in Nat, NEW e \in StreamEvents, <<j, e>> \in lost, DecisionOf(e, q)
      PROVE  phase'[q] = "done" /\ \A i \in 1..m : RequestOf(history'[i], q) => i < j
  BY <1>1, <1>2, <1>3, <1>7
<1> QED BY <1>4, <1>5, <1>6, <1>7 DEF RecordOf, m

\* A decision the page has settled its question, and its request was before it.
LEMMA ViewDecided ==
  ASSUME StreamInv, NEW q \in Own, RecordOf(q), NEW j \in 1..seen, DecisionOf(View[j], q)
  PROVE  phase[q] = "done" /\ \A i \in 1..Len(history) : RequestOf(history[i], q) => i < j
<1>1. /\ View \in Seq(StreamEvents) /\ Len(View) = seen /\ InPlace(j, View[j]) /\ seen \in Nat
      /\ Len(history) \in Nat
  <2>1. View \in Seq(StreamEvents) /\ seen \in Nat /\ Len(history) \in Nat
    BY Joined DEF View, StreamInv, StreamTypes
  <2> QED BY <2>1 DEF StreamInv, PageOK, ViewIsHistory
<1>2. View[j] \in StreamEvents /\ j \in Nat
  BY <1>1
<1>3. CASE j <= Len(history) /\ View[j] = history[j]
  <2>1. j \in 1..Len(history) /\ DecisionOf(history[j], q)
    BY <1>1, <1>3
  <2> QED BY <2>1 DEF RecordOf
<1>4. CASE <<j, View[j]>> \in lost
  BY <1>2, <1>4 DEF RecordOf
<1> QED BY <1>1, <1>3, <1>4 DEF InPlace

\* What was said stays true, and so is what is said now.
LEMMA AboutGrows ==
  ASSUME StreamInv, Extends, NEW q \in Own, AboutOf(q), UNCHANGED <<seen, shown, batch, open>>,
         NEW frames \in Seq(Frames), wire' = wire \/ Send(frames),
         \A k \in 1..Len(frames) : frames[k].kind # "snapshot",
         \A k \in 1..Len(frames) : frames[k].kind = "approval" /\ frames[k].q = q =>
           /\ \A i \in 1..seen : ~DecisionOf(View[i], q)
           /\ \A i \in 1..Len(history') : ~DecisionOf(history'[i], q)
  PROVE  AboutOf(q)'
<1> DEFINE n == Len(history)
           m == Len(history')
           w == Len(wire)
<1>1. /\ n \in Nat /\ m \in Nat /\ n <= m /\ w \in Nat /\ seen \in Nat /\ wire \in Seq(Frames)
      /\ Len(frames) \in Nat /\ View' = View /\ seen' = seen
      /\ \A i \in 1..n : history'[i] = history[i]
      /\ \A i \in 1..m : i <= n => i \in 1..n
      /\ Base \in Nat /\ Base <= seen
  BY DEF StreamInv, StreamTypes, Extends, View, Base
<1>2. CASE ~open
  <2>1. wire' = <<>>
    BY <1>2 DEF Send, StreamInv, WireOK
  <2> QED BY <2>1 DEF AboutOf
<1>3. CASE open
  <2>1. /\ Len(wire') \in Nat /\ Base' = Base
        /\ \A k \in 1..Len(wire') :
             \/ k \in 1..w /\ wire'[k] = wire[k]
             \/ k > w /\ k - w \in 1..Len(frames) /\ wire'[k] = frames[k - w]
        /\ \A k \in 1..w : wire'[k] = wire[k]
    <3>1. CASE wire' = wire
      BY <1>1, <3>1 DEF Base
    <3>2. CASE Send(frames)
      <4>1. wire' = wire \o frames
        BY <1>3, <3>2 DEF Send
      <4>2. Base' = Base
        BY <4>1, FrameKept DEF StreamInv
      <4> QED BY <1>1, <4>1, <4>2
    <3> QED BY <3>1, <3>2
  <2> HIDE DEF n, m, w
  <2>2. ASSUME NEW k \in 1..w, NEW i \in 1..m, i > Base, Reached(wire', Base, k, i)
        PROVE  i \in 1..n /\ Reached(wire, Base, k, i)
    <3>1. PICK j \in 1..(k - 1) : Carries(wire'[j]) /\ i <= LastSeq(wire'[j])
      BY <1>1, <2>2 DEF Reached
    <3>2. j \in 1..w /\ wire'[j] = wire[j] /\ wire[j] \in Frames
      BY <1>1, <2>1 DEF w
    <3>3. LastSeq(wire[j]) \in Int /\ LastSeq(wire[j]) <= n
      <4>1. Carries(wire[j]) /\ LastSeq(wire[j]) \in Int
        BY <3>1, <3>2 DEF Frames, LastSeq
      <4>2. Piece(wire[j], history)
        BY <3>2, <4>1 DEF StreamInv, WireOK, FrameOK, w
      <4> QED BY <4>1, <4>2 DEF Piece, n
    <3> QED BY <1>1, <3>1, <3>2, <3>3 DEF Reached
  <2>3. ASSUME NEW k \in 1..Len(wire'), wire'[k].kind = "approval", wire'[k].q = q
        PROVE  /\ \A i \in 1..Base : ~DecisionOf(View[i], q)
               /\ \A i \in 1..m :
                    i > Base /\ Reached(wire', Base, k, i) => ~DecisionOf(history'[i], q)
    <3>1. CASE k \in 1..w
      <4>1. wire'[k] = wire[k]
        BY <2>1, <3>1
      <4>2. /\ \A i \in 1..Base : ~DecisionOf(View[i], q)
            /\ \A i \in 1..n : i > Base /\ Reached(wire, Base, k, i) => ~DecisionOf(history[i], q)
        BY <2>3, <3>1, <4>1 DEF AboutOf, n, w
      <4> QED BY <1>1, <2>2, <3>1, <4>2
    <3>2. CASE k \notin 1..w
      <4>1. k - w \in 1..Len(frames) /\ wire'[k] = frames[k - w]
        BY <2>1, <3>2
      <4> DEFINE x == k - w
      <4>2. x \in 1..Len(frames) /\ wire'[k] = frames[x]
        BY <4>1
      <4> HIDE DEF x
      <4>3. frames[x].kind = "approval" /\ frames[x].q = q
        BY <2>3, <4>2
      <4> QED BY <1>1, <4>2, <4>3 DEF m
    <3> QED BY <3>1, <3>2
  <2> QED BY <1>1, <2>1, <2>3 DEF AboutOf, m
<1> QED BY <1>2, <1>3

\* What was said of a question stands when what is said now does not concern it.
LEMMA ToldGrows ==
  ASSUME StreamInv, Extends, NEW q \in Own, Told(q), UNCHANGED open,
         q \in asked' => q \in asked /\ (q \in cards => q \in cards'),
         NEW frames \in Seq(Frames), wire' = wire \/ Send(frames),
         q \in asked' =>
           \A j \in 1..Len(history') : j > Len(history) => ~Removes(history'[j], q),
         q \in asked' => \A k \in 1..Len(frames) :
           /\ frames[k].kind # "snapshot"
           /\ frames[k].kind = "approval-settled" => frames[k].q # q
           /\ Carries(frames[k]) => /\ frames[k].from > Len(history)
                                    /\ LastSeq(frames[k]) <= Len(history')
  PROVE  Told(q)'
<1> DEFINE n == Len(history)
           m == Len(history')
           w == Len(wire)
<1> SUFFICES ASSUME q \in asked', open' PROVE Told(q)'
  BY DEF Told
<1>1. /\ n \in Nat /\ m \in Nat /\ n <= m /\ w \in Nat /\ wire \in Seq(Frames)
      /\ Len(frames) \in Nat /\ open /\ q \in asked
      /\ \A i \in 1..n : history'[i] = history[i]
      /\ \A i \in 1..m : i <= n => i \in 1..n
  BY DEF StreamInv, StreamTypes, Extends
<1>2. PICK k \in 0..w :
        /\ k = 0 => q \in cards
        /\ k # 0 => wire[k].kind = "approval" /\ wire[k].q = q
        /\ \A i \in 1..w : i > k => ~Clears(wire[i], q, history)
  BY <1>1 DEF Told
<1>3. /\ Len(wire') \in Nat /\ w <= Len(wire')
      /\ \A i \in 1..Len(wire') :
           \/ i \in 1..w /\ wire'[i] = wire[i]
           \/ i > w /\ i - w \in 1..Len(frames) /\ wire'[i] = frames[i - w]
      /\ \A i \in 1..w : wire'[i] = wire[i]
  <2>1. CASE wire' = wire
    BY <1>1, <2>1
  <2>2. CASE Send(frames)
    <3>1. wire' = wire \o frames
      BY <1>1, <2>2 DEF Send
    <3> QED BY <1>1, <3>1
  <2> QED BY <2>1, <2>2
<1> HIDE DEF n, m, w
<1>4. ASSUME NEW i \in 1..Len(wire'), i > k, Clears(wire'[i], q, history') PROVE FALSE
  <2>1. CASE i \in 1..w
    <3>1. wire'[i] = wire[i] /\ ~Clears(wire[i], q, history) /\ wire[i] \in Frames
      BY <1>1, <1>2, <1>3, <1>4, <2>1 DEF w
    <3>2. PICK j \in wire[i].from..LastSeq(wire[i]) : Carries(wire[i]) /\ Removes(history'[j], q)
      BY <1>4, <3>1 DEF Clears, Carries, LastSeq
    <3>3. Piece(wire[i], history)
      BY <2>1, <3>2 DEF StreamInv, WireOK, FrameOK, w
    <3>4. j \in 1..n
      <4>1. wire[i].from >= 1 /\ wire[i].from \in Nat /\ LastSeq(wire[i]) <= n /\ LastSeq(wire[i]) \in Int
        BY <3>1, <3>3 DEF Piece, Frames, LastSeq, n
      <4> QED BY <1>1, <4>1
    <3> QED BY <1>1, <3>1, <3>2, <3>4 DEF Clears
  <2>2. CASE i \notin 1..w
    <3> DEFINE x == i - w
    <3>1. x \in 1..Len(frames) /\ wire'[i] = frames[x]
      BY <1>3, <2>2
    <3> HIDE DEF x
    <3>2. /\ frames[x].kind # "snapshot" /\ (frames[x].kind = "approval-settled" => frames[x].q # q)
          /\ Carries(frames[x]) => frames[x].from > n /\ LastSeq(frames[x]) <= m
          /\ frames[x] \in Frames
      BY <3>1 DEF n, m
    <3>3. PICK j \in frames[x].from..LastSeq(frames[x]) : Carries(frames[x]) /\ Removes(history'[j], q)
      BY <1>4, <3>1, <3>2 DEF Clears, Carries, LastSeq
    <3>4. j \in 1..m /\ j > n
      BY <1>1, <3>2, <3>3 DEF Frames, LastSeq
    <3> QED BY <3>3, <3>4 DEF n, m
  <2> QED BY <2>1, <2>2
<1>5. /\ k \in 0..Len(wire')
      /\ k = 0 => q \in cards'
      /\ k # 0 => wire'[k].kind = "approval" /\ wire'[k].q = q
      /\ \A i \in 1..Len(wire') : i > k => ~Clears(wire'[i], q, history')
  BY <1>1, <1>2, <1>3, <1>4
<1> QED BY <1>5 DEF Told

\* The history with one more event.
LEMMA OneMore ==
  ASSUME StreamInv, NEW e \in StreamEvents, history' = Append(history, e)
  PROVE  /\ Extends /\ Len(history) \in Nat /\ Len(history') = Len(history) + 1
         /\ \A j \in 1..Len(history') : j > Len(history) => history'[j] = e
         /\ Len(history') \in 1..Len(history') /\ Len(history') > Len(history)
<1>1. /\ history \in Seq(StreamEvents) /\ Len(history) \in Nat
      /\ history' \in Seq(StreamEvents) /\ Len(history') = Len(history) + 1
      /\ \A i \in 1..Len(history) : history'[i] = history[i]
      /\ history'[Len(history) + 1] = e
  BY DEF StreamInv, StreamTypes
<1> QED BY <1>1 DEF Extends

\* The frame of an event that is appended.
LEMMA AppendedIs ==
  ASSUME StreamInv, NEW e \in StreamEvents
  PROVE  /\ Appended(e) \in Frames /\ Appended(e).kind = "session"
         /\ Appended(e).from = Len(history) + 1 /\ LastSeq(Appended(e)) = Len(history) + 1
BY DEF Appended, Carry, Frames, LastSeq, StreamInv, StreamTypes

\* A question's own steps, and the others, as its invariant sees them.
LEMMA QuestionGrows ==
  ASSUME StreamAssumption, StreamInv, CardsInv, Extends,
         UNCHANGED <<seen, shown, batch, open, lost>>, NEW q \in Own, cards' \subseteq cards,
         NEW frames \in Seq(Frames), wire' = wire \/ Send(frames),
         q \in asked' => q \in asked /\ (q \in cards => q \in cards'),
         phase[q] # "none" => phase'[q] # "none",
         phase[q] = "done" => phase'[q] = "done",
         \A j \in 1..Len(history') : j > Len(history) =>
           /\ Len(history') = Len(history) + 1
           /\ RequestOf(history'[j], q) => phase[q] = "none" /\ phase'[q] # "none"
           /\ DecisionOf(history'[j], q) => phase'[q] = "done"
           /\ q \in asked' => ~Removes(history'[j], q),
         \A k \in 1..Len(frames) :
           /\ frames[k].kind # "snapshot"
           /\ frames[k].kind = "approval" => frames[k].q # q
           /\ q \in asked' => /\ frames[k].kind = "approval-settled" => frames[k].q # q
                              /\ Carries(frames[k]) => /\ frames[k].from > Len(history)
                                                       /\ LastSeq(frames[k]) <= Len(history')
  PROVE  RecordOf(q)' /\ CardOf(q)' /\ AboutOf(q)' /\ Told(q)'
<1>1. RecordOf(q) /\ CardOf(q) /\ AboutOf(q) /\ Told(q)
  BY DEF CardsInv
<1>2. RecordOf(q)'
  BY <1>1, RecordGrows
<1>3. CardOf(q)'
  BY <1>1 DEF CardOf, View
<1>4. AboutOf(q)'
  BY <1>1, AboutGrows
<1>5. Told(q)'
  BY <1>1, ToldGrows
<1> QED BY <1>2, <1>3, <1>4, <1>5

LEMMA JoinedNext ==
  ASSUME NEW S, NEW s \in Seq(S), NEW t \in Seq(S), NEW i \in 1..Len(t)
  PROVE  (s \o t)[Len(s) + i] = t[i]
OBVIOUS

LEMMA OneJoined ==
  ASSUME NEW S, NEW s \in Seq(S), NEW t \in Seq(S), Len(t) = 1
  PROVE  /\ Len(s \o t) = Len(s) + 1 /\ Len(s) \in Nat
         /\ (s \o t)[Len(s \o t)] = t[1]
<1>1. Len(s) \in Nat /\ Len(s \o t) = Len(s) + Len(t)
  BY Joined, Zenon
<1>2. Len(s \o t) = Len(s) + 1
  BY <1>1, Zenon
<1>3. 1 \in 1..1
  OBVIOUS
<1>4. 1 \in 1..Len(t)
  BY <1>3, Zenon
<1>5. \A i \in 1..Len(t) : (s \o t)[Len(s) + i] = t[i]
  BY JoinedNext
<1>6. (s \o t)[Len(s) + 1] = t[1]
  BY <1>4, <1>5
<1> QED BY <1>1, <1>2, <1>6

\* Something else than a question's own event is appended.
LEMMA EventCards ==
  ASSUME StreamAssumption, StreamInv, CardsInv, Text \/ TurnEnds
  PROVE  CardsInv'
<1>1. PICK e \in StreamEvents :
        /\ e.kind \in {"text", "turn/end"} /\ e.q = NoQuestion
        /\ history' = Append(history, e) /\ Send(<<Appended(e)>>)
        /\ e.kind = "turn/end" => \A q \in Own : phase[q] \notin Unsettled
  <2> DEFINE t == Event("text", NoQuestion)
             u == Event("turn/end", NoQuestion)
  <2>1. t \in StreamEvents /\ u \in StreamEvents
    BY DEF StreamInv, StreamTypes, Event, StreamEvents
  <2>2. /\ t.kind = "text" /\ t.q = NoQuestion /\ u.kind = "turn/end" /\ u.q = NoQuestion
    BY DEF Event
  <2>3. CASE Text
    <3>1. history' = Append(history, t) /\ Send(<<Appended(t)>>)
      BY <2>3 DEF Text
    <3> HIDE DEF t, u
    <3> QED BY <2>1, <2>2, <3>1
  <2>4. CASE TurnEnds
    <3>1. /\ history' = Append(history, u) /\ Send(<<Appended(u)>>)
          /\ \A q \in Own : phase[q] \notin Unsettled
      BY <2>4 DEF TurnEnds
    <3> HIDE DEF t, u
    <3> QED BY <2>1, <2>2, <3>1
  <2> QED BY <2>3, <2>4
<1>2. UNCHANGED <<phase, asked, cards, seen, shown, batch, open, lost>>
  BY DEF Text, TurnEnds, pageVars, others
<1>3. /\ Extends /\ Len(history) \in Nat /\ Len(history') = Len(history) + 1
      /\ \A j \in 1..Len(history') : j > Len(history) => history'[j] = e
  BY <1>1, OneMore
<1>4. QuestionTypes'
  BY <1>2 DEF CardsInv, QuestionTypes
<1> DEFINE f == Appended(e)
           fs == <<f>>
<1>5. f \in Frames /\ f.kind = "session" /\ f.from = Len(history) + 1 /\ LastSeq(f) = Len(history')
  BY <1>3, AppendedIs
<1>6. fs \in Seq(Frames) /\ Len(fs) = 1 /\ fs[1] = f
  BY <1>5
<1> HIDE DEF f, fs
<1>7. Send(fs)
  BY <1>1 DEF f, fs
<1>8. \A k \in 1..Len(fs) : /\ fs[k].kind = "session" /\ fs[k].from > Len(history)
                            /\ LastSeq(fs[k]) <= Len(history')
  BY <1>3, <1>5, <1>6
<1>9. ASSUME NEW q \in Own PROVE RecordOf(q)' /\ CardOf(q)' /\ AboutOf(q)' /\ Told(q)'
  <2>1. q # NoQuestion /\ (q \in asked => phase[q] \in Unsettled)
    BY QuestionFacts DEF CardsInv, QuestionTypes, Unsettled
  <2>2. ~RequestOf(e, q) /\ ~DecisionOf(e, q) /\ (q \in asked => ~Removes(e, q))
    BY <1>1, <2>1 DEF RequestOf, DecisionOf, Removes
  <2> QED BY <1>2, <1>3, <1>6, <1>7, <1>8, <2>2, QuestionGrows
<1> QED BY <1>4, <1>9 DEF CardsInv

\* A question is raised.
LEMMA RequestCards ==
  ASSUME StreamAssumption, StreamInv, CardsInv, NEW r \in Questions, Request(r)
  PROVE  CardsInv'
<1>1. /\ phase \in [Questions -> Phases] /\ phase[r] = "none"
      /\ phase' = [phase EXCEPT ![r] = "recorded"]
      /\ UNCHANGED <<asked, cards, seen, shown, batch, open, lost>>
  BY DEF Request, CardsInv, QuestionTypes, pageVars, others
<1>2. QuestionTypes'
  BY <1>1 DEF CardsInv, QuestionTypes, Phases
<1>3. ASSUME NEW q \in Own
      PROVE  phase'[q] = IF q = r THEN "recorded" ELSE phase[q]
  BY <1>1, QuestionFacts
<1>4. CASE r \notin Own
  <2>1. UNCHANGED <<history, wire>>
    BY <1>4 DEF Request
  <2>2. Extends /\ Len(history) \in Nat
    BY <2>1 DEF StreamInv, StreamTypes, Extends
  <2> DEFINE fs == <<>>
  <2>3. fs \in Seq(Frames) /\ \A k \in 1..Len(fs) : FALSE
    OBVIOUS
  <2> HIDE DEF fs
  <2>4. ASSUME NEW q \in Own PROVE RecordOf(q)' /\ CardOf(q)' /\ AboutOf(q)' /\ Told(q)'
    <3>1. phase'[q] = phase[q] /\ \A j \in 1..Len(history') : ~(j > Len(history))
      BY <1>3, <1>4, <2>1, <2>2
    <3> QED BY <1>1, <2>1, <2>2, <2>3, <3>1, QuestionGrows
  <2> QED BY <1>2, <2>4 DEF CardsInv
<1>5. CASE r \in Own
  <2> DEFINE e == Event("request", r)
             f == Appended(e)
             fs == <<f>>
  <2>1. /\ e \in StreamEvents /\ e.kind = "request" /\ e.q = r
        /\ history' = Append(history, e) /\ Send(fs)
    BY <1>5 DEF Request, StreamInv, StreamTypes, Event, StreamEvents
  <2> HIDE DEF e
  <2>2. /\ Extends /\ Len(history) \in Nat /\ Len(history') = Len(history) + 1
        /\ \A j \in 1..Len(history') : j > Len(history) => history'[j] = e
    BY <2>1, OneMore
  <2>3. f \in Frames /\ f.kind = "session" /\ f.from = Len(history) + 1 /\ LastSeq(f) = Len(history')
    BY <2>1, <2>2, AppendedIs
  <2> HIDE DEF f
  <2>4. fs \in Seq(Frames) /\ Len(fs) = 1 /\ fs[1] = f
    BY <2>3
  <2> HIDE DEF fs
  <2>5. \A k \in 1..Len(fs) : /\ fs[k].kind = "session" /\ fs[k].from > Len(history)
                              /\ LastSeq(fs[k]) <= Len(history')
    BY <2>2, <2>3, <2>4
  <2>6. ASSUME NEW q \in Own PROVE RecordOf(q)' /\ CardOf(q)' /\ AboutOf(q)' /\ Told(q)'
    <3>1. ~DecisionOf(e, q) /\ ~Removes(e, q) /\ (RequestOf(e, q) => q = r)
      BY <2>1 DEF RequestOf, DecisionOf, Removes
    <3>2. RequestOf(e, q) => phase[q] = "none" /\ phase'[q] # "none"
      BY <1>1, <1>3, <3>1
    <3>3. phase[q] # "none" => phase'[q] # "none"
      BY <1>3
    <3>4. phase[q] = "done" => phase'[q] = "done"
      BY <1>1, <1>3
    <3> QED BY <1>1, <2>1, <2>2, <2>4, <2>5, <3>1, <3>2, <3>3, <3>4, QuestionGrows
  <2> QED BY <1>2, <2>6 DEF CardsInv
<1> QED BY <1>4, <1>5

\* Nothing the log or the page has decides a question that is not settled.
LEMMA Undecidedly ==
  ASSUME StreamInv, NEW q \in Own, RecordOf(q), phase[q] # "done"
  PROVE  /\ \A i \in 1..Len(history) : ~DecisionOf(history[i], q)
         /\ \A i \in 1..seen : ~DecisionOf(View[i], q)
<1>1. \A i \in 1..seen : DecisionOf(View[i], q) => phase[q] = "done"
  BY ViewDecided
<1> QED BY <1>1 DEF RecordOf

\* It is asked: the page is told of it.
LEMMA AskCards ==
  ASSUME StreamAssumption, StreamInv, CardsInv, NEW r \in Questions, Ask(r)
  PROVE  CardsInv'
<1>1. /\ phase \in [Questions -> Phases] /\ phase[r] = "recorded"
      /\ phase' = [phase EXCEPT ![r] = "pending"] /\ asked' = asked \cup {r}
      /\ UNCHANGED <<history, cards, seen, shown, batch, open, lost>>
      /\ Send(<<About("approval", r)>>)
  BY DEF Ask, CardsInv, QuestionTypes, pageVars, others
<1>2. QuestionTypes'
  BY <1>1 DEF CardsInv, QuestionTypes, Phases
<1>3. Extends /\ Len(history) \in Nat /\ wire \in Seq(Frames)
  BY <1>1 DEF StreamInv, StreamTypes, Extends
<1> DEFINE f == About("approval", r)
           fs == <<f>>
<1>4. f \in Frames /\ f.kind = "approval" /\ f.q = r
  BY DEF About, Frames
<1> HIDE DEF f
<1>5. fs \in Seq(Frames) /\ Len(fs) = 1 /\ fs[1] = f
  BY <1>4
<1> HIDE DEF fs
<1>6. Send(fs)
  BY <1>1 DEF f, fs
<1>7. \A k \in 1..Len(fs) : fs[k] = f
  BY <1>5
<1>8. ASSUME NEW q \in Own PROVE RecordOf(q)' /\ CardOf(q)' /\ AboutOf(q)' /\ Told(q)'
  <2>1. phase'[q] = IF q = r THEN "pending" ELSE phase[q]
    BY <1>1, QuestionFacts
  <2>2. CASE q # r
    <3>1. q \in asked' => q \in asked
      BY <1>1, <2>2
    <3> QED BY <1>1, <1>3, <1>4, <1>5, <1>6, <1>7, <2>1, <2>2, <3>1, QuestionGrows DEF Carries
  <2>3. CASE q = r
    <3>1. RecordOf(q) /\ CardOf(q) /\ AboutOf(q)
      BY DEF CardsInv
    <3>2. /\ \A i \in 1..Len(history) : ~DecisionOf(history[i], q)
          /\ \A i \in 1..seen : ~DecisionOf(View[i], q)
      BY <1>1, <2>3, <3>1, Undecidedly
    <3>3. RecordOf(q)'
      BY <1>1, <1>3, <2>1, <2>3, <3>1, RecordGrows
    <3>4. CardOf(q)'
      BY <1>1, <3>1 DEF CardOf, View
    <3>5. AboutOf(q)'
      BY <1>1, <1>3, <1>4, <1>5, <1>6, <1>7, <3>1, <3>2, AboutGrows
    <3>6. Told(q)'
      <4> SUFFICES ASSUME open' PROVE Told(q)'
        BY DEF Told
      <4>1. wire' = wire \o fs
        BY <1>1, <1>6 DEF Send
      <4>2. /\ Len(wire') = Len(wire) + 1 /\ Len(wire) \in Nat /\ wire'[Len(wire')] = f
        <5>1. /\ Len(wire \o fs) = Len(wire) + 1 /\ Len(wire) \in Nat
              /\ (wire \o fs)[Len(wire \o fs)] = fs[1]
          BY <1>3, <1>5, OneJoined, Zenon
        <5> QED BY <1>5, <4>1, <5>1
      <4>3. \A m \in 1..Len(wire') : ~(m > Len(wire'))
        BY <4>2
      <4> QED BY <1>4, <2>3, <4>2, <4>3 DEF Told
    <3> QED BY <3>3, <3>4, <3>5, <3>6
  <2> QED BY <2>2, <2>3
<1> QED BY <1>2, <1>8 DEF CardsInv

\* It is answered, and the page takes the card away.
LEMMA AnswerCards ==
  ASSUME StreamAssumption, StreamInv, CardsInv, NEW r \in Questions, Answer(r) \/ Dismiss(r)
  PROVE  CardsInv'
<1>1. /\ phase \in [Questions -> Phases]
      /\ UNCHANGED <<history, wire, seen, shown, batch, open, lost>>
  BY DEF Answer, Dismiss, hostVars, pageVars, others, CardsInv, QuestionTypes
<1>2. Extends /\ Len(history) \in Nat /\ \A j \in 1..Len(history') : ~(j > Len(history))
  BY <1>1 DEF StreamInv, StreamTypes, Extends
<1> DEFINE fs == <<>>
<1>3. fs \in Seq(Frames) /\ \A k \in 1..Len(fs) : FALSE
  OBVIOUS
<1> HIDE DEF fs
<1>4. CASE Answer(r)
  <2>1. /\ phase[r] = "pending" /\ phase' = [phase EXCEPT ![r] = "answered"]
        /\ asked' = asked \ {r} /\ UNCHANGED cards
    BY <1>4 DEF Answer, CardsInv, QuestionTypes, pageVars
  <2>2. QuestionTypes'
    BY <1>1, <2>1 DEF CardsInv, QuestionTypes, Phases
  <2>3. ASSUME NEW q \in Own PROVE RecordOf(q)' /\ CardOf(q)' /\ AboutOf(q)' /\ Told(q)'
    <3>1. phase'[q] = IF q = r THEN "answered" ELSE phase[q]
      BY <1>1, <2>1, QuestionFacts
    <3>2. phase[q] # "none" => phase'[q] # "none"
      BY <3>1
    <3>3. phase[q] = "done" => phase'[q] = "done"
      BY <2>1, <3>1
    <3>4. q \in asked' => q \in asked
      BY <2>1
    <3> QED BY <1>1, <1>2, <1>3, <2>1, <3>2, <3>3, <3>4, QuestionGrows
  <2> QED BY <2>2, <2>3 DEF CardsInv
<1>5. CASE Dismiss(r)
  <2>1. UNCHANGED <<phase, asked>> /\ phase[r] = "answered" /\ cards' = cards \ {r}
    BY <1>5 DEF Dismiss, hostVars
  <2>2. QuestionTypes' /\ r \notin asked
    BY <2>1 DEF CardsInv, QuestionTypes
  <2>3. ASSUME NEW q \in Own PROVE RecordOf(q)' /\ CardOf(q)' /\ AboutOf(q)' /\ Told(q)'
    <3>1. /\ q \in asked' => q \in asked /\ (q \in cards => q \in cards')
          /\ phase' = phase /\ cards' \subseteq cards
      BY <2>1, <2>2
    <3> QED BY <1>1, <1>2, <1>3, <3>1, QuestionGrows
  <2> QED BY <2>2, <2>3 DEF CardsInv
<1> QED BY <1>4, <1>5

\* It is settled: its decision is appended and the page is told.
LEMMA SettleCards ==
  ASSUME StreamAssumption, StreamInv, CardsInv, NEW r \in Questions, Settle(r)
  PROVE  CardsInv'
<1> DEFINE e == Event("decision", r)
           f == Appended(e)
           g == About("approval-settled", r)
<1>1. /\ phase \in [Questions -> Phases] /\ phase[r] \in {"pending", "answered"}
      /\ phase' = [phase EXCEPT ![r] = "done"] /\ asked' = asked \ {r}
      /\ UNCHANGED <<cards, seen, shown, batch, open, lost>>
  BY DEF Settle, CardsInv, QuestionTypes, pageVars, others
<1>2. QuestionTypes'
  BY <1>1 DEF CardsInv, QuestionTypes, Phases
<1>3. /\ e \in StreamEvents /\ e.kind = "decision" /\ e.q = r
      /\ g \in Frames /\ g.kind = "approval-settled" /\ g.q = r
  BY DEF StreamInv, StreamTypes, Event, StreamEvents, About, Frames
<1>4. PICK fs \in Seq(Frames) :
        /\ Send(fs)
        /\ \A k \in 1..Len(fs) :
             /\ fs[k].kind \in {"session", "approval-settled"}
             /\ fs[k].kind = "approval-settled" => fs[k].q = r
             /\ fs[k].kind = "session" =>
                  fs[k].from = Len(history) + 1 /\ LastSeq(fs[k]) = Len(history')
        /\ r \in Own => history' = Append(history, e)
        /\ r \notin Own => UNCHANGED history
  <2>1. CASE r \in Own
    <3> DEFINE fs == <<f, g>>
    <3>1. history' = Append(history, e) /\ Send(fs)
      BY <2>1 DEF Settle
    <3> HIDE DEF e
    <3>2. f \in Frames /\ f.kind = "session" /\ f.from = Len(history) + 1 /\ LastSeq(f) = Len(history')
      BY <1>3, <3>1, AppendedIs, OneMore
    <3> HIDE DEF f, g
    <3>3. fs \in Seq(Frames) /\ Len(fs) = 2 /\ fs[1] = f /\ fs[2] = g
      BY <1>3, <3>2
    <3> HIDE DEF fs
    <3>4. \A k \in 1..Len(fs) :
             /\ fs[k].kind \in {"session", "approval-settled"}
             /\ fs[k].kind = "approval-settled" => fs[k].q = r
             /\ fs[k].kind = "session" =>
                  fs[k].from = Len(history) + 1 /\ LastSeq(fs[k]) = Len(history')
      <4>1. \A k \in 1..Len(fs) : fs[k] = f \/ fs[k] = g
        BY <3>3
      <4> QED BY <1>3, <3>2, <4>1
    <3> QED BY <2>1, <3>1, <3>3, <3>4
  <2>2. CASE r \notin Own
    <3> DEFINE fs == <<g>>
    <3>1. UNCHANGED history /\ Send(fs)
      BY <2>2 DEF Settle
    <3> HIDE DEF e, f, g
    <3>2. fs \in Seq(Frames) /\ Len(fs) = 1 /\ fs[1] = g
      BY <1>3
    <3> HIDE DEF fs
    <3>3. \A k \in 1..Len(fs) : fs[k] = g
      BY <3>2
    <3> QED BY <1>3, <2>2, <3>1, <3>2, <3>3
  <2> QED BY <2>1, <2>2
<1> HIDE DEF e, f, g
<1>5. /\ Extends /\ Len(history) \in Nat /\ Len(history') \in Nat
      /\ \A j \in 1..Len(history') : j > Len(history) =>
           r \in Own /\ history'[j] = e /\ Len(history') = Len(history) + 1
  <2>1. CASE r \in Own
    BY <1>3, <1>4, <2>1, OneMore
  <2>2. CASE r \notin Own
    BY <1>4, <2>2 DEF StreamInv, StreamTypes, Extends
  <2> QED BY <2>1, <2>2
<1>6. ASSUME NEW q \in Own PROVE RecordOf(q)' /\ CardOf(q)' /\ AboutOf(q)' /\ Told(q)'
  <2>1. phase'[q] = IF q = r THEN "done" ELSE phase[q]
    BY <1>1, QuestionFacts
  <2>2. /\ phase[q] # "none" => phase'[q] # "none"
        /\ phase[q] = "done" => phase'[q] = "done"
    BY <2>1
  <2>3. q \in asked' => q \in asked /\ q # r
    BY <1>1
  <2>4. \A j \in 1..Len(history') : j > Len(history) =>
          /\ Len(history') = Len(history) + 1
          /\ RequestOf(history'[j], q) => phase[q] = "none" /\ phase'[q] # "none"
          /\ DecisionOf(history'[j], q) => phase'[q] = "done"
          /\ q \in asked' => ~Removes(history'[j], q)
    BY <1>3, <1>5, <2>1, <2>3 DEF RequestOf, DecisionOf, Removes
  <2>5. \A k \in 1..Len(fs) :
           /\ fs[k].kind # "snapshot"
           /\ fs[k].kind = "approval" => fs[k].q # q
           /\ q \in asked' => /\ fs[k].kind = "approval-settled" => fs[k].q # q
                              /\ Carries(fs[k]) => /\ fs[k].from > Len(history)
                                                   /\ LastSeq(fs[k]) <= Len(history')
    <3> SUFFICES ASSUME NEW k \in 1..Len(fs)
                 PROVE  /\ fs[k].kind # "snapshot"
                        /\ fs[k].kind = "approval" => fs[k].q # q
                        /\ q \in asked' =>
                             /\ fs[k].kind = "approval-settled" => fs[k].q # q
                             /\ Carries(fs[k]) => /\ fs[k].from > Len(history)
                                                  /\ LastSeq(fs[k]) <= Len(history')
      OBVIOUS
    <3>1. CASE fs[k].kind = "session"
      BY <1>4, <1>5, <3>1
    <3>2. CASE fs[k].kind = "approval-settled"
      BY <1>4, <2>3, <3>2 DEF Carries
    <3> QED BY <1>4, <3>1, <3>2
  <2> QED BY <1>1, <1>4, <1>5, <2>2, <2>3, <2>4, <2>5, QuestionGrows
<1> QED BY <1>2, <1>6 DEF CardsInv

\* The frames of a connection that begins.
LEMMA Connecting ==
  ASSUME StreamAssumption, StreamInv, Connect
  PROVE  /\ Len(wire') \in Nat
         /\ \A k \in 1..Len(wire') : k > 1 => wire'[k].kind = "approval" /\ wire'[k].q \in asked
         /\ 1 \in 1..Len(wire') => wire'[1].kind # "approval"
         /\ \A q \in asked : \E k \in 2..Len(wire') : wire'[k].q = q
<1> DEFINE questions == {About("approval", q) : q \in asked}
           rest == SetToSeq(questions)
           f == Replay(lastId)
<1>1. wire' = <<f>> \o rest
  BY DEF Connect
<1>2. IsFiniteSet(questions)
  <2>1. IsFiniteSet(asked)
    <3>1. IsFiniteSet(Questions)
      BY FS_Union DEF StreamAssumption, Questions
    <3> QED BY <3>1, FS_Subset DEF StreamInv, StreamTypes
  <2> DEFINE put == [q \in asked |-> About("approval", q)]
  <2>2. put \in Surjection(asked, questions)
    BY DEF Surjection
  <2> QED BY <2>1, <2>2, FS_Surjection
<1>3. \A k \in 1..Len(rest) : rest[k].kind = "approval" /\ rest[k].q \in asked
  <2>1. \A g \in questions : g.kind = "approval" /\ g.q \in asked
    BY DEF About
  <2> HIDE DEF questions
  <2> QED BY <1>2, <2>1, InSomeOrder
<1>4. f.kind \in {"resume", "snapshot"}
  BY DEF Replay, Carry
<1>5. rest \in Seq(questions)
  BY <1>2, InSomeOrder
<1>6. \A q \in asked : \E k \in 1..Len(rest) : rest[k].q = q
  <2> SUFFICES ASSUME NEW q \in asked PROVE \E k \in 1..Len(rest) : rest[k].q = q
    OBVIOUS
  <2>1. About("approval", q) \in questions /\ About("approval", q).q = q
    BY DEF About
  <2> HIDE DEF questions, rest
  <2>2. \E k \in 1..Len(rest) : rest[k] = About("approval", q)
    BY <1>2, <2>1, InSomeOrder DEF rest
  <2> QED BY <2>1, <2>2
<1> HIDE DEF questions, rest, f
<1>7. /\ Len(rest) \in Nat /\ Len(wire') = Len(rest) + 1 /\ wire'[1] = f
      /\ \A k \in 1..Len(rest) : k + 1 \in 2..Len(wire') /\ wire'[k + 1] = rest[k]
      /\ \A k \in 1..Len(wire') : k > 1 => k - 1 \in 1..Len(rest) /\ wire'[k] = rest[k - 1]
  BY <1>1, <1>5
<1>8. ASSUME NEW k \in 1..Len(wire'), k > 1
      PROVE  wire'[k].kind = "approval" /\ wire'[k].q \in asked
  <2> DEFINE x == k - 1
  <2>1. x \in 1..Len(rest) /\ wire'[k] = rest[x]
    BY <1>7, <1>8
  <2> HIDE DEF x
  <2> QED BY <1>3, <2>1
<1>9. ASSUME NEW q \in asked PROVE \E k \in 2..Len(wire') : wire'[k].q = q
  <2>1. PICK k \in 1..Len(rest) : rest[k].q = q
    BY <1>6
  <2>2. k + 1 \in 2..Len(wire') /\ wire'[k + 1] = rest[k]
    BY <1>7
  <2> QED BY <2>1, <2>2
<1>10. wire'[1].kind # "approval" /\ Len(wire') \in Nat
  BY <1>4, <1>7
<1> QED BY <1>8, <1>9, <1>10

LEMMA ConnectCards ==
  ASSUME StreamAssumption, StreamInv, CardsInv, Connect
  PROVE  CardsInv'
<1>1. /\ UNCHANGED <<history, phase, asked, cards, seen, shown, batch, lost>>
      /\ View' = View
  BY DEF Connect, hostVars, pageVars, others, View
<1>2. QuestionTypes' /\ Len(history) \in Nat /\ seen \in Nat
  BY <1>1 DEF CardsInv, QuestionTypes, StreamInv, StreamTypes
<1>3. Base' \in Nat /\ Base' <= seen
  BY <1>1, <1>2 DEF Base
<1>4. ASSUME NEW q \in Own PROVE RecordOf(q)' /\ CardOf(q)' /\ AboutOf(q)' /\ Told(q)'
  <2>1. RecordOf(q) /\ CardOf(q)
    BY DEF CardsInv
  <2>2. RecordOf(q)' /\ CardOf(q)'
    BY <1>1, <2>1 DEF RecordOf, CardOf
  <2>3. q \in asked => /\ \A i \in 1..Len(history) : ~DecisionOf(history[i], q)
                       /\ \A i \in 1..seen : ~DecisionOf(View[i], q)
    BY <2>1, Undecidedly DEF CardsInv, QuestionTypes
  <2>4. AboutOf(q)'
    <3> SUFFICES ASSUME NEW k \in 1..Len(wire'), wire'[k].kind = "approval", wire'[k].q = q
                 PROVE  /\ \A i \in 1..Base' : ~DecisionOf(View[i], q)
                        /\ \A i \in 1..Len(history) : ~DecisionOf(history[i], q)
      BY <1>1 DEF AboutOf
    <3>1. q \in asked
      BY Connecting
    <3> QED BY <1>2, <1>3, <2>3, <3>1
  <2>5. Told(q)'
    <3> SUFFICES ASSUME q \in asked PROVE Told(q)'
      BY <1>1 DEF Told
    <3>1. PICK k \in 2..Len(wire') : wire'[k].q = q
      BY Connecting
    <3>2. k \in 0..Len(wire') /\ k # 0 /\ wire'[k].kind = "approval"
          /\ \A m \in 1..Len(wire') : m > k => wire'[m].kind = "approval"
      BY <3>1, Connecting
    <3>3. \A m \in 1..Len(wire') : m > k => ~Clears(wire'[m], q, history')
      BY <3>2 DEF Clears, Carries
    <3> QED BY <3>1, <3>2, <3>3 DEF Told
  <2> QED BY <2>2, <2>4, <2>5
<1> QED BY <1>2, <1>4 DEF CardsInv

\* A connection ends or is refused, or another conversation is selected.
LEMMA DropCards ==
  ASSUME StreamInv, CardsInv, Drop \/ Refuse \/ Reopen
  PROVE  CardsInv'
<1>1. UNCHANGED <<history, phase, asked, lost>> /\ wire' = <<>> /\ Len(wire') = 0 /\ ~open'
  BY DEF Drop, Refuse, Reopen, hostVars, StreamInv, WireOK
<1>2. QuestionTypes'
  BY <1>1 DEF CardsInv, QuestionTypes
<1>3. ASSUME NEW q \in Own PROVE RecordOf(q)' /\ CardOf(q)' /\ AboutOf(q)' /\ Told(q)'
  <2>1. RecordOf(q)' /\ AboutOf(q)' /\ Told(q)'
    BY <1>1 DEF CardsInv, RecordOf, AboutOf, Told
  <2>2. CASE Drop \/ Refuse
    <3>1. UNCHANGED <<cards, seen, shown, batch>>
      BY <2>2 DEF Drop, Refuse, pageVars
    <3> QED BY <2>1, <3>1 DEF CardsInv, CardOf, View
  <2>3. CASE Reopen
    <3>1. cards' = {}
      BY <2>3 DEF Reopen
    <3> QED BY <2>1, <3>1 DEF CardOf
  <2> QED BY <2>1, <2>2, <2>3
<1> QED BY <1>2, <1>3 DEF CardsInv

\* A page paints, or the host's records reach its disk.
LEMMA QuietCards ==
  ASSUME CardsInv, UNCHANGED <<history, phase, asked, open, wire, seen, cards, lost>>, View' = View
  PROVE  CardsInv'
<1>1. QuestionTypes' /\ Base' = Base
  BY DEF CardsInv, QuestionTypes, Base
<1>2. ASSUME NEW q \in Own PROVE RecordOf(q)' /\ CardOf(q)' /\ AboutOf(q)' /\ Told(q)'
  <2>1. RecordOf(q)' /\ CardOf(q)'
    BY DEF CardsInv, RecordOf, CardOf
  <2>2. AboutOf(q)'
    BY <1>1 DEF CardsInv, AboutOf, Reached
  <2>3. Told(q)'
    BY DEF CardsInv, Told
  <2> QED BY <2>1, <2>2, <2>3
<1> QED BY <1>1, <1>2 DEF CardsInv

\* The next host decides what was left open.
LEMMA RestartCards ==
  ASSUME StreamAssumption, StreamInv, CardsInv, Restart
  PROVE  CardsInv'
<1>1. /\ phase' = [q \in Questions |-> IF phase[q] = "none" THEN "none" ELSE "done"]
      /\ asked' = {} /\ wire' = <<>> /\ Len(wire') = 0 /\ ~open'
      /\ UNCHANGED <<cards, seen, shown, batch>>
  BY DEF Restart, pageVars
<1>2. PICK kept \in Nat :
           /\ kept <= Len(history) /\ kept <= Len(history')
           /\ history' \in Seq(StreamEvents)
           /\ \A i \in 1..kept : history'[i] = history[i]
           /\ \A j \in 1..Len(history') : j > kept =>
                /\ history'[j].kind \in {"decision", "turn/end"}
                /\ \E q \in Own \cup {NoQuestion} :
                     /\ history'[j].q = q
                     /\ q # NoQuestion =>
                          \E i \in 1..kept : history[i].kind = "request" /\ history[i].q = q
           /\ lost' = lost \cup {<<i, history[i]>> : i \in (kept + 1)..Len(history)}
  BY Restarted
<1>3. QuestionTypes'
  BY <1>1 DEF QuestionTypes, Phases
<1>4. ASSUME NEW q \in Own PROVE RecordOf(q)' /\ CardOf(q)' /\ AboutOf(q)' /\ Told(q)'
  <2>1. q \in Questions /\ q # NoQuestion /\ RecordOf(q) /\ CardOf(q)
    BY QuestionFacts DEF CardsInv
  <2>2. phase'[q] = IF phase[q] = "none" THEN "none" ELSE "done"
    BY <1>1, <2>1
  <2>3. Len(history) \in Nat /\ Len(history') \in Nat
        /\ \A i \in 1..Len(history') : i <= kept => i \in 1..kept /\ i \in 1..Len(history)
    BY <1>2 DEF StreamInv, StreamTypes
  <2>4. ASSUME NEW i \in 1..Len(history'), RequestOf(history'[i], q)
        PROVE  i \in 1..kept /\ i \in 1..Len(history) /\ RequestOf(history[i], q)
    <3>1. i <= kept
      BY <1>2, <2>3, <2>4 DEF RequestOf
    <3> QED BY <1>2, <2>3, <2>4, <3>1
  <2>5. ASSUME NEW j \in 1..Len(history'), DecisionOf(history'[j], q), j > kept
        PROVE  phase[q] # "none"
    <3>1. PICK i \in 1..kept : history[i].kind = "request" /\ history[i].q = q
      BY <1>2, <2>1, <2>5 DEF DecisionOf
    <3>2. i \in 1..Len(history)
      BY <1>2, <2>3
    <3> QED BY <2>1, <3>1, <3>2 DEF RecordOf, RequestOf
  <2>6. ASSUME NEW j \in 1..Len(history'), DecisionOf(history'[j], q), j <= kept
        PROVE  j \in 1..Len(history) /\ DecisionOf(history[j], q)
    BY <1>2, <2>3, <2>6
  <2>7. RecordOf(q)'
    <3>1. \A i \in 1..Len(history') : RequestOf(history'[i], q) => phase'[q] # "none"
      BY <2>1, <2>2, <2>4 DEF RecordOf
    <3>2. \A j \in 1..Len(history') : DecisionOf(history'[j], q) => phase'[q] = "done"
      <4> SUFFICES ASSUME NEW j \in 1..Len(history'), DecisionOf(history'[j], q)
                   PROVE  phase[q] # "none"
        BY <2>2
      <4>1. CASE j > kept
        BY <2>5, <4>1
      <4>2. CASE j <= kept
        BY <2>1, <2>6, <4>2 DEF RecordOf
      <4> QED BY <2>3, <4>1, <4>2
    <3>3. ASSUME NEW i \in 1..Len(history'), NEW j \in 1..Len(history'),
                 RequestOf(history'[i], q), DecisionOf(history'[j], q)
          PROVE  i < j
      <4>1. i \in 1..kept /\ i \in 1..Len(history) /\ RequestOf(history[i], q)
        BY <2>4, <3>3
      <4>2. CASE j > kept
        BY <2>3, <4>1, <4>2
      <4>3. CASE j <= kept
        BY <2>1, <2>6, <3>3, <4>1, <4>3 DEF RecordOf
      <4> QED BY <2>3, <4>2, <4>3
    <3>4. ASSUME NEW j \in Nat, NEW e \in StreamEvents, <<j, e>> \in lost', DecisionOf(e, q)
          PROVE  phase[q] # "none" /\ \A i \in 1..Len(history') : RequestOf(history'[i], q) => i < j
      <4>1. CASE <<j, e>> \in lost
        BY <2>1, <2>4, <3>4, <4>1 DEF RecordOf
      <4>2. CASE <<j, e>> \in {<<i, history[i]>> : i \in (kept + 1)..Len(history)}
        <5>1. j \in (kept + 1)..Len(history) /\ e = history[j]
          BY <4>2
        <5>2. j \in 1..Len(history) /\ j > kept /\ DecisionOf(history[j], q)
          BY <2>3, <3>4, <5>1
        <5>3. phase[q] = "done"
          BY <2>1, <5>2 DEF RecordOf
        <5>4. \A i \in 1..kept : i < j
          BY <2>3, <5>2
        <5> QED BY <2>4, <5>3, <5>4
      <4> QED BY <1>2, <3>4, <4>1, <4>2
    <3> QED BY <2>2, <3>1, <3>2, <3>3, <3>4 DEF RecordOf
  <2>8. CardOf(q)'
    BY <1>1, <2>1 DEF CardOf, View
  <2>9. AboutOf(q)' /\ Told(q)'
    BY <1>1 DEF AboutOf, Told
  <2> QED BY <2>7, <2>8, <2>9
<1> QED BY <1>3, <1>4 DEF CardsInv

\* What is on display after a piece of the log.
LEMMA ReconcileIs ==
  ASSUME StreamInv, NEW q \in Questions, NEW C, NEW a \in Nat, NEW b \in Nat,
         a <= b, b <= Len(history), NEW piece, piece = SubSeq(history, a + 1, b)
  PROVE  q \in Reconcile(C, piece) <=>
           \/ q \in C /\ \A j \in (a + 1)..b : ~Removes(history[j], q)
           \/ \E i \in (a + 1)..b :
                /\ RequestOf(history[i], q)
                /\ \A j \in (a + 1)..b : j > i => ~Removes(history[j], q)
<1>1. /\ history \in Seq(StreamEvents) /\ Len(history) \in Nat
      /\ DOMAIN piece = 1..(b - a)
      /\ \A k \in 1..(b - a) : piece[k] = history[a + k]
  <2>1. history \in Seq(StreamEvents) /\ Len(history) \in Nat
    BY DEF StreamInv, StreamTypes
  <2>2. /\ piece \in Seq(StreamEvents) /\ Len(piece) = b - (a + 1) + 1
        /\ \A k \in 1..(b - (a + 1) + 1) : piece[k] = history[(a + 1) + k - 1]
    BY <2>1, PartIs
  <2>3. /\ b - (a + 1) + 1 = b - a
        /\ \A k \in 1..(b - a) : (a + 1) + k - 1 = a + k
    OBVIOUS
  <2>4. DOMAIN piece = 1..Len(piece)
    BY <2>2
  <2> QED BY <2>1, <2>2, <2>3, <2>4
<1> DEFINE standing(i) == \A j \in 1..(b - a) : j > i => ~Removes(piece[j], q)
<1>2. \A k \in 1..(b - a) : a + k \in (a + 1)..b
  OBVIOUS
<1>3. \A j \in (a + 1)..b : j - a \in 1..(b - a) /\ piece[j - a] = history[j]
  <2> SUFFICES ASSUME NEW j \in (a + 1)..b
               PROVE  j - a \in 1..(b - a) /\ piece[j - a] = history[j]
    OBVIOUS
  <2>1. j - a \in 1..(b - a) /\ a + (j - a) = j
    OBVIOUS
  <2> QED BY <1>1, <2>1
<1>4. ASSUME NEW i \in Int
      PROVE  standing(i) <=> \A j \in (a + 1)..b : j > a + i => ~Removes(history[j], q)
  <2>1. ASSUME standing(i), NEW j \in (a + 1)..b, j > a + i PROVE ~Removes(history[j], q)
    <3>1. j - a \in 1..(b - a) /\ j - a > i /\ piece[j - a] = history[j]
      BY <1>3, <2>1
    <3> QED BY <2>1, <3>1
  <2>2. ASSUME \A j \in (a + 1)..b : j > a + i => ~Removes(history[j], q),
               NEW k \in 1..(b - a), k > i
        PROVE  ~Removes(piece[k], q)
    <3>1. a + k \in (a + 1)..b /\ a + k > a + i /\ piece[k] = history[a + k]
      BY <1>1, <1>2, <2>2
    <3> QED BY <2>2, <3>1
  <2> QED BY <2>1, <2>2
<1>5. q \in Reconcile(C, piece) <=>
        \/ q \in C /\ standing(0)
        \/ \E i \in 1..(b - a) : RequestOf(piece[i], q) /\ standing(i)
  BY <1>1 DEF Reconcile, RequestOf
<1> HIDE DEF standing
<1>6. standing(0) <=> \A j \in (a + 1)..b : ~Removes(history[j], q)
  <2>1. \A j \in (a + 1)..b : j > a + 0
    OBVIOUS
  <2> QED BY <1>4, <2>1
<1>7. ASSUME NEW i \in 1..(b - a), RequestOf(piece[i], q), standing(i)
      PROVE  \E k \in (a + 1)..b :
               /\ RequestOf(history[k], q)
               /\ \A j \in (a + 1)..b : j > k => ~Removes(history[j], q)
  <2>1. a + i \in (a + 1)..b /\ RequestOf(history[a + i], q)
    BY <1>1, <1>2, <1>7
  <2> QED BY <1>4, <1>7, <2>1
<1>8. ASSUME NEW k \in (a + 1)..b, RequestOf(history[k], q),
             \A j \in (a + 1)..b : j > k => ~Removes(history[j], q)
      PROVE  \E i \in 1..(b - a) : RequestOf(piece[i], q) /\ standing(i)
  <2>1. k - a \in 1..(b - a) /\ a + (k - a) = k /\ RequestOf(piece[k - a], q)
    BY <1>3, <1>8
  <2>2. standing(k - a)
    BY <1>4, <1>8, <2>1
  <2> QED BY <2>1, <2>2
<1> QED BY <1>5, <1>6, <1>7, <1>8

\* Taking in a piece of the log that begins where the page is.
LEMMA CardTaken ==
  ASSUME StreamInv, wire # <<>>, Takes(wire[1]), UNCHANGED history,
         NEW q \in Own, q \in Questions, RecordOf(q), CardOf(q),
         seen' <= Len(history), NEW C, C = {} \/ C = cards,
         cards' = Reconcile(C, SubSeq(history, Base + 1, seen'))
  PROVE  CardOf(q)'
<1>1. /\ seen \in Nat /\ Len(history) \in Nat /\ seen' \in Nat /\ Base \in Nat
      /\ Base <= seen /\ Base <= seen'
      /\ \A i \in 1..seen' : i <= Base => View'[i] = View[i]
      /\ \A i \in 1..seen' : i > Base => i <= Len(history) /\ View'[i] = history[i]
  BY DEF StreamInv, StreamTypes, Takes, Base
<1>2. q \in cards' =>
        \/ q \in C /\ \A j \in (Base + 1)..seen' : ~Removes(history[j], q)
        \/ \E i \in (Base + 1)..seen' :
             /\ RequestOf(history[i], q)
             /\ \A j \in (Base + 1)..seen' : j > i => ~Removes(history[j], q)
  <2> DEFINE piece == SubSeq(history, Base + 1, seen')
  <2>1. piece = SubSeq(history, Base + 1, seen')
    OBVIOUS
  <2> HIDE DEF piece
  <2>2. cards' = Reconcile(C, piece)
    BY <2>1
  <2>3. \A set : q \in Reconcile(set, piece) <=>
          \/ q \in set /\ \A j \in (Base + 1)..seen' : ~Removes(history[j], q)
          \/ \E i \in (Base + 1)..seen' :
               /\ RequestOf(history[i], q)
               /\ \A j \in (Base + 1)..seen' : j > i => ~Removes(history[j], q)
    BY <1>1, <2>1, ReconcileIs
  <2> QED BY <2>2, <2>3, Zenon
<1> SUFFICES ASSUME q \in cards', NEW j \in 1..seen', DecisionOf(View'[j], q)
             PROVE  FALSE
  BY DEF CardOf
<1>3. CASE j <= Base
  <2>1. j \in 1..seen /\ DecisionOf(View[j], q)
    BY <1>1, <1>3
  <2>2. q \notin C
    BY <2>1 DEF CardOf
  <2>3. PICK i \in (Base + 1)..seen' : RequestOf(history[i], q)
    BY <1>2, <2>2
  <2>4. i \in 1..Len(history) /\ i > j
    BY <1>1, <1>3, <2>3
  <2>5. \A k \in 1..Len(history) : RequestOf(history[k], q) => k < j
    BY <2>1, ViewDecided
  <2> QED BY <1>1, <2>3, <2>4, <2>5
<1>4. CASE j > Base
  <2>1. j \in 1..Len(history) /\ j \in (Base + 1)..seen' /\ DecisionOf(history[j], q)
    BY <1>1, <1>4
  <2>2. Removes(history[j], q)
    BY <2>1 DEF Removes, DecisionOf
  <2>3. PICK i \in (Base + 1)..seen' :
             /\ RequestOf(history[i], q)
             /\ \A k \in (Base + 1)..seen' : k > i => ~Removes(history[k], q)
    BY <1>2, <2>1, <2>2
  <2>4. i \in 1..Len(history)
    BY <1>1, <2>3
  <2>5. i < j
    BY <2>1, <2>3, <2>4 DEF RecordOf
  <2> QED BY <2>1, <2>2, <2>3, <2>5
<1> QED BY <1>1, <1>3, <1>4

\* The frame the page takes in, and what it does to the questions.
LEMMA Taking ==
  ASSUME StreamAssumption, StreamInv, Deliver
  PROVE  /\ wire \in Seq(Frames) /\ wire # <<>> /\ Len(wire) \in Nat \ {0} /\ wire[1] \in Frames
         /\ Len(wire') = Len(wire) - 1
         /\ \A k \in 1..Len(wire') : wire'[k] = wire[k + 1] /\ k + 1 \in 1..Len(wire)
         /\ UNCHANGED <<history, phase, asked, open, lost>>
         /\ Takes(wire[1]) /\ Base' = seen' /\ seen' \in Nat /\ seen' <= Len(history)
         /\ ~Carries(wire[1]) => TakeQuestion(wire[1])
         /\ Carries(wire[1]) =>
              \E C \in {{}, cards} :
                /\ wire[1].kind # "snapshot" => C = cards
                /\ cards' = Reconcile(C, SubSeq(history, Base + 1, seen'))
<1> DEFINE f == wire[1]
           n == Len(wire)
<1>1. /\ n \in Nat \ {0} /\ f \in Frames /\ wire \in Seq(Frames) /\ wire # <<>>
      /\ Len(wire') = n - 1 /\ \A k \in 1..(n - 1) : wire'[k] = wire[k + 1] /\ k + 1 \in 1..n
      /\ UNCHANGED <<history, phase, asked, open, lost>>
      /\ TakeSnapshot(f) \/ TakeEvents(f) \/ TakeQuestion(f)
  <2>1. wire \in Seq(Frames) /\ wire # <<>> /\ wire' = Tail(wire)
    BY DEF Deliver, StreamInv, StreamTypes
  <2>2. Head(wire) = f /\ n \in Nat \ {0} /\ f \in Frames
    BY <2>1
  <2>3. Len(wire') = n - 1 /\ \A k \in 1..(n - 1) : wire'[k] = wire[k + 1] /\ k + 1 \in 1..n
    BY <2>1, <2>2
  <2> QED BY <2>1, <2>2, <2>3 DEF Deliver, hostVars, others
<1>2. Takes(f) /\ Base' = seen' /\ StreamInv'
  BY <1>1, FrameTaken, DeliverKeeps
<1>3. /\ seen' \in Nat /\ seen' <= Len(history)
  <2>1. open'
    BY <1>1 DEF StreamInv, WireOK
  <2> QED BY <1>1, <1>2, <2>1 DEF StreamInv, WireOK, StreamTypes
<1>4. FrameOK(wire, history, Base, 1)
  <2>1. 1 \in 1..Len(wire)
    BY <1>1
  <2> QED BY <2>1 DEF StreamInv, WireOK
<1>5. /\ history \in Seq(StreamEvents) /\ Len(history) \in Nat /\ seen \in Nat
      /\ f.events \in Seq(StreamEvents) /\ Len(f.events) \in Nat /\ f.from \in Nat
      /\ LastSeq(f) \in Int
  BY <1>1 DEF StreamInv, StreamTypes, Frames, LastSeq
<1> HIDE DEF n, f
<1>6. ASSUME ~Carries(f) PROVE TakeQuestion(f)
  BY <1>1, <1>6 DEF TakeSnapshot, TakeEvents, Carries
<1>7. ASSUME Carries(f)
      PROVE  \E C \in {{}, cards} :
                /\ f.kind # "snapshot" => C = cards
                /\ cards' = Reconcile(C, SubSeq(history, Base + 1, seen'))
  <2>1. /\ Piece(f, history) /\ seen' = LastSeq(f)
        /\ f.kind = "snapshot" => Base = 0 /\ f.from = 1
        /\ f.kind # "snapshot" => Base = seen /\ f.from - 1 <= seen /\ seen <= LastSeq(f)
    <3>1. Piece(f, history) /\ Reached(wire, Base, 1, f.from - 1) /\ Within(wire, Base, 1, LastSeq(f))
      BY <1>4, <1>7 DEF FrameOK, f
    <3>2. f.from - 1 <= Base /\ Base <= LastSeq(f)
      BY <3>1 DEF Reached, Within
    <3>3. /\ f.kind = "snapshot" => Base = 0 /\ f.from = 1
          /\ f.kind # "snapshot" => Base = seen
      BY <1>1, <1>4 DEF FrameOK, Base, f
    <3> QED BY <1>2, <1>7, <3>1, <3>2, <3>3 DEF Takes
  <2>2. CASE f.kind = "snapshot"
    <3>1. cards' = Reconcile({}, f.events)
      BY <1>1, <2>2 DEF TakeSnapshot, TakeEvents, TakeQuestion
    <3>2. f.events = SubSeq(history, Base + 1, seen')
      <4>1. Base + 1 = f.from /\ seen' = LastSeq(f)
        BY <2>1, <2>2
      <4> QED BY <2>1, <4>1 DEF Piece
    <3>3. cards' = Reconcile({}, SubSeq(history, Base + 1, seen'))
      BY <3>1, <3>2
    <3> QED BY <2>2, <3>3
  <2>3. CASE f.kind # "snapshot"
    <3>1. cards' = Reconcile(cards, Unseen(f))
      BY <1>1, <1>7, <2>3 DEF TakeSnapshot, TakeEvents, TakeQuestion, Carries
    <3>2. Unseen(f) = SubSeq(history, Base + 1, seen')
      <4>1. CASE LastSeq(f) > seen
        BY <1>1, <2>1, <2>3, <4>1, UnseenIsNext
      <4>2. CASE LastSeq(f) <= seen
        <5>1. seen' = seen /\ Base = seen /\ Unseen(f) = <<>>
          <6>1. Unseen(f) = <<>>
            BY <4>2 DEF Unseen
          <6>2. LastSeq(f) = seen
            BY <1>5, <2>1, <2>3, <4>2
          <6> QED BY <2>1, <2>3, <6>1, <6>2
        <5>2. SubSeq(history, seen + 1, seen) = <<>>
          BY <1>5
        <5> QED BY <5>1, <5>2
      <4> QED BY <1>5, <4>1, <4>2
    <3>3. cards' = Reconcile(cards, SubSeq(history, Base + 1, seen'))
      BY <3>1, <3>2
    <3> QED BY <3>3
  <2> QED BY <2>2, <2>3
<1> QED BY <1>1, <1>2, <1>3, <1>6, <1>7 DEF f, n

\* A card, and a frame that is under way, stay what they are.
LEMMA DeliverCard ==
  ASSUME StreamAssumption, StreamInv, CardsInv, Deliver, NEW q \in Own
  PROVE  RecordOf(q)' /\ CardOf(q)' /\ AboutOf(q)'
<1>1. q \in Questions /\ RecordOf(q) /\ CardOf(q) /\ AboutOf(q)
  BY QuestionFacts DEF CardsInv
<1> DEFINE f == wire[1]
<1>2. /\ wire # <<>> /\ Len(wire) \in Nat \ {0} /\ f \in Frames
      /\ Len(wire') = Len(wire) - 1
      /\ \A k \in 1..Len(wire') : wire'[k] = wire[k + 1] /\ k + 1 \in 1..Len(wire)
      /\ UNCHANGED <<history, phase, asked, open, lost>>
      /\ Takes(f) /\ Base' = seen' /\ seen' \in Nat /\ seen' <= Len(history)
  BY Taking
<1>3. /\ Base \in Nat /\ Base <= seen' /\ Len(history) \in Nat
      /\ \A i \in 1..seen' : i <= Base => View'[i] = View[i]
      /\ \A i \in 1..seen' : i > Base => i <= Len(history) /\ View'[i] = history[i]
      /\ Carries(f) => seen' = LastSeq(f)
      /\ ~Carries(f) => seen' = seen /\ Base = seen
  BY <1>2 DEF StreamInv, StreamTypes, Takes, Base
<1>4. RecordOf(q)'
  BY <1>1, <1>2 DEF RecordOf
<1>5. CardOf(q)'
  <2>1. CASE Carries(f)
    <3>1. PICK C \in {{}, cards} : cards' = Reconcile(C, SubSeq(history, Base + 1, seen'))
      BY <2>1, Taking
    <3> HIDE DEF f
    <3>2. (C = {} \/ C = cards) /\ Takes(wire[1])
      BY <1>2 DEF f
    <3> QED BY <1>1, <1>2, <3>1, <3>2, CardTaken
  <2>2. CASE ~Carries(f)
    <3>1. /\ \/ f.kind = "approval" /\ cards' = cards \cup {f.q}
             \/ f.kind = "approval-settled" /\ cards' = cards \ {f.q}
          /\ UNCHANGED <<seen, shown, batch>> /\ View' = View
      BY <2>2, Taking DEF TakeQuestion, View
    <3>2. f.kind = "approval" /\ f.q = q => \A i \in 1..seen : ~DecisionOf(View[i], q)
      <4>1. 1 \in 1..Len(wire)
        BY <1>2
      <4> QED BY <1>1, <1>3, <2>2, <4>1 DEF AboutOf
    <3> QED BY <1>1, <3>1, <3>2 DEF CardOf
  <2> QED BY <2>1, <2>2
<1> HIDE DEF f
<1>6. ASSUME NEW k \in 1..Len(wire'), NEW i \in 1..Len(history), i > Base,
             i <= seen' \/ Reached(wire', seen', k, i)
      PROVE  Reached(wire, Base, k + 1, i)
  <2>1. CASE i <= seen'
    <3>1. Carries(f) /\ i <= LastSeq(f)
      BY <1>3, <1>6, <2>1
    <3>2. 1 \in 1..(k + 1 - 1)
      BY <1>2
    <3> QED BY <3>1, <3>2 DEF Reached, f
  <2>2. ASSUME NEW j \in 1..(k - 1), Carries(wire'[j]), i <= LastSeq(wire'[j])
        PROVE  Reached(wire, Base, k + 1, i)
    <3>1. j + 1 \in 1..(k + 1 - 1) /\ wire'[j] = wire[j + 1]
      BY <1>2
    <3> QED BY <2>2, <3>1 DEF Reached
  <2> QED BY <1>6, <2>1, <2>2 DEF Reached
<1>7. AboutOf(q)'
  <2> SUFFICES ASSUME NEW k \in 1..Len(wire'), wire'[k].kind = "approval", wire'[k].q = q
               PROVE  /\ \A i \in 1..seen' : ~DecisionOf(View'[i], q)
                      /\ \A i \in 1..Len(history) :
                           i > seen' /\ Reached(wire', seen', k, i) => ~DecisionOf(history[i], q)
    BY <1>2 DEF AboutOf
  <2>1. wire'[k] = wire[k + 1] /\ k + 1 \in 1..Len(wire)
    BY <1>2
  <2>2. /\ \A i \in 1..Base : ~DecisionOf(View[i], q)
        /\ \A i \in 1..Len(history) :
             i > Base /\ Reached(wire, Base, k + 1, i) => ~DecisionOf(history[i], q)
    BY <1>1, <2>1 DEF AboutOf
  <2>3. ASSUME NEW i \in 1..seen' PROVE ~DecisionOf(View'[i], q)
    <3>1. CASE i <= Base
      BY <1>3, <2>2, <3>1
    <3>2. CASE i > Base
      <4>1. i \in 1..Len(history) /\ i <= seen' /\ View'[i] = history[i]
        BY <1>2, <1>3, <3>2
      <4> QED BY <1>6, <2>2, <3>2, <4>1
    <3> QED BY <1>2, <1>3, <3>1, <3>2
  <2>4. ASSUME NEW i \in 1..Len(history), i > seen', Reached(wire', seen', k, i)
        PROVE  ~DecisionOf(history[i], q)
    <3>1. i > Base
      BY <1>2, <1>3, <2>4
    <3> QED BY <1>6, <2>2, <2>4, <3>1
  <2> QED BY <2>3, <2>4
<1> QED BY <1>4, <1>5, <1>7

\* A question the page is told of stays told.
LEMMA DeliverTold ==
  ASSUME StreamAssumption, StreamInv, CardsInv, Deliver, NEW q \in Own
  PROVE  Told(q)'
<1> DEFINE f == wire[1]
<1>1. /\ wire # <<>> /\ Len(wire) \in Nat \ {0} /\ f \in Frames
      /\ Len(wire') = Len(wire) - 1
      /\ \A k \in 1..Len(wire') : wire'[k] = wire[k + 1] /\ k + 1 \in 1..Len(wire)
      /\ UNCHANGED <<history, phase, asked, open, lost>>
      /\ Takes(f) /\ Base' = seen' /\ seen' \in Nat /\ seen' <= Len(history)
      /\ ~Carries(f) => TakeQuestion(f)
  BY Taking
<1> SUFFICES ASSUME q \in asked, open PROVE Told(q)'
  BY <1>1 DEF Told
<1>2. PICK k \in 0..Len(wire) :
        /\ k = 0 => q \in cards
        /\ k # 0 => wire[k].kind = "approval" /\ wire[k].q = q
        /\ \A m \in 1..Len(wire) : m > k => ~Clears(wire[m], q, history)
  BY DEF CardsInv, Told
<1> DEFINE x == IF k = 0 THEN 0 ELSE k - 1
<1>3. x \in 0..Len(wire') /\ 1 \in 1..Len(wire)
  BY <1>1, <1>2
<1>4. ASSUME NEW m \in 1..Len(wire'), m > x PROVE ~Clears(wire'[m], q, history')
  <2>1. wire'[m] = wire[m + 1] /\ m + 1 \in 1..Len(wire) /\ m + 1 > k
    BY <1>1, <1>2, <1>4
  <2> QED BY <1>1, <1>2, <2>1
<1>5. x # 0 => wire'[x].kind = "approval" /\ wire'[x].q = q
  <2> SUFFICES ASSUME x # 0 PROVE wire'[x].kind = "approval" /\ wire'[x].q = q
    OBVIOUS
  <2>1. x \in 1..Len(wire') /\ x + 1 = k /\ k # 0
    BY <1>1, <1>2, <1>3
  <2>2. wire'[x] = wire[k]
    BY <1>1, <2>1
  <2> QED BY <1>2, <2>1, <2>2
<1>6. CASE k = 0
  <2>1. q \in cards /\ ~Clears(f, q, history)
    BY <1>2, <1>3, <1>6
  <2>2. CASE ~Carries(f)
    <3>1. \/ f.kind = "approval" /\ cards' = cards \cup {f.q}
          \/ f.kind = "approval-settled" /\ cards' = cards \ {f.q}
      BY <1>1, <2>2 DEF TakeQuestion
    <3> HIDE DEF f
    <3>2. q \in cards'
      BY <2>1, <3>1 DEF Clears
    <3> QED BY <1>1, <1>3, <1>4, <1>6, <3>2 DEF Told
  <2>3. CASE Carries(f)
    <3> HIDE DEF f
    <3>1. /\ f.kind # "snapshot"
          /\ \A j \in f.from..LastSeq(f) : ~Removes(history[j], q)
      BY <2>1, <2>3 DEF Clears
    <3>2. cards' = Reconcile(cards, SubSeq(history, Base + 1, seen'))
      BY <2>3, <3>1, Taking DEF f
    <3>3. FrameOK(wire, history, Base, 1)
      BY <1>3 DEF StreamInv, WireOK
    <3>4. /\ f.from - 1 <= Base /\ seen' = LastSeq(f) /\ Base <= seen' /\ Base \in Nat
          /\ Len(history) \in Nat /\ f.from \in Nat
      BY <1>1, <2>3, <3>3 DEF FrameOK, Reached, Takes, f, Base, StreamInv, StreamTypes, Frames
    <3>5. \A j \in (Base + 1)..seen' : ~Removes(history[j], q)
      BY <1>1, <3>1, <3>4
    <3> DEFINE piece == SubSeq(history, Base + 1, seen')
    <3>6. piece = SubSeq(history, Base + 1, seen')
      OBVIOUS
    <3> HIDE DEF piece
    <3>7. q \in Questions
      BY QuestionFacts
    <3>8. q \in Reconcile(cards, piece)
      BY <1>1, <2>1, <3>4, <3>5, <3>6, <3>7, ReconcileIs
    <3>9. q \in cards'
      BY <3>2, <3>6, <3>8
    <3> QED BY <1>1, <1>3, <1>4, <1>6, <3>9 DEF Told
  <2> QED BY <2>2, <2>3
<1>7. CASE k = 1
  <2>1. f.kind = "approval" /\ f.q = q /\ ~Carries(f)
    BY <1>2, <1>7 DEF Carries
  <2>2. q \in cards'
    BY <1>1, <2>1 DEF TakeQuestion
  <2>3. x = 0
    BY <1>7
  <2> HIDE DEF x
  <2> QED BY <1>1, <1>3, <1>4, <2>2, <2>3 DEF Told
<1>8. CASE k > 1
  <2>1. x # 0
    BY <1>2, <1>8
  <2> HIDE DEF x
  <2> QED BY <1>1, <1>3, <1>4, <1>5, <2>1 DEF Told
<1> QED BY <1>2, <1>6, <1>7, <1>8

\* The page takes in a frame.
LEMMA DeliverCards ==
  ASSUME StreamAssumption, StreamInv, CardsInv, Deliver
  PROVE  CardsInv'
<1>1. QuestionTypes'
  <2>1. UNCHANGED <<phase, asked>>
    BY Taking
  <2> QED BY <2>1 DEF CardsInv, QuestionTypes
<1>2. \A q \in Own : RecordOf(q)' /\ CardOf(q)' /\ AboutOf(q)' /\ Told(q)'
  BY DeliverCard, DeliverTold
<1> QED BY <1>1, <1>2 DEF CardsInv

LEMMA CardsStart ==
  ASSUME StreamAssumption, StreamInit
  PROVE  CardsInv
<1>1. /\ history = <<>> /\ phase = [q \in Questions |-> "none"] /\ asked = {} /\ wire = <<>>
      /\ cards = {} /\ Len(history) = 0 /\ Len(wire) = 0 /\ lost = {} /\ ~open
  BY DEF StreamInit
<1>2. QuestionTypes
  BY <1>1 DEF QuestionTypes, Phases
<1> QED BY <1>1, <1>2 DEF CardsInv, RecordOf, CardOf, AboutOf, Told

LEMMA CardsStep ==
  ASSUME StreamAssumption, StreamInv, CardsInv, [StreamNext]_streamVars
  PROVE  CardsInv'
<1>1. CASE Text \/ TurnEnds
  BY <1>1, EventCards
<1>2. CASE Sync \/ UNCHANGED streamVars
  <2>1. /\ UNCHANGED <<history, phase, asked, open, wire, seen, cards, lost>>
        /\ View' = View
    BY <1>2 DEF Sync, streamVars, hostVars, pageVars, others, View
  <2> QED BY <2>1, QuietCards
<1>3. CASE Flush
  <2>1. /\ shown' = shown \o batch /\ batch' = <<>>
        /\ UNCHANGED <<history, phase, asked, open, wire, seen, cards, lost>>
        /\ shown \in Seq(StreamEvents) /\ batch \in Seq(StreamEvents)
    BY <1>3 DEF Flush, hostVars, others, StreamInv, StreamTypes
  <2>2. View' = View
    BY <2>1 DEF View
  <2> QED BY <2>1, <2>2, QuietCards
<1>4. ASSUME NEW q \in Questions,
             Request(q) \/ Ask(q) \/ Answer(q) \/ Dismiss(q) \/ Settle(q)
      PROVE  CardsInv'
  BY <1>4, RequestCards, AskCards, AnswerCards, SettleCards
<1>5. CASE Connect
  BY <1>5, ConnectCards
<1>6. CASE Drop \/ Refuse \/ Reopen
  BY <1>6, DropCards
<1>7. CASE Restart
  BY <1>7, RestartCards
<1>8. CASE Deliver
  BY <1>8, DeliverCards
<1> QED BY <1>1, <1>2, <1>3, <1>4, <1>5, <1>6, <1>7, <1>8 DEF StreamNext

\* What is said of a question is what CardsAgree asks.
LEMMA CardsTold ==
  ASSUME StreamAssumption, StreamInv, CardsInv
  PROVE  CardsAgree
<1>1. ASSUME open, wire = <<>>, NEW q \in asked \cap Own PROVE q \in cards
  <2>1. Len(wire) = 0
    BY <1>1
  <2>2. PICK k \in 0..0 : k = 0 => q \in cards
    BY <1>1, <2>1 DEF CardsInv, Told
  <2> QED BY <2>2
<1>2. \A q \in cards \cap Own, i \in 1..seen : ~(View[i].kind = "decision" /\ View[i].q = q)
  BY DEF CardsInv, CardOf, DecisionOf
<1> QED BY <1>1, <1>2 DEF CardsAgree

\* The conversation's own questions: when everything sent has been taken in, each one
\* that an answer would be accepted for is on display, and at no time one whose
\* decision the page has been given, over every drop, resume, snapshot and restart,
\* whatever part of the log goes with a host.
THEOREM CardsAreTrue == StreamSpec => []CardsAgree
<1>1. StreamInit => CardsInv
  BY StreamAssumption, CardsStart
<1>2. StreamInv /\ CardsInv /\ [StreamNext]_streamVars => CardsInv'
  BY StreamAssumption, CardsStep
<1>3. StreamInv /\ CardsInv => CardsAgree
  BY StreamAssumption, CardsTold
<1> QED BY <1>1, <1>2, <1>3, StreamInvariance, PTL DEF StreamSpec

-----------------------------------------------------------------------------
(***************************************************************************)
(* The checkpoints of a conversation (Context).                            *)
(***************************************************************************)

Entries == [kind : {"turn/start", "user", "answer", "calls", "result", "turn/end"}, run : Nat]
Jobs == [pc : {"none", "starting", "summarizing", "saving", "saved"},
         covers : Nat, text : Seq(Entries)]
Checkpoints == [whole : BOOLEAN, text : Seq(Entries)]

ContextTypes ==
  /\ events \in Seq(Entries) /\ stored \in 0..Len(events) /\ boot \in Nat
  /\ job \in [Triggers -> Jobs]
  /\ files \in [DOMAIN files -> Checkpoints]

\* The log begins with the start of a turn, and has begun whenever the driver is
\* not idle.
TurnsFirst ==
  /\ events # <<>> => events[1].kind = "turn/start"
  /\ turn # "idle" => events # <<>>

\* A compaction covers the log up to the end of a turn; once it has waited for
\* the disk, all that it covers is there and its text was made from exactly that.
JobsOK ==
  \A t \in Triggers : job[t].pc # "none" =>
    /\ job[t].covers \in Positions({"turn/end"}, events)
    /\ job[t].pc # "starting" =>
         /\ job[t].covers <= stored
         /\ job[t].text = SummaryInput(events, job[t].covers)

\* So does a checkpoint file, whatever has become of its compaction.
FilesOK ==
  \A c \in DOMAIN files :
    /\ c \in Positions({"turn/end"}, events) /\ c <= stored
    /\ files[c].whole => files[c].text = SummaryInput(events, c)

ContextInv == ContextTypes /\ TurnsFirst /\ JobsOK /\ FilesOK

-----------------------------------------------------------------------------
\* A bounded set of numbers that is not empty has its newest member.
LEMMA NewestIs ==
  ASSUME NEW S \in SUBSET Nat, S # {}, NEW n \in Nat, \A i \in S : i <= n
  PROVE  Newest(S) \in S /\ \A j \in S : j <= Newest(S)
<1> DEFINE Bounds == {m \in Nat : \A i \in S : i <= m}
<1>1. PICK m \in Bounds : \A k \in Bounds : m <= k
  BY LeastNat
<1>2. m \in S
  <2> SUFFICES ASSUME m \notin S PROVE FALSE
    OBVIOUS
  <2>1. \A i \in S : i < m
    BY <1>1
  <2>2. PICK i \in S : TRUE
    OBVIOUS
  <2>3. i \in Nat /\ m \in Nat /\ i < m
    BY <1>1, <2>1, <2>2
  <2>4. m - 1 \in Nat /\ \A j \in S : j <= m - 1
    BY <2>1, <2>3
  <2> QED BY <1>1, <2>3, <2>4
<1>3. \E i \in S : \A j \in S : j <= i
  BY <1>1, <1>2
<1> QED BY <1>3 DEF Newest

LEMMA PositionsAre ==
  ASSUME NEW l \in Seq(Entries), NEW kinds
  PROVE  /\ Positions(kinds, l) \in SUBSET (Nat \ {0}) /\ IsFiniteSet(Positions(kinds, l))
         /\ Len(l) \in Nat /\ \A i \in Positions(kinds, l) : i <= Len(l)
<1>1. Positions(kinds, l) \subseteq 1..Len(l) /\ Len(l) \in Nat
  BY DEF Positions
<1>2. IsFiniteSet(1..Len(l))
  BY <1>1, FS_Interval
<1> QED BY <1>1, <1>2, FS_Subset

LEMMA EndsAre ==
  ASSUME NEW l \in Seq(Entries), NEW c \in Positions({"turn/end"}, l)
  PROVE  c \in 1..Len(l) /\ c \in Nat \ {0} /\ c <= Len(l)
BY DEF Positions

\* What a summary is made from is a sequence of records.
LEMMA ProjectionType ==
  ASSUME NEW l \in Seq(Entries), NEW c \in Nat
  PROVE  Projection(l, c) \in Seq(Entries)
<1> DEFINE U == {i \in Positions(Messages, l) : i <= c}
<1>1. U \in SUBSET Nat /\ IsFiniteSet(U) /\ U \subseteq 1..Len(l)
  BY PositionsAre, FS_Subset
<1>2. Cardinality(U) \in Nat
  BY <1>1, FS_CardinalityType
<1>3. Projection(l, c) = [k \in 1..Cardinality(U) |-> l[Nth(U, k)]]
  BY DEF Projection, Picked
<1> HIDE DEF U
<1>4. \A k \in 1..Cardinality(U) : Nth(U, k) \in U
  BY <1>1, NthIsMember
<1>5. \A i \in U : l[i] \in Entries
  BY <1>1
<1>6. \A k \in 1..Cardinality(U) : l[Nth(U, k)] \in Entries
  BY <1>4, <1>5
<1> QED BY <1>2, <1>3, <1>6

\* What a summary up to c is made from depends on the first c records alone.
LEMMA ProjectionKept ==
  ASSUME NEW l \in Seq(Entries), NEW m \in Seq(Entries), NEW n \in Nat,
         n <= Len(l), n <= Len(m), \A i \in 1..n : m[i] = l[i], NEW c \in 1..n
  PROVE  /\ Projection(m, c) = Projection(l, c)
         /\ \A kinds : c \in Positions(kinds, l) => c \in Positions(kinds, m)
<1> DEFINE U == {i \in Positions(Messages, l) : i <= c}
           V == {i \in Positions(Messages, m) : i <= c}
<1>1. U = V
  BY DEF Positions
<1>2. U \in SUBSET Nat /\ IsFiniteSet(U) /\ U \subseteq 1..n
  BY PositionsAre, FS_Subset
<1>3. /\ Projection(l, c) = [k \in 1..Cardinality(U) |-> l[Nth(U, k)]]
      /\ Projection(m, c) = [k \in 1..Cardinality(U) |-> m[Nth(U, k)]]
  BY <1>1 DEF Projection, Picked
<1> HIDE DEF U, V
<1>4. \A k \in 1..Cardinality(U) : Nth(U, k) \in U
  BY <1>2, NthIsMember
<1>5. \A k \in 1..Cardinality(U) : l[Nth(U, k)] = m[Nth(U, k)]
  BY <1>2, <1>4
<1>6. Projection(m, c) = Projection(l, c)
  BY <1>3, <1>5
<1>7. \A kinds : c \in Positions(kinds, l) => c \in Positions(kinds, m)
  BY DEF Positions
<1> QED BY <1>6, <1>7

\* What a summarizer is given is the beginning of that, all of it if it is short.
LEMMA InputType ==
  ASSUME NEW l \in Seq(Entries), NEW c \in Nat
  PROVE  SummaryInput(l, c) \in Seq(Entries)
<1>1. Projection(l, c) \in Seq(Entries)
  BY ProjectionType
<1>2. MaxInput \in Nat
  BY ContextAssumption
<1> HIDE DEF Projection
<1>3. \A text \in Seq(Entries), n \in Nat :
        Len(text) > n => SubSeq(text, 1, n) \in Seq(Entries)
  OBVIOUS
<1> QED BY <1>1, <1>2, <1>3 DEF SummaryInput

LEMMA InputIsBeginning ==
  ASSUME NEW l \in Seq(Entries), NEW c \in Nat
  PROVE  LET covered == Projection(l, c)
             text == SummaryInput(l, c)
         IN /\ Len(text) <= Len(covered) /\ \A k \in DOMAIN text : text[k] = covered[k]
            /\ Len(text) < MaxInput => Len(text) = Len(covered)
<1>1. Projection(l, c) \in Seq(Entries)
  BY ProjectionType
<1>2. MaxInput \in Nat
  BY ContextAssumption
<1>3. \A covered \in Seq(Entries), n \in Nat :
        LET text == IF Len(covered) > n THEN SubSeq(covered, 1, n) ELSE covered
        IN /\ Len(text) <= Len(covered) /\ \A k \in DOMAIN text : text[k] = covered[k]
           /\ Len(text) < n => Len(text) = Len(covered)
  OBVIOUS
<1> QED BY <1>1, <1>2, <1>3 DEF SummaryInput

\* With no turn open, a log that begins with the start of one has the end of one.
LEMMA EndIsThere ==
  ASSUME NEW l \in Seq(Entries), l # <<>>, l[1].kind = "turn/start", OpenTurn(l) = 0
  PROVE  LastEnd(l) \in Positions({"turn/end"}, l)
<1> DEFINE S == Positions({"turn/start"}, l)
           E == Positions({"turn/end"}, l)
<1>1. S \in SUBSET Nat /\ E \in SUBSET Nat /\ Len(l) \in Nat
      /\ (\A i \in S : i <= Len(l)) /\ (\A i \in E : i <= Len(l))
  BY PositionsAre
<1>2. 1 \in S
  <2>1. 1 \in 1..Len(l)
    OBVIOUS
  <2> QED BY <2>1 DEF Positions
<1> HIDE DEF S, E
<1>3. Newest(S) \in Nat /\ Newest(S) >= 1
  <2>1. Newest(S) \in S /\ \A j \in S : j <= Newest(S)
    BY <1>1, <1>2, NewestIs
  <2> QED BY <1>1, <1>2, <2>1
<1>4. E # {}
  <2> SUFFICES ASSUME E = {} PROVE FALSE
    OBVIOUS
  <2>1. LastEnd(l) = 0
    BY DEF LastEnd, Newest, E
  <2> QED BY <1>1, <1>3, <2>1 DEF OpenTurn, S
<1>5. Newest(E) \in E
  BY <1>1, <1>4, NewestIs
<1> QED BY <1>5 DEF LastEnd, E

-----------------------------------------------------------------------------
\* A log that keeps its first n records keeps what compactions and files say of
\* them.
LEMMA CoveredKept ==
  ASSUME ContextInv, NEW n \in 0..Len(events), events' \in Seq(Entries), n <= Len(events'),
         \A i \in 1..n : events'[i] = events[i], NEW c \in Positions({"turn/end"}, events), c <= n
  PROVE  /\ c \in Positions({"turn/end"}, events')
         /\ SummaryInput(events', c) = SummaryInput(events, c)
<1>1. events \in Seq(Entries)
  BY DEF ContextInv, ContextTypes
<1>2. c \in 1..n /\ n \in Nat /\ n <= Len(events)
  BY <1>1, EndsAre
<1> QED BY <1>1, <1>2, ProjectionKept DEF SummaryInput

\* The driver appends one record, not the start of a turn unless it is idle.
LEMMA EntryKeeps ==
  ASSUME ContextInv, NEW e \in Entries, events' = Append(events, e),
         events # <<>> \/ e.kind = "turn/start",
         UNCHANGED <<stored, job, files, boot>>
  PROVE  ContextInv'
<1>0. events \in Seq(Entries) /\ stored \in 0..Len(events)
  BY DEF ContextInv, ContextTypes
<1>1. /\ events \in Seq(Entries) /\ Len(events) \in Nat /\ Len(events) \in 0..Len(events)
      /\ events' \in Seq(Entries) /\ Len(events') = Len(events) + 1
      /\ \A i \in 1..Len(events) : events'[i] = events[i]
      /\ events' # <<>> /\ events'[Len(events) + 1] = e
      /\ stored \in 0..Len(events') /\ Len(events) <= Len(events')
  BY <1>0
<1>2. \A c \in Positions({"turn/end"}, events) :
        /\ c \in Positions({"turn/end"}, events')
        /\ SummaryInput(events', c) = SummaryInput(events, c)
  <2> TAKE c \in Positions({"turn/end"}, events)
  <2>1. c <= Len(events)
    BY <1>1, EndsAre
  <2> QED BY <1>1, <2>1, CoveredKept
<1>3. ContextTypes'
  BY <1>1 DEF ContextInv, ContextTypes
<1>4. TurnsFirst'
  <2>1. events'[1].kind = "turn/start"
    BY <1>1 DEF ContextInv, TurnsFirst
  <2> QED BY <1>1, <2>1 DEF TurnsFirst
<1>5. JobsOK'
  BY <1>2 DEF ContextInv, JobsOK
<1>6. FilesOK'
  BY <1>2 DEF ContextInv, FilesOK
<1> QED BY <1>3, <1>4, <1>5, <1>6 DEF ContextInv

LEMMA DriverKeeps ==
  ASSUME ContextInv, Driver
  PROVE  ContextInv'
<1>1. boot \in Nat /\ (turn # "idle" => events # <<>>)
  BY DEF ContextInv, ContextTypes, TurnsFirst
<1>2. CASE StartTurn
  <2>1. Entry("turn/start") \in Entries /\ Entry("turn/start").kind = "turn/start"
    BY <1>1 DEF Entry, Entries
  <2> QED BY <1>2, <2>1, EntryKeeps DEF StartTurn
<1>3. CASE Admit
  <2>1. Entry("user") \in Entries
    BY <1>1 DEF Entry, Entries
  <2> QED BY <1>1, <1>3, <2>1, EntryKeeps DEF Admit
<1>4. CASE ToolReturns
  <2>1. Entry("result") \in Entries
    BY <1>1 DEF Entry, Entries
  <2> QED BY <1>1, <1>4, <2>1, EntryKeeps DEF ToolReturns
<1>5. CASE EndTurn
  <2>1. Entry("turn/end") \in Entries
    BY <1>1 DEF Entry, Entries
  <2> QED BY <1>1, <1>5, <2>1, EntryKeeps DEF EndTurn
<1>6. ASSUME NEW kind \in {"answer", "calls"}, Reply(kind) PROVE ContextInv'
  <2>1. Entry(kind) \in Entries
    BY <1>1 DEF Entry, Entries
  <2> QED BY <1>1, <1>6, <2>1, EntryKeeps DEF Reply
<1>7. CASE ReadCheckpoint \/ Build \/ StopRun \/ TurnSettles
  <2>1. UNCHANGED <<events, stored, job, files, boot>>
    BY <1>7 DEF ReadCheckpoint, Build, StopRun, TurnSettles
  <2>2. turn' # "idle" => turn # "idle"
    BY <1>7 DEF ReadCheckpoint, Build, StopRun, TurnSettles
  <2> QED BY <2>1, <2>2 DEF ContextInv, ContextTypes, TurnsFirst, JobsOK, FilesOK
<1> QED BY <1>2, <1>3, <1>4, <1>5, <1>6, <1>7 DEF Driver

LEMMA StoreKeeps ==
  ASSUME ContextInv, StoreEvents
  PROVE  ContextInv'
<1>1. stored' = Len(events) /\ stored \in 0..Len(events) /\ Len(events) \in Nat
      /\ UNCHANGED <<events, turn, job, files, boot>>
  BY DEF StoreEvents, ContextInv, ContextTypes
<1>2. ContextTypes' /\ TurnsFirst'
  BY <1>1 DEF ContextInv, ContextTypes, TurnsFirst
<1>3. \A c \in Positions({"turn/end"}, events) : c <= stored'
  BY <1>1, EndsAre DEF ContextInv, ContextTypes
<1>4. JobsOK'
  BY <1>1, <1>3 DEF ContextInv, JobsOK
<1>5. FilesOK'
  BY <1>1, <1>3 DEF ContextInv, FilesOK
<1> QED BY <1>2, <1>4, <1>5 DEF ContextInv

LEMMA BeginKeeps ==
  ASSUME ContextInv, NEW t \in Triggers, Begin(t),
         UNCHANGED <<events, stored, files, boot>>, turn' # "idle" => turn # "idle"
  PROVE  ContextInv'
<1>1. events \in Seq(Entries) /\ events # <<>> /\ events[1].kind = "turn/start"
      /\ OpenTurn(events) = 0
  BY DEF ContextInv, ContextTypes, TurnsFirst, Begin
<1>2. LastEnd(events) \in Positions({"turn/end"}, events)
  BY <1>1, EndIsThere
<1>3. LastEnd(events) \in Nat /\ <<>> \in Seq(Entries)
  BY <1>1, <1>2, EndsAre
<1> DEFINE new == [pc |-> "starting", covers |-> LastEnd(events), text |-> <<>>]
<1>4. job' = [job EXCEPT ![t] = new] /\ job \in [Triggers -> Jobs]
  BY DEF Begin, ContextInv, ContextTypes
<1>5. new \in Jobs
  BY <1>3 DEF Jobs
<1>6. new.pc = "starting" /\ new.covers \in Positions({"turn/end"}, events)
  BY <1>2
<1> HIDE DEF new
<1>7. job' \in [Triggers -> Jobs] /\ job'[t] = new
      /\ \A u \in Triggers \ {t} : job'[u] = job[u]
  BY <1>4, <1>5
<1>8. ContextTypes' /\ TurnsFirst' /\ FilesOK'
  BY <1>7 DEF ContextInv, ContextTypes, TurnsFirst, FilesOK
<1>9. JobsOK'
  BY <1>6, <1>7 DEF ContextInv, JobsOK
<1> QED BY <1>8, <1>9 DEF ContextInv

LEMMA CompactionKeeps ==
  ASSUME ContextInv, NEW t \in Triggers, Compaction(t)
  PROVE  ContextInv'
<1>1. /\ events \in Seq(Entries) /\ stored \in 0..Len(events)
      /\ job \in [Triggers -> Jobs] /\ job[t] \in Jobs
      /\ files \in [DOMAIN files -> Checkpoints]
      /\ UNCHANGED <<events, stored, turn, boot>>
  BY DEF ContextInv, ContextTypes, Compaction, Summarize, OpenFile, WriteFile, End
<1>2. job[t].covers \in Nat /\ job[t].text \in Seq(Entries)
  BY <1>1 DEF Jobs
<1>3. TurnsFirst'
  BY <1>1 DEF ContextInv, TurnsFirst
<1>4. CASE Summarize(t)
  <2> DEFINE text == SummaryInput(events, job[t].covers)
  <2>1. text \in Seq(Entries)
    BY <1>1, <1>2, InputType
  <2>2. /\ job[t].pc = "starting" /\ stored = Len(events) /\ UNCHANGED files
        /\ job' = [job EXCEPT ![t].pc = "summarizing", ![t].text = text]
    BY <1>4 DEF Summarize
  <2> HIDE DEF text
  <2>3. /\ job' \in [Triggers -> Jobs]
        /\ job'[t].covers = job[t].covers /\ job'[t].text = text
        /\ \A u \in Triggers \ {t} : job'[u] = job[u]
    BY <1>1, <2>1, <2>2 DEF Jobs
  <2>4. job[t].covers \in Positions({"turn/end"}, events) /\ job[t].covers <= stored
    BY <1>1, <2>2, EndsAre DEF ContextInv, JobsOK
  <2>5. JobsOK'
    BY <1>1, <2>3, <2>4 DEF ContextInv, JobsOK, text
  <2> QED BY <1>1, <1>3, <2>2, <2>3, <2>5 DEF ContextInv, ContextTypes, FilesOK
<1>5. CASE OpenFile(t) \/ WriteFile(t)
  <2>1. /\ job[t].pc \in {"summarizing", "saving"}
        /\ job' = [job EXCEPT ![t].pc = IF job[t].pc = "saving" THEN "saved" ELSE "saving"]
    BY <1>5 DEF OpenFile, WriteFile
  <2>2. /\ job' \in [Triggers -> Jobs] /\ job'[t].pc \in {"saving", "saved"}
        /\ job'[t].covers = job[t].covers /\ job'[t].text = job[t].text
        /\ \A u \in Triggers \ {t} : job'[u] = job[u]
    BY <1>1, <2>1 DEF Jobs
  <2>3. /\ job[t].covers \in Positions({"turn/end"}, events) /\ job[t].covers <= stored
        /\ job[t].text = SummaryInput(events, job[t].covers)
    BY <2>1 DEF ContextInv, JobsOK
  <2>4. JobsOK'
    BY <1>1, <2>2, <2>3 DEF ContextInv, JobsOK
  <2>5. ContextTypes' /\ FilesOK'
    <3>1. CASE OpenFile(t)
      <4> DEFINE D == DOMAIN files \cup {job[t].covers}
                 empty == [whole |-> FALSE, text |-> <<>>]
      <4>1. files' = [c \in D |-> IF c = job[t].covers THEN empty ELSE files[c]]
        BY <3>1 DEF OpenFile
      <4>2. empty \in Checkpoints /\ empty.whole = FALSE
        BY DEF Checkpoints
      <4> HIDE DEF empty
      <4>3. files' \in [DOMAIN files' -> Checkpoints] /\ DOMAIN files' = D
        BY <1>1, <4>1, <4>2
      <4>4. FilesOK'
        BY <1>1, <2>3, <4>1, <4>2 DEF ContextInv, FilesOK
      <4> QED BY <1>1, <2>2, <4>3, <4>4 DEF ContextInv, ContextTypes
    <3>2. CASE WriteFile(t)
      <4> DEFINE full == [whole |-> TRUE, text |-> job[t].text]
      <4>1. files' = [files EXCEPT ![job[t].covers] = full]
        BY <3>2 DEF WriteFile
      <4>2. full \in Checkpoints /\ full.text = SummaryInput(events, job[t].covers)
        BY <1>2, <2>3 DEF Checkpoints
      <4> HIDE DEF full
      <4>3. files' \in [DOMAIN files' -> Checkpoints] /\ DOMAIN files' = DOMAIN files
        BY <1>1, <4>1, <4>2
      <4>4. FilesOK'
        BY <1>1, <2>3, <4>1, <4>2, <4>3 DEF ContextInv, FilesOK
      <4> QED BY <1>1, <2>2, <4>3, <4>4 DEF ContextInv, ContextTypes
    <3> QED BY <1>5, <3>1, <3>2
  <2> QED BY <1>3, <2>4, <2>5 DEF ContextInv
<1>6. CASE End(t)
  <2>1. job' = [job EXCEPT ![t] = NoJob] /\ UNCHANGED files
    BY <1>6 DEF End
  <2>2. NoJob \in Jobs /\ NoJob.pc = "none"
    BY DEF NoJob, Jobs
  <2>3. job' \in [Triggers -> Jobs] /\ job'[t].pc = "none"
        /\ \A u \in Triggers \ {t} : job'[u] = job[u]
    BY <1>1, <2>1, <2>2
  <2>4. JobsOK'
    BY <1>1, <2>3 DEF ContextInv, JobsOK
  <2> QED BY <1>1, <1>3, <2>1, <2>3, <2>4 DEF ContextInv, ContextTypes, FilesOK
<1> QED BY <1>4, <1>5, <1>6 DEF Compaction

\* Loading a log keeps its records and adds at most the end of a turn.
LEMMA ReloadedKeeps ==
  ASSUME boot \in Nat, NEW l \in Seq(Entries), NEW recorded \in BOOLEAN
  PROVE  /\ Reloaded(l, recorded) \in Seq(Entries) /\ Len(l) <= Len(Reloaded(l, recorded))
         /\ \A i \in 1..Len(l) : Reloaded(l, recorded)[i] = l[i]
         /\ l = <<>> => Reloaded(l, recorded) = <<>>
<1> DEFINE result == [kind |-> "result", run |-> boot + 1]
           ended == [kind |-> "turn/end", run |-> boot + 1]
<1>1. result \in Entries /\ ended \in Entries
  BY DEF Entries
<1>2. PICK answered \in {<<>>, <<result>>} :
        Reloaded(l, recorded) = IF OpenTurn(l) = 0 THEN l ELSE (l \o answered) \o <<ended>>
  BY DEF Reloaded
<1> HIDE DEF result, ended
<1>3. answered \in Seq(Entries) /\ <<ended>> \in Seq(Entries)
  <2>1. CASE answered = <<>>
    BY <1>1, <2>1
  <2>2. CASE answered = <<result>>
    BY <1>1, <2>2
  <2> QED BY <2>1, <2>2
<1>4. /\ (l \o answered) \o <<ended>> \in Seq(Entries)
      /\ Len(l) <= Len((l \o answered) \o <<ended>>)
      /\ \A i \in 1..Len(l) : ((l \o answered) \o <<ended>>)[i] = l[i]
  BY <1>3
<1>5. l = <<>> => OpenTurn(l) = 0
  BY DEF OpenTurn, Newest, Positions
<1> QED BY <1>2, <1>4, <1>5

LEMMA CrashKeeps ==
  ASSUME ContextInv, Crash
  PROVE  ContextInv'
<1>1. /\ events \in Seq(Entries) /\ Len(events) \in Nat /\ stored \in 0..Len(events)
      /\ boot \in Nat /\ files \in [DOMAIN files -> Checkpoints]
      /\ stored' = Len(events') /\ boot' = boot + 1 /\ turn' = "idle" /\ UNCHANGED files
      /\ job' = [t \in Triggers |-> NoJob]
  BY DEF Crash, ContextInv, ContextTypes
<1>2. PICK kept \in stored..Len(events), recorded \in BOOLEAN :
        events' = Reloaded(SubSeq(events, 1, kept), recorded)
  BY DEF Crash
<1> DEFINE l == SubSeq(events, 1, kept)
<1>3. l \in Seq(Entries) /\ Len(l) = kept /\ \A i \in 1..kept : l[i] = events[i]
  BY <1>1
<1> HIDE DEF l
<1>4. /\ events' \in Seq(Entries) /\ kept <= Len(events')
      /\ \A i \in 1..kept : events'[i] = events[i]
      /\ kept = 0 => events' = <<>>
  <2>1. events' = Reloaded(l, recorded)
    BY <1>2 DEF l
  <2> QED BY <1>1, <1>3, <2>1, ReloadedKeeps
<1>5. kept \in 0..Len(events) /\ stored <= kept /\ Len(events') \in Nat
  BY <1>1, <1>4
<1>6. ContextTypes'
  <2>1. NoJob \in Jobs
    BY DEF NoJob, Jobs
  <2> QED BY <1>1, <1>4, <1>5, <2>1 DEF ContextTypes
<1>7. TurnsFirst'
  BY <1>1, <1>4, <1>5 DEF ContextInv, TurnsFirst
<1>8. JobsOK'
  BY <1>1 DEF JobsOK, NoJob
<1>9. FilesOK'
  <2> SUFFICES ASSUME NEW c \in DOMAIN files
               PROVE  /\ c \in Positions({"turn/end"}, events') /\ c <= Len(events')
                      /\ files[c].whole => files[c].text = SummaryInput(events', c)
    BY <1>1 DEF FilesOK
  <2>1. /\ c \in Positions({"turn/end"}, events) /\ c <= stored
        /\ files[c].whole => files[c].text = SummaryInput(events, c)
    BY DEF ContextInv, FilesOK
  <2>2. c \in Nat
    BY <1>1, <2>1, EndsAre
  <2>3. c <= kept /\ c <= Len(events')
    BY <1>1, <1>4, <1>5, <2>1, <2>2
  <2> QED BY <1>4, <1>5, <2>1, <2>3, CoveredKept
<1> QED BY <1>6, <1>7, <1>8, <1>9 DEF ContextInv

LEMMA ContextStarts ==
  ASSUME ContextInit
  PROVE  ContextInv
<1>1. /\ events = <<>> /\ stored = 0 /\ turn = "idle" /\ boot = 0 /\ files = <<>>
      /\ job = [t \in Triggers |-> NoJob]
  BY DEF ContextInit
<1>2. NoJob \in Jobs /\ NoJob.pc = "none"
  BY DEF NoJob, Jobs
<1>3. DOMAIN files = {} /\ files \in [DOMAIN files -> Checkpoints]
  BY <1>1
<1> QED BY <1>1, <1>2, <1>3 DEF ContextInv, ContextTypes, TurnsFirst, JobsOK, FilesOK

LEMMA ContextStep ==
  ASSUME ContextInv, [ContextNext]_contextVars
  PROVE  ContextInv'
<1>1. CASE UNCHANGED contextVars
  BY <1>1 DEF contextVars, ContextInv, ContextTypes, TurnsFirst, JobsOK, FilesOK
<1>2. CASE BeginManual
  <2>1. "manual" \in Triggers
    BY DEF Triggers
  <2> QED BY <1>2, <2>1, BeginKeeps DEF BeginManual
<1>3. CASE BeginAutomatic
  <2>1. "automatic" \in Triggers
    BY DEF Triggers
  <2> QED BY <1>3, <2>1, BeginKeeps DEF BeginAutomatic
<1> QED BY <1>1, <1>2, <1>3, DriverKeeps, StoreKeeps, CompactionKeeps, CrashKeeps
        DEF ContextNext

\* The inductive invariant of compactions and their files, for any turns, crashes
\* and compactions under way at once.
THEOREM ContextInvariance == ContextSpec => []ContextInv
<1>1. ContextInit => ContextInv
  BY ContextStarts
<1>2. ContextInv /\ [ContextNext]_contextVars => ContextInv'
  BY ContextStep
<1> QED BY <1>1, <1>2, PTL DEF ContextSpec

\* A whole checkpoint ends where a turn ended and was made from the first of the
\* messages up to there, all of them unless they are more than a summarizer is
\* given, over every crash that shortened the log and turn that regrew it.
THEOREM CheckpointsAreTrue == ContextSpec => []CheckpointsTrue
<1>1. ContextInv => CheckpointsTrue
  <2> SUFFICES ASSUME ContextInv, NEW c \in DOMAIN files, files[c].whole
               PROVE  LET covered == Projection(events, c)
                          text == files[c].text
                      IN /\ c \in Positions({"turn/end"}, events)
                         /\ Len(text) <= Len(covered)
                         /\ \A k \in DOMAIN text : text[k] = covered[k]
                         /\ Len(text) < MaxInput => Len(text) = Len(covered)
    BY DEF CheckpointsTrue
  <2>1. /\ events \in Seq(Entries) /\ c \in Positions({"turn/end"}, events)
        /\ files[c].text = SummaryInput(events, c)
    BY DEF ContextInv, ContextTypes, FilesOK
  <2>2. c \in Nat
    BY <2>1, EndsAre
  <2> QED BY <2>1, <2>2, InputIsBeginning
<1> QED BY <1>1, ContextInvariance, PTL

-----------------------------------------------------------------------------
(***************************************************************************)
(* The requests of a conversation (Context): what is sent, what is left    *)
(* out, and why.                                                           *)
(***************************************************************************)

(* The shape of the log. *)

Starts(l) == Positions({"turn/start"}, l)
Ends(l) == Positions({"turn/end"}, l)

\* A turn is open: one began after every end.
IsOpen(l) == \E s \in Starts(l) : \A e \in Ends(l) : e < s

\* Turns do not overlap, and hold every message.
TurnsApart(l) ==
  /\ \A i \in Positions(Messages, l), e \in Ends(l) :
       e < i => \E s \in Starts(l) : e < s /\ s < i
  /\ \A s, r \in Starts(l) : s < r => \E e \in Ends(l) : s < e /\ e < r

InTurn == {"admitting", "step", "building", "waiting", "refused", "tool", "stopping"}
OutOfTurn == {"idle", "ending", "settling"}

ShapeOK ==
  /\ TurnsApart(events)
  /\ turn \in InTurn \cup OutOfTurn
  /\ turn \in InTurn <=> IsOpen(events)

\* What a request is built from, and what the one being answered was.
RequestOK ==
  /\ turn = "building" => read \in {0} \cup Ends(events)
  /\ request # NoRequest => turn \in {"waiting", "refused"}
  /\ NothingForgotten /\ TrimsLeast

RequestInv == ShapeOK /\ RequestOK

LEMMA LastEndIs ==
  ASSUME NEW l \in Seq(Entries)
  PROVE  /\ LastEnd(l) \in Ends(l) \cup {0} /\ LastEnd(l) \in Nat
         /\ \A e \in Ends(l) : e <= LastEnd(l)
<1> DEFINE E == Positions({"turn/end"}, l)
<1>1. E \in SUBSET Nat /\ Len(l) \in Nat /\ \A i \in E : i <= Len(l)
  BY PositionsAre
<1>2. LastEnd(l) = Newest(E) /\ Ends(l) = E
  BY DEF LastEnd, Ends
<1> HIDE DEF E
<1>3. CASE E = {}
  <2>1. Newest(E) = 0
    BY <1>3 DEF Newest
  <2> QED BY <1>2, <1>3, <2>1
<1>4. CASE E # {}
  <2>1. Newest(E) \in E /\ \A j \in E : j <= Newest(E)
    BY <1>1, <1>4, NewestIs
  <2> QED BY <1>1, <1>2, <2>1
<1> QED BY <1>3, <1>4

LEMMA OpenTurnIs ==
  ASSUME NEW l \in Seq(Entries)
  PROVE  /\ OpenTurn(l) = 0 <=> ~IsOpen(l)
         /\ IsOpen(l) => /\ OpenTurn(l) \in Starts(l) /\ OpenTurn(l) \in 1..Len(l)
                         /\ \A s \in Starts(l) : s <= OpenTurn(l)
                         /\ \A e \in Ends(l) : e < OpenTurn(l)
<1> DEFINE S == Starts(l)
           E == Ends(l)
           a == Newest(S)
           b == LastEnd(l)
<1>1. /\ S \in SUBSET (Nat \ {0}) /\ Len(l) \in Nat /\ \A i \in S : i <= Len(l)
      /\ E \in SUBSET (Nat \ {0})
  BY PositionsAre DEF Starts, Ends
<1>2. b \in E \cup {0} /\ b \in Nat /\ \A e \in E : e <= b
  BY LastEndIs
<1>3. OpenTurn(l) = IF a > b THEN a ELSE 0
  BY DEF OpenTurn, Starts
<1>4. IsOpen(l) <=> \E s \in S : \A e \in E : e < s
  BY DEF IsOpen
<1> HIDE DEF S, E, b
<1>5. CASE S = {}
  <2>1. a = 0
    BY <1>5 DEF Newest
  <2> QED BY <1>2, <1>3, <1>4, <1>5, <2>1
<1>6. CASE S # {}
  <2>1. a \in S /\ \A s \in S : s <= a
    <3>1. S \in SUBSET Nat
      BY <1>1
    <3> QED BY <1>1, <1>6, <3>1, NewestIs
  <2> HIDE DEF a
  <2>2. a \in Nat \ {0} /\ a <= Len(l)
    BY <1>1, <2>1
  <2>3. IsOpen(l) <=> b < a
    <3>1. ASSUME b < a PROVE \A e \in E : e < a
      BY <1>1, <1>2, <2>2, <3>1
    <3>2. ASSUME NEW s \in S, \A e \in E : e < s PROVE b < a
      <4>1. s \in Nat \ {0} /\ s <= a
        BY <1>1, <2>1
      <4>2. b < s
        BY <1>2, <3>2, <4>1
      <4> QED BY <1>2, <2>2, <4>1, <4>2
    <3> QED BY <1>4, <2>1, <3>1, <3>2
  <2>4. b < a => \A e \in E : e < a
    BY <1>1, <1>2, <2>2
  <2> QED BY <1>1, <1>2, <1>3, <2>1, <2>2, <2>3, <2>4 DEF S, E
<1> QED BY <1>5, <1>6

LEMMA AppendedAt ==
  ASSUME NEW l \in Seq(Entries), NEW e \in Entries, NEW kinds
  PROVE  /\ Append(l, e) \in Seq(Entries) /\ Len(l) + 1 \in Nat
         /\ Positions(kinds, Append(l, e))
              = Positions(kinds, l) \cup (IF e.kind \in kinds THEN {Len(l) + 1} ELSE {})
         /\ \A i \in Positions(kinds, l) : i \in Nat /\ i < Len(l) + 1
<1> DEFINE m == Append(l, e)
           n == Len(l)
<1>1. /\ m \in Seq(Entries) /\ n \in Nat /\ Len(m) = n + 1 /\ m[n + 1] = e
      /\ \A i \in 1..n : m[i] = l[i]
  OBVIOUS
<1>2. DOMAIN m = 1..(n + 1) /\ DOMAIN l = 1..n
  BY <1>1
<1> HIDE DEF m, n
<1>3. 1..(n + 1) = (1..n) \cup {n + 1}
  BY <1>1
<1>4. Positions(kinds, m)
        = Positions(kinds, l) \cup (IF e.kind \in kinds THEN {n + 1} ELSE {})
  BY <1>1, <1>2, <1>3 DEF Positions
<1>5. \A i \in Positions(kinds, l) : i \in Nat /\ i < n + 1
  BY <1>1, <1>2 DEF Positions
<1> QED BY <1>1, <1>4, <1>5 DEF m, n

\* A record appended where it belongs leaves the turns apart.
LEMMA ApartKept ==
  ASSUME NEW l \in Seq(Entries), TurnsApart(l), NEW e \in Entries,
         e.kind = "turn/start" => ~IsOpen(l), e.kind \in Messages => IsOpen(l)
  PROVE  /\ TurnsApart(Append(l, e))
         /\ e.kind = "turn/start" => IsOpen(Append(l, e))
         /\ e.kind = "turn/end" => ~IsOpen(Append(l, e))
         /\ e.kind \in Messages => IsOpen(Append(l, e))
<1> DEFINE m == Append(l, e)
           n == Len(l) + 1
           New(kinds) == IF e.kind \in kinds THEN {n} ELSE {}
<1>1. /\ n \in Nat
      /\ Starts(m) = Starts(l) \cup New({"turn/start"})
      /\ Ends(m) = Ends(l) \cup New({"turn/end"})
      /\ Positions(Messages, m) = Positions(Messages, l) \cup New(Messages)
      /\ \A i \in Starts(l) \cup Ends(l) \cup Positions(Messages, l) : i \in Nat /\ i < n
  BY AppendedAt DEF Starts, Ends
<1>2. "turn/start" \notin Messages /\ "turn/end" \notin Messages
  BY DEF Messages
<1> HIDE DEF m, n
<1>3. CASE e.kind = "turn/start"
  <2>1. Starts(m) = Starts(l) \cup {n} /\ Ends(m) = Ends(l)
        /\ Positions(Messages, m) = Positions(Messages, l)
    BY <1>1, <1>2, <1>3
  <2>2. \A s \in Starts(l) : \E x \in Ends(l) : s < x /\ x < n
    <3> TAKE s \in Starts(l)
    <3>1. PICK x \in Ends(l) : ~(x < s)
      BY <1>3 DEF IsOpen
    <3>2. x # s
      BY <1>1 DEF Starts, Ends, Positions
    <3> QED BY <1>1, <3>1, <3>2
  <2>3. TurnsApart(m)
    BY <1>1, <2>1, <2>2 DEF TurnsApart
  <2>4. IsOpen(m)
    BY <1>1, <2>1 DEF IsOpen
  <2> QED BY <1>2, <1>3, <2>3, <2>4 DEF m
<1>4. CASE e.kind = "turn/end"
  <2>1. Starts(m) = Starts(l) /\ Ends(m) = Ends(l) \cup {n}
        /\ Positions(Messages, m) = Positions(Messages, l)
    BY <1>1, <1>2, <1>4
  <2>2. TurnsApart(m)
    BY <1>1, <2>1 DEF TurnsApart
  <2>3. ~IsOpen(m)
    BY <1>1, <2>1 DEF IsOpen
  <2> QED BY <1>2, <1>4, <2>2, <2>3 DEF m
<1>5. CASE e.kind \in Messages
  <2>1. Starts(m) = Starts(l) /\ Ends(m) = Ends(l)
        /\ Positions(Messages, m) = Positions(Messages, l) \cup {n}
    BY <1>1, <1>2, <1>5
  <2>2. PICK s \in Starts(l) : \A x \in Ends(l) : x < s
    BY <1>5 DEF IsOpen
  <2>3. TurnsApart(m)
    BY <1>1, <2>1, <2>2 DEF TurnsApart
  <2>4. IsOpen(m)
    BY <2>1, <2>2 DEF IsOpen
  <2> QED BY <1>2, <1>5, <2>3, <2>4 DEF m
<1> QED BY <1>3, <1>4, <1>5 DEF Entries, Messages

\* So does a crash that cuts the log.
LEMMA PrefixApart ==
  ASSUME NEW l \in Seq(Entries), TurnsApart(l), NEW n \in 0..Len(l)
  PROVE  SubSeq(l, 1, n) \in Seq(Entries) /\ TurnsApart(SubSeq(l, 1, n))
<1> DEFINE m == SubSeq(l, 1, n)
<1>1. m \in Seq(Entries) /\ Len(m) = n /\ (\A i \in 1..n : m[i] = l[i]) /\ n \in Nat
      /\ n <= Len(l) /\ Len(l) \in Nat
  OBVIOUS
<1>2. DOMAIN m = 1..n /\ DOMAIN l = 1..Len(l)
  BY <1>1
<1> HIDE DEF m
<1>3. \A kinds : Positions(kinds, m) = {i \in Positions(kinds, l) : i <= n}
                 /\ Positions(kinds, l) \subseteq Nat
  BY <1>1, <1>2 DEF Positions
<1>4. /\ Starts(m) = {i \in Starts(l) : i <= n} /\ Ends(m) = {i \in Ends(l) : i <= n}
      /\ Positions(Messages, m) = {i \in Positions(Messages, l) : i <= n}
      /\ Starts(l) \subseteq Nat /\ Ends(l) \subseteq Nat /\ Positions(Messages, l) \subseteq Nat
  BY <1>3 DEF Starts, Ends
<1>5. TurnsApart(m)
  <2>1. ASSUME NEW i \in Positions(Messages, m), NEW e \in Ends(m), e < i
        PROVE  \E s \in Starts(m) : e < s /\ s < i
    <3>1. PICK s \in Starts(l) : e < s /\ s < i
      BY <1>4, <2>1 DEF TurnsApart
    <3> QED BY <1>1, <1>4, <3>1
  <2>2. ASSUME NEW s \in Starts(m), NEW r \in Starts(m), s < r
        PROVE  \E e \in Ends(m) : s < e /\ e < r
    <3>1. PICK e \in Ends(l) : s < e /\ e < r
      BY <1>4, <2>2 DEF TurnsApart
    <3> QED BY <1>1, <1>4, <3>1
  <2> QED BY <2>1, <2>2 DEF TurnsApart
<1> QED BY <1>1, <1>5 DEF m

-----------------------------------------------------------------------------
(* Costs, and the optional sources. *)

LEMMA DatedAre ==
  ASSUME events \in Seq(Entries), NEW b
  PROVE  /\ Dated(b) = {i \in Positions(Messages, events) : i >= b}
         /\ IsFiniteSet(Dated(b)) /\ Dated(b) \in SUBSET (Nat \ {0})
         /\ Dated(b) \subseteq 1..Len(events) /\ Len(events) \in Nat
<1>1. Positions(Messages, events) \in SUBSET (Nat \ {0})
      /\ IsFiniteSet(Positions(Messages, events)) /\ Len(events) \in Nat
      /\ \A i \in Positions(Messages, events) : i <= Len(events)
  BY PositionsAre
<1>2. Dated(b) = {i \in Positions(Messages, events) : i >= b}
  BY DEF Dated
<1>3. Dated(b) \in SUBSET Positions(Messages, events)
  BY <1>2
<1> QED BY <1>1, <1>2, <1>3, FS_Subset

\* More sources and more of the history cost no less.
LEMMA CostGrows ==
  ASSUME events \in Seq(Entries), NEW A, IsFiniteSet(A), NEW B \in SUBSET A,
         NEW v, NEW p, NEW b, Dated(b) \subseteq Dated(p)
  PROVE  /\ Cost(B, v, b) \in Nat /\ Cost(A, v, p) \in Nat
         /\ Cost(B, v, b) <= Cost(A, v, p)
<1>1. /\ IsFiniteSet(B) /\ Cardinality(B) <= Cardinality(A)
      /\ Cardinality(A) \in Nat /\ Cardinality(B) \in Nat
  BY FS_Subset, FS_CardinalityType
<1>2. /\ IsFiniteSet(Dated(p)) /\ IsFiniteSet(Dated(b))
  BY DatedAre
<1>3. /\ Cardinality(Dated(b)) <= Cardinality(Dated(p))
      /\ Cardinality(Dated(p)) \in Nat /\ Cardinality(Dated(b)) \in Nat
  BY <1>2, FS_Subset, FS_CardinalityType
<1> DEFINE x == IF v > 0 THEN 1 ELSE 0
<1>4. x \in Nat
  OBVIOUS
<1>5. /\ Cost(B, v, b) = 1 + Cardinality(B) + x + Cardinality(Dated(b))
      /\ Cost(A, v, p) = 1 + Cardinality(A) + x + Cardinality(Dated(p))
  BY DEF Cost
<1> HIDE DEF x
<1> QED BY <1>1, <1>3, <1>4, <1>5

LEMMA OrderIs ==
  /\ Len(DropOrder) = 4 /\ ToSet(DropOrder) = {DropOrder[n] : n \in 1..4}
  /\ \A n \in 1..4 : Order(DropOrder[n]) = n
  /\ IsFiniteSet(ToSet(DropOrder))
<1>1. /\ Len(DropOrder) = 4 /\ DOMAIN DropOrder = 1..4
      /\ DropOrder[1] = "skill-catalog" /\ DropOrder[2] = "skills"
      /\ DropOrder[3] = "parent-context" /\ DropOrder[4] = "memory"
  BY DEF DropOrder
<1>2. \A m, n \in 1..4 : DropOrder[m] = DropOrder[n] => m = n
  <2> TAKE m, n \in 1..4
  <2>1. m \in {1, 2, 3, 4} /\ n \in {1, 2, 3, 4}
    OBVIOUS
  <2> QED BY <1>1, <2>1
<1>3. \A n \in 1..4 : Order(DropOrder[n]) = n
  BY <1>1, <1>2 DEF Order
<1>4. ToSet(DropOrder) = {DropOrder[n] : n \in 1..4}
  BY <1>1 DEF ToSet
<1>5. ToSet(DropOrder) = {"skill-catalog", "skills", "parent-context", "memory"}
  <2>1. \A n \in 1..4 : n \in {1, 2, 3, 4}
    OBVIOUS
  <2> QED BY <1>1, <1>4, <2>1
<1>6. IsFiniteSet({"skill-catalog"}) /\ IsFiniteSet({"skills"})
      /\ IsFiniteSet({"parent-context"}) /\ IsFiniteSet({"memory"})
  BY FS_Singleton
<1>7. ToSet(DropOrder)
        = (({"skill-catalog"} \cup {"skills"}) \cup {"parent-context"}) \cup {"memory"}
  BY <1>5
<1>8. IsFiniteSet(ToSet(DropOrder))
  <2>1. IsFiniteSet({"skill-catalog"} \cup {"skills"})
    BY <1>6, FS_Union
  <2>2. IsFiniteSet(({"skill-catalog"} \cup {"skills"}) \cup {"parent-context"})
    BY <1>6, <2>1, FS_Union
  <2>3. IsFiniteSet((({"skill-catalog"} \cup {"skills"}) \cup {"parent-context"}) \cup {"memory"})
    BY <1>6, <2>2, FS_Union
  <2> QED BY <1>7, <2>3
<1> QED BY <1>1, <1>3, <1>4, <1>8

\* The least of a set of numbers.
LEMMA MinIs ==
  ASSUME NEW S \in SUBSET Nat, S # {}
  PROVE  Min(S) \in S /\ \A j \in S : Min(S) <= j
<1>1. \E i \in S : \A j \in S : i <= j
  BY LeastNat
<1> QED BY <1>1 DEF Min

\* The sources that are kept: the first n of the order are gone, and n is the
\* least that will do, or all of them.
LEMMA SourcesKept ==
  ASSUME events \in Seq(Entries), NEW loaded \in SUBSET ToSet(DropOrder), NEW v, NEW b,
         NEW available \in Nat
  PROVE  \E n \in 0..4 :
           /\ KeptSources(loaded, v, b, available) = loaded \ {DropOrder[i] : i \in 1..n}
           /\ \A m \in 0..(n - 1) : Cost(loaded \ {DropOrder[i] : i \in 1..m}, v, b) > available
           /\ n < 4 => Cost(KeptSources(loaded, v, b, available), v, b) <= available
<1> DEFINE after(n) == loaded \ {DropOrder[i] : i \in 1..n}
           enough == {n \in 0..4 : Cost(after(n), v, b) <= available}
           n0 == IF enough = {} THEN 4 ELSE Min(enough)
<1>1. KeptSources(loaded, v, b, available) = after(n0)
  BY OrderIs DEF KeptSources
<1>2. enough \in SUBSET Nat /\ enough \subseteq 0..4
  OBVIOUS
<1>3. enough # {} => n0 \in enough /\ \A j \in enough : n0 <= j
  BY <1>2, MinIs
<1>4. n0 \in 0..4
  <2>1. CASE enough = {}
    <3> HIDE DEF enough
    <3>1. n0 = 4
      BY <2>1
    <3> HIDE DEF n0
    <3> QED BY <3>1
  <2>2. CASE enough # {}
    <3>1. n0 \in enough
      BY <1>3, <2>2
    <3> HIDE DEF enough, n0
    <3> QED BY <1>2, <3>1
  <2> QED BY <2>1, <2>2
<1>5. \A m : Cost(after(m), v, b) \in Nat
  <2> TAKE m
  <2>1. IsFiniteSet(after(m)) /\ after(m) \in SUBSET after(m)
    <3>1. after(m) \in SUBSET ToSet(DropOrder)
      OBVIOUS
    <3> QED BY <3>1, OrderIs, FS_Subset
  <2> HIDE DEF after
  <2> QED BY <2>1, CostGrows
<1> HIDE DEF after
<1>6. \A m \in 0..(n0 - 1) : Cost(after(m), v, b) > available
  <2> TAKE m \in 0..(n0 - 1)
  <2>1. m \in 0..4 /\ m < n0
    BY <1>4
  <2>2. m \notin enough
    BY <1>3, <1>4, <2>1
  <2> QED BY <1>5, <2>1, <2>2
<1>7. n0 < 4 => Cost(after(n0), v, b) <= available
  BY <1>3, <1>4
<1> HIDE DEF n0
<1> QED BY <1>1, <1>4, <1>6, <1>7 DEF after

LEMMA SourcesAre ==
  ASSUME events \in Seq(Entries), NEW loaded \in SUBSET ToSet(DropOrder), NEW v, NEW b,
         NEW available \in Nat, NEW r, r.loaded = loaded,
         r.sources = KeptSources(loaded, v, b, available)
  PROVE  /\ r.sources \in SUBSET loaded /\ IsFiniteSet(loaded)
         /\ \A s \in Gone(r), t \in r.sources : Order(s) < Order(t)
         /\ Cost(r.sources, v, b) > available => r.sources = {}
         /\ Gone(r) # {} =>
              LastGone(r) \in loaded /\ Cost(r.sources \cup {LastGone(r)}, v, b) > available
<1> DEFINE First(n) == {DropOrder[i] : i \in 1..n}
<1>1. PICK n \in 0..4 :
        /\ r.sources = loaded \ First(n)
        /\ \A m \in 0..(n - 1) : Cost(loaded \ First(m), v, b) > available
        /\ n < 4 => Cost(r.sources, v, b) <= available
  <2>1. \E n \in 0..4 :
           /\ KeptSources(loaded, v, b, available) = loaded \ {DropOrder[i] : i \in 1..n}
           /\ \A m \in 0..(n - 1) : Cost(loaded \ {DropOrder[i] : i \in 1..m}, v, b) > available
           /\ n < 4 => Cost(KeptSources(loaded, v, b, available), v, b) <= available
    BY SourcesKept
  <2> QED BY <2>1, Zenon
<1>2. \A s \in loaded : \E i \in 1..4 : s = DropOrder[i] /\ Order(s) = i
  BY OrderIs
<1>3. \A m \in 0..4 : \A s \in loaded : s \in First(m) <=> Order(s) \in 1..m
  <2> TAKE m \in 0..4
  <2> TAKE s \in loaded
  <2>1. PICK i \in 1..4 : s = DropOrder[i] /\ Order(s) = i
    BY <1>2
  <2>2. ASSUME s \in First(m) PROVE Order(s) \in 1..m
    <3>1. PICK j \in 1..m : s = DropOrder[j]
      BY <2>2
    <3>2. j \in 1..4
      OBVIOUS
    <3> QED BY <3>1, <3>2, OrderIs
  <2>3. ASSUME Order(s) \in 1..m PROVE s \in First(m)
    BY <2>1, <2>3
  <2> QED BY <2>2, <2>3
<1>4. IsFiniteSet(loaded)
  BY OrderIs, FS_Subset
<1> HIDE DEF First
<1>5. /\ Gone(r) = {s \in loaded : Order(s) <= n} /\ r.sources = {s \in loaded : Order(s) > n}
      /\ \A s \in loaded : Order(s) \in 1..4
  <2>1. \A s \in loaded : Order(s) \in 1..4
    BY <1>2
  <2>2. \A s \in loaded : s \in First(n) <=> Order(s) <= n
    BY <1>3, <2>1
  <2>3. r.sources = {s \in loaded : Order(s) > n}
    BY <1>1, <2>1, <2>2
  <2> QED BY <2>1, <2>2, <2>3, <1>1 DEF Gone
<1>6. \A s \in Gone(r), t \in r.sources : Order(s) < Order(t)
  BY <1>5
<1>7. r.sources \in SUBSET loaded
  BY <1>5
<1>8. Cost(r.sources, v, b) > available => r.sources = {}
  <2> SUFFICES ASSUME Cost(r.sources, v, b) > available PROVE r.sources = {}
    OBVIOUS
  <2>1. Cost(r.sources, v, b) \in Nat
    BY <1>4, <1>7, CostGrows, FS_Subset
  <2>2. n = 4
    BY <1>1, <2>1
  <2> QED BY <1>5, <2>2
<1>9. ASSUME Gone(r) # {}
      PROVE  LastGone(r) \in loaded /\ Cost(r.sources \cup {LastGone(r)}, v, b) > available
  <2> DEFINE orders == {Order(s) : s \in Gone(r)}
             last == LastGone(r)
  <2>1. \E s \in Gone(r) : \A t \in Gone(r) : Order(t) <= Order(s)
    <3>1. orders \in SUBSET Nat /\ orders # {} /\ \A k \in orders : k <= 4
      BY <1>5, <1>9
    <3>2. PICK k \in orders : \A j \in orders : j <= k
      <4> HIDE DEF orders
      <4> QED BY <3>1, NewestIs
    <3> QED BY <3>2
  <2>2. last \in Gone(r) /\ \A t \in Gone(r) : Order(t) <= Order(last)
    BY <2>1 DEF LastGone
  <2> HIDE DEF last
  <2> DEFINE m == Order(last) - 1
  <2>3. m \in 0..(n - 1) /\ m \in 0..4
    BY <1>5, <2>2
  <2>4. loaded \ First(m) = r.sources \cup {last}
    <3>1. \A s \in loaded : s \in First(m) <=> Order(s) <= m
      BY <1>3, <1>5, <2>3
    <3>2. \A s \in loaded : Order(s) = Order(last) => s = last
      BY <1>2, <1>5, <2>2
    <3>3. \A s \in loaded : Order(s) > m <=> (Order(s) > n \/ s = last)
      <4> TAKE s \in loaded
      <4>1. Order(s) \in 1..4 /\ Order(last) \in 1..4 /\ Order(last) <= n
        BY <1>5, <2>2
      <4>2. Order(s) <= n => Order(s) <= Order(last)
        BY <1>5, <2>2
      <4> QED BY <3>2, <4>1, <4>2
    <3>4. last \in loaded
      BY <1>5, <2>2
    <3>5. \A s \in loaded : Order(s) \in Int /\ m \in Int
      BY <1>5, <2>3
    <3> HIDE DEF m
    <3> QED BY <1>5, <3>1, <3>3, <3>4, <3>5
  <2>5. Cost(loaded \ First(m), v, b) > available
    BY <1>1, <2>3
  <2>6. last \in loaded
    BY <1>5, <2>2
  <2> QED BY <2>4, <2>5, <2>6 DEF last
<1> QED BY <1>4, <1>6, <1>7, <1>8, <1>9

-----------------------------------------------------------------------------
(* The window and the history of a request. *)

\* Nothing of a turn is on both sides of b.
Cut(b) ==
  \A i, j \in Dated(1) : i < b /\ b <= j => \E s \in Starts(events) : i < s /\ s <= j

\* The places where a history may begin.
Cuts == {1} \cup Starts(events) \cup {e + 1 : e \in Ends(events)}

LogKnown ==
  /\ events \in Seq(Entries)
  /\ events # <<>> => events[1].kind = "turn/start"
  /\ TurnsApart(events) /\ IsOpen(events)

\* The positions of the log, of their kinds.
LEMMA PlacesAre ==
  ASSUME LogKnown
  PROVE  /\ Starts(events) \in SUBSET (Nat \ {0}) /\ Ends(events) \in SUBSET (Nat \ {0})
         /\ IsFiniteSet(Starts(events))
         /\ Dated(1) = Positions(Messages, events) /\ Dated(1) \in SUBSET (Nat \ {0})
         /\ 1 \in Starts(events)
         /\ \A i \in Dated(1) : i \notin Starts(events) /\ i \notin Ends(events)
         /\ \A s \in Starts(events) : s \notin Ends(events)
<1>1. /\ Starts(events) \in SUBSET (Nat \ {0}) /\ Ends(events) \in SUBSET (Nat \ {0})
      /\ Positions(Messages, events) \in SUBSET (Nat \ {0}) /\ IsFiniteSet(Starts(events))
  BY PositionsAre DEF Starts, Ends, LogKnown
<1>2. Dated(1) = Positions(Messages, events)
  BY <1>1 DEF Dated
<1>3. events \in Seq(Entries) /\ Starts(events) # {}
  BY DEF LogKnown, IsOpen
<1>4. events # <<>> /\ 1 \in DOMAIN events
  BY <1>3 DEF Starts, Positions
<1>5. 1 \in Starts(events)
  BY <1>4 DEF LogKnown, Starts, Positions
<1>6. /\ \A i \in Dated(1) : i \notin Starts(events) /\ i \notin Ends(events)
      /\ \A s \in Starts(events) : s \notin Ends(events)
  BY <1>2 DEF Starts, Ends, Positions, Messages
<1> QED BY <1>1, <1>2, <1>5, <1>6

LEMMA CutsCut ==
  ASSUME LogKnown, NEW b \in Cuts
  PROVE  Cut(b) /\ b \in Nat \ {0}
<1>1. b \in Nat \ {0}
  BY PlacesAre DEF Cuts
<1>2. CASE b = 1
  BY <1>2, PlacesAre DEF Cut
<1>3. ASSUME b \in Starts(events) PROVE Cut(b)
  <2> SUFFICES ASSUME NEW i \in Dated(1), NEW j \in Dated(1), i < b, b <= j
               PROVE  \E s \in Starts(events) : i < s /\ s <= j
    BY DEF Cut
  <2> QED BY <1>3
<1>4. ASSUME NEW e \in Ends(events), b = e + 1 PROVE Cut(b)
  <2> SUFFICES ASSUME NEW i \in Dated(1), NEW j \in Dated(1), i < b, b <= j
               PROVE  \E s \in Starts(events) : i < s /\ s <= j
    BY DEF Cut
  <2>1. i \in Nat /\ j \in Nat /\ e \in Nat /\ i <= e /\ e < j
    BY <1>4, PlacesAre
  <2>2. PICK s \in Starts(events) : e < s /\ s < j
    BY <2>1, PlacesAre DEF LogKnown, TurnsApart
  <2> QED BY <2>1, <2>2, PlacesAre
<1> QED BY <1>1, <1>2, <1>3, <1>4 DEF Cuts

\* The messages on either side of a cut are of different turns.
LEMMA CutParts ==
  ASSUME LogKnown, NEW b \in Cuts, NEW i \in Dated(1), NEW j \in Dated(1), i < b, b <= j
  PROVE  TurnOf(i) # TurnOf(j)
<1> DEFINE Upto(k) == {n \in Positions({"turn/start"}, events) : n <= k}
<1>1. PICK s \in Starts(events) : i < s /\ s <= j
  BY CutsCut DEF Cut
<1>2. i \in Nat /\ j \in Nat /\ s \in Nat
  BY PlacesAre
<1>3. IsFiniteSet(Upto(j)) /\ Starts(events) \in SUBSET Nat
  <2>1. Upto(j) \in SUBSET Starts(events)
    BY DEF Starts
  <2> HIDE DEF Upto
  <2> QED BY <2>1, PlacesAre, FS_Subset
<1>4. Upto(i) \in SUBSET Upto(j) /\ s \in Upto(j) /\ s \notin Upto(i)
  <2>1. \A n \in Starts(events) : n \in Nat /\ (n <= i => n <= j)
    BY <1>1, <1>2, <1>3
  <2>2. s \in Upto(j)
    BY <1>1 DEF Starts
  <2>3. s \notin Upto(i)
    BY <1>1, <1>2
  <2>4. Upto(i) \in SUBSET Upto(j)
    BY <2>1 DEF Starts
  <2> QED BY <2>2, <2>3, <2>4
<1> HIDE DEF Upto
<1>5. Cardinality(Upto(i)) # Cardinality(Upto(j))
  BY <1>3, <1>4, FS_Subset
<1> QED BY <1>5 DEF TurnOf, Upto

LEMMA TailStartIs ==
  ASSUME ContextAssumption, LogKnown, NEW c \in Ends(events)
  PROVE  LET o == OpenTurn(events) b == TailStart(c, o)
         IN  b \in Cuts /\ b <= o /\ c < b
<1> DEFINE o == OpenTurn(events)
           starts == CompletedStarts(c)
           beyond == Cardinality(starts) - TailTurns
<1>1. /\ o \in Starts(events) /\ o \in Nat /\ c \in Nat /\ c < o
      /\ \A e \in Ends(events) : e < o
  BY OpenTurnIs, PlacesAre DEF LogKnown
<1>2. LastEnd(events) < o /\ LastEnd(events) \in Nat
  <2>1. LastEnd(events) \in Ends(events) \cup {0}
    BY LastEndIs DEF LogKnown
  <2> QED BY <1>1, <2>1, PlacesAre
<1> HIDE DEF o
<1>3. /\ starts \in SUBSET Starts(events) /\ starts \in SUBSET Nat /\ IsFiniteSet(starts)
      /\ \A i \in starts : c < i /\ i < o
  <2>1. starts \in SUBSET Starts(events) /\ \A i \in starts : c < i /\ i < LastEnd(events)
    BY DEF CompletedStarts, Starts
  <2> HIDE DEF starts
  <2>2. \A i \in starts : i \in Nat
    BY <2>1, PlacesAre
  <2>3. \A i \in starts : c < i /\ i < o
    BY <1>1, <1>2, <2>1, <2>2
  <2>4. IsFiniteSet(starts)
    BY <2>1, PlacesAre, FS_Subset
  <2>5. starts \in SUBSET Nat
    BY <2>2
  <2> QED BY <2>1, <2>3, <2>4, <2>5
<1>4. Cardinality(starts) \in Nat /\ TailTurns \in Nat
  BY <1>3, FS_CardinalityType DEF ContextAssumption
<1> HIDE DEF starts
<1>5. CASE beyond <= 0
  <2>1. TailStart(c, o) = c + 1
    BY <1>5 DEF TailStart, starts
  <2>2. c + 1 <= o /\ c < c + 1 /\ c + 1 \in Cuts
    BY <1>1 DEF Cuts
  <2> QED BY <2>1, <2>2 DEF o
<1>6. CASE beyond > 0 /\ TailTurns = 0
  <2>1. TailStart(c, o) = o
    BY <1>4, <1>6 DEF TailStart, starts
  <2>2. o <= o /\ o \in Cuts
    BY <1>1 DEF Cuts
  <2> QED BY <1>1, <2>1, <2>2 DEF o
<1>7. CASE beyond > 0 /\ TailTurns # 0
  <2>1. TailStart(c, o) = Nth(starts, beyond + 1)
    BY <1>4, <1>7 DEF TailStart, starts
  <2>2. beyond + 1 \in 1..Cardinality(starts)
    BY <1>4, <1>7
  <2>3. Nth(starts, beyond + 1) \in starts
    BY <1>3, <2>2, NthIsMember
  <2>4. TailStart(c, o) \in starts
    BY <2>1, <2>3
  <2>5. TailStart(c, o) \in Nat
    BY <1>3, <2>4
  <2> HIDE DEF beyond
  <2> QED BY <1>1, <1>3, <2>4, <2>5 DEF Cuts, o
<1> QED BY <1>4, <1>5, <1>6, <1>7 DEF o

\* The history of a request begins at a cut no later than the open turn, and what
\* the window leaves out is covered or noted.
LEMMA WindowIs ==
  ASSUME ContextAssumption, LogKnown, NEW setting \in Settings,
         NEW v \in {0} \cup Ends(events), setting # "compact" => v = 0
  PROVE  LET o == OpenTurn(events)
             w == Window(setting, v, o)
         IN  /\ w.from \in Cuts /\ w.from <= o
             /\ setting = "none" => w.from = o
             /\ setting # "none" => v < w.from /\ w.omitted = Dated(v + 1) \ Dated(w.from)
<1> DEFINE o == OpenTurn(events)
           w == Window(setting, v, o)
<1>1. o \in Starts(events) /\ o \in Nat \ {0} /\ v \in Nat
  BY OpenTurnIs, PlacesAre DEF LogKnown
<1> HIDE DEF o
<1>2. CASE setting = "none"
  <2>1. w = [from |-> o, omitted |-> {}]
    BY <1>2 DEF Window
  <2>2. o <= o /\ o \in Cuts
    BY <1>1 DEF Cuts
  <2> HIDE DEF w
  <2> QED BY <1>2, <2>1, <2>2 DEF w, o
<1>3. CASE setting # "none" /\ (setting = "recent" \/ v = 0)
  <2>1. w = [from |-> 1, omitted |-> {}] /\ v = 0
    BY <1>3 DEF Window, Settings
  <2> HIDE DEF w
  <2> QED BY <1>1, <1>3, <2>1 DEF Cuts, w, o
<1>4. CASE setting # "none" /\ setting # "recent" /\ v # 0
  <2>1. w = [from |-> TailStart(v, o), omitted |-> Dated(v + 1) \ Dated(TailStart(v, o))]
    BY <1>4 DEF Window, Settings
  <2>2. TailStart(v, o) \in Cuts /\ TailStart(v, o) <= o /\ v < TailStart(v, o)
    BY <1>4, TailStartIs DEF o
  <2> HIDE DEF w
  <2> QED BY <1>4, <2>1, <2>2 DEF w, o
<1> QED BY <1>2, <1>3, <1>4 DEF o

\* Where a history that starts at b may be cut.
TrimPoints(b) == {b} \cup Boundaries(b + 1, OpenTurn(events))

LEMMA TrimPointsAre ==
  ASSUME LogKnown, NEW b \in Cuts, b <= OpenTurn(events)
  PROVE  /\ TrimPoints(b) \in SUBSET Cuts /\ TrimPoints(b) \in SUBSET (Nat \ {0})
         /\ b \in TrimPoints(b) /\ OpenTurn(events) \in Starts(events)
         /\ \A c \in TrimPoints(b) : b <= c /\ c <= OpenTurn(events)
<1> DEFINE o == OpenTurn(events)
<1>1. o \in Starts(events) /\ o \in Nat /\ b \in Nat \ {0}
  BY OpenTurnIs, PlacesAre, CutsCut DEF LogKnown
<1>2. TrimPoints(b) = {b} \cup ({e + 1 : e \in Ends(events)} \cap ((b + 1)..o))
  BY DEF TrimPoints, Boundaries, Ends
<1> HIDE DEF o
<1>3. TrimPoints(b) \in SUBSET Cuts
  BY <1>2 DEF Cuts
<1>4. TrimPoints(b) \in SUBSET (Nat \ {0}) /\ b \in TrimPoints(b)
      /\ \A c \in TrimPoints(b) : b <= c /\ c <= o
  BY <1>1, <1>2 DEF o
<1> QED BY <1>1, <1>3, <1>4 DEF o

\* Between a message and the start of a later turn its own turn has ended.
LEMMA EndBetween ==
  ASSUME LogKnown, NEW i \in Dated(1), NEW t \in Starts(events), i < t
  PROVE  \E e \in Ends(events) : i < e /\ e < t
<1> DEFINE S == {s \in Starts(events) : s <= i}
           s0 == Newest(S)
<1>1. i \in Nat \ {0} /\ t \in Nat
  BY PlacesAre
<1>2. S \in SUBSET Nat /\ S # {} /\ \A s \in S : s <= i
  BY <1>1, PlacesAre
<1>3. s0 \in S /\ \A s \in S : s <= s0
  <2> HIDE DEF S
  <2> QED BY <1>1, <1>2, NewestIs
<1>4. s0 \in Starts(events) /\ s0 \in Nat /\ s0 < i
  BY <1>1, <1>2, <1>3, PlacesAre
<1>5. \A s \in Starts(events) : s <= i => s <= s0
  BY <1>3
<1> HIDE DEF S, s0
<1>6. PICK e \in Ends(events) : s0 < e /\ e < t
  BY <1>1, <1>4 DEF LogKnown, TurnsApart
<1>7. e \in Nat /\ e # i
  BY PlacesAre
<1>8. ~(e < i)
  <2> SUFFICES ASSUME e < i PROVE FALSE
    OBVIOUS
  <2>1. i \in Positions(Messages, events)
    BY PlacesAre
  <2>2. PICK s \in Starts(events) : e < s /\ s < i
    BY <2>1 DEF LogKnown, TurnsApart
  <2>3. s \in Nat /\ s <= s0
    BY <1>1, <1>5, <2>2, PlacesAre
  <2> QED BY <1>4, <1>6, <1>7, <2>2, <2>3
<1> QED BY <1>1, <1>6, <1>7, <1>8

\* There is a cut after the last message before the start of a turn.
LEMMA CutBefore ==
  ASSUME LogKnown, NEW b \in Cuts, NEW t \in Starts(events), b <= t, t <= OpenTurn(events)
  PROVE  \E p \in TrimPoints(b) : p <= t /\ Dated(p) \subseteq Dated(t)
<1> DEFINE o == OpenTurn(events)
           E == {e \in Ends(events) : b <= e /\ e < t}
<1>1. b \in Nat \ {0} /\ t \in Nat /\ o \in Nat
  BY CutsCut, PlacesAre, OpenTurnIs DEF LogKnown
<1>2. \A i \in Dated(1) : i < t => \E e \in Ends(events) : i < e /\ e < t
  BY EndBetween
<1>3. ASSUME NEW p \in Nat \ {0}, b <= p, \A e \in E : e < p
      PROVE  Dated(p) \subseteq Dated(t)
  <2> SUFFICES ASSUME NEW i \in Dated(p), i \notin Dated(t) PROVE FALSE
    OBVIOUS
  <2>1. i \in Dated(1) /\ i \in Nat /\ p <= i /\ i < t
    BY <1>1, DatedAre DEF LogKnown
  <2>2. PICK e \in Ends(events) : i < e /\ e < t
    BY <1>2, <2>1
  <2>3. e \in Nat /\ e \in E
    BY <1>1, <1>3, <2>1, <2>2, PlacesAre
  <2> QED BY <1>3, <2>1, <2>2, <2>3
<1>4. CASE E = {}
  <2>1. b \in TrimPoints(b)
    BY DEF TrimPoints
  <2> QED BY <1>1, <1>3, <1>4, <2>1
<1>5. CASE E # {}
  <2> DEFINE e == Newest(E)
  <2>1. E \in SUBSET Nat /\ \A x \in E : x <= t
    BY <1>1, PlacesAre
  <2>2. e \in E /\ \A x \in E : x <= e
    <3> HIDE DEF E
    <3> QED BY <1>1, <1>5, <2>1, NewestIs
  <2>3. e \in Ends(events) /\ e \in Nat /\ b <= e /\ e < t
    BY <2>1, <2>2
  <2>4. \A x \in E : x \in Nat /\ x <= e
    BY <2>1, <2>2
  <2> HIDE DEF e, E
  <2>5. e + 1 \in TrimPoints(b)
    <3>1. e + 1 \in (b + 1)..o
      BY <1>1, <2>3
    <3> QED BY <2>3, <3>1 DEF TrimPoints, Boundaries, Ends
  <2>6. \A x \in E : x < e + 1
    BY <2>3, <2>4
  <2>7. Dated(e + 1) \subseteq Dated(t)
    BY <1>1, <1>3, <2>3, <2>6
  <2> QED BY <1>1, <2>3, <2>5, <2>7
<1> QED BY <1>4, <1>5

\* The history that is kept starts at the first choice that fits, or at the last.
LEMMA HistoryIs ==
  ASSUME LogKnown, NEW w, w.from \in Cuts, w.from <= OpenTurn(events),
         NEW A, IsFiniteSet(A), NEW v, NEW available \in Nat
  PROVE  LET h == KeptHistory(w, A, v, available, OpenTurn(events))
         IN  /\ h.from \in TrimPoints(w.from)
             /\ h.omitted = w.omitted \cup (Dated(w.from) \ Dated(h.from))
             /\ \A b \in TrimPoints(w.from) : b < h.from => Cost(A, v, b) > available
             /\ Cost(A, v, h.from) > available => \A b \in TrimPoints(w.from) : b <= h.from
<1> DEFINE o == OpenTurn(events)
           C == TrimPoints(w.from)
           F == {b \in C : Cost(A, v, b) <= available}
           f == IF F = {} THEN Newest(C) ELSE Min(F)
           h == KeptHistory(w, A, v, available, o)
<1>1. h = [from |-> f, omitted |-> w.omitted \cup (Dated(w.from) \ Dated(f))]
  BY DEF KeptHistory, TrimPoints
<1>2. C \in SUBSET Nat /\ C # {} /\ o \in Nat /\ (\A b \in C : b <= o)
      /\ \A b \in C : Cost(A, v, b) \in Nat
  <2>1. C \in SUBSET (Nat \ {0}) /\ w.from \in C /\ o \in Starts(events) /\ \A b \in C : b <= o
    BY TrimPointsAre
  <2>2. o \in Nat
    BY <2>1, PlacesAre
  <2>3. \A b \in C : Cost(A, v, b) \in Nat
    BY CostGrows DEF LogKnown
  <2> HIDE DEF C, o
  <2> QED BY <2>1, <2>2, <2>3
<1> HIDE DEF C, o, h
<1>3. CASE F = {}
  <2>1. f \in C /\ \A b \in C : b <= f
    BY <1>2, <1>3, NewestIs
  <2>2. \A b \in C : Cost(A, v, b) > available
    BY <1>2, <1>3
  <2> HIDE DEF f
  <2> QED BY <1>1, <2>1, <2>2 DEF h, C, o
<1>4. CASE F # {}
  <2>1. F \in SUBSET Nat
    BY <1>2
  <2>2. f \in F /\ \A b \in F : f <= b
    <3>1. Min(F) \in F /\ \A b \in F : Min(F) <= b
      <4> HIDE DEF F
      <4> QED BY <1>4, <2>1, MinIs
    <3> HIDE DEF F
    <3> QED BY <1>4, <3>1
  <2>3. f \in C /\ f \in Nat /\ Cost(A, v, f) <= available
    <3> HIDE DEF f
    <3> QED BY <2>1, <2>2
  <2>4. \A b \in C : b < f => Cost(A, v, b) > available
    <3> TAKE b \in C
    <3> HAVE b < f
    <3>1. b \notin F
      <4> HIDE DEF f
      <4> QED BY <1>2, <2>2, <2>3
    <3> QED BY <1>2, <3>1
  <2>5. Cost(A, v, f) \in Nat
    <3> HIDE DEF f
    <3> QED BY <1>2, <2>3
  <2> HIDE DEF f, F
  <2> QED BY <1>1, <2>3, <2>4, <2>5 DEF h, C, o
<1> QED BY <1>3, <1>4

\* The last choice leaves the open turn alone.
LEMMA LastChoice ==
  ASSUME LogKnown, NEW b \in Cuts, b <= OpenTurn(events), NEW q \in TrimPoints(b),
         \A c \in TrimPoints(b) : c <= q
  PROVE  Dated(q) = Dated(OpenTurn(events))
<1> DEFINE o == OpenTurn(events)
<1>1. o \in Starts(events) /\ o \in Nat /\ q \in Nat /\ q <= o
      /\ TrimPoints(b) \in SUBSET Nat
  BY TrimPointsAre, PlacesAre
<1>2. PICK p \in TrimPoints(b) : p <= o /\ Dated(p) \subseteq Dated(o)
  BY <1>1, CutBefore
<1>3. p \in Nat /\ p <= q
  BY <1>1, <1>2
<1> HIDE DEF o
<1>4. Dated(q) \subseteq Dated(p) /\ Dated(o) \subseteq Dated(q)
  BY <1>1, <1>3, DatedAre DEF LogKnown
<1> QED BY <1>2, <1>4 DEF o

\* The turn that was dropped last: without it nothing less would have been kept
\* than at one of the choices that did not fit.
LEMMA LastLostIs ==
  ASSUME LogKnown, NEW b \in Cuts, b <= OpenTurn(events), NEW f \in TrimPoints(b),
         NEW r, r.window = b, r.sent = Dated(f), Lost(r) # {}
  PROVE  \E p \in TrimPoints(b) : p < f /\ Dated(p) \subseteq Dated(LastLost(r))
<1> DEFINE o == OpenTurn(events)
           i == Newest(Lost(r))
           S == {s \in Starts(events) : s <= i}
           t == LastLost(r)
<1>1. Lost(r) = Dated(b) \ Dated(f)
  BY DEF Lost
<1>2. b \in Nat \ {0} /\ f \in Nat /\ o \in Nat /\ f <= o
  BY TrimPointsAre, PlacesAre, CutsCut
<1>3. Lost(r) \in SUBSET Nat /\ \A x \in Lost(r) : x \in Dated(1) /\ b <= x /\ x < f
  BY <1>1, <1>2, DatedAre DEF LogKnown
<1>4. i \in Lost(r)
  <2>1. \A x \in Lost(r) : x <= f
    BY <1>2, <1>3
  <2> QED BY <1>2, <1>3, <2>1, NewestIs
<1>5. i \in Dated(1) /\ i \in Nat \ {0} /\ b <= i /\ i < f
  BY <1>3, <1>4, PlacesAre
<1> HIDE DEF i, o
<1>6. S \in SUBSET Nat /\ S # {} /\ \A s \in S : s <= i
  BY <1>5, PlacesAre
<1>7. t = Newest(S)
  BY DEF LastLost, Starts, i
<1>8. t \in S
  <2> HIDE DEF S, t
  <2> QED BY <1>5, <1>6, <1>7, NewestIs
<1>9. t \in Starts(events) /\ t \in Nat /\ t <= i
  BY <1>6, <1>8
<1> HIDE DEF t, S
<1>10. t <= o
  BY <1>2, <1>5, <1>9
<1>11. CASE b <= t
  <2>1. PICK p \in TrimPoints(b) : p <= t /\ Dated(p) \subseteq Dated(t)
    BY <1>9, <1>10, <1>11, CutBefore DEF o
  <2>2. p \in Nat
    BY TrimPointsAre
  <2> QED BY <1>2, <1>5, <1>9, <2>1, <2>2 DEF t
<1>12. CASE t < b
  <2>1. Dated(b) \subseteq Dated(t)
    BY <1>2, <1>9, <1>12, DatedAre DEF LogKnown
  <2>2. b \in TrimPoints(b)
    BY DEF TrimPoints
  <2> QED BY <1>2, <1>5, <2>1, <2>2 DEF t
<1>13. b <= t \/ t < b
  BY <1>2, <1>9
<1> QED BY <1>11, <1>12, <1>13

\* A request that is assembled forgets nothing and drops no more than it must.
LEMMA AssembledIs ==
  ASSUME ContextAssumption, LogKnown, read \in {0} \cup Ends(events),
         NEW setting \in Settings, NEW loaded \in Loads, NEW available \in Budgets
  PROVE  Complete(Assembled(setting, loaded, available))
         /\ Least(Assembled(setting, loaded, available))
<1> DEFINE r == Assembled(setting, loaded, available)
           o == OpenTurn(events)
           v == IF setting = "compact" THEN read ELSE 0
           w == Window(setting, v, o)
           A == KeptSources(loaded, v, w.from, available)
           h == KeptHistory(w, A, v, available, o)
           b == w.from
           f == h.from
<1>1. /\ r.openOnly = (setting = "none") /\ r.loaded = loaded /\ r.available = available
      /\ r.window = b /\ r.sources = A /\ r.summary = v /\ r.from = f
      /\ r.omitted = h.omitted /\ r.sent = Dated(f)
      /\ r.refused = (Cost(A, v, f) > available)
  BY DEF Assembled
<1>2. loaded \in SUBSET ToSet(DropOrder) /\ available \in Nat
  BY DEF ContextAssumption
<1>3. v \in {0} \cup Ends(events) /\ (setting # "compact" => v = 0)
  OBVIOUS
<1> HIDE DEF r, v
<1>4. /\ b \in Cuts /\ b <= o
      /\ setting = "none" => b = o
      /\ setting # "none" => v < b /\ w.omitted = Dated(v + 1) \ Dated(b)
  BY <1>3, WindowIs
<1> HIDE DEF w
<1>5. /\ A \in SUBSET loaded /\ IsFiniteSet(loaded)
      /\ \A s \in Gone(r), t \in A : Order(s) < Order(t)
      /\ Cost(A, v, b) > available => A = {}
      /\ Gone(r) # {} => LastGone(r) \in loaded /\ Cost(A \cup {LastGone(r)}, v, b) > available
  <2>1. r.loaded = loaded /\ r.sources = KeptSources(loaded, v, b, available)
    BY <1>1
  <2>2. events \in Seq(Entries)
    BY DEF LogKnown
  <2>3. /\ r.sources \in SUBSET loaded /\ IsFiniteSet(loaded)
        /\ \A s \in Gone(r), t \in r.sources : Order(s) < Order(t)
        /\ Cost(r.sources, v, b) > available => r.sources = {}
        /\ Gone(r) # {} =>
              LastGone(r) \in loaded /\ Cost(r.sources \cup {LastGone(r)}, v, b) > available
    BY <1>2, <2>1, <2>2, SourcesAre
  <2> HIDE DEF A
  <2> QED BY <1>1, <2>3
<1> HIDE DEF A
<1>6. IsFiniteSet(A)
  BY <1>5, FS_Subset
<1>7. /\ f \in TrimPoints(b)
      /\ h.omitted = w.omitted \cup (Dated(b) \ Dated(f))
      /\ \A c \in TrimPoints(b) : c < f => Cost(A, v, c) > available
      /\ Cost(A, v, f) > available => \A c \in TrimPoints(b) : c <= f
  BY <1>2, <1>4, <1>6, HistoryIs
<1> HIDE DEF h
<1>8. /\ TrimPoints(b) \in SUBSET Cuts /\ TrimPoints(b) \in SUBSET (Nat \ {0})
      /\ b \in TrimPoints(b) /\ o \in Starts(events)
      /\ \A c \in TrimPoints(b) : b <= c /\ c <= o
  BY <1>4, TrimPointsAre
<1>9. /\ b \in Nat \ {0} /\ f \in Nat \ {0} /\ o \in Nat \ {0} /\ v \in Nat
      /\ b <= f /\ f <= o /\ f \in Cuts
  BY <1>3, <1>7, <1>8, PlacesAre
<1>10. /\ Dated(1) \in SUBSET Nat
       /\ \A c \in Nat \ {0} : Dated(c) = {i \in Dated(1) : i >= c}
  BY PlacesAre, DatedAre DEF LogKnown
<1>11. Dated(o) \subseteq Dated(f) /\ Dated(f) \subseteq Dated(b)
  BY <1>9, <1>10
<1> HIDE DEF o, b, f
<1>12. Complete(r)
  <2>1. \A i \in Dated(1) :
          i \in Dated(f) <=> IF setting = "none" THEN i >= o ELSE i > v /\ i \notin h.omitted
    <3> TAKE i \in Dated(1)
    <3>1. i \in Nat /\ (i \in Dated(f) <=> i >= f) /\ (i \in Dated(b) <=> i >= b)
          /\ (i \in Dated(v + 1) <=> i >= v + 1)
      BY <1>9, <1>10
    <3>2. CASE setting = "none"
      BY <1>4, <1>9, <3>1, <3>2
    <3>3. CASE setting # "none"
      BY <1>4, <1>7, <1>9, <3>1, <3>3
    <3> QED BY <3>2, <3>3
  <2>2. \A i, j \in Dated(1) : TurnOf(i) = TurnOf(j) => (i \in Dated(f) <=> j \in Dated(f))
    <3> TAKE i, j \in Dated(1)
    <3> HAVE TurnOf(i) = TurnOf(j)
    <3>1. i \in Nat /\ j \in Nat /\ (i \in Dated(f) <=> i >= f) /\ (j \in Dated(f) <=> j >= f)
      BY <1>9, <1>10
    <3>2. ~(i < f /\ f <= j) /\ ~(j < f /\ f <= i)
      BY <1>9, CutParts
    <3> QED BY <1>9, <3>1, <3>2
  <2> QED BY <1>1, <1>11, <2>1, <2>2 DEF Complete, o
<1>13. Least(r)
  <2>0. events \in Seq(Entries)
    BY DEF LogKnown
  <2>1. \A c \in TrimPoints(b) : Cost(A, v, c) \in Nat
    BY <2>0, <1>6, CostGrows
  <2>2. r.refused <=> TooMuch(r, {}, o)
    <3>1. Cost({}, v, o) \in Nat /\ Cost(A, v, f) \in Nat /\ Cost({}, v, o) <= Cost(A, v, f)
      BY <2>0, <1>6, <1>11, CostGrows
    <3>2. ASSUME Cost(A, v, f) > available PROVE Cost({}, v, o) > available
      <4>1. \A c \in TrimPoints(b) : c <= f
        BY <1>7, <3>2
      <4>2. Dated(f) = Dated(o)
        BY <1>4, <1>7, <4>1, LastChoice DEF o
      <4>3. A = {}
        <5>1. CASE b = f
          BY <1>5, <3>2, <5>1
        <5>2. CASE b # f
          BY <1>5, <1>7, <1>8, <1>9, <5>2
        <5> QED BY <5>1, <5>2
      <4>4. Cost(A, v, f) = Cost({}, v, o)
        BY <4>2, <4>3 DEF Cost
      <4> QED BY <3>2, <4>4
    <3>3. r.refused <=> Cost(A, v, f) > available
      BY <1>1
    <3>4. TooMuch(r, {}, o) <=> Cost({}, v, o) > available
      BY <1>1 DEF TooMuch
    <3>5. Cost({}, v, o) > available => Cost(A, v, f) > available
      BY <1>2, <3>1
    <3> QED BY <3>2, <3>3, <3>4, <3>5
  <2>3. ~r.refused => ~TooMuch(r, r.sources, r.from)
    BY <1>1 DEF TooMuch
  <2>4. \A s \in Gone(r), t \in r.sources : Order(s) < Order(t)
    BY <1>1, <1>5
  <2>5. ASSUME Lost(r) # {} PROVE r.sources = {} /\ TooMuch(r, {}, LastLost(r))
    <3>1. PICK p \in TrimPoints(b) : p < f /\ Dated(p) \subseteq Dated(LastLost(r))
      BY <1>1, <1>4, <1>7, <2>5, LastLostIs DEF o
    <3>2. b < f
      BY <1>8, <1>9, <3>1
    <3>3. A = {}
      BY <1>5, <1>7, <1>8, <3>2
    <3>4. Cost(A, v, p) > available
      BY <1>7, <3>1
    <3>5. Cost({}, v, p) \in Nat /\ Cost({}, v, LastLost(r)) \in Nat
          /\ Cost({}, v, p) <= Cost({}, v, LastLost(r))
      <4>1. {} \in SUBSET A
        OBVIOUS
      <4> QED BY <2>0, <1>6, <3>1, <3>3, <4>1, CostGrows
    <3> QED BY <1>1, <1>2, <3>3, <3>4, <3>5 DEF TooMuch
  <2>6. ASSUME Lost(r) = {}, Gone(r) # {}
        PROVE  TooMuch(r, r.sources \cup {LastGone(r)}, r.from)
    <3>1. Dated(b) = Dated(f)
      BY <1>1, <1>11, <2>6 DEF Lost
    <3>2. Cost(A \cup {LastGone(r)}, v, b) = Cost(A \cup {LastGone(r)}, v, f)
      BY <3>1 DEF Cost
    <3> QED BY <1>1, <1>5, <2>6, <3>2 DEF TooMuch
  <2> QED BY <2>2, <2>3, <2>4, <2>5, <2>6 DEF Least, o
<1> QED BY <1>12, <1>13 DEF r

-----------------------------------------------------------------------------
(* The steps. *)

\* What no step touches that leaves the log and the request alone.
LEMMA RequestStays ==
  ASSUME RequestInv, UNCHANGED <<events, request>>,
         (turn' = turn /\ read' = read) \/ (turn \in OutOfTurn /\ turn' \in OutOfTurn)
  PROVE  RequestInv'
<1>1. NothingForgotten'
  <2>1. NothingForgotten' <=> NothingForgotten
    BY DEF NothingForgotten, Complete, Dated, OpenTurn, LastEnd, Newest, Positions, TurnOf
  <2> QED BY <2>1 DEF RequestInv, RequestOK
<1>2. TrimsLeast'
  <2>1. TrimsLeast' <=> TrimsLeast
    BY DEF TrimsLeast, Least, TooMuch, Cost, Gone, LastGone, Order, Lost, LastLost,
           Dated, OpenTurn, LastEnd, Newest, Positions, TurnOf
  <2> QED BY <2>1 DEF RequestInv, RequestOK
<1>3. Starts(events)' = Starts(events) /\ Ends(events)' = Ends(events)
      /\ Positions(Messages, events)' = Positions(Messages, events)
  BY DEF Starts, Ends, Positions
<1>4. TurnsApart(events)' /\ (IsOpen(events)' <=> IsOpen(events))
  BY <1>3 DEF RequestInv, ShapeOK, TurnsApart, IsOpen
<1>5. ShapeOK'
  BY <1>4 DEF RequestInv, ShapeOK, InTurn, OutOfTurn
<1>6. /\ (turn = "building" => read \in {0} \cup Ends(events))'
      /\ (request # NoRequest => turn \in {"waiting", "refused"})'
  BY <1>3 DEF RequestInv, RequestOK, OutOfTurn, NoRequest
<1> QED BY <1>1, <1>2, <1>5, <1>6 DEF RequestInv, RequestOK

\* Without a request there is nothing to forget.
LEMMA NoneForgotten ==
  ASSUME request = NoRequest
  PROVE  NothingForgotten /\ TrimsLeast
BY DEF NothingForgotten, TrimsLeast

\* A record the driver appends ends the request it answers.
LEMMA RecordShapes ==
  ASSUME ContextInv, RequestInv, NEW kind \in {"turn/start", "turn/end"} \cup Messages,
         events' = Append(events, Entry(kind)), request' = NoRequest,
         turn' \in (InTurn \cup OutOfTurn) \ {"building"},
         kind = "turn/start" <=> turn \in OutOfTurn,
         kind = "turn/end" <=> turn' \in OutOfTurn
  PROVE  RequestInv'
<1>1. events \in Seq(Entries) /\ TurnsApart(events) /\ (turn \in InTurn <=> IsOpen(events))
      /\ turn \in InTurn \cup OutOfTurn
  BY DEF ContextInv, ContextTypes, RequestInv, ShapeOK
<1>2. Entry(kind) \in Entries /\ Entry(kind).kind = kind
  BY DEF ContextInv, ContextTypes, Entry, Entries, Messages
<1>3. InTurn \cap OutOfTurn = {} /\ "turn/start" \notin Messages /\ "turn/end" \notin Messages
  BY DEF InTurn, OutOfTurn, Messages
<1> DEFINE e == Entry(kind)
<1> HIDE DEF e
<1>4. /\ TurnsApart(Append(events, e))
      /\ kind = "turn/start" => IsOpen(Append(events, e))
      /\ kind = "turn/end" => ~IsOpen(Append(events, e))
      /\ kind \in Messages => IsOpen(Append(events, e))
  <2>1. e \in Entries /\ e.kind = kind
    BY <1>2 DEF e
  <2>2. (kind = "turn/start" => ~IsOpen(events)) /\ (kind \in Messages => IsOpen(events))
    BY <1>1, <1>3
  <2> QED BY <1>1, <2>1, <2>2, ApartKept
<1>5. TurnsApart(events') /\ (turn' \in InTurn <=> IsOpen(events'))
  BY <1>3, <1>4 DEF e
<1>6. ShapeOK'
  BY <1>5 DEF ShapeOK
<1>7. NothingForgotten' /\ TrimsLeast'
  BY DEF NothingForgotten, TrimsLeast, NoRequest
<1> QED BY <1>6, <1>7 DEF RequestInv, RequestOK, NoRequest

\* What is judged against the log stays true while the log does.
LEMMA LeastStays ==
  ASSUME UNCHANGED events, Least(request')
  PROVE  TrimsLeast'
BY DEF TrimsLeast, Least, TooMuch, Cost, Gone, LastGone, Order, Lost, LastLost, Dated,
       OpenTurn, LastEnd, Newest, Positions, TurnOf

LEMMA BuildShapes ==
  ASSUME ContextAssumption, ContextInv, RequestInv, Build
  PROVE  RequestInv'
<1>1. PICK setting \in Settings, loaded \in Loads, available \in Budgets :
        request' = Assembled(setting, loaded, available)
  BY DEF Build
<1>2. /\ turn = "building" /\ UNCHANGED events /\ turn' \in {"waiting", "refused"}
  BY DEF Build
<1>3. /\ LogKnown /\ read \in {0} \cup Ends(events)
  BY <1>2 DEF ContextInv, ContextTypes, TurnsFirst, RequestInv, ShapeOK, RequestOK,
     LogKnown, InTurn
<1>4. Complete(request') /\ Least(request')
  <2> DEFINE r == Assembled(setting, loaded, available)
  <2>1. Complete(r) /\ Least(r)
    BY <1>3, AssembledIs
  <2> HIDE DEF r
  <2> QED BY <1>1, <2>1 DEF r
<1>5. NothingForgotten'
  <2>1. /\ Dated(1)' = Dated(1) /\ OpenTurn(events)' = OpenTurn(events)
        /\ Dated(OpenTurn(events))' = Dated(OpenTurn(events))
    BY <1>2 DEF Dated, OpenTurn, LastEnd, Newest, Positions
  <2>2. \A i : TurnOf(i)' = TurnOf(i)
    BY <1>2 DEF TurnOf, Positions
  <2>3. Complete(request)'
    BY <1>4, <2>1, <2>2 DEF Complete
  <2> QED BY <2>3 DEF NothingForgotten
<1>6. TrimsLeast'
  BY <1>2, <1>4, LeastStays
<1>7. ShapeOK'
  <2>1. TurnsApart(events)' /\ IsOpen(events)'
    BY <1>2, <1>3 DEF LogKnown, TurnsApart, IsOpen, Starts, Ends, Positions
  <2> QED BY <1>2, <2>1 DEF ShapeOK, InTurn
<1> QED BY <1>2, <1>5, <1>6, <1>7 DEF RequestInv, RequestOK

\* The newest whole checkpoint is at the end of a turn.
LEMMA LatestIs ==
  ASSUME ContextInv
  PROVE  Latest \in {0} \cup Ends(events)
<1> DEFINE W == {c \in DOMAIN files : files[c].whole}
<1>1. events \in Seq(Entries) /\ stored \in Nat
  BY DEF ContextInv, ContextTypes
<1>2. \A c \in W : c \in Ends(events) /\ c <= stored
  BY DEF ContextInv, FilesOK, Ends
<1>3. W \in SUBSET Nat
  <2>1. Ends(events) \in SUBSET (Nat \ {0})
    BY <1>1, PositionsAre DEF Ends
  <2> QED BY <1>2, <2>1
<1>4. Latest = Newest(W)
  BY DEF Latest
<1> HIDE DEF W
<1>5. CASE W = {}
  BY <1>4, <1>5 DEF Newest
<1>6. CASE W # {}
  <2>1. Newest(W) \in W
    BY <1>1, <1>2, <1>3, <1>6, NewestIs
  <2> QED BY <1>2, <1>4, <2>1
<1> QED BY <1>5, <1>6

LEMMA DriverShapes ==
  ASSUME ContextAssumption, ContextInv, RequestInv, Driver
  PROVE  RequestInv'
<1>1. request # NoRequest => turn \in {"waiting", "refused"}
  BY DEF RequestInv, RequestOK
<1>2. CASE StartTurn
  BY <1>1, <1>2, RecordShapes DEF StartTurn, InTurn, OutOfTurn, Messages
<1>3. CASE Admit
  BY <1>1, <1>3, RecordShapes DEF Admit, InTurn, OutOfTurn, Messages
<1>4. CASE ToolReturns
  BY <1>1, <1>4, RecordShapes DEF ToolReturns, InTurn, OutOfTurn, Messages
<1>5. CASE EndTurn
  BY <1>5, RecordShapes DEF EndTurn, InTurn, OutOfTurn, Messages
<1>6. ASSUME NEW kind \in {"answer", "calls"}, Reply(kind) PROVE RequestInv'
  BY <1>6, RecordShapes DEF Reply, InTurn, OutOfTurn, Messages
<1>7. CASE ReadCheckpoint
  <2>1. /\ turn = "step" /\ turn' = "building" /\ read' = Latest
        /\ UNCHANGED <<events, request>>
    BY <1>7 DEF ReadCheckpoint
  <2>2. Latest \in {0} \cup Ends(events)
    BY LatestIs
  <2>3. request' = NoRequest
    BY <1>1, <2>1
  <2>4. NothingForgotten' /\ TrimsLeast'
    BY <2>3 DEF NothingForgotten, TrimsLeast, NoRequest
  <2>5. Ends(events)' = Ends(events) /\ (TurnsApart(events)' <=> TurnsApart(events))
        /\ (IsOpen(events)' <=> IsOpen(events))
    BY <2>1 DEF TurnsApart, IsOpen, Starts, Ends, Positions
  <2>6. ShapeOK'
    BY <2>1, <2>5 DEF RequestInv, ShapeOK, InTurn, OutOfTurn
  <2>7. read' \in {0} \cup Ends(events)'
    BY <2>1, <2>2, <2>5
  <2> QED BY <2>1, <2>3, <2>4, <2>6, <2>7 DEF RequestInv, RequestOK, NoRequest
<1>8. CASE StopRun
  BY <1>8, RequestStays DEF StopRun
<1>9. CASE TurnSettles
  BY <1>9, RequestStays DEF TurnSettles, OutOfTurn
<1> QED BY <1>2, <1>3, <1>4, <1>5, <1>6, <1>7, <1>8, <1>9, BuildShapes DEF Driver

\* What loading leaves has no turn open.
LEMMA ReloadedShape ==
  ASSUME boot \in Nat, NEW l \in Seq(Entries), TurnsApart(l), NEW recorded \in BOOLEAN
  PROVE  TurnsApart(Reloaded(l, recorded)) /\ ~IsOpen(Reloaded(l, recorded))
<1> DEFINE result == [kind |-> "result", run |-> boot + 1]
           ended == [kind |-> "turn/end", run |-> boot + 1]
<1>1. /\ result \in Entries /\ ended \in Entries
      /\ result.kind \in Messages /\ ended.kind = "turn/end"
      /\ result.kind # "turn/start" /\ ended.kind # "turn/start" /\ ended.kind \notin Messages
  BY DEF Entries, Messages
<1>2. PICK answered \in {<<>>, <<result>>} :
        Reloaded(l, recorded) = IF OpenTurn(l) = 0 THEN l ELSE (l \o answered) \o <<ended>>
  BY DEF Reloaded
<1> HIDE DEF result, ended
<1>3. OpenTurn(l) = 0 <=> ~IsOpen(l)
  BY OpenTurnIs
<1>4. ASSUME NEW m \in Seq(Entries), TurnsApart(m), IsOpen(m)
      PROVE  TurnsApart(m \o <<ended>>) /\ ~IsOpen(m \o <<ended>>)
  <2>1. m \o <<ended>> = Append(m, ended)
    BY <1>1
  <2>2. TurnsApart(Append(m, ended)) /\ ~IsOpen(Append(m, ended))
    BY <1>1, <1>4, ApartKept
  <2> QED BY <2>1, <2>2
<1>5. ASSUME IsOpen(l)
      PROVE  l \o answered \in Seq(Entries) /\ TurnsApart(l \o answered) /\ IsOpen(l \o answered)
  <2>1. CASE answered = <<>>
    <3>1. l \o answered = l
      BY <2>1
    <3> QED BY <1>5, <3>1
  <2>2. CASE answered = <<result>>
    <3>1. l \o answered = Append(l, result)
      BY <1>1, <2>2
    <3>2. TurnsApart(Append(l, result)) /\ IsOpen(Append(l, result))
      BY <1>1, <1>5, ApartKept
    <3>3. Append(l, result) \in Seq(Entries)
      BY <1>1
    <3> QED BY <3>1, <3>2, <3>3
  <2> QED BY <2>1, <2>2
<1>6. CASE IsOpen(l)
  <2>1. Reloaded(l, recorded) = (l \o answered) \o <<ended>>
    BY <1>2, <1>3, <1>6
  <2> QED BY <1>4, <1>5, <1>6, <2>1
<1>7. CASE ~IsOpen(l)
  BY <1>2, <1>3, <1>7
<1> QED BY <1>6, <1>7

LEMMA CrashShapes ==
  ASSUME ContextInv, RequestInv, Crash
  PROVE  RequestInv'
<1>1. /\ events \in Seq(Entries) /\ Len(events) \in Nat /\ stored \in 0..Len(events)
      /\ boot \in Nat /\ TurnsApart(events) /\ turn' = "idle" /\ request' = NoRequest
  BY DEF Crash, ContextInv, ContextTypes, RequestInv, ShapeOK
<1>2. PICK kept \in stored..Len(events), recorded \in BOOLEAN :
        events' = Reloaded(SubSeq(events, 1, kept), recorded)
  BY DEF Crash
<1>3. kept \in 0..Len(events)
  BY <1>1
<1> DEFINE l == SubSeq(events, 1, kept)
<1>4. l \in Seq(Entries) /\ TurnsApart(l)
  BY <1>1, <1>3, PrefixApart
<1> HIDE DEF l
<1>5. TurnsApart(Reloaded(l, recorded)) /\ ~IsOpen(Reloaded(l, recorded))
  BY <1>1, <1>4, ReloadedShape
<1>6. TurnsApart(events') /\ ~IsOpen(events')
  BY <1>2, <1>5 DEF l
<1>7. ShapeOK'
  BY <1>1, <1>6 DEF ShapeOK, InTurn, OutOfTurn
<1>8. NothingForgotten' /\ TrimsLeast'
  BY <1>1 DEF NothingForgotten, TrimsLeast, NoRequest
<1> QED BY <1>1, <1>7, <1>8 DEF RequestInv, RequestOK, NoRequest

LEMMA RequestStep ==
  ASSUME ContextAssumption, ContextInv, RequestInv, [ContextNext]_contextVars
  PROVE  RequestInv'
<1>1. CASE UNCHANGED contextVars
  BY <1>1, RequestStays DEF contextVars
<1>2. CASE StoreEvents
  BY <1>2, RequestStays DEF StoreEvents
<1>3. CASE BeginManual
  BY <1>3, RequestStays DEF BeginManual
<1>4. CASE BeginAutomatic
  BY <1>4, RequestStays DEF BeginAutomatic, OutOfTurn
<1>5. ASSUME NEW t \in Triggers, Compaction(t) PROVE RequestInv'
  BY <1>5, RequestStays DEF Compaction, Summarize, OpenFile, WriteFile, End
<1> QED BY <1>1, <1>2, <1>3, <1>4, <1>5, DriverShapes, CrashShapes DEF ContextNext

\* The inductive invariant of requests: turns lie apart in the log, and what was
\* assembled of it is judged against the log it was assembled from.
THEOREM RequestInvariance == ContextSpec => [](ContextInv /\ RequestInv)
<1>1. ContextInit => RequestInv
  <2> SUFFICES ASSUME ContextInit PROVE RequestInv
    OBVIOUS
  <2>1. events = <<>> /\ turn = "idle" /\ request = NoRequest
    BY DEF ContextInit
  <2>2. \A kinds : Positions(kinds, events) = {}
    BY <2>1 DEF Positions
  <2>3. TurnsApart(events) /\ ~IsOpen(events)
    BY <2>2 DEF TurnsApart, IsOpen, Starts, Ends
  <2>4. NothingForgotten /\ TrimsLeast
    BY <2>1, NoneForgotten
  <2> QED BY <2>1, <2>3, <2>4 DEF RequestInv, ShapeOK, RequestOK, InTurn, OutOfTurn
<1>2. ContextInv /\ RequestInv /\ [ContextNext]_contextVars => RequestInv'
  BY ContextAssumption, RequestStep
<1> QED BY <1>1, <1>2, ContextInvariance, PTL DEF ContextSpec

\* No request loses a message between the summary, what the manifest says was left
\* out and what is sent, and none parts the messages of one turn: for any tail,
\* budget and set of sources, and for any turns, compactions and crashes.
THEOREM NothingIsForgotten == ContextSpec => []NothingForgotten
<1>1. ContextInv /\ RequestInv => NothingForgotten
  BY DEF RequestInv, RequestOK
<1> QED BY <1>1, RequestInvariance, PTL

\* No request drops a source or a turn that it had room for, or out of order, and
\* none is refused whose open turn alone would fit.
THEOREM TrimsNoMore == ContextSpec => []TrimsLeast
<1>1. ContextInv /\ RequestInv => TrimsLeast
  BY DEF RequestInv, RequestOK
<1> QED BY <1>1, RequestInvariance, PTL
=============================================================================
