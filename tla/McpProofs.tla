------------------------------ MODULE McpProofs ------------------------------
(***************************************************************************)
(* Proofs about McpHost for any number of requests, connections, edits and *)
(* crashes, and then about McpClient for any number of calls and           *)
(* transports and any threshold.                                           *)
(***************************************************************************)
EXTENDS McpHost, McpClient, TLAPS

Busy == {"load", "build", "list", "latest", "failing"}
Flows == Busy \cup {"none", "published", "failed"}
PCs == {"idle", "turn", "cancel", "admit", "close", "fenced", "write", "commit", "abort",
        "publish", "cancelling", "ending", "dropping", "await", "have", "sent",
        "draining", "done"}
Contents == [on : BOOLEAN, rev : Nat]
Intents == [target : {"none", "config", "secrets"}, on : BOOLEAN, rev : Nat]

-----------------------------------------------------------------------------
(* What is on disk, and who writes it. *)

\* What the writes that have ended left open.
Els(s) == {s[i] : i \in 1..Len(s)}

DataOK ==
  /\ file \in Contents /\ secret \in Nat /\ intent \in Intents /\ left \in Seq(Intents)
  /\ revs \in Nat /\ acked \in Nat /\ rotated \in Nat
  /\ queue \in Seq(Requests)
  /\ kind \in [Requests -> Kinds \cup {"none"}]
  /\ pc \in [Requests -> PCs]

\* The files, and the intent of the write under way, are not older than the last
\* answered writes, unless a restart has restored a write that failed.
RevsOK ==
  /\ file.rev \in 1..revs /\ secret \in 1..revs /\ acked <= revs
  /\ \A x \in Els(left) : x.rev \in 1..revs
  /\ intent.target # "none" => intent.rev \in 1..revs
  /\ by = "disable" => acked >= 1
  /\ intent.target = "none" => intent = NoIntent
  /\ up /\ intent.target = "config" => intent.rev <= file.rev
  /\ ~undone => /\ acked <= file.rev /\ rotated <= secret
                /\ intent.target = "config" => acked <= intent.rev
                /\ intent.target = "secrets" => rotated <= intent.rev

Cancelling == {"cancel", "cancelling", "ending", "dropping"}

\* Every request is where its kind takes it.
KindsOK ==
  \A r \in Requests :
    /\ pc[r] = "admit" => kind[r] = "call"
    /\ pc[r] = "fenced" => kind[r] \in Writes \cup {"call"}
    /\ pc[r] \in {"turn", "write", "commit", "abort"} => kind[r] \in Writes
    /\ pc[r] \in Cancelling => kind[r] \in {"disable", "delete", "reconnect", "rotate"}

\* Whoever writes is at the head of the queue; what a commit of the configuration
\* answers is newer than anything left open.
WriterOK ==
  \A r \in Requests :
    /\ Writing(r) => queue # <<>> /\ Head(queue) = r
    /\ pc[r] = "commit" /\ kind[r] # "rotate" =>
         /\ file.rev = revs /\ (kind[r] = "disable" => ~file.on)
         /\ \A x \in Els(left) : x.rev < revs

DownOK == ~up => \A r \in Requests : pc[r] \in {"idle", "done"}

RecordInv == DataOK /\ RevsOK /\ KindsOK /\ WriterOK /\ DownOK

\* What is in a sequence that grows or loses its head.
LEMMA ElsAppend ==
  ASSUME NEW S, NEW s \in Seq(S), NEW e \in S
  PROVE  Append(s, e) \in Seq(S) /\ Els(Append(s, e)) = Els(s) \cup {e}
<1>1. Append(s, e) \in Seq(S) /\ Len(Append(s, e)) = Len(s) + 1
  OBVIOUS
<1>2. /\ \A i \in 1..Len(s) : Append(s, e)[i] = s[i]
      /\ Append(s, e)[Len(s) + 1] = e
  OBVIOUS
<1>3. Len(s) \in Nat
  OBVIOUS
<1>4. Els(Append(s, e)) = Els(s) \cup {e}
  BY <1>1, <1>2, <1>3 DEF Els
<1> QED BY <1>1, <1>4

LEMMA ElsTail ==
  ASSUME NEW S, NEW s \in Seq(S), s # <<>>
  PROVE  Tail(s) \in Seq(S) /\ Head(s) \in S /\ Els(Tail(s)) \subseteq Els(s) /\ Head(s) \in Els(s)
<1>1. /\ Tail(s) \in Seq(S) /\ Head(s) \in S /\ Head(s) = s[1]
      /\ Len(s) \in Nat /\ Len(s) >= 1 /\ Len(Tail(s)) = Len(s) - 1
      /\ \A i \in 1..Len(Tail(s)) : Tail(s)[i] = s[i + 1]
  OBVIOUS
<1> QED BY <1>1 DEF Els

LEMMA BackupTyped ==
  ASSUME DataOK, NEW r \in Requests
  PROVE  /\ Backup(r) \in Intents /\ Backup(r).target # "none"
         /\ Backup(r).target = "config" =>
              Backup(r).rev = file.rev /\ Backup(r).on = file.on
         /\ Backup(r).target = "secrets" => Backup(r).rev = secret
BY DEF DataOK, Backup, Intents, Contents

LEMMA NoIntentTyped == NoIntent \in Intents /\ NoIntent.target = "none"
BY DEF NoIntent, Intents

\* A step that leaves the files alone and starts no write.
LEMMA BystandersKeep ==
  ASSUME RecordInv, UNCHANGED <<diskVars, up, queue, kind>>,
         pc' \in [Requests -> PCs],
         \A r \in Requests : pc'[r] # pc[r] =>
           /\ pc[r] \notin {"idle", "done"}
           /\ pc'[r] \notin {"turn", "admit", "fenced", "write", "commit", "abort", "idle"}
           /\ pc'[r] \in Cancelling => pc[r] \in Cancelling
  PROVE  RecordInv'
<1>1. DataOK' /\ RevsOK' /\ DownOK'
  BY DEF RecordInv, DataOK, RevsOK, DownOK, diskVars, logVars, ackVars
<1>2. WriterOK'
  BY DEF RecordInv, WriterOK, Writing, diskVars, logVars, ackVars, DataOK
<1>3. KindsOK'
  BY DEF RecordInv, KindsOK, DataOK, Cancelling
<1> QED BY <1>1, <1>2, <1>3 DEF RecordInv

\* ensureMcpServer() hands out a client, waits for one, or gives up.
LEMMA EnsureMoves ==
  ASSUME NEW r \in Requests, NEW barred, Ensure(r, barred)
  PROVE  \E x \in {"have", "await", "done"} : To(r, x)
BY DEF Ensure

\* The steps that are no step of a write.
LEMMA OthersKeep ==
  ASSUME RecordInv,
         \/ \E r \in Requests : BringUp(r) \/ Send(r) \/ Answered(r) \/ Close(r) \/ Closed(r)
         \/ \E c \in Clients : \/ LoadConfig(c) \/ Build(c) \/ Listed(c) \/ ListFails(c)
                               \/ Publish(c) \/ GiveUp(c)
         \/ AcknowledgeDrift
  PROVE  RecordInv'
<1> USE DEF RecordInv, DataOK
<1>1. CASE \E r \in Requests : Send(r) \/ Answered(r) \/ Close(r) \/ Closed(r)
  <2> PICK r \in Requests : Send(r) \/ Answered(r) \/ Close(r) \/ Closed(r)
    BY <1>1
  <2>1. /\ UNCHANGED <<diskVars, up, queue, kind>>
        /\ pc[r] \in {"have", "sent", "close", "draining"}
        /\ \E x \in {"done", "sent", "draining"} : pc' = [pc EXCEPT ![r] = x]
    BY DEF Send, Answered, Close, Closed, To, hostVars
  <2> QED BY <2>1, BystandersKeep DEF PCs, Cancelling
<1>2. CASE \E r \in Requests : BringUp(r)
  <2> PICK r \in Requests : BringUp(r)
    BY <1>2
  <2>1. UNCHANGED <<diskVars, up, queue, kind>> /\ pc[r] = "publish"
    BY DEF BringUp
  <2>2. \E x \in {"have", "await", "done"} : pc' = [pc EXCEPT ![r] = x]
    BY EnsureMoves DEF BringUp, To
  <2> QED BY <2>1, <2>2, BystandersKeep DEF PCs, Cancelling
<1>3. CASE \E c \in Clients : LoadConfig(c) \/ Build(c) \/ Listed(c) \/ ListFails(c)
                                \/ Publish(c) \/ GiveUp(c)
  <2> PICK c \in Clients : LoadConfig(c) \/ Build(c) \/ Listed(c) \/ ListFails(c)
                             \/ Publish(c) \/ GiveUp(c)
    BY <1>3
  <2>1. UNCHANGED <<diskVars, up, queue, kind>>
    BY DEF LoadConfig, Build, Listed, ListFails, Publish, GiveUp, Settle, hostVars, requestVars
  <2>2. \/ pc' = pc
        \/ pc' = [r \in Requests |-> IF pc[r] = "await" /\ got[r] = c THEN "have" ELSE pc[r]]
        \/ pc' = [r \in Requests |-> IF pc[r] = "await" /\ got[r] = c THEN "done" ELSE pc[r]]
    BY DEF LoadConfig, Build, Listed, ListFails, Publish, GiveUp, Settle, requestVars
  <2> QED BY <2>1, <2>2, BystandersKeep DEF PCs, Cancelling
<1>4. CASE AcknowledgeDrift
  BY <1>4, BystandersKeep DEF AcknowledgeDrift, diskVars, logVars, ackVars, requestVars
<1> QED BY <1>1, <1>2, <1>3, <1>4

\* Where the steps of a cancellation take a request.
LEMMA CancelMoves ==
  ASSUME RecordInv, NEW r \in Requests, Cancel(r) \/ CancelEnds(r) \/ Drop(r) \/ Dropped(r)
  PROVE  /\ UNCHANGED <<diskVars, up, kind>> /\ pc[r] \in Cancelling
         /\ \/ /\ \E x \in {"cancelling", "ending", "dropping"} : pc' = [pc EXCEPT ![r] = x]
               /\ queue' = queue
            \/ /\ \E x \in {"turn", "publish", "done"} :
                    /\ pc' = [pc EXCEPT ![r] = x]
                    /\ x = "turn" => kind[r] = "delete"
               /\ queue' = queue \/ queue' = Append(queue, r)
<1>1. UNCHANGED <<diskVars, up, kind>> /\ pc[r] \in Cancelling
  BY DEF Cancel, CancelEnds, Drop, Dropped, Cancelling
<1>2. kind[r] \in {"disable", "delete", "reconnect", "rotate"}
  BY <1>1 DEF RecordInv, KindsOK
<1>3. ASSUME AfterDrop(r)
      PROVE  /\ \E x \in {"turn", "publish", "done"} :
                    /\ pc' = [pc EXCEPT ![r] = x]
                    /\ x = "turn" => kind[r] = "delete"
             /\ queue' = queue \/ queue' = Append(queue, r)
  BY <1>2, <1>3 DEF AfterDrop, To, CancelDone
<1>4. ASSUME DropMap(r)
      PROVE  AfterDrop(r) \/ (pc' = [pc EXCEPT ![r] = "dropping"] /\ queue' = queue)
  BY <1>4 DEF DropMap, To
<1> HIDE DEF AfterDrop, DropMap
<1>5. \/ /\ \E x \in {"cancelling", "ending", "dropping"} : pc' = [pc EXCEPT ![r] = x]
         /\ queue' = queue
      \/ AfterDrop(r) \/ DropMap(r)
  BY DEF Cancel, CancelEnds, Drop, Dropped, To
<1> QED BY <1>1, <1>3, <1>4, <1>5

\* A request arrives, alone or behind the writes of before.
LEMMA ArrivalsKeep ==
  ASSUME RecordInv, NEW r \in Requests,
         (\E k \in Kinds : Arrive(r, k)) \/ Cancel(r) \/ CancelEnds(r) \/ Drop(r) \/ Dropped(r)
  PROVE  RecordInv'
<1> USE DEF RecordInv, DataOK
<1>1. /\ UNCHANGED diskVars /\ UNCHANGED up
      /\ up \/ pc[r] \in Cancelling
      /\ pc[r] \in Cancelling \cup {"idle"}
      /\ \/ queue' = queue
         \/ queue' = Append(queue, r)
  <2>1. CASE \E k \in Kinds : Arrive(r, k)
    BY <2>1 DEF Arrive, Kinds, Writes, To
  <2>2. CASE Cancel(r) \/ CancelEnds(r) \/ Drop(r) \/ Dropped(r)
    BY <2>2, CancelMoves
  <2> QED BY <2>1, <2>2
<1>2. /\ kind' \in [Requests -> Kinds \cup {"none"}]
      /\ \A x \in Requests \ {r} : kind'[x] = kind[x]
      /\ \E x \in {"turn", "cancel", "admit", "close", "publish", "done", "cancelling",
                   "ending", "dropping"} :
           /\ pc' = [pc EXCEPT ![r] = x]
           /\ x = "admit" => kind'[r] = "call"
           /\ x = "turn" => kind'[r] \in Writes
           /\ x \in Cancelling => kind'[r] \in {"disable", "delete", "reconnect", "rotate"}
  <2>1. CASE \E k \in Kinds : Arrive(r, k)
    BY <2>1 DEF Arrive, Kinds, Writes, To, Cancelling
  <2>2. CASE Cancel(r) \/ CancelEnds(r) \/ Drop(r) \/ Dropped(r)
    <3>1. pc[r] \in Cancelling /\ kind' = kind
      BY <2>2, CancelMoves
    <3>2. kind[r] \in {"disable", "delete", "reconnect", "rotate"}
      BY <3>1 DEF KindsOK
    <3> QED BY <2>2, <3>1, <3>2, CancelMoves DEF Writes, Cancelling
  <2> QED BY <2>1, <2>2
<1>3. /\ DataOK'
      /\ queue # <<>> => queue' # <<>> /\ Head(queue') = Head(queue)
  <2>1. queue' \in Seq(Requests)
    BY <1>1
  <2>2. pc' \in [Requests -> PCs]
    BY <1>2 DEF PCs
  <2>3. DataOK'
    BY <1>1, <1>2, <2>1, <2>2 DEF diskVars, logVars, ackVars
  <2>4. queue # <<>> => queue' # <<>> /\ Head(queue') = Head(queue)
    BY <1>1
  <2> QED BY <2>3, <2>4
<1>4. RevsOK'
  BY <1>1 DEF RevsOK, diskVars, logVars, ackVars
<1>5. KindsOK'
  BY <1>1, <1>2 DEF KindsOK
<1>6. WriterOK'
  BY <1>1, <1>2, <1>3 DEF WriterOK, Writing, diskVars, logVars, ackVars, Cancelling
<1>7. DownOK'
  BY <1>1, <1>2 DEF DownOK, Cancelling
<1> QED BY <1>3, <1>4, <1>5, <1>6, <1>7

\* A write that leaves its turn without an answer leaves at most the content it has
\* kept behind, in the log or in the file.
LEMMA LeaversKeep ==
  ASSUME RecordInv, NEW r \in Requests, pc[r] \in {"turn", "abort"}, queue # <<>>, Head(queue) = r,
         UNCHANGED <<revs, ackVars, undone, up, kind>>,
         queue' = Tail(queue), pc' = [pc EXCEPT ![r] = "done"],
         intent' = intent \/ intent' = NoIntent,
         \/ UNCHANGED <<file, secret>> \/ Restore(intent),
         \/ left' = left
         \/ \E x \in Intents : left' = Append(left, x) /\ x.rev \in 1..revs,
         intent' = intent => UNCHANGED <<file, secret>>
  PROVE  RecordInv'
<1> USE DEF RecordInv, DataOK
<1>1. \A x \in Requests \ {r} : ~Writing(x) /\ pc[x] # "commit"
  BY DEF WriterOK, Writing
<1>2. /\ left' \in Seq(Intents)
      /\ \A x \in Els(left') : x.rev \in 1..revs
  <2>1. CASE left' = left
    BY <2>1 DEF RevsOK
  <2>2. CASE \E x \in Intents : left' = Append(left, x) /\ x.rev \in 1..revs
    BY <2>2, ElsAppend DEF RevsOK
  <2> QED BY <2>1, <2>2
<1>3. /\ file' \in Contents /\ secret' \in Nat /\ intent' \in Intents
      /\ queue' \in Seq(Requests) /\ pc' \in [Requests -> PCs]
  <2>1. file' \in Contents /\ secret' \in Nat
    BY DEF Restore, Contents, Intents
  <2>2. intent' \in Intents
    BY NoIntentTyped
  <2>3. queue' \in Seq(Requests) /\ pc' \in [Requests -> PCs]
    BY DEF PCs
  <2> QED BY <2>1, <2>2, <2>3
<1>4. DataOK' /\ DownOK'
  BY <1>2, <1>3 DEF DownOK, ackVars
<1>5. /\ file'.rev \in 1..revs /\ secret' \in 1..revs
      /\ ~undone => acked <= file'.rev /\ rotated <= secret'
  <2>1. CASE UNCHANGED <<file, secret>>
    BY <2>1 DEF RevsOK
  <2>2. CASE Restore(intent)
    BY <2>2 DEF RevsOK, Restore, Intents
  <2> QED BY <2>1, <2>2
<1>6. RevsOK'
  BY <1>2, <1>5 DEF RevsOK, ackVars, NoIntent
<1>7. KindsOK'
  BY DEF KindsOK, Cancelling
<1>8. WriterOK'
  BY <1>1 DEF WriterOK, Writing
<1> QED BY <1>4, <1>6, <1>7, <1>8

\* The steps of a write.
LEMMA WritersKeep ==
  ASSUME RecordInv, NEW r \in Requests,
         \/ Begin(r) \/ BeginFails(r) \/ FenceEnds(r) \/ Save(r) \/ SaveFails(r)
         \/ Commit(r) \/ CommitFails(r) \/ RollBack(r) \/ RollBackFails(r) \/ Admit(r)
  PROVE  RecordInv'
<1> USE DEF RecordInv, DataOK
<1>1. CASE Begin(r)
  <2>1. /\ pc[r] = "turn" /\ queue # <<>> /\ Head(queue) = r /\ kind[r] \in Writes
        /\ UNCHANGED <<file, secret, left, revs, acked, rotated, by, undone, up, kind>>
        /\ \/ /\ pc' = [pc EXCEPT ![r] = "done"] /\ queue' = Tail(queue) /\ intent' = intent
           \/ /\ \E x \in {"write", "fenced"} : pc' = [pc EXCEPT ![r] = x]
              /\ queue' = queue /\ intent' = Backup(r)
    BY <1>1 DEF Begin, Turn, Fence, To, KindsOK, ackVars
  <2>2. CASE pc' = [pc EXCEPT ![r] = "done"] /\ queue' = Tail(queue) /\ intent' = intent
    BY <2>1, <2>2, LeaversKeep DEF ackVars
  <2>3. CASE /\ \E x \in {"write", "fenced"} : pc' = [pc EXCEPT ![r] = x]
             /\ queue' = queue /\ intent' = Backup(r)
    <3>1. \A x \in Requests \ {r} : ~Writing(x) /\ pc[x] # "commit"
      BY <2>1 DEF WriterOK, Writing
    <3>2. /\ Backup(r) \in Intents /\ Backup(r).target # "none"
          /\ Backup(r).target = "config" => Backup(r).rev = file.rev
          /\ Backup(r).target = "secrets" => Backup(r).rev = secret
      BY BackupTyped
    <3>3. up
      BY <2>1 DEF DownOK
    <3>4. DataOK' /\ DownOK'
      BY <2>1, <2>3, <3>2, <3>3 DEF DownOK, PCs
    <3>5. RevsOK'
      BY <2>1, <2>3, <3>2 DEF RevsOK, Intents, Contents
    <3>6. KindsOK'
      BY <2>1, <2>3 DEF KindsOK, Cancelling
    <3>7. WriterOK'
      BY <2>1, <2>3, <3>1 DEF WriterOK, Writing
    <3> QED BY <3>4, <3>5, <3>6, <3>7
  <2> QED BY <2>1, <2>2, <2>3
<1>2. CASE BeginFails(r)
  <2>1. /\ pc[r] = "turn" /\ queue # <<>> /\ Head(queue) = r
        /\ UNCHANGED <<file, secret, intent, revs, ackVars, undone, up, kind>>
        /\ pc' = [pc EXCEPT ![r] = "done"] /\ queue' = Tail(queue)
        /\ left' = left \/ left' = Append(left, Backup(r))
    BY <1>2 DEF BeginFails, Turn, To
  <2>2. Backup(r) \in Intents /\ Backup(r).rev \in 1..revs
    BY BackupTyped DEF RevsOK, Intents
  <2> QED BY <2>1, <2>2, LeaversKeep
<1>3. CASE FenceEnds(r) \/ SaveFails(r)
  <2>1. /\ (pc[r] = "fenced" /\ kind[r] \in Writes \cup {"call"}) \/ pc[r] = "write"
        /\ UNCHANGED <<file, secret, intent, left, revs, acked, rotated, by, undone, up, kind, queue>>
        /\ \E x \in {"done", "write", "abort"} :
             /\ pc' = [pc EXCEPT ![r] = x]
             /\ x # "done" => kind[r] # "call" /\ kind[r] \in Writes
    BY <1>3 DEF FenceEnds, SaveFails, To, diskVars, logVars, ackVars, hostVars, KindsOK, Writes
  <2>2. DataOK' /\ DownOK' /\ RevsOK'
    BY <2>1 DEF DownOK, RevsOK, PCs
  <2>3. KindsOK'
    BY <2>1 DEF KindsOK, Cancelling
  <2>4. WriterOK'
    BY <2>1 DEF WriterOK, Writing
  <2> QED BY <2>2, <2>3, <2>4
<1>4. CASE Save(r)
  <2>1. /\ pc[r] = "write" /\ pc' = [pc EXCEPT ![r] = "commit"]
        /\ revs' = revs + 1
        /\ \/ kind[r] = "rotate" /\ secret' = revs + 1 /\ file' = file
           \/ /\ kind[r] # "rotate" /\ file' = [on |-> Wanted(r), rev |-> revs + 1]
              /\ secret' = secret
        /\ UNCHANGED <<intent, left, acked, rotated, by, undone, up, kind, queue>>
    BY <1>4 DEF Save, To, hostVars, logVars, ackVars
  <2>2. kind[r] \in Writes /\ Writing(r)
    BY <2>1 DEF KindsOK, Writing
  <2>3. kind[r] # "rotate" => Wanted(r) \in BOOLEAN /\ (kind[r] = "disable" => ~Wanted(r))
    BY <2>2 DEF Wanted, Writes, Intents
  <2>4. \A x \in Requests \ {r} : ~Writing(x) /\ pc[x] # "commit"
    BY <2>2 DEF WriterOK, Writing
  <2>5. DataOK' /\ DownOK'
    BY <2>1, <2>3 DEF DownOK, PCs, Contents
  <2>6. RevsOK'
    BY <2>1 DEF RevsOK, Contents, Intents
  <2>7. KindsOK'
    BY <2>1, <2>2 DEF KindsOK, Cancelling
  <2>8. WriterOK'
    BY <2>1, <2>2, <2>3, <2>4 DEF WriterOK, Writing, RevsOK
  <2> QED BY <2>5, <2>6, <2>7, <2>8
<1>5. CASE Commit(r)
  <2>1. /\ pc[r] = "commit" /\ intent' = NoIntent
        /\ \/ kind[r] = "rotate" /\ rotated' = secret /\ UNCHANGED <<acked, by>>
           \/ acked' = file.rev /\ by' = kind[r] /\ rotated' = rotated
        /\ queue' = Tail(queue)
        /\ \E x \in {"cancel", "publish", "done"} :
             /\ pc' = [pc EXCEPT ![r] = x]
             /\ x = "cancel" => kind[r] \in {"disable", "reconnect", "rotate"}
        /\ UNCHANGED <<file, secret, left, revs, undone, up, kind>>
    BY <1>5 DEF Commit, Acknowledge, To, AfterWrite, KindsOK, Writes
  <2>2. Writing(r) /\ queue # <<>> /\ Head(queue) = r
    BY <2>1 DEF Writing, WriterOK
  <2>3. \A x \in Requests \ {r} : ~Writing(x) /\ pc[x] # "commit"
    BY <2>2 DEF WriterOK, Writing
  <2>4. DataOK' /\ DownOK'
    BY <2>1, <2>2, NoIntentTyped DEF DownOK, PCs, Contents
  <2>5. RevsOK'
    BY <2>1, NoIntentTyped DEF RevsOK, Contents
  <2>6. KindsOK'
    BY <2>1 DEF KindsOK, Cancelling
  <2>7. WriterOK'
    BY <2>1, <2>3 DEF WriterOK, Writing
  <2> QED BY <2>4, <2>5, <2>6, <2>7
<1>6. CASE CommitFails(r)
  <2>1. /\ pc[r] = "commit" /\ pc' = [pc EXCEPT ![r] = "abort"]
        /\ intent' \in {intent, NoIntent}
        /\ UNCHANGED <<file, secret, left, revs, acked, rotated, by, undone, up, kind, queue>>
    BY <1>6 DEF CommitFails, To, ackVars, hostVars
  <2>2. Writing(r) /\ queue # <<>> /\ Head(queue) = r /\ kind[r] \in Writes
    BY <2>1 DEF Writing, WriterOK, KindsOK
  <2>3. DataOK' /\ DownOK'
    BY <2>1, NoIntentTyped DEF DownOK, PCs
  <2>4. RevsOK'
    BY <2>1, NoIntentTyped DEF RevsOK
  <2>5. KindsOK'
    BY <2>1, <2>2 DEF KindsOK, Cancelling
  <2>6. WriterOK'
    BY <2>1, <2>2 DEF WriterOK, Writing
  <2> QED BY <2>3, <2>4, <2>5, <2>6
<1>7. CASE RollBack(r) \/ RollBackFails(r)
  <2>1. /\ pc[r] = "abort" /\ pc' = [pc EXCEPT ![r] = "done"] /\ queue' = Tail(queue)
        /\ UNCHANGED <<file, secret>> \/ Restore(intent)
        /\ intent' = NoIntent
        /\ left' = left \/ (intent # NoIntent /\ left' = Append(left, intent))
        /\ UNCHANGED <<revs, ackVars, undone, up, kind>>
    BY <1>7 DEF RollBack, RollBackFails, To
  <2>2. queue # <<>> /\ Head(queue) = r
    BY <2>1 DEF Writing, WriterOK
  <2>3. intent # NoIntent => intent.rev \in 1..revs
    BY DEF RevsOK
  <2>4. intent' = intent => UNCHANGED <<file, secret>>
    BY <2>1, NoIntentTyped DEF Restore
  <2> QED BY <2>1, <2>2, <2>3, <2>4, LeaversKeep
<1>8. CASE Admit(r)
  <2>1. /\ pc[r] = "admit" /\ kind[r] = "call"
        /\ UNCHANGED <<file, secret, intent, left, revs, acked, rotated, by, undone, up, kind, queue>>
    BY <1>8 DEF Admit, diskVars, logVars, ackVars, KindsOK
  <2>2. \E x \in {"done", "fenced", "have", "await"} : pc' = [pc EXCEPT ![r] = x]
    BY <1>8, EnsureMoves DEF Admit, Fence, To
  <2>3. DataOK' /\ DownOK' /\ RevsOK'
    BY <2>1, <2>2 DEF DownOK, RevsOK, PCs
  <2>4. KindsOK'
    BY <2>1, <2>2 DEF KindsOK, Cancelling
  <2>5. WriterOK'
    BY <2>1, <2>2 DEF WriterOK, Writing
  <2> QED BY <2>3, <2>4, <2>5
<1> QED BY <1>1, <1>2, <1>3, <1>4, <1>5, <1>6, <1>7, <1>8

\* Edits outside Settings, crashes and restarts.
LEMMA OutsideKeeps ==
  ASSUME RecordInv, Edit \/ Crash \/ Start \/ Recover \/ RecoverFails
  PROVE  RecordInv'
<1> USE DEF RecordInv, DataOK
<1>1. CASE Edit
  <2>1. /\ \A r \in Requests : ~Writing(r)
        /\ revs' = revs + 1
        /\ \E b \in BOOLEAN : file' = [on |-> b, rev |-> revs + 1]
        /\ UNCHANGED <<secret, intent, left, acked, rotated, by, undone, up, kind, queue, pc>>
    BY <1>1 DEF Edit, hostVars, requestVars, logVars, ackVars
  <2>3. DataOK' /\ DownOK' /\ KindsOK'
    BY <2>1 DEF DownOK, KindsOK, Contents
  <2>4. RevsOK'
    BY <2>1 DEF RevsOK, Contents, Intents
  <2>5. WriterOK'
    BY <2>1 DEF WriterOK, Writing
  <2> QED BY <2>3, <2>4, <2>5
<1>2. CASE Crash
  <2>1. /\ ~up' /\ queue' = <<>>
        /\ pc' = [r \in Requests |-> IF pc[r] = "idle" THEN "idle" ELSE "done"]
        /\ UNCHANGED <<file, secret, intent, left, revs, acked, rotated, by, undone, kind>>
    BY <1>2 DEF Crash, ackVars
  <2>2. DataOK' /\ DownOK'
    BY <2>1 DEF DownOK, PCs
  <2>3. RevsOK' /\ KindsOK' /\ WriterOK'
    BY <2>1 DEF RevsOK, KindsOK, WriterOK, Writing, Cancelling
  <2> QED BY <2>2, <2>3
<1>3. CASE Start
  <2>1. ~up /\ UNCHANGED <<file, secret, intent, left, revs, acked, rotated, by, undone, kind, queue, pc>>
        /\ intent = NoIntent
    BY <1>3 DEF Start, diskVars, logVars, ackVars, hostVars, requestVars
  <2>2. DataOK' /\ DownOK' /\ KindsOK' /\ WriterOK'
    BY <2>1 DEF DownOK, KindsOK, WriterOK, Writing
  <2>3. RevsOK'
    BY <2>1, NoIntentTyped DEF RevsOK
  <2> QED BY <2>2, <2>3
<1>4. CASE Recover \/ RecoverFails
  <2>1. /\ ~up /\ UNCHANGED <<revs, acked, rotated, by, kind, queue, pc>>
        /\ \/ left # <<>> /\ Restore(Head(left)) /\ undone' = TRUE /\ intent' = intent
           \/ left = <<>> /\ Restore(intent) /\ undone' = undone
        /\ left' = left \/ (left # <<>> /\ left' = Tail(left))
        /\ intent' \in {intent, NoIntent}
        /\ up' => intent' = NoIntent
    <3>1. CASE Recover /\ left # <<>>
      BY <3>1 DEF Recover, hostVars, requestVars, ackVars
    <3>2. CASE Recover /\ left = <<>>
      BY <3>2 DEF Recover, hostVars, requestVars, ackVars
    <3>3. CASE RecoverFails
      BY <3>3 DEF RecoverFails, hostVars, requestVars, ackVars
    <3> QED BY <1>4, <3>1, <3>2, <3>3
  <2>2. \A r \in Requests : pc[r] \in {"idle", "done"}
    BY <2>1 DEF DownOK
  <2>3. left # <<>> => /\ Tail(left) \in Seq(Intents) /\ Head(left) \in Intents
                       /\ Head(left) \in Els(left) /\ Els(Tail(left)) \subseteq Els(left)
    BY ElsTail
  <2>4. /\ left' \in Seq(Intents) /\ Els(left') \subseteq Els(left)
        /\ intent' \in Intents
        /\ left # <<>> => Head(left) \in Intents /\ Head(left).rev \in 1..revs
    BY <2>1, <2>3, NoIntentTyped DEF RevsOK
  <2>5. file' \in Contents /\ secret' \in Nat /\ file'.rev \in 1..revs /\ secret' \in 1..revs
    <3>1. CASE left # <<>> /\ Restore(Head(left))
      BY <2>4, <3>1 DEF Restore, Intents, Contents, RevsOK
    <3>2. CASE Restore(intent)
      BY <3>2 DEF Restore, Intents, Contents, RevsOK
    <3> QED BY <2>1, <3>1, <3>2
  <2>6. DataOK' /\ DownOK' /\ KindsOK'
    BY <2>1, <2>2, <2>4, <2>5 DEF DownOK, KindsOK
  <2>7. ~undone' => /\ acked <= file'.rev /\ rotated <= secret'
    BY <2>1 DEF RevsOK, Restore, Intents, Contents
  <2>8. RevsOK'
    BY <2>1, <2>4, <2>5, <2>7, NoIntentTyped DEF RevsOK
  <2>9. WriterOK'
    BY <2>1, <2>2 DEF WriterOK, Writing
  <2> QED BY <2>6, <2>8, <2>9
<1> QED BY <1>1, <1>2, <1>3, <1>4

\* No step disturbs the record.
LEMMA RecordStep == RecordInv /\ [Next]_vars => RecordInv'
<1> SUFFICES ASSUME RecordInv, [Next]_vars PROVE RecordInv'
  OBVIOUS
<1>1. CASE Next
  BY <1>1, OthersKeep, ArrivalsKeep, WritersKeep, OutsideKeeps DEF Next, Progress
<1>2. CASE UNCHANGED vars
  BY <1>2 DEF vars, diskVars, logVars, ackVars, hostVars, requestVars, RecordInv, DataOK, RevsOK,
              KindsOK, WriterOK, Writing, DownOK
<1> QED BY <1>1, <1>2

\* The record at the start.
LEMMA RecordStart == Init => RecordInv
<1> SUFFICES ASSUME Init PROVE RecordInv
  OBVIOUS
<1>1. /\ file \in Contents /\ file.rev = 1 /\ secret = 1 /\ intent = NoIntent /\ left = <<>>
      /\ revs = 1 /\ acked = 0 /\ rotated = 0 /\ by = "none" /\ up = TRUE /\ queue = <<>>
  BY DEF Init, Contents
<1>2. kind = [r \in Requests |-> "none"] /\ pc = [r \in Requests |-> "idle"]
  BY DEF Init
<1>3. DataOK
  BY <1>1, <1>2, NoIntentTyped DEF DataOK, PCs
<1>4. RevsOK
  BY <1>1, NoIntentTyped DEF RevsOK, Els
<1>5. KindsOK /\ WriterOK /\ DownOK
  BY <1>1, <1>2 DEF KindsOK, WriterOK, Writing, DownOK, Cancelling
<1> QED BY <1>3, <1>4, <1>5 DEF RecordInv

\* RecordInv is an invariant of the host, whatever the fence and the log do.
THEOREM RecordKept == Spec => []RecordInv
BY RecordStart, RecordStep, PTL DEF Spec

\* A write that was answered is undone neither by the failure of another, nor by a
\* crash, nor by a restart that restores no write whose own failure had left its
\* intent open (writeDesiredState, MutationStore.abort, MutationStore.recover).
THEOREM AnsweredWritesSurvive == Spec => []AnsweredStays
<1>1. RecordInv => AnsweredStays
  BY DEF RecordInv, DataOK, RevsOK, Contents, AnsweredStays
<1> QED BY <1>1, RecordKept, PTL

-----------------------------------------------------------------------------
(* The clients: who owns a process. *)

ClientsTyped ==
  /\ begun \in 0..MaxClients /\ map \in 0..MaxClients /\ mcpConnecting \in 0..MaxClients
  /\ flow \in [Clients -> Flows] /\ clientRev \in [Clients -> Nat]
  /\ live \in [Clients -> BOOLEAN] /\ clientRetired \in [Clients -> BOOLEAN]
  /\ got \in [Requests -> 0..MaxClients] /\ awaited \in [Requests -> 0..MaxClients]

\* One connection at a time is under way, and the client in the map is one that
\* was built.
FlowOK ==
  /\ \A c \in Clients : flow[c] \in Busy <=> mcpConnecting = c
  /\ \A c \in Clients : flow[c] = "none" <=> c > begun
  /\ map # 0 => flow[map] \in {"list", "latest", "failing", "published"}
  /\ mcpConnecting # 0 => map \in {0, mcpConnecting}

\* A process is that of the client in the map, or of the one being connected, or of
\* one that is lost.
LiveOK ==
  /\ \A c \in Clients : clientRetired[c] => flow[c] \notin {"none", "load", "build"}
  /\ \A c \in Clients : live[c] => ~clientRetired[c] /\ flow[c] \in {"list", "latest", "published"}
  /\ \A c \in Kept : live[c] => c = map \/ c = mcpConnecting

\* What a fence or a cancel waits for is being disconnected.
AwaitedOK ==
  \A r \in Requests :
    pc[r] \in {"fenced", "dropping"} /\ awaited[r] # 0 => clientRetired[awaited[r]]

ClosedOK ==
  closing => (\E r \in Requests : pc[r] = "draining") \/ (mcpConnecting = 0 /\ map = 0)

DeadOK == ~up => mcpConnecting = 0 /\ \A c \in Clients : ~live[c]

ClientsOK == ClientsTyped /\ FlowOK /\ LiveOK /\ AwaitedOK

\* A step that leaves the clients alone.
LEMMA ClientsFrame ==
  ASSUME ClientsOK, UNCHANGED <<map, mcpConnecting, clientVars, history>>,
         got' \in [Requests -> 0..MaxClients],
         \A r \in Requests : pc'[r] \in {"fenced", "dropping"} => pc[r] = pc'[r]
  PROVE  ClientsOK'
<1>1. ClientsTyped' /\ FlowOK' /\ LiveOK'
  BY DEF ClientsOK, ClientsTyped, FlowOK, LiveOK, clientVars, history, Kept
<1>2. AwaitedOK'
  BY DEF ClientsOK, AwaitedOK, clientVars, history
<1> QED BY <1>1, <1>2 DEF ClientsOK

\* The steps of requests, and the others, that leave the clients alone.
LEMMA OnlookersKeep ==
  ASSUME RecordInv, ClientsOK, ClosedOK, HostAssumption,
         \/ \E r \in Requests : \/ BeginFails(r) \/ Save(r) \/ SaveFails(r) \/ Commit(r)
                                \/ CommitFails(r) \/ RollBack(r) \/ RollBackFails(r)
                                \/ Send(r) \/ Answered(r) \/ Close(r)
                                \/ \E k \in Kinds : Arrive(r, k)
         \/ AcknowledgeDrift \/ Edit \/ Start \/ Recover \/ RecoverFails
  PROVE  ClientsOK' /\ ClosedOK'
<1> USE DEF RecordInv, DataOK, ClientsOK
<1>1. CASE \E r \in Requests : \/ BeginFails(r) \/ Save(r) \/ SaveFails(r) \/ Commit(r)
                               \/ CommitFails(r) \/ RollBack(r) \/ RollBackFails(r)
                               \/ Send(r) \/ Answered(r) \/ (\E k \in Kinds : Arrive(r, k))
  <2> PICK r \in Requests : \/ BeginFails(r) \/ Save(r) \/ SaveFails(r) \/ Commit(r)
                            \/ CommitFails(r) \/ RollBack(r) \/ RollBackFails(r)
                            \/ Send(r) \/ Answered(r) \/ (\E k \in Kinds : Arrive(r, k))
    BY <1>1
  <2>1. /\ UNCHANGED <<map, mcpConnecting, clientVars, history, closing, got>>
        /\ pc[r] \in {"turn", "write", "commit", "abort", "have", "sent", "idle"}
    BY DEF BeginFails, Turn, Save, SaveFails, Commit, CommitFails, RollBack, RollBackFails, Send,
           Answered, Arrive, hostVars
  <2>2. \E x \in {"commit", "cancel", "publish", "done", "sent", "turn", "admit", "close", "abort"} :
          pc' = [pc EXCEPT ![r] = x]
    <3>1. CASE \/ BeginFails(r) \/ Save(r) \/ SaveFails(r) \/ CommitFails(r)
               \/ RollBack(r) \/ RollBackFails(r) \/ Send(r) \/ Answered(r)
      BY <3>1 DEF BeginFails, Save, SaveFails, CommitFails, RollBack, RollBackFails, Send,
                  Answered, To
    <3>2. CASE Commit(r)
      <4>1. kind[r] \in Writes
        BY <3>2 DEF Commit, KindsOK
      <4> QED BY <3>2, <4>1 DEF Commit, Acknowledge, To, AfterWrite, Writes
    <3>3. CASE \E k \in Kinds : Arrive(r, k)
      BY <3>3 DEF Arrive, To, Kinds, Writes
    <3> QED BY <3>1, <3>2, <3>3
  <2>3. ClientsOK'
    BY <2>1, <2>2, ClientsFrame DEF ClientsTyped
  <2>4. ClosedOK'
    BY <2>1, <2>2 DEF ClosedOK
  <2> QED BY <2>3, <2>4
<1>3. CASE \E r \in Requests : Close(r)
  <2> PICK r \in Requests : Close(r)
    BY <1>3
  <2>1. /\ UNCHANGED <<map, mcpConnecting, clientVars, history, got>>
        /\ pc' = [pc EXCEPT ![r] = "draining"]
    BY DEF Close, To
  <2>2. ClientsOK'
    BY <2>1, ClientsFrame DEF ClientsTyped
  <2>3. ClosedOK'
    BY <2>1 DEF ClosedOK
  <2> QED BY <2>2, <2>3
<1>4. CASE AcknowledgeDrift \/ Edit \/ Start \/ Recover \/ RecoverFails
  <2>1. UNCHANGED <<map, mcpConnecting, clientVars, history, closing, pc, got>>
    BY <1>4 DEF AcknowledgeDrift, Edit, Start, Recover, RecoverFails, requestVars, hostVars
  <2>2. ClientsOK'
    BY <2>1, ClientsFrame DEF ClientsTyped
  <2>3. ClosedOK'
    BY <2>1 DEF ClosedOK
  <2> QED BY <2>2, <2>3
<1> QED BY <1>1, <1>3, <1>4

\* A step that disconnects clients that were built, before it deletes a key.
LEMMA DisconnectKeeps ==
  ASSUME ClientsOK, HostAssumption, NEW cs, Disconnected(cs),
         UNCHANGED <<map, mcpConnecting, flow, clientRev, begun, lost>>,
         got' \in [Requests -> 0..MaxClients], awaited' \in [Requests -> 0..MaxClients],
         \A c \in Clients : c \in cs => flow[c] \notin {"none", "load", "build"},
         \A r \in Requests : pc'[r] \in {"fenced", "dropping"} =>
           \/ pc[r] = pc'[r] /\ awaited'[r] = awaited[r]
           \/ awaited'[r] \in cs \cup {0}
  PROVE  ClientsOK'
<1> USE DEF ClientsOK
<1>1. /\ \A c \in Clients : (live'[c] <=> live[c] /\ c \notin cs)
      /\ \A c \in Clients : (clientRetired'[c] <=> clientRetired[c] \/ c \in cs)
      /\ live' \in [Clients -> BOOLEAN] /\ clientRetired' \in [Clients -> BOOLEAN]
  BY DEF Disconnected
<1>2. ClientsTyped' /\ FlowOK'
  BY <1>1 DEF ClientsTyped, FlowOK
<1>3. LiveOK'
  BY <1>1 DEF ClientsTyped, LiveOK, Clients, Kept
<1>4. \A r \in Requests : awaited'[r] # 0 => awaited'[r] \in Clients
  BY DEF ClientsTyped, Clients, HostAssumption
<1>5. AwaitedOK'
  BY <1>1, <1>4 DEF AwaitedOK
<1> QED BY <1>2, <1>3, <1>5

\* ensureMcpServer() gives the key up only with its process, and begins one
\* connection at a time.
LEMMA EnsureKeeps ==
  ASSUME ClientsOK, HostAssumption, pc \in [Requests -> PCs], UNCHANGED history,
         NEW r \in Requests, NEW barred, Ensure(r, barred)
  PROVE  /\ ClientsOK'
         /\ mcpConnecting = 0 /\ barred => mcpConnecting' = 0
         /\ map' \in {0, map} /\ clientRev' = clientRev
         /\ \A c \in Clients : live'[c] => live[c]
         /\ \A c \in Clients : flow'[c] # flow[c] => flow'[c] = "load"
<1> USE DEF ClientsOK, ClientsTyped, history
<1>1. CASE Usable
  <2>1. /\ pc' = [pc EXCEPT ![r] = "have"] /\ got' = [got EXCEPT ![r] = map]
        /\ UNCHANGED <<map, mcpConnecting, clientVars>>
    BY <1>1 DEF Ensure, To
  <2>2. ClientsOK'
    BY <2>1, ClientsFrame DEF FlowOK
  <2> QED BY <2>1, <2>2 DEF clientVars
<1>2. CASE ~Usable
  <2>1. /\ map' = 0
        /\ Disconnected({map} \ {0})
        /\ clientRev' = clientRev
        /\ \/ /\ mcpConnecting # 0 \/ barred
              /\ UNCHANGED <<mcpConnecting, flow, begun>>
              /\ \E x \in {"await", "done"} : pc' = [pc EXCEPT ![r] = x]
              /\ got' \in [Requests -> 0..MaxClients]
           \/ /\ mcpConnecting = 0 /\ ~barred
              /\ begun < MaxClients /\ begun' = begun + 1 /\ mcpConnecting' = begun + 1
              /\ flow' = [flow EXCEPT ![begun + 1] = "load"]
              /\ pc' = [pc EXCEPT ![r] = "await"] /\ got' = [got EXCEPT ![r] = begun + 1]
    BY <1>2 DEF Ensure, To, clientVars, HostAssumption
  <2>2. /\ \A c \in Clients : (live'[c] <=> live[c] /\ c # map)
        /\ \A c \in Clients : (clientRetired'[c] <=> clientRetired[c] \/ c = map)
        /\ live' \in [Clients -> BOOLEAN] /\ clientRetired' \in [Clients -> BOOLEAN]
    <3>1. \A c \in Clients : c \in {map} \ {0} <=> c = map
      BY DEF Clients
    <3> QED BY <2>1, <3>1 DEF Disconnected
  <2>3. map # 0 => map \in Clients /\ flow[map] \notin {"none", "load", "build"}
    BY DEF FlowOK, Clients, HostAssumption
  <2>4. ClientsTyped'
    <3>1. begun' \in 0..MaxClients /\ map' \in 0..MaxClients /\ mcpConnecting' \in 0..MaxClients
      BY <2>1 DEF HostAssumption
    <3>2. flow' \in [Clients -> Flows] /\ got' \in [Requests -> 0..MaxClients]
      BY <2>1 DEF HostAssumption, Flows, Busy
    <3> QED BY <2>1, <2>2, <3>1, <3>2
  <2>5. FlowOK'
    <3>1. \A c \in Clients : flow'[c] \in Busy <=> mcpConnecting' = c
      <4>1. CASE UNCHANGED <<mcpConnecting, flow>>
        BY <4>1 DEF FlowOK
      <4>2. CASE mcpConnecting = 0 /\ mcpConnecting' = begun + 1
                 /\ flow' = [flow EXCEPT ![begun + 1] = "load"]
        <5>1. \A c \in Clients : flow[c] \notin Busy
          BY <4>2 DEF FlowOK, Clients
        <5>2. \A c \in Clients : flow'[c] = IF c = begun + 1 THEN "load" ELSE flow[c]
          BY <4>2
        <5> QED BY <4>2, <5>1, <5>2 DEF Busy
      <4> QED BY <2>1, <4>1, <4>2
    <3>2. \A c \in Clients : flow'[c] = "none" <=> c > begun'
      BY <2>1 DEF FlowOK, HostAssumption, Clients
    <3> QED BY <2>1, <3>1, <3>2 DEF FlowOK
  <2>6. \A c \in Clients : flow'[c] = flow[c] \/ (flow[c] = "none" /\ flow'[c] = "load")
    BY <2>1 DEF FlowOK, HostAssumption, Clients
  <2>7. LiveOK'
    <3>2. \A c \in Clients : clientRetired'[c] => flow'[c] \notin {"none", "load", "build"}
      <4> SUFFICES ASSUME NEW c \in Clients, clientRetired'[c]
                   PROVE  flow'[c] \notin {"none", "load", "build"}
        OBVIOUS
      <4>1. flow[c] \notin {"none", "load", "build"}
        <5>1. CASE clientRetired[c]
          BY <5>1 DEF LiveOK
        <5>2. CASE c = map
          BY <5>2, <2>3 DEF Clients
        <5> QED BY <5>1, <5>2, <2>2
      <4> QED BY <4>1, <2>6
    <3>3. \A c \in Clients : live'[c] => ~clientRetired'[c] /\ flow'[c] \in {"list", "latest", "published"}
      BY <2>2, <2>6 DEF LiveOK
    <3>4. \A c \in Clients \ lost' : live'[c] => c = map' \/ c = mcpConnecting'
      BY <2>1, <2>2 DEF LiveOK, Clients, Kept
    <3> QED BY <3>2, <3>3, <3>4 DEF LiveOK, Kept
  <2>8. AwaitedOK'
    <3>1. \A x \in Requests : pc'[x] \in {"fenced", "dropping"} => pc'[x] = pc[x]
      BY <2>1
    <3>2. \A x \in Requests : awaited[x] # 0 => awaited[x] \in Clients
      BY DEF Clients, HostAssumption
    <3> QED BY <2>2, <3>1, <3>2 DEF AwaitedOK
  <2> QED BY <2>1, <2>2, <2>4, <2>5, <2>6, <2>7, <2>8
<1> QED BY <1>1, <1>2

\* The end of a disconnect deletes the key: the client under it is lost, unless it
\* is the one that was waited for, or is being connected.
LEMMA DeletionKeeps ==
  ASSUME ClientsOK, HostAssumption, NEW r \in Requests, pc[r] \in {"fenced", "dropping"},
         KeyDeleted(r), UNCHANGED <<mcpConnecting, clientVars, got>>,
         NEW x \in {"write", "done", "turn", "publish"}, pc' = [pc EXCEPT ![r] = x]
  PROVE  ClientsOK' /\ map' = 0 /\ Kept' \subseteq Kept
<1> USE DEF ClientsOK, ClientsTyped, clientVars
<1>1. /\ map' = 0 /\ awaited' = [awaited EXCEPT ![r] = 0]
      /\ lost \subseteq lost'
      /\ \A c \in Clients : c = map /\ live[c] /\ c \notin {awaited[r], mcpConnecting} =>
                              c \in lost'
  BY DEF KeyDeleted
<1>2. ClientsTyped' /\ FlowOK'
  BY <1>1 DEF FlowOK, HostAssumption
<1>3. \A c \in Clients : c = awaited[r] => clientRetired[c]
  BY DEF AwaitedOK, Clients
<1>4. LiveOK'
  <2>1. \A c \in Clients \ lost' : live'[c] => c = map' \/ c = mcpConnecting'
    <3> SUFFICES ASSUME NEW c \in Clients, c \notin lost', live[c]
                 PROVE  c = mcpConnecting
      OBVIOUS
    <3>1. c = map \/ c = mcpConnecting
      BY <1>1 DEF LiveOK, Kept
    <3>2. c # awaited[r]
      BY <1>3 DEF LiveOK
    <3> QED BY <1>1, <3>1, <3>2
  <2> QED BY <2>1 DEF LiveOK, Kept
<1>5. AwaitedOK'
  BY <1>1 DEF AwaitedOK
<1>6. Kept' \subseteq Kept
  BY <1>1 DEF Kept
<1> QED BY <1>1, <1>2, <1>4, <1>5, <1>6

\* A fence, or the end of a cancel, disconnects the client in the map.
LEMMA MapEndKeeps ==
  ASSUME ClientsOK, HostAssumption, NEW r \in Requests, Disconnected({map} \ {0}),
         awaited' = [awaited EXCEPT ![r] = map],
         UNCHANGED <<map, mcpConnecting, flow, clientRev, begun, lost>>,
         got' \in [Requests -> 0..MaxClients],
         NEW x, pc' = [pc EXCEPT ![r] = x], pc \in [Requests -> PCs]
  PROVE  ClientsOK'
<1>1. map \in 0..MaxClients /\ awaited \in [Requests -> 0..MaxClients]
  BY DEF ClientsOK, ClientsTyped
<1>2. \A c \in Clients : c \in {map} \ {0} => flow[c] \notin {"none", "load", "build"}
  BY DEF ClientsOK, FlowOK
<1>3. \A y \in Requests : pc'[y] \in {"fenced", "dropping"} =>
        \/ pc[y] = pc'[y] /\ awaited'[y] = awaited[y]
        \/ awaited'[y] \in ({map} \ {0}) \cup {0}
  BY <1>1
<1> QED BY <1>1, <1>2, <1>3, DisconnectKeeps

\* The end of a cancel.
LEMMA DropKeeps ==
  ASSUME ClientsOK, HostAssumption, NEW r \in Requests, DropMap(r), pc \in [Requests -> PCs],
         kind[r] \in {"disable", "delete", "reconnect", "rotate"},
         UNCHANGED <<map, mcpConnecting, flow, clientRev, begun, lost>>,
         got' \in [Requests -> 0..MaxClients]
  PROVE  /\ ClientsOK'
         /\ \A c \in Clients : live'[c] => live[c] /\ c # map
         /\ \E x \in {"turn", "publish", "done", "dropping"} : pc' = [pc EXCEPT ![r] = x]
<1>1. CASE map = 0
  <2>1. UNCHANGED <<live, clientRetired, awaited>>
    BY <1>1 DEF DropMap
  <2>2. \E x \in {"turn", "publish", "done"} : pc' = [pc EXCEPT ![r] = x]
    BY <1>1 DEF DropMap, AfterDrop, To, CancelDone
  <2>3. ClientsTyped' /\ FlowOK' /\ LiveOK'
    BY <2>1 DEF ClientsOK, ClientsTyped, FlowOK, LiveOK, Kept
  <2>4. AwaitedOK'
    BY <2>1, <2>2 DEF ClientsOK, AwaitedOK
  <2>5. \A c \in Clients : c # map
    BY <1>1 DEF Clients
  <2> QED BY <2>1, <2>2, <2>3, <2>4, <2>5 DEF ClientsOK
<1>2. CASE map # 0
  <2>1. /\ Disconnected({map}) /\ awaited' = [awaited EXCEPT ![r] = map]
        /\ pc' = [pc EXCEPT ![r] = "dropping"]
    BY <1>2 DEF DropMap, To
  <2>2. {map} \ {0} = {map}
    BY <1>2
  <2>3. ClientsOK'
    BY <2>1, <2>2, MapEndKeeps
  <2>4. \A c \in Clients : live'[c] => live[c] /\ c # map
    BY <2>1 DEF Disconnected
  <2> QED BY <2>1, <2>3, <2>4
<1> QED BY <1>1, <1>2

\* The steps that put up a fence, cancel, bring up or close.
LEMMA FencersKeep ==
  ASSUME RecordInv, ClientsOK, ClosedOK, HostAssumption, NEW r \in Requests,
         \/ Begin(r) \/ FenceEnds(r) \/ Cancel(r) \/ CancelEnds(r) \/ Drop(r) \/ Dropped(r)
         \/ BringUp(r) \/ Admit(r) \/ Closed(r)
  PROVE  ClientsOK' /\ ClosedOK'
<1>a. pc \in [Requests -> PCs] /\ got \in [Requests -> 0..MaxClients]
  BY DEF RecordInv, DataOK, ClientsOK, ClientsTyped
<1>b. pc[r] \in Cancelling => kind[r] \in {"disable", "delete", "reconnect", "rotate"}
  BY DEF RecordInv, KindsOK
<1>1. CASE Begin(r)
  <2>1. /\ UNCHANGED <<closing, map, mcpConnecting, flow, clientRev, clientGen, begun, lost, got>>
        /\ pc[r] = "turn"
    BY <1>1 DEF Begin, Turn
  <2>2. CASE Refused(r)
    <3>1. UNCHANGED <<live, clientRetired, awaited>> /\ pc' = [pc EXCEPT ![r] = "done"]
      BY <1>1, <2>2 DEF Begin, To
    <3>2. ClientsOK'
      BY <1>a, <2>1, <3>1, ClientsFrame DEF clientVars, history
    <3> QED BY <2>1, <3>1, <3>2 DEF ClosedOK
  <2>3. CASE ~Refused(r)
    <3>1. /\ Disconnected({map} \ {0}) /\ awaited' = [awaited EXCEPT ![r] = map]
          /\ pc' = [pc EXCEPT ![r] = IF map = 0 THEN "write" ELSE "fenced"]
      BY <1>1, <2>3 DEF Begin, Fence, To
    <3>2. ClientsOK'
      BY <1>a, <2>1, <3>1, MapEndKeeps
    <3> QED BY <2>1, <3>1, <3>2 DEF ClosedOK
  <2> QED BY <2>2, <2>3
<1>2. CASE FenceEnds(r) \/ Dropped(r)
  <2>1. /\ pc[r] \in {"fenced", "dropping"} /\ KeyDeleted(r)
        /\ UNCHANGED <<mcpConnecting, clientVars, got, closing>>
    BY <1>2 DEF FenceEnds, Dropped, hostVars
  <2>2. \E x \in {"write", "done", "turn", "publish"} : pc' = [pc EXCEPT ![r] = x]
    <3>1. CASE FenceEnds(r)
      BY <3>1 DEF FenceEnds, To
    <3>2. CASE Dropped(r)
      BY <1>b, <3>2 DEF Dropped, AfterDrop, To, CancelDone, Cancelling
    <3> QED BY <1>2, <3>1, <3>2
  <2>3. ClientsOK' /\ map' = 0
    BY <2>1, <2>2, DeletionKeeps
  <2> QED BY <2>1, <2>2, <2>3 DEF ClosedOK
<1>3. CASE Cancel(r)
  <2>1. /\ UNCHANGED <<closing, map, mcpConnecting, flow, clientRev, clientGen, begun, lost>>
        /\ pc[r] = "cancel"
    BY <1>3 DEF Cancel
  <2>2. CASE mcpConnecting # 0
    <3>1. /\ UNCHANGED <<live, clientRetired, awaited>> /\ pc' = [pc EXCEPT ![r] = "cancelling"]
          /\ got' = [got EXCEPT ![r] = mcpConnecting]
      BY <1>3, <2>2 DEF Cancel, To
    <3>2. got' \in [Requests -> 0..MaxClients]
      BY <1>a, <3>1 DEF ClientsOK, ClientsTyped
    <3>3. ClientsOK'
      BY <1>a, <2>1, <3>1, <3>2, ClientsFrame DEF clientVars, history
    <3> QED BY <2>1, <3>1, <3>3 DEF ClosedOK
  <2>3. CASE mcpConnecting = 0
    <3>1. DropMap(r) /\ got' = got
      BY <1>3, <2>3 DEF Cancel
    <3>2. kind[r] \in {"disable", "delete", "reconnect", "rotate"}
      BY <1>b, <2>1 DEF Cancelling
    <3>3. /\ ClientsOK'
          /\ \E x \in {"turn", "publish", "done", "dropping"} : pc' = [pc EXCEPT ![r] = x]
      BY <1>a, <2>1, <3>1, <3>2, DropKeeps
    <3> QED BY <2>1, <3>3 DEF ClosedOK
  <2> QED BY <2>2, <2>3
<1>4. CASE CancelEnds(r) \/ Drop(r)
  <2>1. /\ UNCHANGED <<closing, map, mcpConnecting, flow, clientRev, clientGen, begun, lost, got>>
        /\ pc[r] \in {"cancelling", "ending"}
    BY <1>4 DEF CancelEnds, Drop
  <2>2. CASE CancelEnds(r) /\ flow[got[r]] = "published"
    <3>1. /\ Disconnected({got[r]}) /\ pc' = [pc EXCEPT ![r] = "ending"] /\ awaited' = awaited
      BY <2>2 DEF CancelEnds, To
    <3>2. awaited' \in [Requests -> 0..MaxClients]
      BY <3>1 DEF ClientsOK, ClientsTyped
    <3>3. \A c \in Clients : c \in {got[r]} => flow[c] \notin {"none", "load", "build"}
      BY <2>2
    <3>4. \A y \in Requests : pc'[y] \in {"fenced", "dropping"} =>
            pc[y] = pc'[y] /\ awaited'[y] = awaited[y]
      BY <1>a, <3>1
    <3>5. ClientsOK'
      BY <1>a, <2>1, <3>1, <3>2, <3>3, <3>4, DisconnectKeeps
    <3> QED BY <2>1, <3>1, <3>5 DEF ClosedOK
  <2>3. CASE DropMap(r)
    <3>1. kind[r] \in {"disable", "delete", "reconnect", "rotate"}
      BY <1>b, <2>1 DEF Cancelling
    <3>2. /\ ClientsOK'
          /\ \E x \in {"turn", "publish", "done", "dropping"} : pc' = [pc EXCEPT ![r] = x]
      BY <1>a, <2>1, <2>3, <3>1, DropKeeps
    <3> QED BY <2>1, <3>2 DEF ClosedOK
  <2> QED BY <1>4, <2>2, <2>3 DEF CancelEnds, Drop
<1>5. CASE BringUp(r)
  <2>1. /\ UNCHANGED <<closing, history>> /\ pc[r] = "publish"
        /\ \/ Ensure(r, closing)
           \/ /\ UNCHANGED <<map, mcpConnecting, clientVars, got>>
              /\ pc' = [pc EXCEPT ![r] = "done"]
    BY <1>5 DEF BringUp, To
  <2>2. CASE Ensure(r, closing)
    <3>1. \E x \in {"have", "await", "done"} : pc' = [pc EXCEPT ![r] = x]
      BY <2>2, EnsureMoves DEF To
    <3> QED BY <1>a, <2>1, <2>2, <3>1, EnsureKeeps DEF ClosedOK
  <2>3. CASE UNCHANGED <<map, mcpConnecting, clientVars, got>> /\ pc' = [pc EXCEPT ![r] = "done"]
    <3>1. ClientsOK'
      BY <1>a, <2>1, <2>3, ClientsFrame
    <3> QED BY <2>1, <2>3, <3>1 DEF ClosedOK
  <2> QED BY <2>1, <2>2, <2>3
<1>6. CASE Admit(r)
  <2>1. /\ UNCHANGED <<closing, lost>> /\ pc[r] = "admit"
        /\ \/ Ensure(r, closing \/ cancelled) /\ UNCHANGED awaited
           \/ /\ UNCHANGED <<map, mcpConnecting, clientVars, got, awaited>>
              /\ pc' = [pc EXCEPT ![r] = "done"]
           \/ /\ UNCHANGED <<map, mcpConnecting, flow, clientRev, clientGen, begun, got>>
              /\ pc' = [pc EXCEPT ![r] = IF map = 0 THEN "done" ELSE "fenced"]
              /\ Disconnected({map} \ {0}) /\ awaited' = [awaited EXCEPT ![r] = map]
    BY <1>6 DEF Admit, Fence, To
  <2>2. CASE Ensure(r, closing \/ cancelled) /\ UNCHANGED awaited
    <3>1. \E x \in {"have", "await", "done"} : pc' = [pc EXCEPT ![r] = x]
      BY <2>2, EnsureMoves DEF To
    <3> QED BY <1>a, <2>1, <2>2, <3>1, EnsureKeeps DEF ClosedOK, history
  <2>3. CASE /\ UNCHANGED <<map, mcpConnecting, clientVars, got, awaited>>
             /\ pc' = [pc EXCEPT ![r] = "done"]
    <3>1. ClientsOK'
      BY <1>a, <2>1, <2>3, ClientsFrame DEF history
    <3> QED BY <2>1, <2>3, <3>1 DEF ClosedOK
  <2>4. CASE /\ UNCHANGED <<map, mcpConnecting, flow, clientRev, clientGen, begun, got>>
             /\ pc' = [pc EXCEPT ![r] = IF map = 0 THEN "done" ELSE "fenced"]
             /\ Disconnected({map} \ {0}) /\ awaited' = [awaited EXCEPT ![r] = map]
    <3>1. ClientsOK'
      BY <1>a, <2>1, <2>4, MapEndKeeps
    <3> QED BY <2>1, <2>4, <3>1 DEF ClosedOK
  <2> QED BY <2>1, <2>2, <2>3, <2>4
<1>7. CASE Closed(r)
  <2>1. /\ mcpConnecting = 0 /\ Disconnected({map} \ {0}) /\ map' = 0
        /\ pc' = [pc EXCEPT ![r] = "done"]
        /\ UNCHANGED <<mcpConnecting, flow, clientRev, begun, got, closing, history>>
    BY <1>7 DEF Closed, To, hostVars
  <2>2. /\ \A c \in Clients : (live'[c] <=> live[c] /\ c # map)
        /\ \A c \in Clients : (clientRetired'[c] <=> clientRetired[c] \/ c = map)
        /\ live' \in [Clients -> BOOLEAN] /\ clientRetired' \in [Clients -> BOOLEAN]
    <3>1. \A c \in Clients : c \in {map} \ {0} <=> c = map
      BY DEF Clients
    <3> QED BY <2>1, <3>1 DEF Disconnected
  <2>3. ClientsTyped' /\ FlowOK'
    BY <2>1, <2>2 DEF ClientsOK, ClientsTyped, FlowOK, HostAssumption, history
  <2>4. LiveOK'
    <3>1. \A c \in Clients : c = map => flow[c] \notin {"none", "load", "build"}
      BY DEF ClientsOK, FlowOK, Clients
    <3> QED BY <2>1, <2>2, <3>1 DEF ClientsOK, LiveOK, Kept, Clients, history
  <2>5. AwaitedOK'
    <3>1. \A y \in Requests : awaited[y] # 0 => awaited[y] \in Clients
      BY DEF ClientsOK, ClientsTyped, Clients, HostAssumption
    <3> QED BY <1>a, <2>1, <2>2, <3>1 DEF ClientsOK, AwaitedOK, history
  <2>6. ClosedOK'
    BY <2>1 DEF ClosedOK
  <2> QED BY <2>3, <2>4, <2>5, <2>6 DEF ClientsOK
<1> QED BY <1>1, <1>2, <1>3, <1>4, <1>5, <1>6, <1>7

\* What the end of a connection does to the requests that wait for it.
LEMMA SettleMoves ==
  ASSUME pc \in [Requests -> PCs], NEW c, NEW result, Settle(c, result)
  PROVE  /\ UNCHANGED <<kind, expected, got>> /\ mcpConnecting' = 0
         /\ flow' = [flow EXCEPT ![c] = result]
         /\ \A r \in Requests :
              pc'[r] # pc[r] => pc[r] = "await" /\ pc'[r] \in {"have", "done"}
BY DEF Settle

\* The steps of a connection.
LEMMA ConnectionsKeep ==
  ASSUME RecordInv, ClientsOK, ClosedOK, HostAssumption, NEW c \in Clients,
         \/ LoadConfig(c) \/ Build(c) \/ Listed(c) \/ ListFails(c) \/ Publish(c) \/ GiveUp(c)
  PROVE  ClientsOK' /\ ClosedOK'
<1> USE DEF RecordInv, DataOK, ClientsOK, history
<1>a. c # 0 /\ c \in Nat /\ begun \in Nat
  BY DEF ClientsTyped, Clients, HostAssumption
<1>1. ASSUME flow[c] \in {"load", "build", "failing"}, Settle(c, "failed"),
             UNCHANGED <<closing, live, clientRetired, begun, clientRev, history>>,
             map' = IF map = c THEN 0 ELSE map
      PROVE  ClientsOK' /\ ClosedOK'
  <2>1. /\ mcpConnecting' = 0 /\ got' = got
        /\ flow' = [flow EXCEPT ![c] = "failed"]
        /\ \A r \in Requests :
             pc'[r] # pc[r] => pc[r] = "await" /\ pc'[r] \in {"have", "done"}
    BY <1>1, SettleMoves
  <2>7. mcpConnecting = c /\ ~(c > begun) /\ ~live[c] /\ map' = 0
    BY <1>1, <1>a DEF FlowOK, LiveOK, Busy
  <2>2. ClientsTyped'
    BY <1>1, <2>1, <2>7 DEF ClientsTyped, Flows, HostAssumption
  <2>3. FlowOK'
    <3>1. \A d \in Clients : flow'[d] \in Busy <=> mcpConnecting' = d
      BY <1>1, <1>a, <2>1, <2>7 DEF FlowOK, ClientsTyped, Busy, Clients
    <3>2. \A d \in Clients : flow'[d] = "none" <=> d > begun'
      BY <1>1, <1>a, <2>1, <2>7 DEF FlowOK, ClientsTyped
    <3> QED BY <2>1, <2>7, <3>1, <3>2 DEF FlowOK
  <2>4. LiveOK'
    <3>1. \A d \in Kept : ~live[d]
      BY <2>7 DEF LiveOK, FlowOK, Kept, Clients
    <3> QED BY <1>1, <2>1, <2>7, <3>1 DEF LiveOK, ClientsTyped, Kept
  <2>5. AwaitedOK'
    BY <1>1, <2>1 DEF AwaitedOK
  <2>6. ClosedOK'
    BY <1>1, <2>1, <2>7 DEF ClosedOK
  <2> QED BY <2>2, <2>3, <2>4, <2>5, <2>6
<1>2. ASSUME NEW x \in Flows, flow[c] \in Busy, flow' = [flow EXCEPT ![c] = x],
             UNCHANGED <<closing, map, mcpConnecting, live, clientRetired, begun, history, pc, got>>,
             clientRev' \in [Clients -> Nat],
             \/ flow[c] = "load" /\ x = "build"
             \/ flow[c] = "list" /\ x = "latest"
      PROVE  ClientsOK' /\ ClosedOK'
  <2>1. ClientsTyped' /\ ClosedOK'
    BY <1>2 DEF ClientsTyped, ClosedOK
  <2>4. FlowOK'
    <3>1. /\ \A d \in Clients : flow'[d] = IF d = c THEN x ELSE flow[d]
          /\ x \in Busy \ {"load"} /\ flow[c] \in {"load", "list"}
          /\ (x = "latest" <=> flow[c] = "list")
      BY <1>2 DEF ClientsTyped, Busy
    <3>2. \A d \in Clients : /\ flow'[d] \in Busy <=> flow[d] \in Busy
                             /\ flow'[d] = "none" <=> flow[d] = "none"
      BY <1>2, <3>1 DEF Busy
    <3>3. map # 0 => map \in Clients
      BY DEF ClientsTyped, Clients, HostAssumption
    <3>4. map # 0 => flow'[map] \in {"list", "latest", "failing", "published"}
      BY <3>1, <3>3 DEF FlowOK
    <3> QED BY <1>2, <3>2, <3>4 DEF FlowOK
  <2>2. LiveOK'
    BY <1>2 DEF LiveOK, ClientsTyped, Kept
  <2>3. AwaitedOK'
    BY <1>2 DEF AwaitedOK
  <2> QED BY <2>1, <2>2, <2>3, <2>4
<1>3. CASE LoadConfig(c)
  <2>1. CASE file.on
    <3>1. /\ flow[c] = "load" /\ flow' = [flow EXCEPT ![c] = "build"]
          /\ clientRev' = [clientRev EXCEPT ![c] = file.rev]
          /\ UNCHANGED <<closing, map, mcpConnecting, live, clientRetired, begun, history, pc, got>>
      BY <1>3, <2>1 DEF LoadConfig, hostVars, requestVars
    <3>2. clientRev' \in [Clients -> Nat]
      BY <3>1 DEF ClientsTyped, Contents
    <3> QED BY <1>2, <3>1, <3>2 DEF Busy, Flows
  <2>2. CASE ~file.on
    <3>1. /\ flow[c] = "load" /\ Settle(c, "failed")
          /\ UNCHANGED <<closing, map, live, clientRetired, begun, clientRev, history>>
      BY <1>3, <2>2 DEF LoadConfig, hostVars
    <3>2. map # c
      BY <1>a, <3>1 DEF FlowOK
    <3> QED BY <1>1, <3>1, <3>2
  <2> QED BY <2>1, <2>2
<1>4. CASE Build(c)
  <2>1. CASE cancelled \/ clientGen[c] # gen
    <3>1. /\ flow[c] = "build" /\ Settle(c, "failed")
          /\ UNCHANGED <<closing, map, live, clientRetired, begun, clientRev, history>>
      BY <1>4, <2>1 DEF Build, hostVars
    <3>2. map # c
      BY <1>a, <3>1 DEF FlowOK
    <3> QED BY <1>1, <3>1, <3>2
  <2>2. CASE ~(cancelled \/ clientGen[c] # gen)
    <3>1. /\ flow[c] = "build" /\ map' = c /\ live' = [live EXCEPT ![c] = TRUE]
          /\ flow' = [flow EXCEPT ![c] = "list"]
          /\ UNCHANGED <<closing, mcpConnecting, clientRetired, begun, clientRev, pc, got, history>>
      BY <1>4, <2>2 DEF Build, hostVars, requestVars
    <3>2. mcpConnecting = c /\ c # 0 /\ ~clientRetired[c] /\ map = 0
      BY <1>a, <3>1 DEF FlowOK, LiveOK, Busy
    <3>3. \A d \in Kept : ~live[d]
      BY <3>1, <3>2 DEF LiveOK, FlowOK, Clients, Kept
    <3>4. ClientsTyped' /\ FlowOK'
      BY <3>1, <3>2 DEF ClientsTyped, FlowOK, Flows, Busy, Clients
    <3>5. LiveOK'
      BY <3>1, <3>2, <3>3 DEF LiveOK, ClientsTyped, Kept
    <3>6. AwaitedOK' /\ ClosedOK'
      BY <3>1, <3>2 DEF AwaitedOK, ClosedOK
    <3> QED BY <3>4, <3>5, <3>6
  <2> QED BY <2>1, <2>2
<1>5. CASE Listed(c)
  <2>1. /\ flow[c] = "list" /\ flow' = [flow EXCEPT ![c] = "latest"]
        /\ UNCHANGED <<closing, map, mcpConnecting, live, clientRetired, begun, history, pc, got,
                       clientRev>>
    BY <1>5 DEF Listed, hostVars, requestVars
  <2> QED BY <1>2, <2>1 DEF Busy, Flows, ClientsTyped
<1>6. ASSUME flow[c] \in {"list", "latest"}, Disconnected({c}),
             flow' = [flow EXCEPT ![c] = "failing"],
             UNCHANGED <<closing, map, mcpConnecting, begun, clientRev, pc, got, history>>
      PROVE  ClientsOK' /\ ClosedOK'
  <2>1. /\ \A d \in Clients : (live'[d] <=> live[d] /\ d # c)
        /\ \A d \in Clients : (clientRetired'[d] <=> clientRetired[d] \/ d = c)
        /\ live' \in [Clients -> BOOLEAN] /\ clientRetired' \in [Clients -> BOOLEAN]
    BY <1>6 DEF Disconnected
  <2>2. ClientsTyped' /\ FlowOK' /\ ClosedOK'
    BY <1>6, <2>1 DEF ClientsTyped, FlowOK, ClosedOK, Busy, Flows, Clients
  <2>4. LiveOK'
    BY <1>6, <2>1 DEF LiveOK, ClientsTyped, Kept
  <2>5. AwaitedOK'
    <3>1. \A y \in Requests : awaited[y] # 0 => awaited[y] \in Clients
      BY DEF ClientsTyped, Clients, HostAssumption
    <3> QED BY <1>6, <2>1, <3>1 DEF AwaitedOK
  <2> QED BY <2>2, <2>4, <2>5
<1>7. CASE ListFails(c)
  BY <1>6, <1>7 DEF ListFails, hostVars, requestVars
<1>8. CASE Publish(c)
  <2>1. CASE Stale(c) \/ ~file.on
    BY <1>6, <1>8, <2>1 DEF Publish, hostVars, requestVars
  <2>2. CASE ~(Stale(c) \/ ~file.on)
    <3>1. /\ flow[c] = "latest" /\ map' = c /\ Settle(c, "published") /\ ~closing
          /\ UNCHANGED <<closing, live, clientRetired, begun, clientRev, history>>
      BY <1>8, <2>2 DEF Publish, Stale, hostVars
    <3>2. /\ mcpConnecting = c /\ mcpConnecting' = 0 /\ got' = got
          /\ flow' = [flow EXCEPT ![c] = "published"]
          /\ \A r \in Requests :
               pc'[r] # pc[r] => pc[r] = "await" /\ pc'[r] \in {"have", "done"}
      BY <3>1, SettleMoves DEF FlowOK, Busy
    <3>3. \A d \in Kept : live[d] => d = c
      BY <1>a, <3>2 DEF LiveOK, FlowOK, Clients, Kept
    <3>4. ClientsTyped'
      BY <3>1, <3>2 DEF ClientsTyped, Flows, HostAssumption, Clients
    <3>5. FlowOK'
      <4>1. \A d \in Clients : flow'[d] \in Busy <=> mcpConnecting' = d
        BY <1>a, <3>1, <3>2 DEF FlowOK, ClientsTyped, Busy, Clients
      <4>2. \A d \in Clients : flow'[d] = "none" <=> d > begun'
        BY <1>a, <3>1, <3>2 DEF FlowOK, ClientsTyped
      <4>3. map' # 0 => flow'[map'] \in {"list", "latest", "failing", "published"}
        BY <3>1, <3>2 DEF ClientsTyped
      <4> QED BY <3>2, <4>1, <4>2, <4>3 DEF FlowOK
    <3>6. LiveOK'
      BY <3>1, <3>2, <3>3 DEF LiveOK, ClientsTyped, Kept
    <3>7. AwaitedOK' /\ ClosedOK'
      BY <3>1, <3>2 DEF AwaitedOK, ClosedOK
    <3> QED BY <3>4, <3>5, <3>6, <3>7
  <2> QED BY <2>1, <2>2
<1>9. CASE GiveUp(c)
  BY <1>1, <1>9 DEF GiveUp, hostVars
<1> QED BY <1>3, <1>4, <1>5, <1>7, <1>8, <1>9

\* A crash takes every process with it.
LEMMA CrashKeeps ==
  ASSUME ClientsOK, HostAssumption, Crash
  PROVE  ClientsOK' /\ ClosedOK' /\ DeadOK'
<1> USE DEF ClientsOK, history
<1>1. /\ map' = 0 /\ mcpConnecting' = 0 /\ ~closing'
      /\ flow' = [c \in Clients |-> IF flow[c] = "none" THEN "none" ELSE "failed"]
      /\ live' = [c \in Clients |-> FALSE]
      /\ pc' = [r \in Requests |-> IF pc[r] = "idle" THEN "idle" ELSE "done"]
      /\ UNCHANGED <<begun, clientRev, clientRetired, got, history>>
  BY DEF Crash
<1>2. ClientsTyped' /\ FlowOK'
  BY <1>1 DEF ClientsTyped, FlowOK, Busy, Flows, Clients, HostAssumption
<1>3. LiveOK'
  BY <1>1 DEF LiveOK, Kept
<1>4. AwaitedOK'
  BY <1>1 DEF AwaitedOK
<1>5. ClosedOK' /\ DeadOK'
  BY <1>1 DEF ClosedOK, DeadOK
<1> QED BY <1>2, <1>3, <1>4, <1>5

\* Nothing runs of a host that is down.
LEMMA DeadStep ==
  ASSUME RecordInv, ClientsOK, DeadOK, HostAssumption, Next
  PROVE  DeadOK'
<1>1. CASE up
  <2>1. CASE Crash
    BY <2>1, CrashKeeps
  <2>2. CASE ~Crash
    <3>1. up' = up
      BY <1>1, <2>2 DEF Next, Progress, Begin, BeginFails, FenceEnds, Save, SaveFails, Commit,
         CommitFails, RollBack, RollBackFails, Cancel, CancelEnds, Drop, Dropped, BringUp, Admit,
         Send, Answered, Close, Closed, LoadConfig, Build, Listed, ListFails, Publish, GiveUp,
         Start, Recover, RecoverFails, Arrive, AcknowledgeDrift, Edit
    <3> QED BY <1>1, <3>1 DEF DeadOK
  <2> QED BY <2>1, <2>2
<1>2. CASE ~up
  <2>1. /\ \A r \in Requests : pc[r] \in {"idle", "done"}
        /\ \A c \in Clients : flow[c] \notin Busy
    BY <1>2 DEF RecordInv, DownOK, DeadOK, ClientsOK, FlowOK, Clients
  <2>a. ASSUME NEW r \in Requests
        PROVE  ~(\/ Begin(r) \/ BeginFails(r) \/ FenceEnds(r) \/ Save(r) \/ SaveFails(r)
                 \/ Commit(r) \/ CommitFails(r) \/ RollBack(r) \/ RollBackFails(r)
                 \/ Cancel(r) \/ CancelEnds(r) \/ Drop(r) \/ Dropped(r) \/ BringUp(r)
                 \/ Admit(r) \/ Send(r) \/ Answered(r) \/ Close(r) \/ Closed(r)
                 \/ \E k \in Kinds : Arrive(r, k))
    BY <1>2, <2>1 DEF Begin, BeginFails, Turn, FenceEnds, Save, SaveFails, Commit,
       CommitFails, RollBack, RollBackFails, Cancel, CancelEnds, Drop, Dropped, BringUp, Admit,
       Send, Answered, Close, Closed, Arrive
  <2>b. ASSUME NEW c \in Clients
        PROVE  ~(\/ LoadConfig(c) \/ Build(c) \/ Listed(c) \/ ListFails(c) \/ Publish(c)
                 \/ GiveUp(c))
    BY <2>1 DEF LoadConfig, Build, Listed, ListFails, Publish, GiveUp, Busy
  <2>c. ~AcknowledgeDrift /\ ~Crash
    BY <1>2 DEF AcknowledgeDrift, Crash
  <2>2. Start \/ Recover \/ RecoverFails \/ Edit
    BY <2>a, <2>b, <2>c DEF Next, Progress
  <2>3. UNCHANGED <<mcpConnecting, live>>
    BY <2>2 DEF Start, Recover, RecoverFails, Edit, clientVars
  <2> QED BY <1>2, <2>3 DEF DeadOK
<1> QED BY <1>1, <1>2

-----------------------------------------------------------------------------
(* A disabling that stands: nothing comes up from what it replaced. *)

Disabled == by = "disable" /\ (file.rev = acked \/ (intent.target = "config" /\ intent.rev = acked))

Ending == {"cancel", "cancelling", "ending"}

\* What was disabled is off wherever it is kept.
OffOK ==
  by = "disable" =>
    /\ file.rev = acked => ~file.on
    /\ intent.target = "config" /\ intent.rev = acked => ~intent.on
    /\ \A x \in Els(left) : x.target = "config" /\ x.rev = acked => ~x.on

\* A client of what was replaced is one the disabling request still has to end.
DisabledOK ==
  Disabled => \A c \in Kept : clientRev[c] <= acked =>
    /\ live[c] /\ flow[c] = "published" =>
         \E r \in Requests : kind[r] = "disable" /\ pc[r] \in Ending
    /\ flow[c] \in {"build", "list", "latest"} =>
         \E r \in Requests :
           /\ kind[r] = "disable"
           /\ pc[r] = "cancel" \/ (pc[r] = "cancelling" /\ got[r] = c)

IInv == RecordInv /\ ClientsOK /\ ClosedOK /\ DeadOK /\ OffOK /\ DisabledOK

\* Who is off stays off: contents only move, with their number.
LEMMA OffStep ==
  ASSUME RecordInv, OffOK, Next
  PROVE  OffOK'
<1> USE DEF RecordInv, DataOK
<1>1. CASE UNCHANGED <<file, intent, left, acked, by>>
  BY <1>1 DEF OffOK
<1>2. CASE \E r \in Requests : Begin(r) /\ ~Refused(r)
  <2> PICK r \in Requests : Begin(r) /\ ~Refused(r)
    BY <1>2
  <2>1. intent' = Backup(r) /\ UNCHANGED <<file, left, acked, by>>
    BY DEF Begin, ackVars
  <2> QED BY <2>1, BackupTyped DEF OffOK
<1>3. CASE \E r \in Requests : BeginFails(r)
  <2> PICK r \in Requests : BeginFails(r)
    BY <1>3
  <2>1. left' \in {left, Append(left, Backup(r))} /\ UNCHANGED <<file, intent, acked, by>>
    BY DEF BeginFails, ackVars
  <2>2. \A x \in Els(left') : x \in Els(left) \/ x = Backup(r)
    <3>1. Backup(r) \in Intents /\ left \in Seq(Intents)
      BY BackupTyped
    <3>2. Els(Append(left, Backup(r))) = Els(left) \cup {Backup(r)}
      BY <3>1, ElsAppend
    <3> QED BY <2>1, <3>2
  <2> QED BY <2>1, <2>2, BackupTyped DEF OffOK
<1>4. CASE \E r \in Requests : Save(r)
  <2> PICK r \in Requests : Save(r)
    BY <1>4
  <2>1. /\ file' = file \/ file'.rev = revs + 1
        /\ UNCHANGED <<intent, left, acked, by>>
    BY DEF Save, logVars, ackVars
  <2>2. acked # revs + 1
    BY DEF RevsOK
  <2> QED BY <2>1, <2>2 DEF OffOK
<1>5. CASE \E r \in Requests : Commit(r)
  <2> PICK r \in Requests : Commit(r)
    BY <1>5
  <2>1. /\ intent' = NoIntent /\ UNCHANGED <<file, left>> /\ pc[r] = "commit"
        /\ \/ UNCHANGED <<acked, by>>
           \/ kind[r] # "rotate" /\ acked' = file.rev /\ by' = kind[r]
    BY DEF Commit, Acknowledge
  <2>2. CASE UNCHANGED <<acked, by>>
    BY <2>1, <2>2, NoIntentTyped DEF OffOK
  <2>3. CASE kind[r] # "rotate" /\ acked' = file.rev /\ by' = kind[r]
    <3>1. /\ file.rev = revs /\ (kind[r] = "disable" => ~file.on)
          /\ \A x \in Els(left) : x.rev # revs
      BY <2>1, <2>3 DEF WriterOK
    <3> QED BY <2>1, <2>3, <3>1, NoIntentTyped DEF OffOK
  <2> QED BY <2>1, <2>2, <2>3
<1>6. CASE \E r \in Requests : CommitFails(r)
  <2>1. intent' \in {intent, NoIntent} /\ UNCHANGED <<file, left, acked, by>>
    BY <1>6 DEF CommitFails, ackVars
  <2> QED BY <2>1, NoIntentTyped DEF OffOK
<1>7. CASE \E r \in Requests : RollBack(r) \/ RollBackFails(r)
  <2> PICK r \in Requests : RollBack(r) \/ RollBackFails(r)
    BY <1>7
  <2>1. /\ file' = file \/ Restore(intent)
        /\ intent' = NoIntent /\ UNCHANGED <<acked, by>>
        /\ left' = left \/ (left' = Append(left, intent))
    BY DEF RollBack, RollBackFails, ackVars
  <2>2. \A x \in Els(left') : x \in Els(left) \/ x = intent
    <3>1. Els(Append(left, intent)) = Els(left) \cup {intent}
      BY ElsAppend
    <3> QED BY <2>1, <3>1
  <2>3. file' = file \/ (/\ intent.target = "config" /\ file'.rev = intent.rev
                         /\ file'.on = intent.on)
    BY <2>1 DEF Restore
  <2> QED BY <2>1, <2>2, <2>3, NoIntentTyped DEF OffOK
<1>8. CASE Edit
  <2>1. file'.rev = revs + 1 /\ UNCHANGED <<intent, left, acked, by>>
    BY <1>8 DEF Edit, logVars, ackVars
  <2>2. acked # revs + 1
    BY DEF RevsOK
  <2> QED BY <2>1, <2>2 DEF OffOK
<1>9. CASE Recover \/ RecoverFails
  <2>1. /\ \/ left # <<>> /\ Restore(Head(left))
           \/ Restore(intent)
        /\ left' = left \/ (left # <<>> /\ left' = Tail(left))
        /\ intent' \in {intent, NoIntent} /\ UNCHANGED <<acked, by>>
    BY <1>9 DEF Recover, RecoverFails, ackVars
  <2>2. \A x \in Els(left') : x \in Els(left)
    BY <2>1, ElsTail
  <2>3. left # <<>> => Head(left) \in Els(left)
    BY ElsTail
  <2>4. \E x \in Els(left) \cup {intent} :
          file' = file \/ (x.target = "config" /\ file'.rev = x.rev /\ file'.on = x.on)
    BY <2>1, <2>3 DEF Restore
  <2> SUFFICES ASSUME by = "disable"
               PROVE  /\ file'.rev = acked => ~file'.on
                      /\ intent'.target = "config" /\ intent'.rev = acked => ~intent'.on
                      /\ \A x \in Els(left') : x.target = "config" /\ x.rev = acked => ~x.on
    BY <2>1 DEF OffOK
  <2>5. /\ file.rev = acked => ~file.on
        /\ \A x \in Els(left) \cup {intent} : x.target = "config" /\ x.rev = acked => ~x.on
    BY DEF OffOK
  <2>6. file'.rev = acked => ~file'.on
    BY <2>4, <2>5
  <2>7. intent'.target = "config" /\ intent'.rev = acked => ~intent'.on
    BY <2>1, <2>5, NoIntentTyped
  <2>8. \A x \in Els(left') : x.target = "config" /\ x.rev = acked => ~x.on
    <3> HIDE DEF RecordInv, DataOK
    <3> QED BY <2>2, <2>5
  <2> QED BY <2>6, <2>7, <2>8
<1>10. Next =>
         \/ UNCHANGED <<file, intent, left, acked, by>>
         \/ Edit \/ Recover \/ RecoverFails
         \/ \E r \in Requests : \/ Begin(r) /\ ~Refused(r)
                                \/ BeginFails(r) \/ Save(r) \/ Commit(r) \/ CommitFails(r)
                                \/ RollBack(r) \/ RollBackFails(r)
  <2> DEFINE Still == UNCHANGED <<file, intent, left, acked, by>>
  <2>1. ASSUME NEW r \in Requests,
               \/ Begin(r) /\ Refused(r)
               \/ FenceEnds(r) \/ SaveFails(r) \/ Cancel(r) \/ CancelEnds(r) \/ Drop(r)
               \/ Dropped(r) \/ BringUp(r) \/ Admit(r) \/ Send(r) \/ Answered(r) \/ Close(r)
               \/ Closed(r) \/ \E k \in Kinds : Arrive(r, k)
        PROVE  Still
    BY <2>1 DEF Begin, FenceEnds, SaveFails, Cancel, CancelEnds, Drop, Dropped, BringUp, Admit,
       Send, Answered, Close, Closed, Arrive, diskVars, logVars, ackVars
  <2>2. ASSUME NEW c \in Clients,
               \/ LoadConfig(c) \/ Build(c) \/ Listed(c) \/ ListFails(c) \/ Publish(c)
               \/ GiveUp(c)
        PROVE  Still
    BY <2>2 DEF LoadConfig, Build, Listed, ListFails, Publish, GiveUp, diskVars, logVars, ackVars
  <2>3. ASSUME AcknowledgeDrift \/ Crash \/ Start PROVE Still
    BY <2>3 DEF AcknowledgeDrift, Crash, Start, diskVars, logVars, ackVars
  <2> HIDE DEF Still
  <2>4. Next =>
          \/ Still
          \/ Edit \/ Recover \/ RecoverFails
          \/ \E r \in Requests : \/ Begin(r) /\ ~Refused(r)
                                 \/ BeginFails(r) \/ Save(r) \/ Commit(r) \/ CommitFails(r)
                                 \/ RollBack(r) \/ RollBackFails(r)
    BY <2>1, <2>2, <2>3 DEF Next, Progress
  <2> QED BY <2>4 DEF Still
<1> QED BY <1>1, <1>2, <1>3, <1>4, <1>5, <1>6, <1>7, <1>8, <1>9, <1>10

\* A step that disables nothing, brings nothing up and ends no cancel.
LEMMA DisabledFrame ==
  ASSUME DisabledOK, Disabled' => Disabled,
         acked' = acked, clientRev' = clientRev, Kept' \subseteq Kept,
         \A c \in Clients :
           /\ live'[c] /\ flow'[c] = "published" => live[c] /\ flow[c] = "published"
           /\ flow'[c] \in {"build", "list", "latest"} => flow[c] \in {"build", "list", "latest"},
         \A r \in Requests : pc[r] \in Ending =>
           kind'[r] = kind[r] /\ pc'[r] = pc[r] /\ got'[r] = got[r]
  PROVE  DisabledOK'
<1> SUFFICES ASSUME Disabled', NEW c \in Kept', clientRev[c] <= acked
             PROVE  /\ live'[c] /\ flow'[c] = "published" =>
                         \E r \in Requests : kind'[r] = "disable" /\ pc'[r] \in Ending
                    /\ flow'[c] \in {"build", "list", "latest"} =>
                         \E r \in Requests :
                           /\ kind'[r] = "disable"
                           /\ pc'[r] = "cancel" \/ (pc'[r] = "cancelling" /\ got'[r] = c)
  BY DEF DisabledOK
<1>1. Disabled /\ c \in Kept /\ c \in Clients
  BY DEF Kept
<1>2. live'[c] /\ flow'[c] = "published" =>
        \E r \in Requests : kind[r] = "disable" /\ pc[r] \in Ending
  BY <1>1 DEF DisabledOK
<1>3. flow'[c] \in {"build", "list", "latest"} =>
         \E r \in Requests :
           /\ kind[r] = "disable"
           /\ pc[r] = "cancel" \/ (pc[r] = "cancelling" /\ got[r] = c)
  BY <1>1 DEF DisabledOK
<1> QED BY <1>2, <1>3 DEF Ending

\* A disabling keeps its word, step by step: first the writes.
LEMMA WritesHoldDisabled ==
  ASSUME IInv, HostAssumption,
         \/ \E r \in Requests : \/ Begin(r) \/ BeginFails(r) \/ Save(r) \/ SaveFails(r)
                                \/ Commit(r) \/ CommitFails(r) \/ RollBack(r) \/ RollBackFails(r)
         \/ Edit
  PROVE  DisabledOK'
<1> USE DEF IInv, RecordInv, DataOK
<1>1. CASE \E r \in Requests : Begin(r)
  <2> PICK r \in Requests : Begin(r)
    BY <1>1
  <2>1. /\ pc[r] = "turn" /\ intent' \in {intent, Backup(r)}
        /\ UNCHANGED <<file, acked, by, flow, clientRev, kind, got, lost>>
        /\ \E x \in {"done", "write", "fenced"} : pc' = [pc EXCEPT ![r] = x]
    BY DEF Begin, Turn, Fence, To, ackVars
  <2>2. \A c \in Clients : live'[c] => live[c]
    BY DEF Begin, Fence, Disconnected
  <2>3. Disabled' => Disabled
    BY <2>1, BackupTyped DEF Disabled
  <2> QED BY <2>1, <2>2, <2>3, DisabledFrame DEF Ending, Kept
<1>2. CASE \E r \in Requests : BeginFails(r) \/ Save(r) \/ SaveFails(r) \/ CommitFails(r)
                               \/ RollBack(r) \/ RollBackFails(r)
  <2> PICK r \in Requests : BeginFails(r) \/ Save(r) \/ SaveFails(r) \/ CommitFails(r)
                            \/ RollBack(r) \/ RollBackFails(r)
    BY <1>2
  <2>1. /\ pc[r] \in {"turn", "write", "commit", "abort"}
        /\ UNCHANGED <<acked, by, clientVars, kind, got, lost>>
        /\ \E x \in {"done", "commit", "abort"} : pc' = [pc EXCEPT ![r] = x]
    BY DEF BeginFails, Turn, Save, SaveFails, CommitFails, RollBack, RollBackFails, To,
           diskVars, ackVars, history
  <2>2. /\ intent' \in {intent, NoIntent}
        /\ file' = file \/ file'.rev = revs + 1 \/ Restore(intent)
    BY DEF BeginFails, Save, SaveFails, CommitFails, RollBack, RollBackFails, diskVars, logVars
  <2>3. file'.rev = acked =>
          file.rev = acked \/ (intent.target = "config" /\ intent.rev = acked)
    BY <2>2 DEF Restore, RevsOK
  <2>4. Disabled' => Disabled
    BY <2>1, <2>2, <2>3, NoIntentTyped DEF Disabled
  <2> QED BY <2>1, <2>4, DisabledFrame DEF Ending, Kept, clientVars
<1>3. CASE \E r \in Requests : Commit(r)
  <2> PICK r \in Requests : Commit(r)
    BY <1>3
  <2>1. /\ pc[r] = "commit" /\ intent' = NoIntent
        /\ UNCHANGED <<file, clientVars, lost, kind, got>>
        /\ \/ kind[r] = "rotate" /\ UNCHANGED <<acked, by>>
           \/ kind[r] # "rotate" /\ by' = kind[r]
        /\ To(r, IF kind[r] = "rotate" /\ ~file.on THEN "done" ELSE AfterWrite(kind[r]))
    BY DEF Commit, Acknowledge, history
  <2>2. CASE kind[r] = "rotate"
    <3>1. Disabled' => Disabled
      BY <2>1, <2>2, NoIntentTyped DEF Disabled
    <3>2. \A x \in Requests \ {r} : pc'[x] = pc[x]
      BY <2>1 DEF To
    <3> QED BY <2>1, <2>2, <3>1, <3>2, DisabledFrame DEF Ending, Kept, clientVars
  <2>3. CASE kind[r] = "disable"
    <3>1. kind'[r] = "disable" /\ pc'[r] = "cancel"
      BY <2>1, <2>3 DEF To, AfterWrite
    <3> QED BY <3>1 DEF DisabledOK, Ending
  <2>4. CASE kind[r] \notin {"rotate", "disable"}
    BY <2>1, <2>4 DEF DisabledOK, Disabled
  <2> QED BY <2>2, <2>3, <2>4
<1>4. CASE Edit
  <2>1. /\ file'.rev = revs + 1
        /\ UNCHANGED <<intent, acked, by, clientVars, lost, kind, pc, got>>
    BY <1>4 DEF Edit, logVars, ackVars, history, requestVars
  <2>2. Disabled' => Disabled
    BY <2>1 DEF Disabled, RevsOK
  <2> QED BY <2>1, <2>2, DisabledFrame DEF Kept, clientVars
<1> QED BY <1>1, <1>2, <1>3, <1>4

\* Who cancels, and who brings up, ...
LEMMA CancelsHoldDisabled ==
  ASSUME IInv, HostAssumption, NEW r \in Requests,
         Cancel(r) \/ CancelEnds(r) \/ Drop(r)
  PROVE  DisabledOK'
<1> USE DEF IInv, RecordInv, DataOK, ClientsOK
<1>1. /\ UNCHANGED <<file, intent, acked, by, flow, clientRev, map, mcpConnecting, begun, lost, kind>>
      /\ pc[r] \in {"cancel", "cancelling", "ending"}
  BY DEF Cancel, CancelEnds, Drop, diskVars, logVars, ackVars
<1>2. Disabled' <=> Disabled
  BY <1>1 DEF Disabled
<1>3. kind[r] \in {"disable", "delete", "reconnect", "rotate"}
  BY <1>1 DEF KindsOK, Cancelling
<1>4. \A c \in Clients : flow[c] \in {"build", "list", "latest"} => mcpConnecting = c /\ c # 0
  BY DEF FlowOK, Busy, Clients
<1>5. ASSUME DropMap(r), got' = got,
             pc[r] = "cancel" => mcpConnecting = 0,
             pc[r] = "cancelling" => flow[got[r]] \in {"published", "failed"}
      PROVE  DisabledOK'
  <2>1. /\ \A c \in Clients : live'[c] => live[c] /\ c # map
        /\ \E x \in {"turn", "publish", "done", "dropping"} : pc' = [pc EXCEPT ![r] = x]
    BY <1>1, <1>3, <1>5, DropKeeps DEF ClientsTyped
  <2>2. \A c \in Kept : ~(live'[c] /\ flow[c] = "published")
    <3>1. \A c \in Kept : live[c] /\ flow[c] = "published" => c = map
      BY DEF LiveOK, FlowOK, Busy, Kept
    <3> QED BY <2>1, <3>1 DEF Kept
  <2> SUFFICES ASSUME Disabled, NEW c \in Kept, clientRev[c] <= acked,
                      flow[c] \in {"build", "list", "latest"}
               PROVE  \E y \in Requests :
                        /\ kind[y] = "disable"
                        /\ pc'[y] = "cancel" \/ (pc'[y] = "cancelling" /\ got[y] = c)
    BY <1>1, <1>2, <1>5, <2>2 DEF DisabledOK, Kept
  <2>3. PICK y \in Requests : /\ kind[y] = "disable"
                              /\ pc[y] = "cancel" \/ (pc[y] = "cancelling" /\ got[y] = c)
    BY DEF DisabledOK
  <2>4. y # r
    <3>1. mcpConnecting = c /\ c # 0
      BY <1>4 DEF Kept
    <3> QED BY <1>5, <2>3, <3>1
  <2> QED BY <2>1, <2>3, <2>4
<1>6. CASE Cancel(r)
  <2>1. CASE mcpConnecting # 0
    <3>1. /\ pc[r] = "cancel" /\ pc' = [pc EXCEPT ![r] = "cancelling"] /\ live' = live
          /\ got' = [got EXCEPT ![r] = mcpConnecting]
      BY <1>6, <2>1 DEF Cancel, To
    <3> SUFFICES ASSUME Disabled, NEW c \in Kept, clientRev[c] <= acked
                 PROVE  /\ live[c] /\ flow[c] = "published" =>
                             \E y \in Requests : kind[y] = "disable" /\ pc'[y] \in Ending
                        /\ flow[c] \in {"build", "list", "latest"} =>
                             \E y \in Requests :
                               /\ kind[y] = "disable"
                               /\ pc'[y] = "cancel" \/ (pc'[y] = "cancelling" /\ got'[y] = c)
      BY <1>1, <1>2, <3>1 DEF DisabledOK, Kept
    <3>2. \A y \in Requests : pc[y] \in Ending => pc'[y] \in Ending
      BY <3>1 DEF Ending
    <3>3. flow[c] \in {"build", "list", "latest"} => mcpConnecting = c
      BY <1>4 DEF Kept
    <3>4. \A y \in Requests :
            pc[y] = "cancel" \/ (pc[y] = "cancelling" /\ got[y] = c) =>
              \/ pc'[y] = "cancel"
              \/ pc'[y] = "cancelling" /\ got'[y] \in {c, mcpConnecting}
      BY <3>1 DEF ClientsTyped
    <3>5. /\ live[c] /\ flow[c] = "published" =>
               \E y \in Requests : kind[y] = "disable" /\ pc[y] \in Ending
          /\ flow[c] \in {"build", "list", "latest"} =>
               \E y \in Requests :
                 /\ kind[y] = "disable"
                 /\ pc[y] = "cancel" \/ (pc[y] = "cancelling" /\ got[y] = c)
      BY DEF DisabledOK
    <3> QED BY <3>2, <3>3, <3>4, <3>5
  <2>2. CASE mcpConnecting = 0
    BY <1>5, <1>6, <2>2 DEF Cancel
  <2> QED BY <2>1, <2>2
<1>7. CASE CancelEnds(r) /\ flow[got[r]] = "published"
  <2>1. /\ pc[r] = "cancelling" /\ pc' = [pc EXCEPT ![r] = "ending"] /\ got' = got
        /\ \A c \in Clients : live'[c] => live[c]
    BY <1>7 DEF CancelEnds, To, Disconnected
  <2> SUFFICES ASSUME Disabled, NEW c \in Kept, clientRev[c] <= acked
               PROVE  /\ live'[c] /\ flow[c] = "published" =>
                           \E y \in Requests : kind[y] = "disable" /\ pc'[y] \in Ending
                      /\ flow[c] \in {"build", "list", "latest"} =>
                           \E y \in Requests :
                             /\ kind[y] = "disable"
                             /\ pc'[y] = "cancel" \/ (pc'[y] = "cancelling" /\ got[y] = c)
    BY <1>1, <1>2, <2>1 DEF DisabledOK, Kept
  <2>2. \A y \in Requests : pc[y] \in Ending => pc'[y] \in Ending
    BY <2>1 DEF Ending
  <2>3. \A y \in Requests : /\ flow[c] \in {"build", "list", "latest"}
                            /\ pc[y] = "cancel" \/ (pc[y] = "cancelling" /\ got[y] = c)
                            => pc'[y] = pc[y]
    BY <1>7, <2>1
  <2> QED BY <2>1, <2>2, <2>3 DEF DisabledOK, Kept
<1>8. CASE CancelEnds(r) /\ flow[got[r]] # "published"
  BY <1>5, <1>8 DEF CancelEnds
<1>9. CASE Drop(r)
  BY <1>5, <1>9 DEF Drop
<1> QED BY <1>6, <1>7, <1>8, <1>9

\* ... the other requests, ...
LEMMA RequestsHoldDisabled ==
  ASSUME IInv, HostAssumption, NEW r \in Requests,
         \/ FenceEnds(r) \/ Dropped(r) \/ BringUp(r) \/ Admit(r)
         \/ Send(r) \/ Answered(r) \/ Close(r) \/ Closed(r)
         \/ \E k \in Kinds : Arrive(r, k)
  PROVE  DisabledOK'
<1> USE DEF IInv, RecordInv, DataOK, ClientsOK
<1>1. CASE BringUp(r) \/ Admit(r)
  <2>1. /\ UNCHANGED <<file, intent, acked, by, kind, lost>> /\ pc[r] \in {"publish", "admit"}
        /\ \/ (\E barred : Ensure(r, barred)) /\ UNCHANGED awaited
           \/ /\ UNCHANGED <<flow, clientRev>>
              /\ \A c \in Clients : live'[c] => live[c]
              /\ \E x \in {"done", "fenced"} : pc' = [pc EXCEPT ![r] = x]
              /\ got' = got
    BY <1>1 DEF BringUp, Admit, Fence, To, Disconnected, diskVars, logVars, ackVars, clientVars,
                history
  <2>2. Disabled' <=> Disabled
    BY <2>1 DEF Disabled
  <2>3. CASE (\E barred : Ensure(r, barred)) /\ UNCHANGED awaited
    <3> PICK barred : Ensure(r, barred)
      BY <2>3
    <3>1. \E x \in {"have", "await", "done"} : pc' = [pc EXCEPT ![r] = x]
      BY EnsureMoves DEF To
    <3>2. \E n : got' = [got EXCEPT ![r] = n]
      <4>1. got = [got EXCEPT ![r] = got[r]]
        BY DEF ClientsTyped
      <4> QED BY <4>1 DEF Ensure
    <3>3. /\ clientRev' = clientRev
          /\ \A c \in Clients : live'[c] => live[c]
          /\ \A c \in Clients : flow'[c] # flow[c] => flow'[c] = "load"
      BY <2>1, <2>3, EnsureKeeps DEF history
    <3> QED BY <2>1, <2>2, <3>1, <3>2, <3>3, DisabledFrame DEF Ending, ClientsTyped, Kept
  <2> QED BY <2>1, <2>2, <2>3, DisabledFrame DEF Ending, Kept
<1>2. CASE \/ FenceEnds(r) \/ Dropped(r) \/ Send(r) \/ Answered(r) \/ Close(r) \/ Closed(r)
           \/ \E k \in Kinds : Arrive(r, k)
  <2>1. /\ UNCHANGED <<file, intent, acked, by, flow, clientRev, got>>
        /\ \A c \in Clients : live'[c] => live[c]
    BY <1>2 DEF FenceEnds, Dropped, Send, Answered, Close, Closed, Arrive, Disconnected,
                diskVars, logVars, ackVars, hostVars, clientVars
  <2>2. /\ pc[r] \notin Ending
        /\ \A x \in Requests \ {r} : pc'[x] = pc[x] /\ kind'[x] = kind[x]
    BY <1>2 DEF FenceEnds, Dropped, AfterDrop, Send, Answered, Close, Closed, Arrive, To, Ending,
                Kinds, Writes
  <2>3. Kept' \subseteq Kept
    BY <1>2 DEF FenceEnds, Dropped, KeyDeleted, Send, Answered, Close, Closed, Arrive, history, Kept
  <2>4. Disabled' => Disabled
    BY <2>1 DEF Disabled
  <2> QED BY <2>1, <2>2, <2>3, <2>4, DisabledFrame
<1> QED BY <1>1, <1>2

\* ... the connections, ...
LEMMA ConnectionsHoldDisabled ==
  ASSUME IInv, HostAssumption, NEW c \in Clients,
         \/ LoadConfig(c) \/ Build(c) \/ Listed(c) \/ ListFails(c) \/ Publish(c) \/ GiveUp(c)
  PROVE  DisabledOK'
<1> USE DEF IInv, RecordInv, DataOK, ClientsOK
<1>1. CASE LoadConfig(c) /\ file.on
  <2>1. /\ flow[c] = "load" /\ flow' = [flow EXCEPT ![c] = "build"]
        /\ clientRev' = [clientRev EXCEPT ![c] = file.rev]
        /\ UNCHANGED <<file, intent, acked, by, live, kind, pc, got, lost>>
    BY <1>1 DEF LoadConfig, diskVars, logVars, ackVars, requestVars, history
  <2>2. Disabled => file.rev > acked
    <3>1. up
      BY <2>1 DEF DeadOK, FlowOK, Busy, Clients
    <3> QED BY <1>1, <3>1 DEF OffOK, Disabled, RevsOK, Contents, Intents
  <2>3. /\ clientRev'[c] = file.rev
        /\ \A d \in Clients \ {c} : clientRev'[d] = clientRev[d] /\ flow'[d] = flow[d]
    BY <2>1 DEF ClientsTyped
  <2>4. Disabled' => Disabled
    BY <2>1 DEF Disabled
  <2>5. file.rev \in Nat
    BY DEF Contents
  <2>6. \A d \in Kept' : d # c => d \in Kept /\ d \in Clients \ {c}
    BY <2>1 DEF Kept
  <2> QED BY <2>1, <2>2, <2>3, <2>4, <2>5, <2>6 DEF DisabledOK
<1>2. CASE Publish(c) /\ ~Stale(c) /\ file.on
  <2>1. /\ flow[c] = "latest" /\ Settle(c, "published")
        /\ UNCHANGED <<file, intent, acked, by, live, clientRev, lost>>
    BY <1>2 DEF Publish, diskVars, logVars, ackVars, history
  <2>2. /\ UNCHANGED <<kind, got>> /\ flow' = [flow EXCEPT ![c] = "published"]
        /\ \A r \in Requests :
             pc'[r] # pc[r] => pc[r] = "await" /\ pc'[r] \in {"have", "done"}
    BY <2>1, SettleMoves
  <2>3. \A r \in Requests : pc[r] \in Ending => pc'[r] = pc[r]
    BY <2>2 DEF Ending
  <2>4. \A d \in Clients : /\ flow'[d] = "published" => flow[d] \in {"latest", "published"}
                           /\ flow'[d] \in {"build", "list", "latest"} => flow'[d] = flow[d]
    BY <2>1, <2>2 DEF ClientsTyped
  <2>5. ASSUME Disabled, NEW d \in Kept, clientRev[d] <= acked
        PROVE  /\ live[d] /\ flow[d] \in {"latest", "published"} =>
                    \E r \in Requests : kind[r] = "disable" /\ pc[r] \in Ending
               /\ flow[d] \in {"build", "list", "latest"} =>
                    \E r \in Requests :
                      /\ kind[r] = "disable" /\ pc[r] \in Ending
                      /\ pc[r] = "cancel" \/ (pc[r] = "cancelling" /\ got[r] = d)
    BY <2>5 DEF DisabledOK, Ending
  <2>6. ASSUME Disabled, NEW d \in Kept, clientRev[d] <= acked
        PROVE  /\ live'[d] /\ flow'[d] = "published" =>
                    \E r \in Requests : kind'[r] = "disable" /\ pc'[r] \in Ending
               /\ flow'[d] \in {"build", "list", "latest"} =>
                    \E r \in Requests :
                      /\ kind'[r] = "disable"
                      /\ pc'[r] = "cancel" \/ (pc'[r] = "cancelling" /\ got'[r] = d)
    <3>1. d \in Clients
      BY DEF Kept
    <3> QED BY <2>1, <2>2, <2>3, <2>4, <2>5, <2>6, <3>1
  <2>7. Disabled' <=> Disabled
    BY <2>1 DEF Disabled
  <2> QED BY <2>1, <2>6, <2>7 DEF DisabledOK, Kept
<1>3. CASE \/ LoadConfig(c) /\ ~file.on
           \/ Build(c) \/ Listed(c) \/ ListFails(c) \/ GiveUp(c)
           \/ Publish(c) /\ (Stale(c) \/ ~file.on)
  <2>1. UNCHANGED <<file, intent, acked, by, clientRev, lost>>
    BY <1>3 DEF LoadConfig, Build, Listed, ListFails, GiveUp, Publish, diskVars, logVars, ackVars,
                history
  <2>2. \/ flow[c] \in Busy /\ Settle(c, "failed") /\ UNCHANGED live
        \/ /\ UNCHANGED <<kind, pc, got>>
           /\ \/ flow[c] = "build" /\ flow' = [flow EXCEPT ![c] = "list"]
                 /\ live' = [live EXCEPT ![c] = TRUE]
              \/ flow[c] = "list" /\ flow' = [flow EXCEPT ![c] = "latest"] /\ UNCHANGED live
              \/ flow' = [flow EXCEPT ![c] = "failing"] /\ Disconnected({c})
    BY <1>3 DEF LoadConfig, Build, Listed, ListFails, GiveUp, Publish, requestVars, Busy
  <2>3. /\ UNCHANGED <<kind, got>>
        /\ \A r \in Requests :
             pc'[r] # pc[r] => pc[r] = "await" /\ pc'[r] \in {"have", "done"}
        /\ \A d \in Clients :
             /\ live'[d] /\ flow'[d] = "published" => live[d] /\ flow[d] = "published"
             /\ flow'[d] \in {"build", "list", "latest"} =>
                  flow[d] \in {"build", "list", "latest"}
    BY <2>2, SettleMoves DEF Disconnected, ClientsTyped
  <2>4. Disabled' => Disabled
    BY <2>1 DEF Disabled
  <2> QED BY <2>1, <2>3, <2>4, DisabledFrame DEF Ending, Kept
<1> QED BY <1>1, <1>2, <1>3

\* ... and the rest.
LEMMA OutsideHoldsDisabled ==
  ASSUME IInv, HostAssumption, DeadOK',
         AcknowledgeDrift \/ Crash \/ Start \/ Recover \/ RecoverFails
  PROVE  DisabledOK'
<1> USE DEF IInv, ClientsOK
<1>1. CASE AcknowledgeDrift
  <2>1. UNCHANGED <<file, intent, acked, by, clientVars, lost, kind, pc, got>>
    BY <1>1 DEF AcknowledgeDrift, diskVars, logVars, ackVars, history, requestVars
  <2> QED BY <2>1, DisabledFrame DEF clientVars, Kept, Disabled
<1>2. CASE Crash
  <2>1. flow' = [c \in Clients |-> IF flow[c] = "none" THEN "none" ELSE "failed"]
    BY <1>2 DEF Crash
  <2> QED BY <2>1 DEF DisabledOK, Kept
<1>3. CASE Start \/ Recover \/ RecoverFails
  <2>1. /\ ~up /\ UNCHANGED <<clientVars, mcpConnecting>>
    BY <1>3 DEF Start, Recover, RecoverFails
  <2>2. \A c \in Clients : ~live'[c] /\ flow'[c] \notin {"build", "list", "latest"}
    BY <2>1 DEF DeadOK, FlowOK, Busy, Clients, clientVars
  <2> QED BY <2>2 DEF DisabledOK, Kept
<1> QED BY <1>1, <1>2, <1>3

\* IInv is an invariant of the host: whatever is published or dropped while the
\* disconnect of a replaced client is awaited, only the key deleted over another's
\* client lets a process go.
THEOREM Invariance ==
  ASSUME HostAssumption
  PROVE  Spec => []IInv
<1>1. Init => IInv
  <2> SUFFICES ASSUME Init PROVE ClientsOK /\ ClosedOK /\ DeadOK /\ OffOK /\ DisabledOK
    BY RecordStart DEF IInv
  <2>1. /\ begun \in 0..MaxClients /\ begun \in 0..1 /\ map = begun /\ mcpConnecting = 0
        /\ flow = [c \in Clients |-> IF c = begun THEN "published" ELSE "none"]
        /\ clientRev = [c \in Clients |-> IF c = begun THEN 1 ELSE 0]
        /\ live = [c \in Clients |-> c = begun] /\ clientRetired = [c \in Clients |-> FALSE]
        /\ pc = [r \in Requests |-> "idle"] /\ got = [r \in Requests |-> 0]
        /\ awaited = [r \in Requests |-> 0]
        /\ closing = FALSE /\ by = "none" /\ up = TRUE
    BY DEF Init
  <2>2. ClientsTyped
    BY <2>1 DEF ClientsTyped, Flows, HostAssumption
  <2>3. FlowOK
    BY <2>1 DEF FlowOK, Busy, Clients
  <2>4. LiveOK /\ AwaitedOK
    BY <2>1 DEF LiveOK, AwaitedOK, Kept
  <2>5. ClosedOK /\ DeadOK /\ OffOK /\ DisabledOK
    BY <2>1 DEF ClosedOK, DeadOK, OffOK, DisabledOK, Disabled
  <2> QED BY <2>2, <2>3, <2>4, <2>5 DEF ClientsOK
<1>2. IInv /\ [Next]_vars => IInv'
  <2> SUFFICES ASSUME IInv, [Next]_vars PROVE IInv'
    OBVIOUS
  <2>1. RecordInv'
    BY RecordStep DEF IInv
  <2>2. CASE Next
    <3>1. ClientsOK' /\ ClosedOK'
      BY <2>2, OnlookersKeep, FencersKeep, ConnectionsKeep, CrashKeeps DEF Next, Progress, IInv
    <3>2. DeadOK' /\ OffOK'
      BY <2>2, DeadStep, OffStep DEF IInv
    <3>3. DisabledOK'
      BY <2>2, <3>2, WritesHoldDisabled, CancelsHoldDisabled, RequestsHoldDisabled,
         ConnectionsHoldDisabled, OutsideHoldsDisabled DEF Next, Progress
    <3> QED BY <2>1, <3>1, <3>2, <3>3 DEF IInv
  <2>3. CASE UNCHANGED vars
    <3>1. UNCHANGED <<diskVars, up, closing, map, mcpConnecting, clientVars, history, requestVars>>
      BY <2>3 DEF vars, hostVars
    <3>2. ClientsOK'
      BY <3>1, ClientsFrame DEF IInv, ClientsOK, ClientsTyped, requestVars
    <3>3. ClosedOK' /\ DeadOK' /\ OffOK'
      BY <3>1 DEF IInv, ClosedOK, DeadOK, OffOK, diskVars, logVars, ackVars, clientVars, requestVars
    <3>4. DisabledOK'
      BY <3>1, DisabledFrame DEF IInv, Disabled, Kept, diskVars, logVars, ackVars, clientVars,
         history, requestVars
    <3> QED BY <2>1, <3>2, <3>3, <3>4 DEF IInv
  <2> QED BY <2>2, <2>3
<1> QED BY <1>1, <1>2, PTL DEF Spec

\* The server has one process at most, whoever fences, cancels or brings it up,
\* but for a client whose key another's end deleted (ensureMcpServer,
\* fenceWorkspace, cancelMcpConnection).
THEOREM OneServerProcess ==
  ASSUME HostAssumption
  PROVE  Spec => []OneKept
<1>1. IInv => OneKept
  <2> SUFFICES ASSUME IInv, NEW c \in Kept, NEW d \in Kept, live[c], live[d]
               PROVE  c = d
    BY DEF OneKept
  <2>1. c \in Clients /\ d \in Clients
    BY DEF Kept
  <2>2. mcpConnecting # 0 => map \in {0, mcpConnecting}
    BY DEF IInv, ClientsOK, FlowOK
  <2>3. (c = map \/ c = mcpConnecting) /\ (d = map \/ d = mcpConnecting)
    BY DEF IInv, ClientsOK, LiveOK
  <2>4. 0 \notin Clients
    BY DEF Clients
  <2> QED BY <2>1, <2>2, <2>3, <2>4
<1> QED BY <1>1, Invariance, PTL

\* Nothing under way, a server that was disabled runs nothing of what the
\* disabling replaced, and a closed host nothing at all, with the same exception
\* (POST disable, close).
THEOREM DisablingHolds ==
  ASSUME HostAssumption
  PROVE  Spec => []DisabledKeepsNone
<1>1. IInv => DisabledKeepsNone
  <2> SUFFICES ASSUME IInv, Quiet PROVE DisabledKeepsNone
    BY DEF DisabledKeepsNone
  <2>1. mcpConnecting = 0 /\ \A c \in Kept : live[c] => c = map
    BY DEF Quiet, IInv, ClientsOK, LiveOK, Clients, Kept
  <2>2. closing => \A c \in Kept : ~live[c]
    BY <2>1 DEF IInv, ClosedOK, Quiet, Clients, Kept
  <2>3. \A c \in Kept : live[c] => flow[c] = "published"
    BY <2>1 DEF IInv, ClientsOK, FlowOK, LiveOK, Busy, Clients, Kept
  <2>4. Disabled => \A c \in Kept : live[c] => ~(clientRev[c] <= acked)
    BY <2>3 DEF IInv, DisabledOK, Ending, Quiet
  <2>5. acked \in Nat /\ \A c \in Kept : clientRev[c] \in Nat
    BY DEF IInv, RecordInv, DataOK, ClientsOK, ClientsTyped, Kept
  <2>6. file.rev = acked /\ by = "disable" => \A c \in Kept : live[c] => clientRev[c] > acked
    BY <2>4, <2>5 DEF Disabled
  <2> QED BY <2>2, <2>6 DEF DisabledKeepsNone
<1> QED BY <1>1, Invariance, PTL

-----------------------------------------------------------------------------
(***************************************************************************)
(* The client of one server (McpClient).                                   *)
(***************************************************************************)
AtStates == {"idle", "connecting", "sent", "hook", "stopping", "done"}

-----------------------------------------------------------------------------
(* The inductive invariant. *)

TypesOK ==
  /\ built \in 0..MaxTransports /\ transport \in 0..built /\ connecting \in 0..built
  /\ child \in [Transports -> {"none", "up", "gone"}]
  /\ at \in [Users -> AtStates]
  /\ disconnection \in {"none", "stopping", "done"}
  /\ forgotten \subseteq Transports

\* The provers take Booleans apart from the rest.
FlagsOK == stopped \in [Transports -> BOOLEAN] /\ retired \in BOOLEAN

\* What is stopped does not run, and what was not built was never started.
StoppedIsDown ==
  /\ \A t \in Transports : stopped[t] => child[t] # "up"
  /\ \A t \in Transports : t > built => child[t] = "none"

\* A connection that is being made is the current one, unless it was stopped
\* or let go of by a recovery.
ConnectingIsCurrent ==
  connecting # 0 =>
    /\ transport \in {connecting, 0}
    /\ transport = connecting \/ stopped[connecting] \/ connecting \in forgotten

\* While disconnect() awaits a stop(), the transport is one that was stopped.
AwaitsStop == disconnection # "none" => transport = 0 \/ stopped[transport]

\* Once fenced, a client builds no transport; once disconnected it has none.
FencedStays ==
  /\ disconnection # "none" => retired
  /\ disconnection = "done" => transport = 0

ClientInv ==
  /\ TypesOK /\ FlagsOK
  /\ OrphansAreForgotten /\ StoppedIsDown /\ ConnectingIsCurrent /\ AwaitsStop /\ FencedStays

-----------------------------------------------------------------------------
(* What the steps do to the transports. *)

\* Nothing is built or started; what is let go of was stopped or is recorded.
Winds ==
  /\ built' = built
  /\ child' \in [Transports -> {"none", "up", "gone"}]
  /\ stopped' \in [Transports -> BOOLEAN]
  /\ \A t \in Transports :
       /\ stopped[t] => stopped'[t]
       /\ stopped'[t] => child'[t] # "up"
       /\ child'[t] = "up" => child[t] = "up"
       /\ child[t] = "none" => child'[t] = "none"
  /\ forgotten \subseteq forgotten' /\ forgotten' \subseteq Transports
  /\ \/ transport' = transport
     \/ transport' = 0 /\ (transport = 0 \/ stopped'[transport] \/ transport \in forgotten')
  /\ connecting' \in {connecting, 0}

LEMMA WindsKeeps ==
  ASSUME ClientAssumption, ClientInv, Winds, at' \in [Users -> AtStates],
         disconnection' \in {"none", "stopping", "done"}, retired' \in BOOLEAN,
         disconnection' # "none" => retired', disconnection' = "done" => transport' = 0,
         disconnection' # "none" => transport' = 0 \/ stopped'[transport']
  PROVE  ClientInv'
<1>1. TypesOK'
  BY DEF ClientInv, TypesOK, Winds
<1>2. FlagsOK'
  BY DEF Winds, FlagsOK
<1>3. transport \in Transports \/ transport = 0
  BY DEF ClientInv, TypesOK, Transports, ClientAssumption
<1>4. OrphansAreForgotten'
  <2> SUFFICES ASSUME NEW t \in Transports, child'[t] = "up", ~stopped'[t]
               PROVE  t = transport' \/ t \in forgotten'
    BY DEF OrphansAreForgotten
  <2>1. (t = transport \/ t \in forgotten) /\ t # 0
    BY DEF ClientInv, OrphansAreForgotten, Winds, Transports
  <2> QED BY <2>1 DEF Winds
<1>5. StoppedIsDown'
  BY DEF ClientInv, StoppedIsDown, Winds
<1>6. ConnectingIsCurrent'
  <2>1. connecting \in Transports \/ connecting = 0
    BY DEF ClientInv, TypesOK, Transports, ClientAssumption
  <2> QED BY <2>1 DEF ClientInv, ConnectingIsCurrent, Winds
<1>7. AwaitsStop'
  BY DEF AwaitsStop
<1>8. FencedStays'
  BY DEF FencedStays
<1> QED BY <1>1, <1>2, <1>4, <1>5, <1>6, <1>7, <1>8 DEF ClientInv

\* The same for a step that does not fence.
LEMMA OrdinaryKeeps ==
  ASSUME ClientAssumption, ClientInv, Winds, at' \in [Users -> AtStates],
         UNCHANGED <<retired, disconnection>>
  PROVE  ClientInv'
<1>1. transport \in Transports \/ transport = 0
  BY DEF ClientInv, TypesOK, Transports, ClientAssumption
<1>2. disconnection' # "none" => transport' = 0 \/ stopped'[transport']
  BY <1>1 DEF ClientInv, AwaitsStop, Winds
<1>3. (disconnection' # "none" => retired') /\ (disconnection' = "done" => transport' = 0)
  BY DEF ClientInv, FencedStays, Winds
<1> QED BY <1>2, <1>3, WindsKeeps DEF ClientInv, TypesOK, FlagsOK

\* stop() on a transport, which may be none.
LEMMA StopStops ==
  ASSUME ClientAssumption, ClientInv, NEW t \in 0..MaxTransports, Stop(t)
  PROVE  /\ child' \in [Transports -> {"none", "up", "gone"}]
         /\ stopped' \in [Transports -> BOOLEAN]
         /\ t = 0 \/ (t \in Transports /\ stopped'[t])
         /\ \A s \in Transports :
              /\ stopped[s] => stopped'[s]
              /\ stopped'[s] => child'[s] # "up"
              /\ child'[s] = "up" => child[s] = "up"
              /\ child[s] = "none" => child'[s] = "none"
<1>1. CASE t = 0
  <2>1. child' = child /\ stopped' = stopped
    BY <1>1 DEF Stop
  <2>2. stopped \in [Transports -> BOOLEAN] /\ child \in [Transports -> {"none", "up", "gone"}]
    BY DEF ClientInv, TypesOK, FlagsOK
  <2>3. \A s \in Transports : stopped[s] => child[s] # "up"
    BY DEF ClientInv, StoppedIsDown
  <2>4. child' \in [Transports -> {"none", "up", "gone"}] /\ stopped' \in [Transports -> BOOLEAN]
    BY <2>1, <2>2
  <2>5. ASSUME NEW s \in Transports
        PROVE  /\ stopped[s] => stopped'[s]
               /\ stopped'[s] => child'[s] # "up"
               /\ child'[s] = "up" => child[s] = "up"
               /\ child[s] = "none" => child'[s] = "none"
    BY <2>1, <2>3, Zenon
  <2> QED BY <1>1, <2>4, <2>5
<1>2. CASE t # 0
  <2>1. /\ t \in Transports /\ stopped' = [stopped EXCEPT ![t] = TRUE]
        /\ child' = [child EXCEPT ![t] = IF @ = "up" THEN "gone" ELSE @]
    BY <1>2 DEF Stop, Transports, ClientAssumption
  <2>2. child \in [Transports -> {"none", "up", "gone"}] /\ stopped \in [Transports -> BOOLEAN]
    BY DEF ClientInv, TypesOK, FlagsOK
  <2>3. stopped' \in [Transports -> BOOLEAN] /\ stopped'[t]
        /\ \A s \in Transports : s # t => (stopped'[s] <=> stopped[s])
    BY <2>1, <2>2
  <2>4. child' \in [Transports -> {"none", "up", "gone"}] /\ child'[t] # "up"
        /\ (child[t] = "none" => child'[t] = "none")
        /\ \A s \in Transports : s # t => child'[s] = child[s]
    BY <2>1, <2>2
  <2> QED BY <2>1, <2>3, <2>4 DEF ClientInv, StoppedIsDown
<1> QED BY <1>1, <1>2

\* Standing still, dropping the transport, and counting failures wind down.
LEMMA StillWinds ==
  ASSUME ClientInv, UNCHANGED <<transport, built, child, stopped, forgotten>>,
         connecting' \in {connecting, 0}
  PROVE  Winds
BY DEF Winds, ClientInv, TypesOK, FlagsOK, StoppedIsDown

LEMMA DropWinds ==
  ASSUME ClientAssumption, ClientInv, NEW t \in {transport, connecting}, Stop(t),
         UNCHANGED <<built, forgotten>>, connecting' \in {connecting, 0},
         transport' = transport \/ (transport' = 0 /\ transport \in {t, 0})
  PROVE  Winds
<1>1. t \in 0..MaxTransports
  BY DEF ClientInv, TypesOK, ClientAssumption
<1> QED BY <1>1, StopStops DEF Winds, ClientInv, TypesOK

LEMMA FailuresWind ==
  ASSUME ClientAssumption, ClientInv, NEW n, RecordFailures(n),
         UNCHANGED <<built, connecting, forgotten>>
  PROVE  Winds
<1>1. CASE OpenBreaker
  BY <1>1, DropWinds DEF OpenBreaker
<1>2. CASE UNCHANGED <<transport, child, stopped>>
  BY <1>2, StillWinds
<1> QED BY <1>1, <1>2 DEF RecordFailures

\* Where users go.
Moves == at' \in [Users -> AtStates]

LEMMA FinishMoves ==
  ASSUME ClientInv, NEW u \in Users, NEW result, NEW next \in AtStates,
         Finish(u, result, next)
  PROVE  Moves
BY DEF Moves, Finish, ClientInv, TypesOK, Users

LEMMA AnsweredMoves ==
  ASSUME ClientInv, NEW us, TurnedAway(us) \/ \E t : Granted(us, t)
  PROVE  Moves
<1>1. "recovery" \in Users /\ at \in [Users -> AtStates]
  BY DEF ClientInv, TypesOK, Users
<1>2. CASE TurnedAway(us)
  BY <1>1, <1>2 DEF Moves, TurnedAway, Leave, AtStates
<1>3. CASE \E t : Granted(us, t)
  BY <1>1, <1>3 DEF Moves, Granted, AtStates
<1> QED BY <1>2, <1>3

\* A new transport: the one before it was stopped or is recorded as let go of,
\* and none is being connected.
LEMMA BeginKeeps ==
  ASSUME ClientAssumption, ClientInv, ~retired, connecting = 0, built < MaxTransports,
         built' = built + 1, transport' = built + 1, connecting' = built + 1,
         \/ Stop(transport) /\ UNCHANGED forgotten
         \/ /\ UNCHANGED <<child, stopped>>
            /\ forgotten' = forgotten \cup {t \in {transport} \ {0} : ~stopped[t]},
         at' \in [Users -> AtStates],
         UNCHANGED <<retired, disconnection>>
  PROVE  ClientInv'
<1>1. transport \in 0..MaxTransports /\ built \in Nat /\ built + 1 \in Transports
  BY DEF ClientInv, TypesOK, Transports, ClientAssumption
<1>2. /\ child' \in [Transports -> {"none", "up", "gone"}]
      /\ stopped' \in [Transports -> BOOLEAN]
      /\ transport = 0 \/ stopped'[transport] \/ transport \in forgotten'
      /\ forgotten \subseteq forgotten' /\ forgotten' \subseteq Transports
      /\ \A s \in Transports :
           /\ stopped[s] => stopped'[s]
           /\ stopped'[s] => child'[s] # "up"
           /\ child'[s] = "up" => child[s] = "up"
           /\ child[s] = "none" => child'[s] = "none"
  <2>1. CASE Stop(transport) /\ UNCHANGED forgotten
    BY <1>1, <2>1, StopStops DEF ClientInv, TypesOK
  <2>2. CASE /\ UNCHANGED <<child, stopped>>
             /\ forgotten' = forgotten \cup {t \in {transport} \ {0} : ~stopped[t]}
    <3>1. transport \in Transports \/ transport = 0
      BY <1>1 DEF Transports, ClientAssumption
    <3>2. forgotten' \subseteq Transports /\ (transport = 0 \/ stopped[transport] \/ transport \in forgotten')
      BY <2>2, <3>1 DEF ClientInv, TypesOK
    <3> QED BY <2>2, <3>2 DEF ClientInv, TypesOK, FlagsOK, StoppedIsDown
  <2> QED BY <2>1, <2>2
<1>3. disconnection = "none"
  BY DEF ClientInv, FencedStays
<1>4. TypesOK'
  BY <1>1, <1>2 DEF ClientInv, TypesOK, ClientAssumption
<1>5. FlagsOK'
  BY <1>2 DEF ClientInv, FlagsOK
<1>6. OrphansAreForgotten'
  <2> SUFFICES ASSUME NEW t \in Transports, child'[t] = "up", ~stopped'[t]
               PROVE  t \in forgotten'
    BY DEF OrphansAreForgotten
  <2>1. t = transport \/ t \in forgotten
    BY <1>2 DEF ClientInv, OrphansAreForgotten
  <2> QED BY <1>2, <2>1 DEF Transports
<1>7. StoppedIsDown'
  <2>1. \A t \in Transports : t > built + 1 => child'[t] = "none"
    BY <1>1, <1>2 DEF ClientInv, StoppedIsDown, Transports
  <2> QED BY <1>2, <2>1 DEF StoppedIsDown
<1>8. ConnectingIsCurrent' /\ AwaitsStop' /\ FencedStays'
  BY <1>3 DEF ConnectingIsCurrent, AwaitsStop, FencedStays
<1> QED BY <1>4, <1>5, <1>6, <1>7, <1>8 DEF ClientInv

\* A process is started for the current transport, or one a recovery let go of.
LEMMA SpawnKeeps ==
  ASSUME ClientAssumption, ClientInv, Spawn
  PROVE  ClientInv'
<1>1. /\ connecting \in Transports /\ ~stopped[connecting] /\ connecting <= built
      /\ child' = [child EXCEPT ![connecting] = "up"]
      /\ UNCHANGED <<transport, connecting, retired, disconnection, built, stopped, forgotten, at>>
  BY DEF Spawn, ClientInv, TypesOK, Transports, ClientAssumption, userVars
<1>2. connecting = transport \/ connecting \in forgotten
  BY <1>1 DEF ClientInv, ConnectingIsCurrent, Transports
<1>3. /\ child' \in [Transports -> {"none", "up", "gone"}]
      /\ \A t \in Transports : t # connecting => child'[t] = child[t]
  BY <1>1 DEF ClientInv, TypesOK
<1>4. TypesOK' /\ FlagsOK'
  BY <1>1, <1>3 DEF ClientInv, TypesOK, FlagsOK
<1>5. OrphansAreForgotten'
  BY <1>1, <1>2, <1>3 DEF ClientInv, OrphansAreForgotten
<1>6. StoppedIsDown'
  <2>1. \A t \in Transports : t > built => t # connecting
    BY <1>1 DEF ClientInv, TypesOK, Transports, ClientAssumption
  <2> QED BY <1>1, <1>3, <2>1 DEF ClientInv, StoppedIsDown
<1>7. ConnectingIsCurrent' /\ AwaitsStop' /\ FencedStays'
  BY <1>1 DEF ClientInv, ConnectingIsCurrent, AwaitsStop, FencedStays
<1> QED BY <1>4, <1>5, <1>6, <1>7 DEF ClientInv

LEMMA EnterKeeps ==
  ASSUME ClientAssumption, ClientInv, NEW u \in Users, Enter(u)
  PROVE  ClientInv'
<1>1. UNCHANGED <<retired, forgotten, disconnection>>
  BY DEF Enter
<1>2. CASE Barred(u) \/ (u # "tick" /\ ~elapsed)
  <2>1. TurnedAway({u}) /\ RecordFailures(Counted({u})) /\ UNCHANGED <<connecting, built>>
    BY <1>2 DEF Enter
  <2> QED BY <1>1, <2>1, AnsweredMoves, FailuresWind, OrdinaryKeeps DEF Moves
<1>3. CASE ~(Barred(u) \/ (u # "tick" /\ ~elapsed))
  <2>1. EnsureConnected(u) /\ ~retired
    BY <1>3 DEF Enter, Barred
  <2>2. CASE transport # 0 /\ state = "ready"
    <3>1. Granted({u}, transport) /\ UNCHANGED <<transport, connecting, built, child, stopped>>
      BY <2>1, <2>2 DEF EnsureConnected, transportVars
    <3> QED BY <1>1, <3>1, AnsweredMoves, StillWinds, OrdinaryKeeps DEF Moves
  <2>3. CASE ~(transport # 0 /\ state = "ready")
    <3>1. at' = [at EXCEPT ![u] = "connecting"]
      BY <2>1, <2>3 DEF EnsureConnected
    <3>2. at' \in [Users -> AtStates]
      BY <1>1, <3>1 DEF ClientInv, TypesOK, AtStates, Users
    <3>3. CASE connecting = 0
      BY <1>1, <2>1, <2>3, <3>2, <3>3, BeginKeeps DEF EnsureConnected, BeginConnect
    <3>4. CASE connecting # 0
      BY <1>1, <2>1, <2>3, <3>2, <3>4, StillWinds, OrdinaryKeeps DEF EnsureConnected, transportVars
    <3> QED BY <3>3, <3>4
  <2> QED BY <2>2, <2>3
<1> QED BY <1>2, <1>3

\* Nothing refers to a transport that was let go of.
LEMMA ConnectsForgottenKeeps ==
  ASSUME ClientAssumption, ClientInv, ConnectsForgotten
  PROVE  ClientInv'
<1>1. /\ connecting' = 0
      /\ UNCHANGED <<transport, child, stopped, retired, forgotten, disconnection, built>>
  BY DEF ConnectsForgotten, transportVars
<1>2. Moves
  BY DEF Moves, ConnectsForgotten, Leave, ClientInv, TypesOK, AtStates, Users
<1> QED BY <1>1, <1>2, StillWinds, OrdinaryKeeps DEF Moves

\* A connection that settles, well or not, takes nothing up.
LEMMA ConnectsKeeps ==
  ASSUME ClientAssumption, ClientInv, Connects
  PROVE  ClientInv'
<1>1. connecting' = 0 /\ UNCHANGED <<retired, forgotten, disconnection, built>>
  BY DEF Connects
<1>2. CASE UNCHANGED <<transport, child, stopped>> /\ Granted(Waiting, connecting)
  BY <1>1, <1>2, AnsweredMoves, StillWinds, OrdinaryKeeps DEF Moves
<1>3. CASE /\ Stop(transport) /\ transport' = 0
           /\ \E late : at' = [u \in Users |->
                IF u \in Withheld(Waiting) \cup late THEN "done"
                ELSE IF u \in Waiting THEN "sent" ELSE at[u]]
  <2>1. Moves
    BY <1>3 DEF Moves, ClientInv, TypesOK, AtStates, Users
  <2>2. Winds
    BY <1>1, <1>3, DropWinds
  <2> QED BY <1>1, <2>1, <2>2, OrdinaryKeeps DEF Moves
<1> QED BY <1>2, <1>3, Zenon DEF Connects

LEMMA ConnectFailsKeeps ==
  ASSUME ClientAssumption, ClientInv, HandshakeFails \/ ConnectFails
  PROVE  ClientInv'
<1>1. CASE HandshakeFails
  <2>1. /\ Stop(connecting)
        /\ UNCHANGED <<transport, connecting, retired, forgotten, disconnection, built, at>>
    BY <1>1 DEF HandshakeFails, userVars
  <2>2. UNCHANGED <<built, forgotten>> /\ connecting' \in {connecting, 0} /\ transport' = transport
    BY <2>1
  <2>3. Winds
    BY <2>1, <2>2, DropWinds
  <2> QED BY <2>1, <2>3, OrdinaryKeeps DEF ClientInv, TypesOK
<1>2. CASE ConnectFails
  <2>1. /\ connecting # 0 /\ connecting' = 0 /\ TurnedAway(Waiting) /\ Stop(connecting)
        /\ UNCHANGED <<retired, forgotten, disconnection, built>>
        /\ transport' = 0 \/ transport' = IF transport = connecting THEN 0 ELSE transport
    BY <1>2 DEF ConnectFails
  <2>2. transport \in {connecting, 0}
    BY <2>1 DEF ClientInv, ConnectingIsCurrent
  <2>3. Winds
    <3>1. UNCHANGED <<built, forgotten>> /\ connecting' \in {connecting, 0} /\ transport' = 0
      BY <2>1, <2>2
    <3> QED BY <2>1, <2>2, <3>1, DropWinds
  <2> QED BY <2>1, <2>3, AnsweredMoves, OrdinaryKeeps DEF Moves
<1> QED BY <1>1, <1>2

\* Requests end; the breaker may open on one that failed.
LEMMA RequestKeeps ==
  ASSUME ClientAssumption, ClientInv, NEW u \in Users, CallAnswered(u) \/ CallFails(u) \/ Abort(u)
  PROVE  ClientInv'
<1>1. UNCHANGED <<connecting, retired, forgotten, disconnection, built>>
  BY DEF CallAnswered, CallFails, Abort, transportVars
<1>2. Leave(u) \in AtStates /\ "done" \in AtStates
  BY DEF Leave, AtStates
<1>3. Moves
  <2>1. CASE \E result : Finish(u, result, Leave(u)) \/ Finish(u, result, "done")
    BY <1>2, <2>1, FinishMoves
  <2>2. CASE UNCHANGED at
    BY <2>2 DEF Moves, ClientInv, TypesOK
  <2> QED BY <2>1, <2>2 DEF CallAnswered, CallFails, Abort
<1>4. Winds
  <2>1. CASE UNCHANGED <<transport, child, stopped>>
    BY <1>1, <2>1, StillWinds
  <2>2. CASE \E n : RecordFailures(n)
    BY <1>1, <2>2, FailuresWind
  <2> QED BY <2>1, <2>2 DEF CallAnswered, CallFails, Abort, RecordFailure, transportVars
<1> QED BY <1>1, <1>3, <1>4, OrdinaryKeeps DEF Moves

\* A process that dies leaves nothing to stop.
LEMMA ChildExitsKeeps ==
  ASSUME ClientAssumption, ClientInv, NEW t \in Transports, ChildExits(t)
  PROVE  ClientInv'
<1>1. /\ child[t] = "up" /\ child' = [child EXCEPT ![t] = "gone"]
      /\ UNCHANGED <<transport, connecting, retired, forgotten, disconnection, built, stopped, at>>
  BY DEF ChildExits, userVars
<1>2. /\ child' \in [Transports -> {"none", "up", "gone"}] /\ child'[t] = "gone"
      /\ \A s \in Transports : s # t => child'[s] = child[s]
  BY <1>1 DEF ClientInv, TypesOK
<1>3. Winds
  BY <1>1, <1>2 DEF Winds, ClientInv, TypesOK, FlagsOK, StoppedIsDown
<1> QED BY <1>1, <1>3, OrdinaryKeeps DEF ClientInv, TypesOK

\* Steps that leave the transports alone.
LEMMA QuietKeeps ==
  ASSUME ClientAssumption, ClientInv, Moves,
         UNCHANGED <<transport, connecting, retired, forgotten, disconnection, built, child, stopped>>
  PROVE  ClientInv'
BY StillWinds, OrdinaryKeeps DEF Moves

\* A recovery goes on: what it lets go of unstopped is recorded.
LEMMA ReconnectKeeps ==
  ASSUME ClientAssumption, ClientInv, NEW pending, Reconnect(pending),
         UNCHANGED <<retired, disconnection>>
  PROVE  ClientInv'
<1>1. /\ at' \in [Users -> AtStates]
      /\ forgotten' = forgotten \cup {t \in {transport} \ {0} : ~stopped[t]}
  BY DEF Reconnect, ClientInv, TypesOK, AtStates, Users
<1>2. CASE /\ UNCHANGED <<connecting, built, child, stopped>> /\ transport' = 0
  <2>1. transport \in Transports \/ transport = 0
    BY DEF ClientInv, TypesOK, Transports, ClientAssumption
  <2>2. /\ forgotten \subseteq forgotten' /\ forgotten' \subseteq Transports
        /\ transport = 0 \/ stopped'[transport] \/ transport \in forgotten'
    BY <1>1, <1>2, <2>1 DEF ClientInv, TypesOK
  <2>3. Winds
    BY <1>2, <2>2 DEF Winds, ClientInv, TypesOK, FlagsOK, StoppedIsDown
  <2> QED BY <1>1, <2>3, OrdinaryKeeps
<1>3. CASE /\ ~retired /\ connecting = 0 /\ built < MaxTransports
           /\ built' = built + 1 /\ transport' = built + 1 /\ connecting' = built + 1
           /\ UNCHANGED <<child, stopped>>
  BY <1>1, <1>3, BeginKeeps
<1> QED BY <1>2, <1>3, Zenon DEF Reconnect, Barred, transportVars

\* The timer stops what is left of the old transport before anything is built.
LEMMA TimerKeeps ==
  ASSUME ClientAssumption, ClientInv, TimerFires \/ OldTransportStopped
  PROVE  ClientInv'
<1>1. UNCHANGED <<retired, disconnection>>
  BY DEF TimerFires, OldTransportStopped
<1>2. CASE UNCHANGED <<transport, connecting, built, child, stopped, forgotten, at>>
  BY <1>1, <1>2, QuietKeeps DEF Moves, ClientInv, TypesOK
<1>3. CASE /\ Stop(transport) /\ UNCHANGED <<transport, connecting, built, forgotten>>
           /\ at' = [at EXCEPT !["recovery"] = "stopping"]
  <2>1. Winds
    BY <1>3, DropWinds
  <2>2. at' \in [Users -> AtStates]
    BY <1>3 DEF ClientInv, TypesOK, AtStates, Users
  <2>3. transport \in 0..MaxTransports
    BY DEF ClientInv, TypesOK, ClientAssumption
  <2>4. transport = 0 \/ stopped'[transport]
    BY <1>3, <2>3, StopStops
  <2>5. (disconnection' # "none" => retired') /\ (disconnection' = "done" => transport' = 0)
    BY <1>1, <1>3 DEF ClientInv, FencedStays
  <2>6. disconnection' \in {"none", "stopping", "done"} /\ retired' \in BOOLEAN
    BY <1>1 DEF ClientInv, TypesOK, FlagsOK
  <2>7. disconnection' # "none" => transport' = 0 \/ stopped'[transport']
    BY <1>3, <2>4
  <2> QED BY <2>1, <2>2, <2>5, <2>6, <2>7, WindsKeeps
<1>4. CASE \E pending : Reconnect(pending)
  BY <1>1, <1>4, ReconnectKeeps
<1>5. CASE TimerFires
  BY <1>2, <1>3, <1>4, <1>5, Zenon DEF TimerFires, transportVars, userVars
<1>6. CASE OldTransportStopped
  BY <1>4, <1>6, Zenon DEF OldTransportStopped
<1> QED BY <1>5, <1>6

\* What the recovery does with its listing.
LEMMA RecoveryKeeps ==
  ASSUME ClientAssumption, ClientInv, RecoveryListed \/ RecoveryFails \/ RecoveryPublished
  PROVE  ClientInv'
<1>1. "recovery" \in Users /\ {"hook", "idle"} \subseteq AtStates
  BY DEF Users, AtStates
<1>2. CASE RecoveryListed
  <2>1. UNCHANGED <<transport, connecting, retired, forgotten, disconnection, built, child, stopped>>
    BY <1>2 DEF RecoveryListed, transportVars
  <2>2. Moves
    BY <1>1, <1>2, FinishMoves DEF RecoveryListed
  <2> QED BY <2>1, <2>2, QuietKeeps
<1>3. CASE RecoveryFails
  <2>1. Stop(transport) /\ transport' = 0 /\ UNCHANGED <<connecting, retired, forgotten, disconnection, built>>
    BY <1>3 DEF RecoveryFails, OpenBreaker
  <2>2. Moves
    BY <1>1, <1>3, FinishMoves DEF RecoveryFails
  <2>3. Winds
    BY <2>1, DropWinds
  <2> QED BY <2>1, <2>2, <2>3, OrdinaryKeeps DEF Moves
<1>4. CASE RecoveryPublished
  <2>1. /\ at' = [at EXCEPT !["recovery"] = "idle"]
        /\ UNCHANGED <<transport, connecting, retired, forgotten, disconnection, built, child, stopped>>
    BY <1>4 DEF RecoveryPublished, transportVars
  <2>2. Moves
    BY <1>1, <2>1 DEF Moves, ClientInv, TypesOK
  <2> QED BY <2>1, <2>2, QuietKeeps
<1> QED BY <1>2, <1>3, <1>4

\* A refresh uses the transport there is, or counts a failure.
LEMMA RefreshKeeps ==
  ASSUME ClientAssumption, ClientInv,
         (\E t : ListChanged(t)) \/ RefreshListed \/ RefreshFails \/ RefreshPublished
  PROVE  ClientInv'
<1>1. UNCHANGED <<connecting, retired, forgotten, disconnection, built>>
  BY DEF ListChanged, RefreshListed, RefreshFails, RefreshPublished, transportVars
<1>2. Moves
  <2>1. /\ "recovery" \in Users /\ "refresh" \in Users /\ "refresh" # "recovery" /\ {"sent", "idle"} \subseteq AtStates
        /\ at \in [Users -> AtStates]
        /\ "hook" \in AtStates
    BY DEF Users, AtStates, ClientInv, TypesOK
  <2>2. CASE \/ UNCHANGED at
             \/ at' = [at EXCEPT !["refresh"] = "sent"]
             \/ at' = [at EXCEPT !["refresh"] = "idle"]
    BY <2>1, <2>2 DEF Moves, AtStates
  <2>3. CASE RefreshListed \/ RefreshFails
    BY <2>1, <2>3, FinishMoves DEF RefreshListed, RefreshFails
  <2> QED BY <2>2, <2>3, Zenon DEF ListChanged, RefreshPublished, BeginPass, userVars
<1>3. Winds
  <2>1. CASE UNCHANGED <<transport, child, stopped>>
    BY <1>1, <2>1, StillWinds
  <2>2. CASE RecordFailure
    BY <1>1, <2>2, FailuresWind DEF RecordFailure
  <2> QED BY <2>1, <2>2, Zenon
          DEF ListChanged, RefreshListed, RefreshFails, RefreshPublished, BeginPass, transportVars
<1> QED BY <1>1, <1>2, <1>3, OrdinaryKeeps DEF Moves

\* Fencing stops the transport first, and forgets it when the stop() is over.
LEMMA ClientDisconnectKeeps ==
  ASSUME ClientAssumption, ClientInv, Disconnect \/ DisconnectEnds
  PROVE  ClientInv'
<1>1. at' = at /\ built' = built /\ connecting' = connecting /\ forgotten' = forgotten
  BY DEF Disconnect, DisconnectEnds, userVars, transportVars
<1>2. at' \in [Users -> AtStates]
  BY <1>1 DEF ClientInv, TypesOK
<1>3. CASE Disconnect
  <2>1. /\ Stop(transport) /\ transport' = transport
        /\ retired' = TRUE /\ disconnection' = "stopping"
    BY <1>3 DEF Disconnect
  <2>2. Winds
    BY <1>1, <2>1, DropWinds
  <2>3. transport \in 0..MaxTransports
    BY DEF ClientInv, TypesOK, ClientAssumption
  <2>4. transport = 0 \/ stopped'[transport]
    BY <2>1, <2>3, StopStops
  <2> QED BY <1>2, <2>1, <2>2, <2>4, WindsKeeps
<1>4. CASE DisconnectEnds
  <2>1. /\ disconnection = "stopping" /\ transport' = 0 /\ disconnection' = "done" /\ retired' = retired
        /\ UNCHANGED <<child, stopped>>
    BY <1>4 DEF DisconnectEnds, transportVars
  <2>2. retired /\ (transport = 0 \/ stopped[transport])
    BY <2>1 DEF ClientInv, FencedStays, AwaitsStop
  <2>3. Winds
    BY <1>1, <2>1, <2>2 DEF Winds, ClientInv, TypesOK, FlagsOK, StoppedIsDown
  <2>4. retired' \in BOOLEAN /\ retired'
    BY <2>1, <2>2 DEF ClientInv, FlagsOK
  <2> QED BY <1>2, <2>1, <2>3, <2>4, WindsKeeps
<1> QED BY <1>3, <1>4

-----------------------------------------------------------------------------
(* The theorems. *)

\* Nothing is built at first.
LEMMA InitKeeps ==
  ASSUME ClientAssumption, ClientInit
  PROVE  ClientInv
<1>1. TypesOK
  BY DEF ClientInit, TypesOK, AtStates, ClientAssumption
<1>2. FlagsOK
  BY DEF ClientInit, FlagsOK
<1>3. OrphansAreForgotten /\ StoppedIsDown
  BY DEF ClientInit, OrphansAreForgotten, StoppedIsDown, Transports
<1>4. ConnectingIsCurrent /\ AwaitsStop /\ FencedStays
  BY DEF ClientInit, ConnectingIsCurrent, AwaitsStop, FencedStays, Users
<1> QED BY <1>1, <1>2, <1>3, <1>4 DEF ClientInv

\* Every step keeps the inductive invariant.
LEMMA StepKeeps ==
  ASSUME ClientAssumption, ClientInv, [ClientNext]_connectionVars
  PROVE  ClientInv'
<1>1. CASE ClientProgress
  <2>1. CASE Spawn
    BY <2>1, SpawnKeeps
  <2>2. CASE Connects \/ ConnectsForgotten
    BY <2>2, ConnectsKeeps, ConnectsForgottenKeeps
  <2>3. CASE HandshakeFails \/ ConnectFails
    BY <2>3, ConnectFailsKeeps
  <2>4. CASE \E u \in Users : CallAnswered(u) \/ CallFails(u)
    BY <2>4, RequestKeeps
  <2>5. CASE TimerFires \/ OldTransportStopped
    BY <2>5, TimerKeeps
  <2>6. CASE RecoveryListed \/ RecoveryFails \/ RecoveryPublished
    BY <2>6, RecoveryKeeps
  <2>7. CASE RefreshListed \/ RefreshFails \/ RefreshPublished
    BY <2>7, RefreshKeeps
  <2>8. CASE DisconnectEnds
    BY <2>8, ClientDisconnectKeeps
  <2> QED BY <1>1, <2>1, <2>2, <2>3, <2>4, <2>5, <2>6, <2>7, <2>8, Zenon DEF ClientProgress
<1>2. CASE \E t \in Transports : ChildExits(t) \/ ListChanged(t)
  BY <1>2, ChildExitsKeeps, RefreshKeeps
<1>3. CASE BreakerElapses \/ ListAgain \/ StartHealthChecks \/ UNCHANGED connectionVars
  <2>1. UNCHANGED <<transport, connecting, retired, forgotten, disconnection, built, child, stopped, at>>
    BY <1>3 DEF BreakerElapses, ListAgain, StartHealthChecks, connectionVars, transportVars, userVars
  <2> QED BY <2>1, QuietKeeps DEF Moves, ClientInv, TypesOK
<1>4. CASE Disconnect
  BY <1>4, ClientDisconnectKeeps
<1>5. CASE \E u \in Users : Enter(u) \/ Abort(u)
  BY <1>5, EnterKeeps, RequestKeeps
<1> QED BY <1>1, <1>2, <1>3, <1>4, <1>5 DEF ClientNext

\* The inductive invariant holds whatever the calls, the threshold and the
\* number of transports.
THEOREM ClientInvariance ==
  ASSUME ClientAssumption
  PROVE  ClientSpec => []ClientInv
<1>1. ClientInit => ClientInv
  BY InitKeeps
<1>2. ClientInv /\ [ClientNext]_connectionVars => ClientInv'
  BY StepKeeps
<1> QED BY <1>1, <1>2, PTL DEF ClientSpec

\* A child process that runs and was not told to stop is the one the client
\* refers to, or one a recovery let go of: connect(), the breaker, a listing
\* and disconnect() leave none behind.
THEOREM OrphansAreTheRecoverys ==
  ASSUME ClientAssumption
  PROVE  ClientSpec => []OrphansAreForgotten
<1>1. ClientInv => OrphansAreForgotten
  BY DEF ClientInv
<1> QED BY <1>1, ClientInvariance, PTL

\* After disconnect() a client runs and starts nothing, whatever connection,
\* health check, refresh or recovery was under way, but what a recovery let go
\* of before the fence.
THEOREM FencedStaysDown ==
  ASSUME ClientAssumption
  PROVE  ClientSpec => FencedStartsNothing
<1> DEFINE Down == \A t \in Transports : child[t] = "up" => t \in forgotten
<1>1. ClientInv /\ disconnection \in {"stopping", "done"} => Down
  <2> SUFFICES ASSUME ClientInv, disconnection \in {"stopping", "done"}, NEW t \in Transports,
                      child[t] = "up", t \notin forgotten
               PROVE  FALSE
    OBVIOUS
  <2>1. ~stopped[t]
    BY DEF ClientInv, StoppedIsDown
  <2>2. t = transport
    BY <2>1 DEF ClientInv, OrphansAreForgotten
  <2> QED BY <2>1, <2>2 DEF ClientInv, AwaitsStop, Transports
<1>2. [ClientNext]_connectionVars /\ disconnection = "done" => disconnection' \in {"stopping", "done"}
  BY DEF ClientNext, ClientProgress, connectionVars, Spawn, Connects, ConnectsForgotten,
         HandshakeFails, ConnectFails, CallAnswered, CallFails, TimerFires,
         OldTransportStopped, RecoveryListed, RecoveryFails, RecoveryPublished,
         RefreshListed, RefreshFails, RefreshPublished, DisconnectEnds, ChildExits,
         ListChanged, BreakerElapses, ListAgain, StartHealthChecks, Disconnect, Enter, Abort
<1>3. [ClientNext]_connectionVars /\ transport = 0 => forgotten' = forgotten
  <2>1. ASSUME NEW pending, Reconnect(pending), transport = 0
        PROVE  forgotten' = forgotten
    BY <2>1 DEF Reconnect
  <2>2. CASE TimerFires \/ OldTransportStopped
    BY <2>1, <2>2, Zenon DEF TimerFires, OldTransportStopped
  <2>3. CASE ~(TimerFires \/ OldTransportStopped)
    BY <2>3 DEF ClientNext, ClientProgress, connectionVars, Spawn, Connects, ConnectsForgotten,
           HandshakeFails, ConnectFails, CallAnswered, CallFails, RecoveryListed,
           RecoveryFails, RecoveryPublished, RefreshListed, RefreshFails, RefreshPublished,
           DisconnectEnds, ChildExits, ListChanged, BreakerElapses, ListAgain,
           StartHealthChecks, Disconnect, Enter, Abort
  <2> QED BY <2>2, <2>3
<1>4. ClientInv /\ ClientInv' /\ [ClientNext]_connectionVars =>
        [disconnection = "done" =>
           \A t \in Transports \ forgotten : child[t] # "up" /\ (child[t] # "up")']_connectionVars
  <2> SUFFICES ASSUME ClientInv, ClientInv', [ClientNext]_connectionVars, disconnection = "done",
                      NEW t \in Transports \ forgotten
               PROVE  child[t] # "up" /\ (child[t] # "up")'
    OBVIOUS
  <2>1. child[t] # "up"
    BY <1>1
  <2>2. disconnection' \in {"stopping", "done"} /\ forgotten' = forgotten
    BY <1>2, <1>3 DEF ClientInv, FencedStays
  <2>3. CASE child'[t] = "up"
    <3>1. ~stopped'[t]
      BY <2>3 DEF ClientInv, StoppedIsDown
    <3>2. t = transport'
      BY <2>2, <2>3, <3>1 DEF ClientInv, OrphansAreForgotten
    <3> QED BY <2>2, <3>1, <3>2 DEF ClientInv, AwaitsStop, Transports
  <2> QED BY <2>1, <2>3
<1> QED BY <1>4, ClientInvariance, PTL DEF ClientSpec, FencedStartsNothing

=============================================================================
