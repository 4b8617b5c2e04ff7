------------------------- MODULE ChildExecutorProofs -------------------------
(***************************************************************************)
(* Proofs about ChildExecutor: what runs is on record, what the record     *)
(* says has completed has, and the capacity of a root is exact.            *)
(***************************************************************************)
EXTENDS ChildExecutor, EventLogProofs

Statuses ==
  {"none", "queued", "running", "completed", "cancelled", "failed", "interrupted",
   "uncertain"}
Facts ==
  [type : {"spawn", "result", "start", "closing", "end"},
   of : Children \cup Turns, outcome : Statuses]
Endings == {"none", "completed", "cancelled", "failed"}
Spawning == {"none", "asked", "starting", "ready", "meta", "commit", "undo", "out"}
Finishing == {"none", "child", "parent", "done"}

\* The types of what the properties depend on.
LogsOK ==
  /\ log \in [Roots -> Seq(Facts)]
  /\ synced \in [Roots -> Nat] /\ filed \in [Roots -> Nat]
  /\ writer \in [Roots -> {"sound", "failing", "poisoned"}]
  /\ restarts \in Nat

ChildrenOK ==
  /\ ending \in [Children -> Endings] /\ endFiled \in [Children -> BOOLEAN]
  /\ active \subseteq Children /\ slots \subseteq Children
  /\ status \in [Children -> Statuses]
  /\ spawn \in [Children -> Spawning] /\ finish \in [Children -> Finishing]
  /\ repair \in [Children -> {"none", "parent"}]

QueuesOK == runnable \in Seq(Roots) /\ pending \in [Roots -> Seq(Children)]

\* A file has what was synced, and while its writer is sound nothing else.
FilesOK ==
  \A r \in Roots :
    /\ synced[r] <= filed[r] /\ filed[r] <= Len(log[r])
    /\ writer[r] = "sound" => synced[r] = filed[r]

\* A spawn is recorded in one form.
FactsOK ==
  \A r \in Roots : \A p \in 1..Len(log[r]) :
    log[r][p].type = "spawn" => log[r][p].outcome = "queued"

\* What the log of its root says of a child, in the file or not yet.
Said(c) == \E p \in 1..Len(log[Parent[c]]) : log[Parent[c]][p] = SpawnOf(c)
Told(c) == {p \in 1..Len(log[Parent[c]]) : IsResult(log[Parent[c]][p], c)}

\* How far the spawn of a child is.
SpawnKnown(c) ==
  /\ spawn[c] \in {"none", "asked", "starting", "ready"} =>
       c \notin active /\ finish[c] = "none"
  /\ spawn[c] = "undo" => c \notin active
  /\ spawn[c] = "commit" \/ (c \in active /\ spawn[c] # "meta") => Said(c)
  /\ restarts > 0 => spawn[c] = "out" /\ finish[c] # "none"

\* How far its settlement is.
FinishKnown(c) ==
  /\ finish[c] \in {"child", "parent"} => c \in active
  /\ finish[c] = "parent" => Told(c) # {} /\ spawn[c] # "meta"
  /\ repair[c] = "parent" => Told(c) # {}
  /\ status[c] = "queued" => c \in active /\ finish[c] = "none"
  /\ c \in slots => /\ status[c] # "queued" /\ spawn[c] = "out" /\ SpawnCommitted(c)
                    /\ finish[c] = "none" => c \in active

\* What its results say: there are none before it is settled, and they follow its
\* spawn.
ResultKnown(c) ==
  /\ finish[c] \in {"none", "child"} => Told(c) = {}
  /\ finish[c] = "none" => ending[c] = "none" /\ ~endFiled[c] /\ status[c] # "completed"
  /\ finish[c] = "child" /\ status[c] = "completed" => ending[c] = "completed"
  /\ \A p \in Told(c) :
       /\ log[Parent[c]][p].outcome # "queued"
       /\ log[Parent[c]][p].outcome = "completed" => endFiled[c] /\ ending[c] = "completed"
       /\ \E q \in 1..p : log[Parent[c]][q] = SpawnOf(c)

ChildOK(c) == SpawnKnown(c) /\ FinishKnown(c) /\ ResultKnown(c)

\* What waits for a slot is on record, and the rotation has the roots with
\* something waiting, once each.
QueueOK ==
  /\ \A r \in Roots : \A i \in 1..Len(pending[r]) : \A c \in Children :
       c = pending[r][i] => Parent[c] = r /\ SpawnCommitted(c) /\ spawn[c] = "out"
  /\ \A i \in 1..Len(runnable) : pending[runnable[i]] # <<>>
  /\ \A i, j \in 1..Len(runnable) : runnable[i] = runnable[j] => i = j

TypesOK == LogsOK /\ ChildrenOK /\ QueuesOK /\ FilesOK /\ FactsOK
IInv == TypesOK /\ QueueOK /\ \A c \in Children : ChildOK(c)

-----------------------------------------------------------------------------
(* The logs. *)

LEMMA ParentType ==
  ASSUME ExecutorAssumption, NEW c \in Children
  PROVE  Parent[c] \in Roots /\ TurnOf[c] \in Turns /\ Parent[c] = RootOf[TurnOf[c]]
BY DEF ExecutorAssumption, Parent

\* What a beginning of a sequence contains.
LEMMA InPrefix ==
  ASSUME NEW S, NEW seq \in Seq(S), NEW n \in 0..Len(seq), NEW e
  PROVE  Contains(SubSeq(seq, 1, n), e) <=> \E p \in 1..n : seq[p] = e
<1>1. Len(SubSeq(seq, 1, n)) = n /\ \A p \in 1..n : SubSeq(seq, 1, n)[p] = seq[p]
  OBVIOUS
<1> QED BY <1>1 DEF Contains

\* The spawn of a child is in the file of its root, now and after a step.
LEMMA CommittedAt ==
  ASSUME ExecutorAssumption, TypesOK, TypesOK', NEW c \in Children
  PROVE  /\ SpawnCommitted(c) <=>
              \E p \in 1..filed[Parent[c]] : log[Parent[c]][p] = SpawnOf(c)
         /\ SpawnCommitted(c)' <=>
              \E p \in 1..filed'[Parent[c]] : log'[Parent[c]][p] = SpawnOf(c)
<1> DEFINE r == Parent[c]
<1>1. /\ r \in Roots /\ log[r] \in Seq(Facts) /\ filed[r] \in 0..Len(log[r])
      /\ log'[r] \in Seq(Facts) /\ filed'[r] \in 0..Len(log'[r])
  BY ParentType DEF TypesOK, LogsOK, FilesOK
<1> HIDE DEF r
<1>2. SpawnCommitted(c) <=> Contains(SubSeq(log[r], 1, filed[r]), SpawnOf(c))
  BY DEF SpawnCommitted, Canonical, r
<1>3. SpawnCommitted(c)' <=> Contains(SubSeq(log'[r], 1, filed'[r]), SpawnOf(c))
  BY DEF SpawnCommitted, Canonical, SpawnOf, r
<1>4. Contains(SubSeq(log[r], 1, filed[r]), SpawnOf(c))
        <=> \E p \in 1..filed[r] : log[r][p] = SpawnOf(c)
  BY <1>1, InPrefix
<1>5. Contains(SubSeq(log'[r], 1, filed'[r]), SpawnOf(c))
        <=> \E p \in 1..filed'[r] : log'[r][p] = SpawnOf(c)
  BY <1>1, InPrefix
<1> QED BY <1>2, <1>3, <1>4, <1>5 DEF r

\* A step that only adds to the logs and to the files.
LogKept ==
  /\ \A r \in Roots :
       /\ Len(log[r]) <= Len(log'[r]) /\ filed[r] <= filed'[r]
       /\ \A p \in 1..Len(log[r]) : log'[r][p] = log[r][p]
  /\ restarts' = restarts

\* It adds no result of a child.
NoNews(c) ==
  \A p \in 1..Len(log'[Parent[c]]) : p <= Len(log[Parent[c]]) \/ ~IsResult(log'[Parent[c]][p], c)

LEMMA KeptKnown ==
  ASSUME ExecutorAssumption, TypesOK, TypesOK', LogKept, NEW c \in Children
  PROVE  /\ Said(c) => Said(c)'
         /\ SpawnCommitted(c) => SpawnCommitted(c)'
         /\ Told(c) \subseteq Told(c)'
         /\ \A p \in Told(c) : log'[Parent[c]][p] = log[Parent[c]][p]
         /\ \A p \in Told(c) : \A q \in 1..p : log'[Parent[c]][q] = log[Parent[c]][q]
         /\ NoNews(c) => Told(c)' = Told(c)
<1> DEFINE r == Parent[c]
<1>1. /\ r \in Roots /\ Len(log[r]) \in Nat /\ Len(log'[r]) \in Nat
      /\ filed[r] \in Nat /\ filed'[r] \in Nat /\ filed[r] <= Len(log[r])
      /\ Len(log[r]) <= Len(log'[r]) /\ filed[r] <= filed'[r]
      /\ \A p \in 1..Len(log[r]) : log'[r][p] = log[r][p]
  BY ParentType DEF TypesOK, LogsOK, FilesOK, LogKept
<1> HIDE DEF r
<1>2. Said(c) => Said(c)'
  BY <1>1 DEF Said, r, SpawnOf
<1>3. SpawnCommitted(c) => SpawnCommitted(c)'
  <2>1. SpawnCommitted(c) <=> \E p \in 1..filed[r] : log[r][p] = SpawnOf(c)
    BY CommittedAt DEF r
  <2>2. SpawnCommitted(c)' <=> \E p \in 1..filed'[r] : log'[r][p] = SpawnOf(c)
    BY CommittedAt DEF r
  <2> QED BY <1>1, <2>1, <2>2
<1>4. \A p \in Told(c) : p \in 1..Len(log[r]) /\ p \in 1..Len(log'[r]) /\ IsResult(log[r][p], c)
  BY <1>1 DEF Told, r
<1>5. /\ Told(c) \subseteq Told(c)'
      /\ \A p \in Told(c) : log'[r][p] = log[r][p]
      /\ \A p \in Told(c) : \A q \in 1..p : log'[r][q] = log[r][q]
  BY <1>1, <1>4 DEF Told, r
<1>6. NoNews(c) => Told(c)' = Told(c)
  BY <1>1, <1>5 DEF Told, NoNews, r
<1> QED BY <1>2, <1>3, <1>5, <1>6 DEF r

\* The spawn of a child stays where it is, or an early one goes on or ends.
SpawnGoesOn(c) ==
  \/ spawn'[c] = spawn[c]
  \/ /\ spawn[c] \in {"none", "asked", "starting", "ready"}
     /\ spawn'[c] \in {"asked", "starting", "ready", "out"}
  \/ spawn[c] = "undo" /\ spawn'[c] = "out"

\* What a step leaves alone of a child.
Same(c) ==
  /\ finish'[c] = finish[c] /\ repair'[c] = repair[c] /\ status'[c] = status[c]
  /\ ending'[c] = ending[c] /\ endFiled'[c] = endFiled[c]
  /\ c \in active' <=> c \in active
  /\ c \in slots' => c \in slots

\* A child that a step does nothing to, but for what its spawn is waiting for.
LEMMA Bystander ==
  ASSUME ExecutorAssumption, TypesOK, TypesOK', LogKept, NEW c \in Children,
         ChildOK(c), NoNews(c), Same(c), SpawnGoesOn(c)
  PROVE  ChildOK(c)'
<1>1. /\ Said(c) => Said(c)'
      /\ SpawnCommitted(c) => SpawnCommitted(c)'
      /\ Told(c)' = Told(c)
      /\ \A p \in Told(c) : log'[Parent[c]][p] = log[Parent[c]][p]
      /\ \A p \in Told(c) : \A q \in 1..p : log'[Parent[c]][q] = log[Parent[c]][q]
      /\ restarts' = restarts
  BY KeptKnown DEF LogKept
<1>0. restarts \in Nat
  BY DEF TypesOK, LogsOK
<1>2. SpawnKnown(c)'
  BY <1>0, <1>1 DEF ChildOK, SpawnKnown, Same, SpawnGoesOn
<1>3. FinishKnown(c)'
  BY <1>1 DEF ChildOK, FinishKnown, SpawnKnown, Same, SpawnGoesOn
<1>4. ResultKnown(c)'
  BY <1>1 DEF ChildOK, ResultKnown, SpawnOf, Same
<1> QED BY <1>2, <1>3, <1>4 DEF ChildOK

\* The queues, when a step leaves them alone.
LEMMA QueuesStay ==
  ASSUME ExecutorAssumption, TypesOK, TypesOK', LogKept, QueueOK,
         UNCHANGED <<pending, runnable>>,
         \A c \in Children : spawn[c] = "out" => spawn'[c] = "out"
  PROVE  QueueOK'
<1>1. \A c \in Children : SpawnCommitted(c) => SpawnCommitted(c)'
  BY KeptKnown
<1>2. \A r \in Roots : \A i \in 1..Len(pending[r]) : pending[r][i] \in Children
  BY DEF TypesOK, QueuesOK
<1> QED BY <1>1, <1>2 DEF QueueOK

\* A set of positions has a last one.
LEMMA LastOf ==
  ASSUME NEW n \in Nat, NEW at \in SUBSET (1..n), at # {}
  PROVE  \E p \in at : \A q \in at : q <= p
<1> DEFINE T == {n - p : p \in at}
<1>0. PICK first \in at : TRUE
  OBVIOUS
<1>1. T \in SUBSET Nat /\ T # {}
  <2>1. \A p \in at : n - p \in Nat
    OBVIOUS
  <2>2. n - first \in T
    BY <1>0
  <2> QED BY <2>1, <2>2
<1>2. PICK m \in T : \A k \in T : m <= k
  <2> HIDE DEF T
  <2> QED BY <1>1, LeastNat
<1>3. PICK p \in at : m = n - p
  BY <1>2
<1>4. \A q \in at : n - p <= n - q
  BY <1>2, <1>3
<1>5. \A q \in at : q <= p
  BY <1>3, <1>4
<1> QED BY <1>5

\* The last fact of a kind is one, if there are any.
LEMMA LastAtIs ==
  ASSUME LogsOK, NEW r \in Roots, NEW type, NEW of, NEW p \in 1..Len(log[r]),
         log[r][p].type = type, log[r][p].of = of
  PROVE  /\ LastAt(r, type, of) \in 1..Len(log[r])
         /\ log[r][LastAt(r, type, of)].type = type
         /\ log[r][LastAt(r, type, of)].of = of
<1> DEFINE at == {q \in DOMAIN log[r] : log[r][q].type = type /\ log[r][q].of = of}
<1>1. Len(log[r]) \in Nat /\ DOMAIN log[r] = 1..Len(log[r])
  BY DEF LogsOK
<1>2. at \in SUBSET (1..Len(log[r])) /\ at # {}
  BY <1>1
<1>3. \E m \in at : \A q \in at : q <= m
  <2> HIDE DEF at
  <2> QED BY <1>1, <1>2, LastOf
<1>4. LastAt(r, type, of) = CHOOSE m \in at : \A q \in at : q <= m
  BY DEF LastAt
<1>5. LastAt(r, type, of) \in at
  <2> HIDE DEF at
  <2> QED BY <1>3, <1>4
<1> QED BY <1>1, <1>5

\* Where the spawn of a child was recorded, and its last result.
LEMMA SpawnAtIs ==
  ASSUME ExecutorAssumption, LogsOK, FactsOK, NEW c \in Children, Said(c)
  PROVE  SpawnAt(c) \in 1..Len(log[Parent[c]]) /\ log[Parent[c]][SpawnAt(c)] = SpawnOf(c)
<1> DEFINE r == Parent[c]
<1>1. r \in Roots
  BY ParentType
<1>2. PICK p \in 1..Len(log[r]) : log[r][p] = SpawnOf(c)
  BY DEF Said
<1>3. log[r][p].type = "spawn" /\ log[r][p].of = c
  BY <1>2 DEF SpawnOf, Fact
<1> HIDE DEF r
<1>4. /\ LastAt(r, "spawn", c) \in 1..Len(log[r])
      /\ log[r][LastAt(r, "spawn", c)].type = "spawn"
      /\ log[r][LastAt(r, "spawn", c)].of = c
  BY <1>1, <1>3, LastAtIs
<1>5. log[r][LastAt(r, "spawn", c)] \in Facts
  BY <1>1, <1>4 DEF LogsOK
<1>6. log[r][LastAt(r, "spawn", c)].outcome = "queued"
  BY <1>1, <1>4 DEF FactsOK
<1>7. log[r][LastAt(r, "spawn", c)] = SpawnOf(c)
  BY <1>4, <1>5, <1>6 DEF Facts, SpawnOf, Fact
<1> QED BY <1>4, <1>7 DEF SpawnAt, r

LEMMA ResultAtIs ==
  ASSUME ExecutorAssumption, LogsOK, NEW c \in Children, Told(c) # {}
  PROVE  ResultAt(c) \in Told(c)
<1> DEFINE r == Parent[c]
<1>1. r \in Roots
  BY ParentType
<1>2. PICK p \in 1..Len(log[r]) : log[r][p].type = "result" /\ log[r][p].of = c
  BY DEF Told, IsResult
<1> HIDE DEF r
<1>3. /\ LastAt(r, "result", c) \in 1..Len(log[r])
      /\ log[r][LastAt(r, "result", c)].type = "result"
      /\ log[r][LastAt(r, "result", c)].of = c
  BY <1>1, <1>2, LastAtIs
<1> QED BY <1>3 DEF ResultAt, Told, IsResult, r

\* The results in the file are among those in memory.
LEMMA ResultsAreTold ==
  ASSUME ExecutorAssumption, LogsOK, FilesOK, NEW c \in Children
  PROVE  /\ ResultsOf(c) = {p \in Told(c) : p <= filed[Parent[c]]}
         /\ ResultsOf(c) # {} => \E p \in ResultsOf(c) : \A q \in ResultsOf(c) : q <= p
<1> DEFINE r == Parent[c]
<1>1. /\ r \in Roots /\ filed[r] \in Nat /\ filed[r] <= Len(log[r]) /\ Len(log[r]) \in Nat
  BY ParentType DEF LogsOK, FilesOK
<1> HIDE DEF r
<1>2. ResultsOf(c) = {p \in Told(c) : p <= filed[r]}
  BY <1>1 DEF ResultsOf, Told, r
<1>3. ResultsOf(c) \in SUBSET (1..filed[r])
  BY DEF ResultsOf, r
<1>4. ResultsOf(c) # {} => \E p \in ResultsOf(c) : \A q \in ResultsOf(c) : q <= p
  BY <1>1, <1>3, LastOf
<1> QED BY <1>2, <1>4 DEF r

\* A barrier that is over.
LEMMA BarrierOver ==
  ASSUME LogsOK, NEW r \in Roots, NEW position, Durable(r, position) \/ Rejected(r, position)
  PROVE  /\ writer' \in [Roots -> {"sound", "failing", "poisoned"}]
         /\ \A s \in Roots : writer'[s] = "sound" => writer[s] = "sound"
BY DEF LogsOK, Durable, Rejected

\* Steps that record nothing.
LEMMA NothingRecorded ==
  ASSUME ExecutorAssumption, TypesOK, UNCHANGED <<log, filed, restarts>>
  PROVE  /\ LogKept /\ FactsOK' /\ \A c \in Children : NoNews(c)
         /\ log' \in [Roots -> Seq(Facts)] /\ restarts' \in Nat
<1>1. \A r \in Roots : Len(log[r]) \in Nat /\ filed[r] \in Nat
  BY DEF TypesOK, LogsOK
<1>2. LogKept
  BY <1>1 DEF LogKept
<1>3. \A c \in Children : NoNews(c)
  BY <1>1, ParentType DEF NoNews
<1> QED BY <1>2, <1>3 DEF TypesOK, LogsOK, FactsOK

\* Steps that record something in the log of a root.
LEMMA Recorded ==
  ASSUME ExecutorAssumption, TypesOK, NEW r \in Roots, NEW new \in Seq(Facts),
         log' = [log EXCEPT ![r] = @ \o new], UNCHANGED <<filed, restarts>>,
         \A k \in 1..Len(new) : new[k].type = "spawn" => new[k].outcome = "queued"
  PROVE  /\ LogKept /\ FactsOK'
         /\ log' \in [Roots -> Seq(Facts)] /\ restarts' \in Nat
         /\ Len(log'[r]) = Len(log[r]) + Len(new)
         /\ \A p \in 1..Len(log'[r]) : p \in 1..Len(log[r]) \/ p - Len(log[r]) \in 1..Len(new)
         /\ \A k \in 1..Len(new) : log'[r][Len(log[r]) + k] = new[k]
         /\ \A c \in Children :
              (Parent[c] = r => \A k \in 1..Len(new) : ~IsResult(new[k], c)) => NoNews(c)
<1>1. /\ log[r] \in Seq(Facts) /\ log'[r] = log[r] \o new
      /\ \A s \in Roots : s # r => log'[s] = log[s]
      /\ \A s \in Roots : Len(log[s]) \in Nat /\ filed[s] \in Nat
  BY DEF TypesOK, LogsOK
<1>2. log' \in [Roots -> Seq(Facts)]
  <2>1. log[r] \o new \in Seq(Facts)
    BY <1>1
  <2> QED BY <2>1 DEF TypesOK, LogsOK
<1>3. /\ Len(log'[r]) = Len(log[r]) + Len(new)
      /\ \A p \in 1..Len(log'[r]) : p \in 1..Len(log[r]) \/ p - Len(log[r]) \in 1..Len(new)
      /\ \A p \in 1..Len(log[r]) : log'[r][p] = log[r][p]
      /\ \A k \in 1..Len(new) : log'[r][Len(log[r]) + k] = new[k]
      /\ Len(log[r]) <= Len(log'[r])
  BY <1>1, ConcatAt
<1>4. LogKept
  BY <1>1, <1>3 DEF LogKept
<1>5. FactsOK'
  <2> SUFFICES ASSUME NEW s \in Roots, NEW p \in 1..Len(log'[s]), log'[s][p].type = "spawn"
               PROVE  log'[s][p].outcome = "queued"
    BY DEF FactsOK
  <2>1. CASE p \in 1..Len(log[s])
    BY <1>1, <1>3, <2>1 DEF TypesOK, FactsOK
  <2>2. CASE s = r /\ p - Len(log[r]) \in 1..Len(new)
    <3> DEFINE k == p - Len(log[r])
    <3>1. p = Len(log[r]) + k
      BY <1>1
    <3>2. log'[r][p] = new[k]
      BY <1>3, <2>2, <3>1
    <3> QED BY <2>2, <3>2
  <2> QED BY <1>1, <1>3, <2>1, <2>2
<1>6. ASSUME NEW c \in Children, Parent[c] = r => \A k \in 1..Len(new) : ~IsResult(new[k], c)
      PROVE  NoNews(c)
  <2> SUFFICES ASSUME NEW p \in 1..Len(log'[Parent[c]]), ~(p <= Len(log[Parent[c]]))
               PROVE  ~IsResult(log'[Parent[c]][p], c)
    BY DEF NoNews
  <2>1. Parent[c] \in Roots
    BY ParentType
  <2>2. Parent[c] = r
    BY <1>1, <2>1
  <2>3. p - Len(log[r]) \in 1..Len(new) /\ p = Len(log[r]) + (p - Len(log[r]))
    BY <1>1, <1>3, <2>2
  <2>4. log'[r][p] = new[p - Len(log[r])]
    BY <1>3, <2>3
  <2> QED BY <1>6, <2>2, <2>3, <2>4
<1> QED BY <1>2, <1>3, <1>4, <1>5, <1>6 DEF TypesOK, LogsOK

\* What stays in the files, when a step stores nothing.
LEMMA KeepsFiles ==
  ASSUME ExecutorAssumption, TypesOK, LogKept, log' \in [Roots -> Seq(Facts)],
         UNCHANGED <<synced, filed>>,
         writer' \in [Roots -> {"sound", "failing", "poisoned"}],
         \A r \in Roots : writer'[r] = "sound" => writer[r] = "sound"
  PROVE  LogsOK' /\ FilesOK'
<1>1. LogsOK'
  BY DEF TypesOK, LogsOK, LogKept
<1>2. \A r \in Roots : /\ Len(log[r]) \in Nat /\ Len(log'[r]) \in Nat /\ filed[r] \in Nat
                       /\ Len(log[r]) <= Len(log'[r])
  BY <1>1 DEF TypesOK, LogsOK, LogKept
<1>3. FilesOK'
  BY <1>2 DEF TypesOK, FilesOK
<1> QED BY <1>1, <1>3

\* What is left of a sequence without some elements.
LEMMA WithoutIs ==
  ASSUME NEW S, NEW seq \in Seq(S), NEW gone
  PROVE  /\ Without(seq, gone) \in Seq(S)
         /\ \A k \in 1..Len(Without(seq, gone)) :
              /\ Without(seq, gone)[k] \notin gone
              /\ \E i \in 1..Len(seq) : Without(seq, gone)[k] = seq[i]
         /\ (\A i, j \in 1..Len(seq) : seq[i] = seq[j] => i = j) =>
              \A k, m \in 1..Len(Without(seq, gone)) :
                Without(seq, gone)[k] = Without(seq, gone)[m] => k = m
<1> DEFINE U == {i \in DOMAIN seq : seq[i] \notin gone}
<1>1. /\ DOMAIN seq = 1..Len(seq) /\ Len(seq) \in Nat
      /\ U \in SUBSET Nat /\ U \subseteq 1..Len(seq) /\ IsFiniteSet(U)
  <2>1. DOMAIN seq = 1..Len(seq) /\ Len(seq) \in Nat
    OBVIOUS
  <2>2. U \subseteq 1..Len(seq) /\ IsFiniteSet(1..Len(seq))
    BY <2>1, FS_Interval
  <2>3. IsFiniteSet(U)
    BY <2>2, FS_Subset
  <2> QED BY <2>1, <2>2, <2>3
<1>2. \A i \in U : seq[i] \notin gone /\ seq[i] \in S
  BY <1>1
<1>3. Without(seq, gone) = [k \in 1..Cardinality(U) |-> seq[Nth(U, k)]]
  BY DEF Without, Picked
<1> HIDE DEF U
<1>4. Cardinality(U) \in Nat
  BY <1>1, FS_CardinalityType
<1>5. \A k \in 1..Cardinality(U) : Nth(U, k) \in U /\ Rank(U, Nth(U, k)) = k
  BY <1>1, NthHasRank
<1>6. Without(seq, gone) \in Seq(S) /\ Len(Without(seq, gone)) = Cardinality(U)
  BY <1>2, <1>3, <1>4, <1>5
<1>7. \A k \in 1..Cardinality(U) : Without(seq, gone)[k] = seq[Nth(U, k)]
  BY <1>3
<1>8. \A k \in 1..Cardinality(U) :
        /\ Without(seq, gone)[k] \notin gone
        /\ \E i \in 1..Len(seq) : Without(seq, gone)[k] = seq[i]
  BY <1>1, <1>2, <1>5, <1>7
<1>9. ASSUME \A i, j \in 1..Len(seq) : seq[i] = seq[j] => i = j,
             NEW k \in 1..Cardinality(U), NEW m \in 1..Cardinality(U),
             Without(seq, gone)[k] = Without(seq, gone)[m]
      PROVE  k = m
  <2>1. Nth(U, k) = Nth(U, m)
    BY <1>1, <1>5, <1>7, <1>9
  <2> QED BY <1>5, <2>1
<1> QED BY <1>6, <1>8, <1>9

-----------------------------------------------------------------------------
(* The steps. *)

\* A step that at most records something other than a result, moves an early
\* spawn on, or stores a record.
LEMMA QuietStep ==
  ASSUME ExecutorAssumption, IInv, LogKept, LogsOK', FilesOK', FactsOK',
         spawn' \in [Children -> Spawning],
         \A c \in Children : SpawnGoesOn(c) /\ NoNews(c),
         UNCHANGED <<ending, endFiled, active, slots, pending, runnable, status, finish,
                     repair>>
  PROVE  IInv' /\ LogKept
<1>1. TypesOK'
  BY DEF IInv, TypesOK, ChildrenOK, QueuesOK
<1>2. TypesOK /\ QueueOK /\ \A c \in Children : ChildOK(c)
  BY DEF IInv
<1>3. QueueOK'
  <2>1. \A c \in Children : spawn[c] = "out" => spawn'[c] = "out"
    BY DEF SpawnGoesOn
  <2> QED BY <1>1, <1>2, <2>1, QueuesStay
<1>4. ASSUME NEW c \in Children PROVE ChildOK(c)'
  <2>1. Same(c)
    BY DEF Same
  <2> QED BY <1>1, <1>2, <2>1, Bystander
<1> QED BY <1>1, <1>3, <1>4 DEF IInv

\* A step of one child.
LEMMA OneChild ==
  ASSUME ExecutorAssumption, IInv, TypesOK', QueueOK', LogKept,
         NEW c \in Children, ChildOK(c)',
         \A d \in Children : d # c => Same(d) /\ NoNews(d) /\ spawn'[d] = spawn[d]
  PROVE  IInv' /\ LogKept
<1>1. ASSUME NEW d \in Children, d # c PROVE ChildOK(d)'
  <2>1. Same(d) /\ NoNews(d) /\ SpawnGoesOn(d)
    BY <1>1 DEF SpawnGoesOn
  <2> QED BY <1>1, <2>1, Bystander DEF IInv
<1> QED BY <1>1 DEF IInv

\* One more record.
LEMMA RecordedOne ==
  ASSUME ExecutorAssumption, TypesOK, NEW r \in Roots, NEW fact \in Facts,
         Record(r, fact), UNCHANGED <<filed, restarts>>,
         fact.type = "spawn" => fact.outcome = "queued"
  PROVE  /\ LogKept /\ FactsOK'
         /\ log' \in [Roots -> Seq(Facts)] /\ restarts' \in Nat
         /\ Len(log[r]) \in Nat /\ Len(log'[r]) = Len(log[r]) + 1
         /\ log'[r][Len(log[r]) + 1] = fact
         /\ \A p \in 1..Len(log'[r]) : p \in 1..Len(log[r]) \/ p = Len(log[r]) + 1
         /\ \A c \in Children : (Parent[c] = r => ~IsResult(fact, c)) => NoNews(c)
<1> DEFINE new == <<fact>>
<1>1. new \in Seq(Facts) /\ Len(new) = 1 /\ new[1] = fact
  OBVIOUS
<1>2. log[r] \in Seq(Facts) /\ Len(log[r]) \in Nat
  BY DEF TypesOK, LogsOK
<1>3. Append(log[r], fact) = log[r] \o new
  BY <1>2
<1>4. log' = [log EXCEPT ![r] = @ \o new]
  BY <1>3 DEF Record
<1> HIDE DEF new
<1>5. \A k \in 1..Len(new) : k = 1 /\ new[k] = fact
  BY <1>1
<1>6. /\ LogKept /\ FactsOK'
      /\ log' \in [Roots -> Seq(Facts)] /\ restarts' \in Nat
      /\ Len(log'[r]) = Len(log[r]) + Len(new)
      /\ \A p \in 1..Len(log'[r]) : p \in 1..Len(log[r]) \/ p - Len(log[r]) \in 1..Len(new)
      /\ \A k \in 1..Len(new) : log'[r][Len(log[r]) + k] = new[k]
      /\ \A c \in Children :
           (Parent[c] = r => \A k \in 1..Len(new) : ~IsResult(new[k], c)) => NoNews(c)
  <2>1. \A k \in 1..Len(new) : new[k].type = "spawn" => new[k].outcome = "queued"
    BY <1>5
  <2> HIDE DEF IsResult
  <2> QED BY <1>1, <1>4, <2>1, Recorded
<1>7. \A c \in Children : (Parent[c] = r => ~IsResult(fact, c)) => NoNews(c)
  BY <1>5, <1>6
<1>8. \A p \in 1..Len(log'[r]) : p \in 1..Len(log[r]) \/ p = Len(log[r]) + 1
  BY <1>1, <1>2, <1>6
<1>9. log'[r][Len(log[r]) + 1] = fact
  BY <1>1, <1>6
<1> QED BY <1>1, <1>2, <1>6, <1>7, <1>8, <1>9

\* What the steps of turns, and of a spawn that has not reserved, leave alone.
Aside == UNCHANGED <<synced, filed, restarts, ending, endFiled, active, slots, pending,
                     runnable, status, finish, repair>>

LEMMA AsideSilent ==
  ASSUME ExecutorAssumption, IInv, Aside, UNCHANGED log,
         spawn' \in [Children -> Spawning], \A c \in Children : SpawnGoesOn(c),
         writer' \in [Roots -> {"sound", "failing", "poisoned"}],
         \A r \in Roots : writer'[r] = "sound" => writer[r] = "sound"
  PROVE  IInv' /\ LogKept
<1>1. TypesOK
  BY DEF IInv
<1>2. /\ LogKept /\ FactsOK' /\ \A c \in Children : NoNews(c)
      /\ log' \in [Roots -> Seq(Facts)]
  BY <1>1, NothingRecorded DEF Aside
<1>3. LogsOK' /\ FilesOK'
  BY <1>1, <1>2, KeepsFiles DEF Aside
<1> QED BY <1>2, <1>3, QuietStep DEF Aside

LEMMA AsideRecorded ==
  ASSUME ExecutorAssumption, IInv, Aside, UNCHANGED writer,
         spawn' \in [Children -> Spawning], \A c \in Children : SpawnGoesOn(c),
         NEW r \in Roots, NEW fact \in Facts, Record(r, fact),
         fact.type \notin {"spawn", "result"}
  PROVE  IInv' /\ LogKept
<1>1. TypesOK
  BY DEF IInv
<1>2. \A c \in Children : ~IsResult(fact, c)
  BY DEF IsResult
<1>3. /\ LogKept /\ FactsOK' /\ \A c \in Children : NoNews(c)
      /\ log' \in [Roots -> Seq(Facts)]
  BY <1>1, <1>2, RecordedOne DEF Aside
<1>4. LogsOK' /\ FilesOK'
  BY <1>1, <1>3, KeepsFiles DEF Aside, TypesOK, LogsOK
<1> QED BY <1>3, <1>4, QuietStep DEF Aside

\* An early spawn of one child goes on.
LEMMA EarlySpawn ==
  ASSUME ChildrenOK, NEW c \in Children,
         \/ /\ spawn[c] \in {"none", "asked", "starting", "ready"}
            /\ \E to \in {"asked", "starting", "ready", "out"} : spawn' = [spawn EXCEPT ![c] = to]
         \/ spawn[c] = "undo" /\ spawn' = [spawn EXCEPT ![c] = "out"]
  PROVE  spawn' \in [Children -> Spawning] /\ \A d \in Children : SpawnGoesOn(d)
BY DEF ChildrenOK, Spawning, SpawnGoesOn

LEMMA SpawnStays ==
  ASSUME ChildrenOK, UNCHANGED spawn
  PROVE  spawn' \in [Children -> Spawning] /\ \A d \in Children : SpawnGoesOn(d)
BY DEF ChildrenOK, SpawnGoesOn

LEMMA WriterStays ==
  ASSUME LogsOK, UNCHANGED writer
  PROVE  /\ writer' \in [Roots -> {"sound", "failing", "poisoned"}]
         /\ \A r \in Roots : writer'[r] = "sound" => writer[r] = "sound"
BY DEF LogsOK

LEMMA TurnFactType ==
  ASSUME NEW t \in Turns, NEW type \in {"start", "closing", "end"},
         NEW outcome \in {"none", "failed", "completed"}
  PROVE  Fact(type, t, outcome) \in Facts /\ Fact(type, t, outcome).type \notin {"spawn", "result"}
BY DEF Facts, Fact, Statuses

LEMMA AskStep ==
  ASSUME ExecutorAssumption, IInv, NEW c \in Children, Ask(c)
  PROVE  IInv' /\ LogKept
<1>1. Aside /\ UNCHANGED <<log, writer>>
  BY DEF Ask, Aside, storeVars, dispatchVars, admissionVars
<1>2. ChildrenOK /\ LogsOK
  BY DEF IInv, TypesOK
<1>3. spawn[c] = "none" /\ spawn' = [spawn EXCEPT ![c] = "asked"]
  BY DEF Ask, Fresh
<1>4. spawn' \in [Children -> Spawning] /\ \A d \in Children : SpawnGoesOn(d)
  BY <1>2, <1>3, EarlySpawn
<1> QED BY <1>1, <1>2, <1>4, WriterStays, AsideSilent

LEMMA EnterManualStep ==
  ASSUME ExecutorAssumption, IInv, NEW c \in Children, EnterManual(c)
  PROVE  IInv' /\ LogKept
<1> DEFINE t == TurnOf[c]
           r == RootOf[t]
<1>1. Aside /\ UNCHANGED writer
  BY DEF EnterManual, Aside, dispatchVars
<1>2. ChildrenOK /\ LogsOK
  BY DEF IInv, TypesOK
<1>3. t \in Turns /\ r \in Roots
  BY ParentType
<1>4. /\ spawn[c] = "asked"
      /\ \/ spawn' = [spawn EXCEPT ![c] = "out"] /\ UNCHANGED log
         \/ spawn' = [spawn EXCEPT ![c] = "starting"] /\ Record(r, Fact("start", t, "none"))
  BY DEF EnterManual
<1>5. spawn' \in [Children -> Spawning] /\ \A d \in Children : SpawnGoesOn(d)
  BY <1>2, <1>4, EarlySpawn
<1>6. CASE UNCHANGED log
  BY <1>1, <1>2, <1>5, <1>6, WriterStays, AsideSilent
<1>7. CASE Record(r, Fact("start", t, "none"))
  BY <1>1, <1>3, <1>5, <1>7, TurnFactType, AsideRecorded
<1> QED BY <1>4, <1>6, <1>7

LEMMA ManualStartedStep ==
  ASSUME ExecutorAssumption, IInv, NEW c \in Children, ManualStarted(c)
  PROVE  IInv' /\ LogKept
<1> DEFINE r == RootOf[TurnOf[c]]
           at == LastAt(r, "start", TurnOf[c])
<1>1. Aside /\ UNCHANGED log
  BY DEF ManualStarted, Aside, dispatchVars
<1>2. ChildrenOK /\ LogsOK /\ r \in Roots
  BY ParentType DEF IInv, TypesOK
<1>3. /\ spawn[c] = "starting"
      /\ \E to \in {"ready", "out"} : spawn' = [spawn EXCEPT ![c] = to]
      /\ Durable(r, at) \/ Rejected(r, at)
  BY DEF ManualStarted
<1>4. spawn' \in [Children -> Spawning] /\ \A d \in Children : SpawnGoesOn(d)
  BY <1>2, <1>3, EarlySpawn
<1>5. /\ writer' \in [Roots -> {"sound", "failing", "poisoned"}]
      /\ \A s \in Roots : writer'[s] = "sound" => writer[s] = "sound"
  <2> HIDE DEF at, r
  <2> QED BY <1>2, <1>3, BarrierOver
<1> QED BY <1>1, <1>4, <1>5, AsideSilent

\* A spawn that is refused, or has been undone.
LEMMA FailStep ==
  ASSUME ExecutorAssumption, IInv, NEW c \in Children, Fail(c), Aside, UNCHANGED writer,
         spawn[c] \in {"none", "asked", "starting", "ready", "undo"}
  PROVE  IInv' /\ LogKept
<1> DEFINE t == TurnOf[c]
           r == RootOf[t]
           new == <<Fact("closing", t, "none"), Fact("end", t, "failed")>>
<1>1. ChildrenOK /\ LogsOK /\ TypesOK /\ t \in Turns /\ r \in Roots
  BY ParentType DEF IInv, TypesOK
<1>2. /\ spawn' = [spawn EXCEPT ![c] = "out"]
      /\ UNCHANGED log \/ log' = [log EXCEPT ![r] = @ \o new]
  BY DEF Fail
<1>3. spawn' \in [Children -> Spawning] /\ \A d \in Children : SpawnGoesOn(d)
  BY <1>1, <1>2, EarlySpawn
<1>4. CASE UNCHANGED log
  BY <1>1, <1>3, <1>4, WriterStays, AsideSilent
<1>5. CASE log' = [log EXCEPT ![r] = @ \o new]
  <2>1. new \in Seq(Facts) /\ \A k \in 1..Len(new) : new[k].type \notin {"spawn", "result"}
    <3>1. \A outcome \in {"none", "failed"}, type \in {"closing", "end"} :
            Fact(type, t, outcome) \in Facts /\ Fact(type, t, outcome).type \notin {"spawn", "result"}
      BY <1>1, TurnFactType
    <3> QED BY <3>1
  <2> HIDE DEF new, r, t
  <2>2. /\ \A k \in 1..Len(new) : new[k].type = "spawn" => new[k].outcome = "queued"
        /\ \A d \in Children : \A k \in 1..Len(new) : ~IsResult(new[k], d)
    BY <2>1 DEF IsResult
  <2>3. /\ LogKept /\ FactsOK' /\ \A d \in Children : NoNews(d)
        /\ log' \in [Roots -> Seq(Facts)]
    BY <1>1, <1>5, <2>1, <2>2, Recorded DEF Aside
  <2>4. LogsOK' /\ FilesOK'
    BY <1>1, <2>3, WriterStays, KeepsFiles DEF Aside
  <2> QED BY <1>3, <2>3, <2>4, QuietStep DEF Aside
<1> QED BY <1>2, <1>4, <1>5

LEMMA RefuseStep ==
  ASSUME ExecutorAssumption, IInv, NEW c \in Children, Refuse(c)
  PROVE  IInv' /\ LogKept
<1>1. Fail(c) /\ Aside /\ UNCHANGED writer /\ spawn[c] \in {"ready", "asked"}
  BY DEF Refuse, Admissible, Aside, dispatchVars
<1> QED BY <1>1, FailStep

LEMMA UndoneStep ==
  ASSUME ExecutorAssumption, IInv, NEW c \in Children, Undone(c)
  PROVE  IInv' /\ LogKept
<1>1. Fail(c) /\ Aside /\ UNCHANGED writer /\ spawn[c] = "undo"
  BY DEF Undone, Aside, dispatchVars
<1> QED BY <1>1, FailStep

\* The steps of a turn that do nothing to a child.
LEMMA TurnStep ==
  ASSUME ExecutorAssumption, IInv, NEW t \in Turns,
         \/ Begin(t) \/ Close(t) \/ Mark(t) \/ Complete(t) \/ FinishManual(t)
         \/ ManualEnds(t) \/ EndOtherwise(t) \/ ReleaseTurns(t)
  PROVE  IInv' /\ LogKept
<1> DEFINE r == RootOf[t]
<1>1. ChildrenOK /\ LogsOK /\ r \in Roots
  BY DEF IInv, TypesOK, ExecutorAssumption
<1>2. Aside /\ UNCHANGED spawn
  BY DEF Begin, Close, Mark, Complete, FinishManual, ManualEnds, EndOtherwise,
         ReleaseTurns, notTurn, Aside
<1>3. spawn' \in [Children -> Spawning] /\ \A d \in Children : SpawnGoesOn(d)
  BY <1>1, <1>2, SpawnStays
<1>4. CASE Begin(t) \/ Close(t) \/ Complete(t) \/ EndOtherwise(t) \/ ReleaseTurns(t)
  <2>1. UNCHANGED <<log, writer>>
    BY <1>4 DEF Begin, Close, Complete, EndOtherwise, ReleaseTurns
  <2> QED BY <1>1, <1>2, <1>3, <2>1, WriterStays, AsideSilent
<1>5. CASE Mark(t) \/ FinishManual(t)
  <2>1. /\ UNCHANGED writer
        /\ \/ UNCHANGED log
           \/ Record(r, Fact("closing", t, "none"))
           \/ Record(r, Fact("end", t, "completed"))
    BY <1>5 DEF Mark, FinishManual
  <2>2. CASE UNCHANGED log
    BY <1>1, <1>2, <1>3, <2>1, <2>2, WriterStays, AsideSilent
  <2>3. CASE Record(r, Fact("closing", t, "none"))
    BY <1>1, <1>2, <1>3, <2>1, <2>3, TurnFactType, AsideRecorded
  <2>4. CASE Record(r, Fact("end", t, "completed"))
    BY <1>1, <1>2, <1>3, <2>1, <2>4, TurnFactType, AsideRecorded
  <2> QED BY <2>1, <2>2, <2>3, <2>4
<1>6. CASE ManualEnds(t)
  <2> DEFINE at == LastAt(r, "end", t)
  <2>1. UNCHANGED log /\ (Durable(r, at) \/ Rejected(r, at))
    BY <1>6 DEF ManualEnds
  <2> HIDE DEF at, r
  <2>2. /\ writer' \in [Roots -> {"sound", "failing", "poisoned"}]
        /\ \A s \in Roots : writer'[s] = "sound" => writer[s] = "sound"
    BY <1>1, <2>1, BarrierOver
  <2> QED BY <1>2, <1>3, <2>1, <2>2, AsideSilent
<1> QED BY <1>4, <1>5, <1>6

\* A record is stored, or its write or sync fails.
LEMMA StoreStep ==
  ASSUME ExecutorAssumption, IInv, NEW r \in Roots, RecordStored(r) \/ StorageBreaks(r)
  PROVE  IInv' /\ LogKept
<1>1. TypesOK
  BY DEF IInv
<1>2. /\ UNCHANGED <<log, restarts, ending, endFiled, active, slots, pending, runnable,
                     status, finish, repair, spawn>>
      /\ writer[r] = "sound" /\ synced[r] < Len(log[r])
      /\ \/ /\ synced' = [synced EXCEPT ![r] = @ + 1] /\ filed' = [filed EXCEPT ![r] = @ + 1]
            /\ UNCHANGED writer
         \/ /\ UNCHANGED synced /\ writer' = [writer EXCEPT ![r] = "failing"]
            /\ \E written \in {0, 1} : filed' = [filed EXCEPT ![r] = @ + written]
  BY DEF RecordStored, StorageBreaks, storeVars, dispatchVars, admissionVars
<1>3. \A s \in Roots : Len(log[s]) \in Nat /\ synced[s] \in Nat /\ filed[s] \in Nat
  BY <1>1 DEF TypesOK, LogsOK
<1>4. synced[r] = filed[r]
  BY <1>1, <1>2 DEF TypesOK, FilesOK
<1>5. \E stored, written \in {0, 1} :
        /\ synced' = [synced EXCEPT ![r] = @ + stored]
        /\ filed' = [filed EXCEPT ![r] = @ + written]
        /\ \/ writer' = writer /\ stored = written
           \/ writer' = [writer EXCEPT ![r] = "failing"] /\ stored = 0
  <2>1. CASE /\ synced' = [synced EXCEPT ![r] = @ + 1] /\ filed' = [filed EXCEPT ![r] = @ + 1]
             /\ UNCHANGED writer
    <3> WITNESS 1 \in {0, 1}, 1 \in {0, 1}
    <3> QED BY <2>1
  <2>2. CASE /\ UNCHANGED synced /\ writer' = [writer EXCEPT ![r] = "failing"]
             /\ \E written \in {0, 1} : filed' = [filed EXCEPT ![r] = @ + written]
    <3>1. synced' = [synced EXCEPT ![r] = @ + 0]
      BY <1>1, <1>3, <2>2 DEF TypesOK, LogsOK
    <3> QED BY <2>2, <3>1
  <2> QED BY <1>2, <2>1, <2>2
<1>5a. PICK stored \in {0, 1}, written \in {0, 1} :
         /\ synced' = [synced EXCEPT ![r] = @ + stored]
         /\ filed' = [filed EXCEPT ![r] = @ + written]
         /\ \/ writer' = writer /\ stored = written
            \/ writer' = [writer EXCEPT ![r] = "failing"] /\ stored = 0
  BY <1>5
<1>5b. /\ synced' \in [Roots -> Nat] /\ filed' \in [Roots -> Nat]
       /\ synced'[r] = synced[r] + stored /\ filed'[r] = filed[r] + written
       /\ \A s \in Roots : s # r => synced'[s] = synced[s] /\ filed'[s] = filed[s]
  BY <1>1, <1>3, <1>5a DEF TypesOK, LogsOK
<1>5c. /\ writer' \in [Roots -> {"sound", "failing", "poisoned"}]
       /\ \A s \in Roots : writer'[s] = "sound" => writer[s] = "sound"
       /\ writer'[r] = "sound" => stored = written
  BY <1>1, <1>5a DEF TypesOK, LogsOK
<1>6. LogKept
  BY <1>2, <1>3, <1>5b DEF LogKept
<1>7. LogsOK'
  BY <1>1, <1>2, <1>5b, <1>5c DEF TypesOK, LogsOK
<1>8. FilesOK'
  <2> SUFFICES ASSUME NEW s \in Roots
               PROVE  /\ synced'[s] <= filed'[s] /\ filed'[s] <= Len(log[s])
                      /\ writer'[s] = "sound" => synced'[s] = filed'[s]
    BY <1>2 DEF FilesOK
  <2>1. CASE s = r
    BY <1>2, <1>3, <1>4, <1>5a, <1>5b, <1>5c, <2>1
  <2>2. CASE s # r
    BY <1>1, <1>5b, <1>5c, <2>2 DEF TypesOK, FilesOK
  <2> QED BY <2>1, <2>2
<1>9. FactsOK' /\ \A c \in Children : NoNews(c)
  <2>1. FactsOK'
    BY <1>1, <1>2 DEF TypesOK, FactsOK
  <2>2. ASSUME NEW c \in Children
        PROVE  NoNews(c)
    <3>1. Parent[c] \in Roots
      BY ParentType
    <3>2. log'[Parent[c]] = log[Parent[c]]
      BY <1>2
    <3> QED BY <1>3, <3>1, <3>2 DEF NoNews
  <2> QED BY <2>1, <2>2
<1>10. spawn' \in [Children -> Spawning] /\ \A d \in Children : SpawnGoesOn(d)
  BY <1>1, <1>2, SpawnStays DEF TypesOK
<1> QED BY <1>2, <1>6, <1>7, <1>8, <1>9, <1>10, QuietStep

\* Queued children are taken out of the queues.
LEMMA Dequeued ==
  ASSUME ExecutorAssumption, TypesOK, QueueOK, LogKept, NEW gone, RemoveQueued(gone),
         UNCHANGED spawn
  PROVE  QueuesOK' /\ (TypesOK' => QueueOK')
<1> DEFINE empty == {r \in Roots : pending'[r] = <<>>}
<1>1. /\ pending' = [r \in Roots |-> Without(pending[r], gone)]
      /\ runnable' = Without(runnable, empty)
  BY DEF RemoveQueued
<1>2. runnable \in Seq(Roots) /\ \A r \in Roots : pending[r] \in Seq(Children)
  BY DEF TypesOK, QueuesOK
<1>3. ASSUME NEW r \in Roots
      PROVE  /\ pending'[r] \in Seq(Children)
             /\ \A k \in 1..Len(pending'[r]) :
                  \E i \in 1..Len(pending[r]) : pending'[r][k] = pending[r][i]
  <2>1. pending'[r] = Without(pending[r], gone)
    BY <1>1
  <2> QED BY <1>2, <2>1, WithoutIs
<1>4. \A i, j \in 1..Len(runnable) : runnable[i] = runnable[j] => i = j
  BY DEF QueueOK
<1> HIDE DEF empty
<1>5. /\ runnable' \in Seq(Roots)
      /\ \A k \in 1..Len(runnable') : runnable'[k] \notin empty
      /\ \A k, m \in 1..Len(runnable') : runnable'[k] = runnable'[m] => k = m
  BY <1>1, <1>2, <1>4, WithoutIs
<1>6. QueuesOK'
  BY <1>1, <1>3, <1>5 DEF QueuesOK
<1>7. ASSUME TypesOK'
      PROVE  QueueOK'
  <2>1. \A c \in Children : SpawnCommitted(c) => SpawnCommitted(c)'
    BY <1>7, KeptKnown
  <2>2. ASSUME NEW r \in Roots, NEW k \in 1..Len(pending'[r]), NEW c \in Children,
               c = pending'[r][k]
        PROVE  Parent[c] = r /\ SpawnCommitted(c)' /\ spawn'[c] = "out"
    <3>1. PICK i \in 1..Len(pending[r]) : c = pending[r][i]
      BY <1>3, <2>2
    <3>2. Parent[c] = r /\ SpawnCommitted(c) /\ spawn[c] = "out"
      BY <3>1 DEF QueueOK
    <3> QED BY <2>1, <3>2
  <2>3. \A i \in 1..Len(runnable') : pending'[runnable'[i]] # <<>>
    BY <1>5 DEF empty
  <2> QED BY <1>5, <2>2, <2>3 DEF QueueOK
<1> QED BY <1>6, <1>7

\* Live children are cancelled.
LEMMA CancelledMany ==
  ASSUME ExecutorAssumption, IInv, NEW who \in SUBSET Children, \A c \in who : Live(c),
         CancelAll(who),
         UNCHANGED <<log, synced, filed, restarts, ending, endFiled, active, slots, spawn,
                     repair>>,
         writer' \in [Roots -> {"sound", "failing", "poisoned"}],
         \A r \in Roots : writer'[r] = "sound" => writer[r] = "sound"
  PROVE  IInv' /\ LogKept
<1> DEFINE queued == {c \in who : status[c] = "queued"}
<1>1. TypesOK /\ QueueOK /\ \A c \in Children : ChildOK(c)
  BY DEF IInv
<1>2. /\ LogKept /\ FactsOK' /\ \A c \in Children : NoNews(c)
      /\ log' \in [Roots -> Seq(Facts)]
  BY <1>1, NothingRecorded
<1>3. /\ status' = [c \in Children |-> IF c \in who THEN "cancelled" ELSE status[c]]
      /\ finish' = [c \in Children |-> IF c \in queued THEN "child" ELSE finish[c]]
      /\ RemoveQueued(queued)
  BY DEF CancelAll
<1>4. QueuesOK' /\ (TypesOK' => QueueOK')
  <2> HIDE DEF queued
  <2> QED BY <1>1, <1>2, <1>3, Dequeued
<1>5. LogsOK' /\ FilesOK'
  BY <1>1, <1>2, KeepsFiles
<1>6. ChildrenOK'
  BY <1>1, <1>3 DEF TypesOK, ChildrenOK, Statuses, Finishing
<1>7. TypesOK'
  BY <1>2, <1>4, <1>5, <1>6 DEF TypesOK
<1>8. ASSUME NEW c \in Children PROVE ChildOK(c)'
  <2>1. CASE c \notin who
    <3>1. Same(c) /\ SpawnGoesOn(c)
      BY <1>3, <2>1 DEF Same, SpawnGoesOn
    <3> QED BY <1>1, <1>2, <1>7, <3>1, Bystander
  <2>2. CASE c \in who
    <3>1. /\ Said(c)' = Said(c) /\ Told(c)' = Told(c) /\ SpawnCommitted(c)' = SpawnCommitted(c)
      BY DEF Said, Told, SpawnCommitted, Canonical
    <3>2. /\ c \in active /\ status[c] \in {"queued", "running"} /\ status'[c] = "cancelled"
          /\ status[c] = "queued" => finish'[c] = "child" /\ finish[c] = "none"
          /\ status[c] # "queued" => finish'[c] = finish[c]
      BY <1>1, <1>3, <2>2 DEF Live, ChildOK, FinishKnown
    <3>3. SpawnKnown(c)'
      BY <1>1, <3>1, <3>2 DEF ChildOK, SpawnKnown
    <3>4. FinishKnown(c)'
      BY <1>1, <3>1, <3>2 DEF ChildOK, FinishKnown
    <3>5. ResultKnown(c)'
      BY <1>1, <3>1, <3>2 DEF ChildOK, ResultKnown
    <3> QED BY <3>3, <3>4, <3>5 DEF ChildOK
  <2> QED BY <2>1, <2>2
<1> QED BY <1>2, <1>4, <1>7, <1>8 DEF IInv

LEMMA CancelStep ==
  ASSUME ExecutorAssumption, IInv, NEW c \in Children, Cancel(c)
  PROVE  IInv' /\ LogKept
<1>1. Live(c) /\ CancelAll({c})
  BY DEF Cancel
<1>2. UNCHANGED <<log, synced, filed, writer, restarts, ending, endFiled, active, slots,
                  spawn, repair>>
  BY DEF Cancel, storeVars, admissionVars
<1>3. LogsOK
  BY DEF IInv, TypesOK
<1> QED BY <1>1, <1>2, <1>3, WriterStays, CancelledMany

LEMMA StopStep ==
  ASSUME ExecutorAssumption, IInv, NEW r \in Roots, Stop(r)
  PROVE  IInv' /\ LogKept
<1> DEFINE who == LiveOf(r)
<1>1. who \in SUBSET Children /\ (\A c \in who : Live(c)) /\ CancelAll(who)
  BY DEF Stop, LiveOf
<1>2. UNCHANGED <<log, synced, filed, writer, restarts, ending, endFiled, active, slots,
                  spawn, repair>>
  BY DEF Stop, storeVars, admissionVars
<1>3. LogsOK
  BY DEF IInv, TypesOK
<1> HIDE DEF who
<1> QED BY <1>1, <1>2, <1>3, WriterStays, CancelledMany

\* A turn that closes cancels its live children, once its mark is durable or when it
\* needs none.
LEMMA MarkedStep ==
  ASSUME ExecutorAssumption, IInv, NEW t \in Turns, CloseUnmarked(t) \/ Marked(t)
  PROVE  IInv' /\ LogKept
<1> DEFINE r == RootOf[t]
           at == LastAt(r, "closing", t)
           rest == {c \in LiveOf(r) : TurnOf[c] = t}
<1>1. LogsOK /\ ChildrenOK /\ r \in Roots
  BY DEF IInv, TypesOK, ExecutorAssumption
<1>2. UNCHANGED <<log, synced, filed, restarts, ending, endFiled, active, slots, spawn,
                  repair>>
  BY DEF CloseUnmarked, Marked, notTurn
<1>3. UNCHANGED writer \/ Rejected(r, at)
  BY DEF CloseUnmarked, Marked, Durable
<1>4. /\ writer' \in [Roots -> {"sound", "failing", "poisoned"}]
      /\ \A s \in Roots : writer'[s] = "sound" => writer[s] = "sound"
  <2> HIDE DEF at, r
  <2>1. CASE UNCHANGED writer
    BY <1>1, <2>1, WriterStays
  <2>2. CASE Rejected(r, at)
    BY <1>1, <2>2, BarrierOver
  <2> QED BY <1>3, <2>1, <2>2
<1>5. CancelAll(rest) \/ UNCHANGED <<status, finish, pending, runnable>>
  BY DEF CloseUnmarked, Marked, CancelRest
<1>6. CASE CancelAll(rest)
  <2>1. rest \in SUBSET Children /\ \A c \in rest : Live(c)
    BY DEF LiveOf
  <2> HIDE DEF rest
  <2> QED BY <1>2, <1>4, <1>6, <2>1, CancelledMany
<1>7. CASE UNCHANGED <<status, finish, pending, runnable>>
  <2>1. Aside /\ UNCHANGED <<log, spawn>>
    BY <1>2, <1>7 DEF Aside
  <2>2. spawn' \in [Children -> Spawning] /\ \A d \in Children : SpawnGoesOn(d)
    BY <1>1, <2>1, SpawnStays
  <2> QED BY <1>4, <2>1, <2>2, AsideSilent
<1> QED BY <1>5, <1>6, <1>7

\* A child is queued, its spawn being on record.
LEMMA Enqueued ==
  ASSUME ExecutorAssumption, TypesOK, QueueOK, LogKept, NEW c \in Children, Enqueue(c),
         SpawnCommitted(c), spawn'[c] = "out",
         \A d \in Children : spawn[d] = "out" => spawn'[d] = "out"
  PROVE  QueuesOK' /\ (TypesOK' => QueueOK')
<1> DEFINE r == Parent[c]
<1>1. /\ r \in Roots /\ runnable \in Seq(Roots) /\ \A s \in Roots : pending[s] \in Seq(Children)
      /\ pending' = [pending EXCEPT ![r] = Append(@, c)]
      /\ runnable' = IF Contains(runnable, r) THEN runnable ELSE Append(runnable, r)
      /\ pending \in [Roots -> Seq(Children)]
  BY ParentType DEF Enqueue, TypesOK, QueuesOK
<1>2. Contains(runnable, r) <=> \E i \in 1..Len(runnable) : runnable[i] = r
  BY <1>1 DEF Contains
<1> HIDE DEF r
<1>3. /\ pending'[r] \in Seq(Children) /\ Len(pending'[r]) = Len(pending[r]) + 1
      /\ \A i \in 1..Len(pending'[r]) : IF i <= Len(pending[r]) THEN pending'[r][i] = pending[r][i]
                                                             ELSE pending'[r][i] = c
      /\ \A s \in Roots : s # r => pending'[s] = pending[s]
  BY <1>1
<1>4. QueuesOK'
  BY <1>1, <1>3 DEF QueuesOK
<1>5a. pending'[r] # <<>>
  <2>1. Len(pending[r]) \in Nat /\ Len(pending'[r]) # 0
    BY <1>1, <1>3
  <2> QED BY <2>1
<1>5. \A s \in Roots : pending[s] # <<>> => pending'[s] # <<>>
  BY <1>3, <1>5a
<1>6. /\ \A i \in 1..Len(runnable') : pending'[runnable'[i]] # <<>>
      /\ \A i, j \in 1..Len(runnable') : runnable'[i] = runnable'[j] => i = j
  <2>1. CASE Contains(runnable, r)
    BY <1>1, <1>5, <2>1 DEF QueueOK
  <2>2. CASE ~Contains(runnable, r)
    <3>1. /\ Len(runnable') = Len(runnable) + 1 /\ Len(runnable) \in Nat
          /\ \A i \in 1..Len(runnable') :
               IF i <= Len(runnable) THEN runnable'[i] = runnable[i] ELSE runnable'[i] = r
      BY <1>1, <2>2
    <3>2. \A i \in 1..Len(runnable) : runnable[i] \in Roots /\ runnable[i] # r
      BY <1>1, <1>2, <2>2
    <3>3. \A i \in 1..Len(runnable') : pending'[runnable'[i]] # <<>>
      <4>1. \A i \in 1..Len(runnable) : pending'[runnable[i]] # <<>>
        BY <1>5, <3>2 DEF QueueOK
      <4> QED BY <1>5a, <3>1, <4>1
    <3>4. \A i, j \in 1..Len(runnable') : runnable'[i] = runnable'[j] => i = j
      BY <3>1, <3>2 DEF QueueOK
    <3> QED BY <3>3, <3>4
  <2> QED BY <2>1, <2>2
<1>7. ASSUME TypesOK'
      PROVE  QueueOK'
  <2>1. \A d \in Children : SpawnCommitted(d) => SpawnCommitted(d)'
    BY <1>7, KeptKnown
  <2>2. ASSUME NEW s \in Roots, NEW k \in 1..Len(pending'[s]), NEW d \in Children,
               d = pending'[s][k]
        PROVE  Parent[d] = s /\ SpawnCommitted(d)' /\ spawn'[d] = "out"
    <3>1. CASE s = r /\ k > Len(pending[r])
      <4>1. d = c
        BY <1>1, <1>3, <2>2, <3>1
      <4> QED BY <2>1, <3>1, <4>1 DEF r
    <3>2. CASE s # r \/ k <= Len(pending[r])
      <4>1. k \in 1..Len(pending[s]) /\ d = pending[s][k]
        BY <1>1, <1>3, <2>2, <3>2
      <4> QED BY <2>1, <4>1 DEF QueueOK
    <3> QED BY <1>1, <3>1, <3>2
  <2> QED BY <1>6, <2>2 DEF QueueOK
<1> QED BY <1>4, <1>7

\* A result is recorded.
LEMMA ResultRecorded ==
  ASSUME ExecutorAssumption, TypesOK, NEW c \in Children, NEW outcome \in Statuses,
         Record(Parent[c], Fact("result", c, outcome)), UNCHANGED <<filed, restarts>>
  PROVE  /\ LogKept /\ FactsOK' /\ log' \in [Roots -> Seq(Facts)]
         /\ \A d \in Children : d # c => NoNews(d)
         /\ Len(log[Parent[c]]) \in Nat
         /\ Len(log'[Parent[c]]) = Len(log[Parent[c]]) + 1
         /\ log'[Parent[c]][Len(log[Parent[c]]) + 1] = Fact("result", c, outcome)
<1> DEFINE r == Parent[c]
           fact == Fact("result", c, outcome)
           n == Len(log[r]) + 1
<1>1. r \in Roots /\ fact \in Facts /\ fact.type = "result" /\ fact.of = c /\ fact.outcome = outcome
  BY ParentType DEF Facts, Fact
<1>2. \A d \in Children : d # c => ~IsResult(fact, d)
  BY <1>1 DEF IsResult
<1>3. /\ LogKept /\ FactsOK'
      /\ log' \in [Roots -> Seq(Facts)]
      /\ Len(log[r]) \in Nat /\ Len(log'[r]) = n
      /\ log'[r][n] = fact
      /\ \A p \in 1..Len(log'[r]) : p \in 1..Len(log[r]) \/ p = n
      /\ \A d \in Children : (Parent[d] = r => ~IsResult(fact, d)) => NoNews(d)
  BY <1>1, RecordedOne
<1>4. \A d \in Children : d # c => NoNews(d)
  BY <1>2, <1>3
<1> QED BY <1>3, <1>4

\* What the log says of the child then.
LEMMA ResultTold ==
  ASSUME ExecutorAssumption, TypesOK, TypesOK', NEW c \in Children, NEW outcome \in Statuses,
         Record(Parent[c], Fact("result", c, outcome)), UNCHANGED <<filed, restarts>>,
         Said(c), ResultKnown(c), outcome # "queued",
         outcome = "completed" \/ (endFiled[c] /\ ending[c] = "completed") =>
           endFiled'[c] /\ ending'[c] = "completed"
  PROVE  /\ Said(c)' /\ Told(c)' # {}
         /\ \A p \in Told(c)' :
              /\ log'[Parent[c]][p].outcome # "queued"
              /\ log'[Parent[c]][p].outcome = "completed" =>
                   endFiled'[c] /\ ending'[c] = "completed"
              /\ \E q \in 1..p : log'[Parent[c]][q] = SpawnOf(c)
<1> DEFINE r == Parent[c]
           fact == Fact("result", c, outcome)
           n == Len(log[r]) + 1
<1>1. r \in Roots /\ fact.type = "result" /\ fact.of = c /\ fact.outcome = outcome
  BY ParentType DEF Fact
<1>2. LogKept /\ Len(log[r]) \in Nat /\ Len(log'[r]) = n /\ log'[r][n] = fact
  BY ResultRecorded
<1>3. \A p \in 1..Len(log'[r]) : p \in 1..Len(log[r]) \/ p = n
  BY <1>2
<1> HIDE DEF n, fact, r
<1>4. /\ Said(c)' /\ Told(c) \subseteq Told(c)'
      /\ \A p \in Told(c) : log'[r][p] = log[r][p]
      /\ \A p \in Told(c) : \A q \in 1..p : log'[r][q] = log[r][q]
  BY <1>2, KeptKnown DEF r
<1>5. Told(c)' = Told(c) \cup {n}
  <2>1. n \in Told(c)'
    BY <1>1, <1>2 DEF Told, IsResult, n, r
  <2>2. \A p \in 1..Len(log[r]) : log'[r][p] = log[r][p]
    BY <1>1, <1>2 DEF LogKept
  <2>3. ASSUME NEW p \in Told(c)', p # n PROVE p \in Told(c)
    <3>1. p \in 1..Len(log'[r]) /\ IsResult(log'[r][p], c)
      BY DEF Told, r
    <3>2. p \in 1..Len(log[r])
      BY <1>3, <2>3, <3>1
    <3> QED BY <2>2, <3>1, <3>2 DEF Told, r
  <2> QED BY <1>4, <2>1, <2>3
<1>6. \E q \in 1..n : log'[r][q] = SpawnOf(c)
  <2>1. PICK q \in 1..Len(log[r]) : log[r][q] = SpawnOf(c)
    BY DEF Said, r
  <2>2. log'[r][q] = log[r][q] /\ q \in 1..n
    BY <1>1, <1>2 DEF LogKept, n
  <2> QED BY <2>1, <2>2
<1>7. ASSUME NEW p \in Told(c)
      PROVE  /\ log'[r][p].outcome # "queued"
             /\ log'[r][p].outcome = "completed" => endFiled'[c] /\ ending'[c] = "completed"
             /\ \E q \in 1..p : log'[r][q] = SpawnOf(c)
  <2>1. /\ log[r][p].outcome # "queued" /\ \E q \in 1..p : log[r][q] = SpawnOf(c)
        /\ log[r][p].outcome = "completed" => endFiled[c] /\ ending[c] = "completed"
    BY DEF ResultKnown, r
  <2> QED BY <1>4, <2>1
<1> QED BY <1>1, <1>2, <1>4, <1>5, <1>6, <1>7 DEF r

\* A step that touches no file and no log, but for whether a barrier was refused.
LEMMA LogsStay ==
  ASSUME ExecutorAssumption, TypesOK, UNCHANGED <<log, synced, filed, restarts>>,
         writer' \in [Roots -> {"sound", "failing", "poisoned"}],
         \A r \in Roots : writer'[r] = "sound" => writer[r] = "sound"
  PROVE  /\ LogKept /\ LogsOK' /\ FilesOK' /\ FactsOK' /\ \A d \in Children : NoNews(d)
         /\ \A d \in Children : /\ Said(d)' = Said(d) /\ Told(d)' = Told(d)
                                /\ SpawnCommitted(d)' = SpawnCommitted(d)
<1>1. /\ LogKept /\ FactsOK' /\ \A d \in Children : NoNews(d)
      /\ log' \in [Roots -> Seq(Facts)]
  BY NothingRecorded
<1>2. LogsOK' /\ FilesOK'
  BY <1>1, KeepsFiles
<1>3. \A d \in Children : /\ Said(d)' = Said(d) /\ Told(d)' = Told(d)
                          /\ SpawnCommitted(d)' = SpawnCommitted(d)
  BY DEF Said, Told, SpawnCommitted, Canonical
<1> QED BY <1>1, <1>2, <1>3

LEMMA AdmitStep ==
  ASSUME ExecutorAssumption, IInv, NEW c \in Children, Admit(c)
  PROVE  IInv' /\ LogKept
<1>1. TypesOK /\ QueueOK /\ ChildOK(c)
  BY DEF IInv
<1>2. /\ active' = active \cup {c}
      /\ status' = [status EXCEPT ![c] = "queued"] /\ spawn' = [spawn EXCEPT ![c] = "meta"]
      /\ UNCHANGED <<log, synced, filed, writer, restarts, ending, endFiled, slots, pending,
                     runnable, finish, repair>>
      /\ spawn[c] \in {"ready", "asked"}
  BY DEF Admit, Admissible, storeVars, dispatchVars
<1>3. /\ LogKept /\ LogsOK' /\ FilesOK' /\ FactsOK' /\ \A d \in Children : NoNews(d)
      /\ Said(c)' = Said(c) /\ Told(c)' = Told(c) /\ SpawnCommitted(c)' = SpawnCommitted(c)
  BY <1>1, <1>2, WriterStays, LogsStay DEF TypesOK
<1>4. ChildrenOK'
  BY <1>1, <1>2 DEF TypesOK, ChildrenOK, Statuses, Spawning
<1>5. TypesOK'
  BY <1>1, <1>2, <1>3, <1>4 DEF TypesOK, QueuesOK
<1>6. /\ spawn'[c] = "meta" /\ status'[c] = "queued"
      /\ \A d \in Children : d # c => Same(d) /\ spawn'[d] = spawn[d]
  BY <1>1, <1>2 DEF TypesOK, ChildrenOK, Same
<1>7. QueueOK'
  BY <1>1, <1>2, <1>3, <1>5, <1>6, QueuesStay
<1>8. c \notin active /\ finish[c] = "none" /\ c \notin slots /\ ~(restarts > 0)
  BY <1>1, <1>2 DEF ChildOK, SpawnKnown, FinishKnown
<1>9. SpawnKnown(c)'
  BY <1>2, <1>6, <1>8 DEF SpawnKnown
<1>10. FinishKnown(c)'
  BY <1>1, <1>2, <1>3, <1>6, <1>8 DEF ChildOK, FinishKnown
<1>11. ResultKnown(c)'
  BY <1>1, <1>2, <1>3, <1>6 DEF ChildOK, ResultKnown
<1> QED BY <1>3, <1>5, <1>6, <1>7, <1>9, <1>10, <1>11, OneChild DEF ChildOK

\* An attempt is given up.
LEMMA UndoStep ==
  ASSUME ExecutorAssumption, IInv, NEW c \in Children, Undo(c), spawn[c] \in {"meta", "commit"},
         UNCHANGED <<log, synced, filed, restarts, ending, endFiled, slots, pending, runnable,
                     repair>>,
         writer' \in [Roots -> {"sound", "failing", "poisoned"}],
         \A r \in Roots : writer'[r] = "sound" => writer[r] = "sound"
  PROVE  IInv' /\ LogKept
<1>1. TypesOK /\ QueueOK /\ ChildOK(c)
  BY DEF IInv
<1>2. /\ LogKept /\ LogsOK' /\ FilesOK' /\ FactsOK' /\ \A d \in Children : NoNews(d)
      /\ Said(c)' = Said(c) /\ Told(c)' = Told(c) /\ SpawnCommitted(c)' = SpawnCommitted(c)
  BY <1>1, LogsStay
<1>3. ChildrenOK'
  BY <1>1 DEF TypesOK, ChildrenOK, Undo, Statuses, Spawning, Finishing
<1>4. TypesOK'
  BY <1>1, <1>2, <1>3 DEF TypesOK, QueuesOK
<1>5. /\ spawn'[c] = "undo" /\ finish'[c] = "done" /\ c \notin active'
      /\ status'[c] # "queued"
      /\ \A d \in Children : d # c => Same(d) /\ spawn'[d] = spawn[d]
  BY <1>1 DEF TypesOK, ChildrenOK, Undo, Same
<1>6. QueueOK'
  BY <1>1, <1>2, <1>4, <1>5, QueuesStay
<1>7. c \notin slots /\ ~(restarts > 0)
  BY <1>1 DEF ChildOK, SpawnKnown, FinishKnown
<1>8. SpawnKnown(c)'
  BY <1>5, <1>7 DEF SpawnKnown
<1>9. FinishKnown(c)'
  BY <1>1, <1>2, <1>5, <1>7 DEF ChildOK, FinishKnown
<1>10. ResultKnown(c)'
  BY <1>1, <1>2, <1>5 DEF ChildOK, ResultKnown
<1> QED BY <1>2, <1>4, <1>5, <1>6, <1>8, <1>9, <1>10, OneChild DEF ChildOK

LEMMA MetaFailsStep ==
  ASSUME ExecutorAssumption, IInv, NEW c \in Children, MetaFails(c)
  PROVE  IInv' /\ LogKept
<1>1. LogsOK
  BY DEF IInv, TypesOK
<1>2. /\ spawn[c] = "meta" /\ Undo(c)
      /\ UNCHANGED <<log, synced, filed, writer, restarts, ending, endFiled, slots, pending,
                     runnable, repair>>
  BY DEF MetaFails, storeVars, dispatchVars
<1> QED BY <1>1, <1>2, WriterStays, UndoStep

LEMMA MetaStoredStep ==
  ASSUME ExecutorAssumption, IInv, NEW c \in Children, MetaStored(c)
  PROVE  IInv' /\ LogKept
<1> DEFINE r == Parent[c]
<1>1. TypesOK /\ QueueOK /\ ChildOK(c) /\ LogsOK /\ r \in Roots
  BY ParentType DEF IInv, TypesOK
<1>2. /\ spawn[c] = "meta"
      /\ UNCHANGED <<synced, filed, writer, restarts, ending, endFiled, slots, pending,
                     runnable, repair>>
  BY DEF MetaStored, dispatchVars
<1>3. CASE Poisoned(r)
  <2>1. Undo(c) /\ UNCHANGED log
    BY <1>3 DEF MetaStored
  <2> QED BY <1>1, <1>2, <2>1, WriterStays, UndoStep
<1>4. CASE ~Poisoned(r)
  <2>1. /\ Record(r, SpawnOf(c)) /\ spawn' = [spawn EXCEPT ![c] = "commit"]
        /\ UNCHANGED <<active, status, finish>>
    BY <1>4 DEF MetaStored
  <2>2. SpawnOf(c) \in Facts /\ SpawnOf(c).outcome = "queued" /\ SpawnOf(c).type = "spawn"
    BY DEF SpawnOf, Fact, Facts, Statuses
  <2>3. \A d \in Children : ~IsResult(SpawnOf(c), d)
    BY <2>2 DEF IsResult
  <2> HIDE DEF r
  <2>4. /\ LogKept /\ FactsOK' /\ \A d \in Children : NoNews(d)
        /\ log' \in [Roots -> Seq(Facts)]
        /\ Len(log[r]) \in Nat /\ Len(log'[r]) = Len(log[r]) + 1
        /\ log'[r][Len(log[r]) + 1] = SpawnOf(c)
    BY <1>1, <1>2, <2>1, <2>2, <2>3, RecordedOne
  <2>5. LogsOK' /\ FilesOK'
    BY <1>1, <1>2, <2>4, WriterStays, KeepsFiles
  <2>6. ChildrenOK'
    BY <1>1, <1>2, <2>1 DEF TypesOK, ChildrenOK, Spawning
  <2>7. TypesOK'
    BY <1>1, <1>2, <2>4, <2>5, <2>6 DEF TypesOK, QueuesOK
  <2>8. /\ spawn'[c] = "commit"
        /\ \A d \in Children : d # c => Same(d) /\ spawn'[d] = spawn[d]
    BY <1>1, <1>2, <2>1 DEF TypesOK, ChildrenOK, Same
  <2>9. QueueOK'
    BY <1>1, <1>2, <2>4, <2>7, <2>8, QueuesStay
  <2>10. Said(c)'
    <3>1. Len(log[r]) + 1 \in 1..Len(log'[r])
      BY <2>4
    <3>2. \E p \in 1..Len(log'[r]) : log'[r][p] = SpawnOf(c)
      BY <2>4, <3>1
    <3> QED BY <3>2 DEF Said, SpawnOf, r
  <2>11. /\ SpawnCommitted(c) => SpawnCommitted(c)'
         /\ Told(c)' = Told(c)
         /\ \A p \in Told(c) : log'[Parent[c]][p] = log[Parent[c]][p]
         /\ \A p \in Told(c) : \A q \in 1..p : log'[Parent[c]][q] = log[Parent[c]][q]
    BY <1>1, <2>4, <2>7, KeptKnown
  <2>12. SpawnKnown(c)'
    BY <1>1, <1>2, <2>1, <2>8, <2>10 DEF ChildOK, SpawnKnown
  <2>13. FinishKnown(c)'
    BY <1>1, <1>2, <2>1, <2>8, <2>11 DEF ChildOK, FinishKnown
  <2>14. ResultKnown(c)'
    BY <1>1, <1>2, <2>1, <2>11 DEF ChildOK, ResultKnown, SpawnOf
  <2> QED BY <2>4, <2>7, <2>8, <2>9, <2>12, <2>13, <2>14, OneChild DEF ChildOK
<1> QED BY <1>3, <1>4

\* The commit of a spawn.
LEMMA CommitStep ==
  ASSUME ExecutorAssumption, IInv, NEW c \in Children, Commit(c)
  PROVE  IInv' /\ LogKept
<1> DEFINE r == Parent[c]
           t == TurnOf[c]
           at == SpawnAt(c)
<1>1. /\ TypesOK /\ QueueOK /\ ChildOK(c) /\ LogsOK /\ r \in Roots /\ t \in Turns
      /\ r = RootOf[t]
  BY ParentType DEF IInv, TypesOK
<1>2. /\ spawn[c] = "commit"
      /\ UNCHANGED <<synced, filed, restarts, ending, endFiled, slots, repair>>
      /\ Durable(r, at) \/ Rejected(r, at)
  BY DEF Commit
<1>3. /\ writer' \in [Roots -> {"sound", "failing", "poisoned"}]
      /\ \A s \in Roots : writer'[s] = "sound" => writer[s] = "sound"
  <2> HIDE DEF at, r
  <2> QED BY <1>1, <1>2, BarrierOver
<1>4. \/ /\ Undo(c) /\ UNCHANGED <<log, pending, runnable>>
      \/ /\ Spawned(c) /\ UNCHANGED active
         /\ \/ /\ Durable(r, at) \/ SpawnCommitted(c)
               /\ Launch(c)
            \/ Retain(c)
  BY DEF Commit
<1>5. CASE Undo(c) /\ UNCHANGED <<log, pending, runnable>>
  BY <1>2, <1>3, <1>5, UndoStep
<1>6. CASE /\ Spawned(c) /\ UNCHANGED active
           /\ \/ /\ Durable(r, at) \/ SpawnCommitted(c)
                 /\ Launch(c)
              \/ Retain(c)
  <2>1. /\ spawn' = [spawn EXCEPT ![c] = "out"]
        /\ Record(r, Fact("closing", t, "none")) \/ UNCHANGED log
    BY <1>1, <1>6 DEF Spawned
  <2>2. /\ LogKept /\ FactsOK' /\ \A d \in Children : NoNews(d)
        /\ log' \in [Roots -> Seq(Facts)]
    <3>1. CASE UNCHANGED log
      BY <1>1, <1>2, <3>1, NothingRecorded
    <3>2. CASE Record(r, Fact("closing", t, "none"))
      <4> DEFINE fact == Fact("closing", t, "none")
      <4>1. fact \in Facts /\ fact.type \notin {"spawn", "result"}
        BY <1>1, TurnFactType
      <4> HIDE DEF fact, r
      <4>2. \A d \in Children : ~IsResult(fact, d)
        BY <4>1 DEF IsResult
      <4> QED BY <1>1, <1>2, <3>2, <4>1, <4>2, RecordedOne DEF fact
    <3> QED BY <2>1, <3>1, <3>2
  <2>3. LogsOK' /\ FilesOK'
    BY <1>1, <1>2, <1>3, <2>2, KeepsFiles
  <2>4. \/ /\ Enqueue(c) /\ SpawnCommitted(c) /\ UNCHANGED <<status, finish>>
        \/ UNCHANGED <<pending, runnable, status, finish>>
        \/ Retain(c) /\ UNCHANGED <<pending, runnable>>
    <3>1. Durable(r, at) => SpawnCommitted(c)
      <4> SUFFICES ASSUME Durable(r, at) PROVE SpawnCommitted(c)
        OBVIOUS
      <4>1. at \in 1..Len(log[r]) /\ log[r][at] = SpawnOf(c)
        BY <1>1, <1>2, SpawnAtIs DEF ChildOK, SpawnKnown, TypesOK
      <4>2. at <= synced[r] /\ synced[r] <= filed[r] /\ synced[r] \in Nat /\ filed[r] \in Nat
            /\ filed[r] <= Len(log[r]) /\ Len(log[r]) \in Nat
        BY <1>1 DEF Durable, TypesOK, LogsOK, FilesOK
      <4> HIDE DEF at
      <4>3. at \in 1..filed[r]
        BY <4>1, <4>2
      <4>4. filed[r] \in 0..Len(log[r]) /\ log[r] \in Seq(Facts)
        BY <1>1, <4>2 DEF LogsOK
      <4>5. Contains(SubSeq(log[r], 1, filed[r]), SpawnOf(c))
        <5> HIDE DEF r
        <5> QED BY <4>1, <4>3, <4>4, InPrefix
      <4> QED BY <4>5 DEF SpawnCommitted, Canonical
    <3>2. Launch(c) => /\ UNCHANGED <<status, finish>>
                       /\ UNCHANGED <<pending, runnable>> \/ Enqueue(c)
      BY DEF Launch
    <3>3. Retain(c) => UNCHANGED <<pending, runnable>>
      BY DEF Retain
    <3> QED BY <1>6, <3>1, <3>2, <3>3
  <2>5. /\ spawn' \in [Children -> Spawning] /\ spawn'[c] = "out"
        /\ \A d \in Children : d # c => spawn'[d] = spawn[d]
    BY <1>1, <2>1 DEF TypesOK, ChildrenOK, Spawning
  <2>6. /\ status' \in [Children -> Statuses] /\ finish' \in [Children -> Finishing]
        /\ \A d \in Children : d # c => status'[d] = status[d] /\ finish'[d] = finish[d]
        /\ \/ status'[c] = status[c] /\ finish'[c] = finish[c]
           \/ status'[c] = "uncertain" /\ finish'[c] = "done"
    <3>1. CASE UNCHANGED <<status, finish>>
      BY <1>1, <3>1 DEF TypesOK, ChildrenOK
    <3>2. CASE Retain(c)
      BY <1>1, <3>2 DEF TypesOK, ChildrenOK, Retain, Statuses, Finishing
    <3> QED BY <2>4, <3>1, <3>2
  <2>7. \A d \in Children : spawn[d] = "out" => spawn'[d] = "out"
    BY <2>5
  <2>8. QueuesOK' /\ (TypesOK' => QueueOK')
    <3>1. CASE Enqueue(c) /\ SpawnCommitted(c)
      BY <1>1, <2>2, <2>5, <2>7, <3>1, Enqueued
    <3>2. CASE UNCHANGED <<pending, runnable>>
      <4>1. QueuesOK'
        BY <1>1, <3>2 DEF TypesOK, QueuesOK
      <4> QED BY <1>1, <2>2, <2>7, <3>2, <4>1, QueuesStay
    <3> QED BY <2>4, <3>1, <3>2
  <2>9. TypesOK'
    <3>1. ChildrenOK'
      BY <1>1, <1>2, <1>6, <2>5, <2>6 DEF TypesOK, ChildrenOK
    <3> QED BY <2>2, <2>3, <2>8, <3>1 DEF TypesOK
  <2>10. \A d \in Children : d # c => Same(d) /\ NoNews(d) /\ spawn'[d] = spawn[d]
    BY <1>2, <1>6, <2>2, <2>5, <2>6 DEF Same
  <2>11. /\ Said(c) => Said(c)'
         /\ Told(c)' = Told(c)
         /\ \A p \in Told(c) : log'[Parent[c]][p] = log[Parent[c]][p]
         /\ \A p \in Told(c) : \A q \in 1..p : log'[Parent[c]][q] = log[Parent[c]][q]
    BY <1>1, <2>2, <2>9, KeptKnown
  <2>12. Said(c) /\ c \notin slots /\ ~(restarts > 0)
    BY <1>1, <1>2 DEF ChildOK, SpawnKnown, FinishKnown
  <2>13. SpawnKnown(c)'
    BY <1>2, <2>5, <2>11, <2>12 DEF SpawnKnown
  <2>14. FinishKnown(c)'
    BY <1>1, <1>2, <1>6, <2>5, <2>6, <2>11, <2>12 DEF ChildOK, FinishKnown
  <2>15. ResultKnown(c)'
    BY <1>1, <1>2, <2>6, <2>11 DEF ChildOK, ResultKnown, SpawnOf
  <2> QED BY <2>2, <2>8, <2>9, <2>10, <2>13, <2>14, <2>15, OneChild DEF ChildOK
<1> QED BY <1>4, <1>5, <1>6

\* A child is settled, or given up, and nothing is recorded.
LEMMA SettledStep ==
  ASSUME ExecutorAssumption, IInv, NEW c \in Children, c \in active,
         UNCHANGED <<log, synced, filed, restarts, pending, runnable, spawn, ending>>,
         writer' \in [Roots -> {"sound", "failing", "poisoned"}],
         \A r \in Roots : writer'[r] = "sound" => writer[r] = "sound",
         status' \in [Children -> Statuses], status'[c] # "queued",
         finish' \in [Children -> Finishing], finish'[c] = "done",
         repair' \in [Children -> {"none", "parent"}], repair'[c] \in {"none", repair[c]},
         endFiled' \in [Children -> BOOLEAN], Told(c) = {} \/ endFiled'[c] = endFiled[c],
         \A d \in Children : d # c =>
           /\ status'[d] = status[d] /\ finish'[d] = finish[d] /\ repair'[d] = repair[d]
           /\ endFiled'[d] = endFiled[d],
         slots' \subseteq slots, active' \subseteq active, active \ {c} \subseteq active'
  PROVE  IInv' /\ LogKept
<1>1. TypesOK /\ QueueOK /\ ChildOK(c)
  BY DEF IInv
<1>2. /\ LogKept /\ LogsOK' /\ FilesOK' /\ FactsOK' /\ \A d \in Children : NoNews(d)
      /\ Said(c)' = Said(c) /\ Told(c)' = Told(c) /\ SpawnCommitted(c)' = SpawnCommitted(c)
  BY <1>1, LogsStay
<1>3. ChildrenOK'
  BY <1>1 DEF TypesOK, ChildrenOK
<1>4. TypesOK'
  BY <1>1, <1>2, <1>3 DEF TypesOK, QueuesOK
<1>5. \A d \in Children : d # c => Same(d) /\ spawn'[d] = spawn[d]
  BY DEF Same
<1>6. QueueOK'
  BY <1>1, <1>2, <1>4, QueuesStay
<1>7. SpawnKnown(c)'
  BY <1>1, <1>2 DEF ChildOK, SpawnKnown
<1>8. FinishKnown(c)'
  BY <1>1, <1>2 DEF ChildOK, FinishKnown
<1>9. ResultKnown(c)'
  <2>1. CASE Told(c) = {}
    BY <1>2, <2>1 DEF ResultKnown
  <2>2. CASE endFiled'[c] = endFiled[c]
    BY <1>1, <1>2, <2>2 DEF ChildOK, ResultKnown
  <2> QED BY <2>1, <2>2
<1> QED BY <1>2, <1>4, <1>5, <1>6, <1>7, <1>8, <1>9, OneChild DEF ChildOK

LEMMA RunEndsStep ==
  ASSUME ExecutorAssumption, IInv, NEW c \in Children, RunEnds(c)
  PROVE  IInv' /\ LogKept
<1>1. TypesOK /\ QueueOK /\ ChildOK(c)
  BY DEF IInv
<1>2. /\ c \in slots /\ finish[c] = "none"
      /\ finish' = [finish EXCEPT ![c] = "child"]
      /\ UNCHANGED <<log, synced, filed, writer, endFiled, restarts, active, slots, pending,
                     runnable, spawn, repair>>
  BY DEF RunEnds, admissionVars, dispatchVars
<1>3. PICK how \in {"completed", IF status[c] = "cancelled" THEN "cancelled" ELSE "failed"} :
        /\ ending' = [ending EXCEPT ![c] = how]
        /\ status' = [status EXCEPT ![c] = IF @ = "running" THEN how ELSE @]
  BY DEF RunEnds
<1>4. /\ LogKept /\ LogsOK' /\ FilesOK' /\ FactsOK' /\ \A d \in Children : NoNews(d)
      /\ Said(c)' = Said(c) /\ Told(c)' = Told(c) /\ SpawnCommitted(c)' = SpawnCommitted(c)
  BY <1>1, <1>2, WriterStays, LogsStay DEF TypesOK
<1>5. how \in {"completed", "cancelled", "failed"}
  OBVIOUS
<1>6. /\ ending' \in [Children -> Endings] /\ ending'[c] = how
      /\ \A d \in Children : d # c => ending'[d] = ending[d]
  BY <1>1, <1>3, <1>5 DEF TypesOK, ChildrenOK, Endings
<1>7. /\ status' \in [Children -> Statuses]
      /\ status'[c] = IF status[c] = "running" THEN how ELSE status[c]
      /\ \A d \in Children : d # c => status'[d] = status[d]
  BY <1>1, <1>3, <1>5 DEF TypesOK, ChildrenOK, Statuses
<1>8. /\ finish' \in [Children -> Finishing] /\ finish'[c] = "child"
      /\ \A d \in Children : d # c => finish'[d] = finish[d]
  BY <1>1, <1>2 DEF TypesOK, ChildrenOK, Finishing
<1>9. ChildrenOK'
  BY <1>1, <1>2, <1>6, <1>7, <1>8 DEF TypesOK, ChildrenOK
<1>10. TypesOK'
  BY <1>1, <1>2, <1>4, <1>9 DEF TypesOK, QueuesOK
<1>11. \A d \in Children : d # c => Same(d) /\ spawn'[d] = spawn[d]
  BY <1>2, <1>6, <1>7, <1>8 DEF Same
<1>12. QueueOK'
  BY <1>1, <1>2, <1>4, <1>10, QueuesStay
<1>13. /\ spawn[c] = "out" /\ c \in active /\ status[c] # "queued" /\ status[c] # "completed"
       /\ Told(c) = {}
  BY <1>1, <1>2 DEF ChildOK, FinishKnown, ResultKnown
<1>14. SpawnKnown(c)'
  BY <1>1, <1>2, <1>4, <1>8, <1>13 DEF ChildOK, SpawnKnown
<1>15. FinishKnown(c)'
  BY <1>1, <1>2, <1>4, <1>5, <1>7, <1>8, <1>13 DEF ChildOK, FinishKnown
<1>16. ResultKnown(c)'
  BY <1>4, <1>6, <1>7, <1>8, <1>13 DEF ResultKnown
<1> QED BY <1>4, <1>10, <1>11, <1>12, <1>14, <1>15, <1>16, OneChild DEF ChildOK

LEMMA ChildFlushFailsStep ==
  ASSUME ExecutorAssumption, IInv, NEW c \in Children, ChildFlushFails(c)
  PROVE  IInv' /\ LogKept
<1>1. TypesOK /\ ChildOK(c)
  BY DEF IInv
<1>2. /\ finish[c] = "child" /\ GiveUp(c)
      /\ UNCHANGED <<log, synced, filed, writer, restarts, pending, runnable, spawn, ending,
                     repair>>
  BY DEF ChildFlushFails
<1>3. PICK written \in BOOLEAN : endFiled' = [endFiled EXCEPT ![c] = written /\ ending[c] # "none"]
  BY DEF ChildFlushFails
<1>4. /\ endFiled' \in [Children -> BOOLEAN]
      /\ \A d \in Children : d # c => endFiled'[d] = endFiled[d]
  BY <1>1, <1>3 DEF TypesOK, ChildrenOK
<1>5. /\ status' \in [Children -> Statuses] /\ status'[c] = "uncertain"
      /\ finish' \in [Children -> Finishing] /\ finish'[c] = "done"
      /\ \A d \in Children : d # c => status'[d] = status[d] /\ finish'[d] = finish[d]
      /\ slots' \subseteq slots /\ active' = active
  BY <1>1, <1>2 DEF TypesOK, ChildrenOK, GiveUp, Statuses, Finishing
<1>6. c \in active /\ Told(c) = {} /\ repair \in [Children -> {"none", "parent"}]
  BY <1>1, <1>2 DEF ChildOK, FinishKnown, ResultKnown, TypesOK, ChildrenOK
<1> QED BY <1>1, <1>2, <1>4, <1>5, <1>6, WriterStays, SettledStep DEF TypesOK

LEMMA ChildFlushedStep ==
  ASSUME ExecutorAssumption, IInv, NEW c \in Children, ChildFlushed(c)
  PROVE  IInv' /\ LogKept
<1> DEFINE r == Parent[c]
<1>1. TypesOK /\ QueueOK /\ ChildOK(c) /\ r \in Roots
  BY ParentType DEF IInv
<1>2. /\ finish[c] = "child" /\ spawn[c] # "meta" /\ Report(c)
      /\ UNCHANGED <<synced, filed, writer, restarts, pending, runnable, spawn, ending,
                     repair>>
      /\ endFiled' = [endFiled EXCEPT ![c] = ending[c] # "none"]
  BY DEF ChildFlushed
<1>3. /\ endFiled' \in [Children -> BOOLEAN] /\ endFiled'[c] = (ending[c] # "none")
      /\ \A d \in Children : d # c => endFiled'[d] = endFiled[d]
  BY <1>1, <1>2 DEF TypesOK, ChildrenOK
<1>4. c \in active /\ Told(c) = {} /\ repair \in [Children -> {"none", "parent"}]
  BY <1>1, <1>2 DEF ChildOK, FinishKnown, ResultKnown, TypesOK, ChildrenOK
<1>5. CASE Poisoned(r)
  <2>1. GiveUp(c) /\ UNCHANGED log
    BY <1>2, <1>5 DEF Report
  <2>2. /\ status' \in [Children -> Statuses] /\ status'[c] = "uncertain"
        /\ finish' \in [Children -> Finishing] /\ finish'[c] = "done"
        /\ \A d \in Children : d # c => status'[d] = status[d] /\ finish'[d] = finish[d]
        /\ slots' \subseteq slots /\ active' = active
    BY <1>1, <2>1 DEF TypesOK, ChildrenOK, GiveUp, Statuses, Finishing
  <2> QED BY <1>1, <1>2, <1>3, <1>4, <2>1, <2>2, WriterStays, SettledStep DEF TypesOK
<1>6. CASE ~Poisoned(r)
  <2>1. /\ Record(r, Fact("result", c, status[c]))
        /\ finish' = [finish EXCEPT ![c] = "parent"]
        /\ UNCHANGED <<status, slots, active>>
    BY <1>2, <1>6 DEF Report
  <2>2. /\ status[c] \in Statuses /\ status[c] # "queued" /\ Said(c)
        /\ status[c] = "completed" => endFiled'[c] /\ ending'[c] = "completed"
    BY <1>1, <1>2, <1>3, <1>4
    DEF ChildOK, SpawnKnown, FinishKnown, ResultKnown, TypesOK, ChildrenOK
  <2>3. ~(endFiled[c] /\ ending[c] = "completed") \/ (endFiled'[c] /\ ending'[c] = "completed")
    BY <1>2, <1>3
  <2>4. /\ LogKept /\ FactsOK' /\ log' \in [Roots -> Seq(Facts)]
        /\ \A d \in Children : d # c => NoNews(d)
    <3> HIDE DEF r
    <3> QED BY <1>1, <1>2, <2>1, <2>2, ResultRecorded DEF r
  <2>5. LogsOK' /\ FilesOK'
    BY <1>1, <1>2, <2>4, WriterStays, KeepsFiles DEF TypesOK
  <2>6. /\ finish' \in [Children -> Finishing] /\ finish'[c] = "parent"
        /\ \A d \in Children : d # c => finish'[d] = finish[d]
    BY <1>1, <2>1 DEF TypesOK, ChildrenOK, Finishing
  <2>7. ChildrenOK'
    BY <1>1, <1>2, <1>3, <2>1, <2>6 DEF TypesOK, ChildrenOK
  <2>8. TypesOK'
    BY <1>1, <1>2, <2>4, <2>5, <2>7 DEF TypesOK, QueuesOK
  <2>9. \A d \in Children : d # c => Same(d) /\ spawn'[d] = spawn[d]
    BY <1>2, <1>3, <2>1, <2>6 DEF Same
  <2>10. QueueOK'
    BY <1>1, <1>2, <2>4, <2>8, QueuesStay
  <2>11. /\ Said(c)' /\ Told(c)' # {}
         /\ \A p \in Told(c)' :
              /\ log'[Parent[c]][p].outcome # "queued"
              /\ log'[Parent[c]][p].outcome = "completed" =>
                   endFiled'[c] /\ ending'[c] = "completed"
              /\ \E q \in 1..p : log'[Parent[c]][q] = SpawnOf(c)
    BY <1>1, <1>2, <2>1, <2>2, <2>3, <2>8, ResultTold DEF ChildOK
  <2>12. SpawnCommitted(c) => SpawnCommitted(c)'
    BY <1>1, <2>4, <2>8, KeptKnown
  <2>13. SpawnKnown(c)'
    BY <1>1, <1>2, <2>1, <2>4, <2>6, <2>11 DEF ChildOK, SpawnKnown, LogKept
  <2>14. FinishKnown(c)'
    BY <1>1, <1>2, <1>4, <2>1, <2>6, <2>11, <2>12 DEF ChildOK, FinishKnown
  <2>15. ResultKnown(c)'
    BY <2>6, <2>11 DEF ResultKnown, SpawnOf
  <2> QED BY <2>4, <2>8, <2>9, <2>10, <2>13, <2>14, <2>15, OneChild DEF ChildOK
<1> QED BY <1>5, <1>6

\* The entry of a child that is settled, or given up.
LEMMA FinalizeIs ==
  ASSUME ChildrenOK, NEW c \in Children,
         \/ \E outcome \in Statuses \ {"queued"} : Finalize(c, outcome)
         \/ GiveUp(c)
  PROVE  /\ status' \in [Children -> Statuses] /\ status'[c] # "queued"
         /\ finish' \in [Children -> Finishing] /\ finish'[c] = "done"
         /\ \A d \in Children : d # c => status'[d] = status[d] /\ finish'[d] = finish[d]
         /\ slots' \subseteq slots /\ active' \subseteq active /\ active \ {c} \subseteq active'
<1>1. CASE GiveUp(c)
  BY <1>1 DEF ChildrenOK, GiveUp, Statuses, Finishing
<1>2. ASSUME NEW outcome \in Statuses \ {"queued"}, Finalize(c, outcome)
      PROVE  /\ status' \in [Children -> Statuses] /\ status'[c] # "queued"
             /\ finish' \in [Children -> Finishing] /\ finish'[c] = "done"
             /\ \A d \in Children : d # c => status'[d] = status[d] /\ finish'[d] = finish[d]
             /\ slots' \subseteq slots /\ active' \subseteq active /\ active \ {c} \subseteq active'
  BY <1>2 DEF ChildrenOK, Finalize, Finishing
<1> QED BY <1>1, <1>2

LEMMA SettleStep ==
  ASSUME ExecutorAssumption, IInv, NEW c \in Children, Settle(c)
  PROVE  IInv' /\ LogKept
<1> DEFINE r == Parent[c]
           at == ResultAt(c)
<1>1. TypesOK /\ ChildOK(c) /\ LogsOK /\ ChildrenOK /\ r \in Roots
  BY ParentType DEF IInv, TypesOK
<1>2. /\ finish[c] = "parent" /\ (Durable(r, at) \/ Rejected(r, at))
      /\ Finalize(c, status[c]) \/ GiveUp(c)
      /\ UNCHANGED <<log, synced, filed, restarts, pending, runnable, spawn, ending, endFiled,
                     repair>>
  BY DEF Settle
<1>3. c \in active /\ status[c] # "queued" /\ status[c] \in Statuses
  BY <1>1, <1>2 DEF ChildOK, FinishKnown, ChildrenOK
<1>4. /\ writer' \in [Roots -> {"sound", "failing", "poisoned"}]
      /\ \A s \in Roots : writer'[s] = "sound" => writer[s] = "sound"
  <2> HIDE DEF at, r
  <2> QED BY <1>1, <1>2, BarrierOver
<1>5. /\ status' \in [Children -> Statuses] /\ status'[c] # "queued"
      /\ finish' \in [Children -> Finishing] /\ finish'[c] = "done"
      /\ \A d \in Children : d # c => status'[d] = status[d] /\ finish'[d] = finish[d]
      /\ slots' \subseteq slots /\ active' \subseteq active /\ active \ {c} \subseteq active'
  BY <1>1, <1>2, <1>3, FinalizeIs
<1>6. /\ endFiled' \in [Children -> BOOLEAN] /\ repair' \in [Children -> {"none", "parent"}]
      /\ UNCHANGED <<endFiled, repair>>
  BY <1>1, <1>2 DEF ChildrenOK
<1> QED BY <1>2, <1>3, <1>4, <1>5, <1>6, SettledStep

LEMMA RepairUndoesStep ==
  ASSUME ExecutorAssumption, IInv, NEW c \in Children, RepairUndoes(c)
  PROVE  IInv' /\ LogKept
<1>1. TypesOK /\ ChildrenOK /\ LogsOK
  BY DEF IInv, TypesOK
<1>2. /\ c \in active /\ status[c] = "uncertain" /\ finish[c] = "done"
      /\ active' = active \ {c}
      /\ UNCHANGED <<log, synced, filed, writer, restarts, pending, runnable, spawn, ending,
                     endFiled, status, finish, repair, slots>>
  BY DEF RepairUndoes, Uncertain, storeVars, dispatchVars
<1>3. /\ status' \in [Children -> Statuses] /\ finish' \in [Children -> Finishing]
      /\ endFiled' \in [Children -> BOOLEAN] /\ repair' \in [Children -> {"none", "parent"}]
  BY <1>1, <1>2 DEF ChildrenOK
<1> QED BY <1>1, <1>2, <1>3, WriterStays, SettledStep

LEMMA RepairAdoptsStep ==
  ASSUME ExecutorAssumption, IInv, NEW c \in Children, RepairAdopts(c)
  PROVE  IInv' /\ LogKept
<1>1. TypesOK /\ ChildrenOK /\ LogsOK /\ FilesOK /\ ChildOK(c) /\ Parent[c] \in Roots
  BY ParentType DEF IInv, TypesOK
<1>2. /\ c \in active
      /\ \/ ResultsOf(c) # {} /\ Finalize(c, CanonicalResult(c))
         \/ Finalize(c, "interrupted")
      /\ UNCHANGED <<log, synced, filed, writer, restarts, pending, runnable, spawn, ending,
                     endFiled, repair>>
  BY DEF RepairAdopts, Uncertain, storeVars
<1>3. ResultsOf(c) # {} => CanonicalResult(c) \in Statuses \ {"queued"}
  <2> SUFFICES ASSUME ResultsOf(c) # {} PROVE CanonicalResult(c) \in Statuses \ {"queued"}
    OBVIOUS
  <2> DEFINE p == CHOOSE p \in ResultsOf(c) : \A q \in ResultsOf(c) : q <= p
  <2>1. p \in ResultsOf(c)
    BY <1>1, ResultsAreTold
  <2>2. CanonicalResult(c) = log[Parent[c]][p].outcome
    BY DEF CanonicalResult
  <2> HIDE DEF p
  <2>3. p \in Told(c)
    BY <1>1, <2>1, ResultsAreTold
  <2>4. p \in 1..Len(log[Parent[c]]) /\ log[Parent[c]][p] \in Facts
    BY <1>1, <2>3 DEF Told, LogsOK
  <2> QED BY <1>1, <2>2, <2>3, <2>4 DEF ChildOK, ResultKnown, Facts
<1>4. \E outcome \in Statuses \ {"queued"} : Finalize(c, outcome)
  BY <1>2, <1>3 DEF Statuses
<1>5. /\ status' \in [Children -> Statuses] /\ status'[c] # "queued"
      /\ finish' \in [Children -> Finishing] /\ finish'[c] = "done"
      /\ \A d \in Children : d # c => status'[d] = status[d] /\ finish'[d] = finish[d]
      /\ slots' \subseteq slots /\ active' \subseteq active /\ active \ {c} \subseteq active'
  BY <1>1, <1>4, FinalizeIs
<1>6. /\ endFiled' \in [Children -> BOOLEAN] /\ repair' \in [Children -> {"none", "parent"}]
  BY <1>1, <1>2 DEF ChildrenOK
<1> QED BY <1>1, <1>2, <1>5, <1>6, WriterStays, SettledStep

LEMMA RepairRecordsStep ==
  ASSUME ExecutorAssumption, IInv, NEW c \in Children, RepairRecords(c)
  PROVE  IInv' /\ LogKept
<1> DEFINE r == Parent[c]
           outcome == IF endFiled[c] THEN ending[c] ELSE "interrupted"
<1>1. TypesOK /\ QueueOK /\ ChildOK(c) /\ ChildrenOK /\ LogsOK /\ r \in Roots
  BY ParentType DEF IInv, TypesOK
<1>2. /\ SpawnCommitted(c)
      /\ (c \in active /\ finish[c] = "done") \/ (c \notin active /\ restarts > 0)
      /\ Record(r, Fact("result", c, outcome))
      /\ repair' = [repair EXCEPT ![c] = "parent"]
      /\ UNCHANGED <<synced, filed, writer, ending, endFiled, restarts, active, slots, pending,
                     runnable, status, spawn, finish>>
  BY DEF RepairRecords, AppendRepair, Uncertain, Historical, admissionVars, dispatchVars
<1>3. /\ outcome \in Statuses /\ outcome # "queued"
      /\ outcome = "completed" => endFiled'[c] /\ ending'[c] = "completed"
      /\ ~(endFiled[c] /\ ending[c] = "completed") \/ (endFiled'[c] /\ ending'[c] = "completed")
  BY <1>1, <1>2 DEF ChildrenOK, Endings, Statuses
<1>4. Said(c)
  <2>1. filed[r] \in Nat /\ filed[r] <= Len(log[r]) /\ Len(log[r]) \in Nat /\ log[r] \in Seq(Facts)
    BY <1>1 DEF TypesOK, LogsOK, FilesOK
  <2>2. filed[r] \in 0..Len(log[r])
    BY <2>1
  <2>3. Contains(SubSeq(log[r], 1, filed[r]), SpawnOf(c))
    BY <1>2 DEF SpawnCommitted, Canonical
  <2>4. PICK p \in 1..filed[r] : log[r][p] = SpawnOf(c)
    <3> HIDE DEF r
    <3> QED BY <2>1, <2>2, <2>3, InPrefix
  <2> QED BY <2>1, <2>4 DEF Said
<1>5. finish[c] \notin {"none", "child"}
  BY <1>1, <1>2 DEF ChildOK, SpawnKnown, FinishKnown
<1> HIDE DEF outcome
<1>6. /\ LogKept /\ FactsOK' /\ log' \in [Roots -> Seq(Facts)]
      /\ \A d \in Children : d # c => NoNews(d)
  BY <1>1, <1>2, <1>3, ResultRecorded
<1>7. LogsOK' /\ FilesOK'
  BY <1>1, <1>2, <1>6, WriterStays, KeepsFiles
<1>8. /\ repair' \in [Children -> {"none", "parent"}]
      /\ \A d \in Children : d # c => repair'[d] = repair[d]
  BY <1>1, <1>2 DEF ChildrenOK
<1>9. TypesOK'
  BY <1>1, <1>2, <1>6, <1>7, <1>8 DEF TypesOK, ChildrenOK, QueuesOK
<1>10. \A d \in Children : d # c => Same(d) /\ spawn'[d] = spawn[d]
  BY <1>2, <1>8 DEF Same
<1>11. QueueOK'
  BY <1>1, <1>2, <1>6, <1>9, QueuesStay
<1>12. /\ Said(c)' /\ Told(c)' # {}
       /\ \A p \in Told(c)' :
            /\ log'[Parent[c]][p].outcome # "queued"
            /\ log'[Parent[c]][p].outcome = "completed" => endFiled'[c] /\ ending'[c] = "completed"
            /\ \E q \in 1..p : log'[Parent[c]][q] = SpawnOf(c)
  BY <1>1, <1>2, <1>3, <1>4, <1>9, ResultTold DEF ChildOK
<1>13. SpawnCommitted(c)'
  BY <1>1, <1>2, <1>6, <1>9, KeptKnown
<1>14. SpawnKnown(c)'
  BY <1>1, <1>2, <1>12 DEF ChildOK, SpawnKnown
<1>15. FinishKnown(c)'
  BY <1>1, <1>2, <1>12, <1>13 DEF ChildOK, FinishKnown
<1>16. ResultKnown(c)'
  BY <1>2, <1>5, <1>12 DEF ResultKnown, SpawnOf
<1> QED BY <1>6, <1>9, <1>10, <1>11, <1>14, <1>15, <1>16, OneChild DEF ChildOK

LEMMA RepairSettlesStep ==
  ASSUME ExecutorAssumption, IInv, NEW c \in Children, RepairSettles(c)
  PROVE  IInv' /\ LogKept
<1> DEFINE r == Parent[c]
           at == ResultAt(c)
<1>1. TypesOK /\ QueueOK /\ ChildOK(c) /\ LogsOK /\ ChildrenOK /\ r \in Roots
  BY ParentType DEF IInv, TypesOK
<1>2. /\ repair[c] = "parent" /\ repair' = [repair EXCEPT ![c] = "none"]
      /\ Durable(r, at) \/ Rejected(r, at)
      /\ \/ c \in active /\ Finalize(c, log[r][at].outcome)
         \/ UNCHANGED <<status, finish, slots, active>>
      /\ UNCHANGED <<log, synced, filed, restarts, pending, runnable, spawn, ending, endFiled>>
  BY DEF RepairSettles
<1>3. at \in Told(c)
  BY <1>1, <1>2, ResultAtIs DEF ChildOK, FinishKnown
<1>4. log[r][at].outcome \in Statuses \ {"queued"}
  <2>1. at \in 1..Len(log[r]) /\ log[r] \in Seq(Facts)
    BY <1>1, <1>3 DEF Told, LogsOK
  <2> HIDE DEF at, r
  <2>2. log[r][at] \in Facts
    BY <2>1
  <2> QED BY <1>1, <1>3, <2>2 DEF ChildOK, ResultKnown, Facts, r
<1>5. /\ writer' \in [Roots -> {"sound", "failing", "poisoned"}]
      /\ \A s \in Roots : writer'[s] = "sound" => writer[s] = "sound"
  <2> HIDE DEF at, r
  <2> QED BY <1>1, <1>2, BarrierOver
<1>6. /\ repair' \in [Children -> {"none", "parent"}] /\ repair'[c] = "none"
      /\ \A d \in Children : d # c => repair'[d] = repair[d]
  BY <1>1, <1>2 DEF ChildrenOK
<1> HIDE DEF at
<1>7. CASE c \in active /\ Finalize(c, log[r][at].outcome)
  <2>1. \E outcome \in Statuses \ {"queued"} : Finalize(c, outcome)
    BY <1>4, <1>7
  <2>2. /\ status' \in [Children -> Statuses] /\ status'[c] # "queued"
        /\ finish' \in [Children -> Finishing] /\ finish'[c] = "done"
        /\ \A d \in Children : d # c => status'[d] = status[d] /\ finish'[d] = finish[d]
        /\ slots' \subseteq slots /\ active' \subseteq active /\ active \ {c} \subseteq active'
    BY <1>1, <2>1, FinalizeIs
  <2>3. endFiled' \in [Children -> BOOLEAN]
    BY <1>1, <1>2 DEF ChildrenOK
  <2> QED BY <1>2, <1>5, <1>6, <1>7, <2>2, <2>3, SettledStep
<1>8. CASE UNCHANGED <<status, finish, slots, active>>
  <2>1. /\ LogKept /\ LogsOK' /\ FilesOK' /\ FactsOK' /\ \A d \in Children : NoNews(d)
        /\ Said(c)' = Said(c) /\ Told(c)' = Told(c) /\ SpawnCommitted(c)' = SpawnCommitted(c)
    BY <1>1, <1>2, <1>5, LogsStay
  <2>2. TypesOK'
    BY <1>1, <1>2, <1>6, <1>8, <2>1 DEF TypesOK, ChildrenOK, QueuesOK
  <2>3. \A d \in Children : d # c => Same(d) /\ spawn'[d] = spawn[d]
    BY <1>2, <1>6, <1>8 DEF Same
  <2>4. QueueOK'
    BY <1>1, <1>2, <2>1, <2>2, QueuesStay
  <2>5. SpawnKnown(c)'
    BY <1>1, <1>2, <1>8, <2>1 DEF ChildOK, SpawnKnown
  <2>6. FinishKnown(c)'
    BY <1>1, <1>2, <1>6, <1>8, <2>1 DEF ChildOK, FinishKnown
  <2>7. ResultKnown(c)'
    BY <1>1, <1>2, <1>8, <2>1 DEF ChildOK, ResultKnown
  <2> QED BY <2>1, <2>2, <2>3, <2>4, <2>5, <2>6, <2>7, OneChild DEF ChildOK
<1> QED BY <1>2, <1>7, <1>8

\* The head of a queue gets a slot, if it still waits for one.
LEMMA PumpStep ==
  ASSUME ExecutorAssumption, IInv, Pump
  PROVE  IInv' /\ LogKept
<1> DEFINE r == Head(runnable)
           c == Head(pending[r])
           rest == Tail(pending[r])
<1>1. TypesOK /\ QueueOK /\ LogsOK /\ ChildrenOK /\ QueuesOK /\ \A d \in Children : ChildOK(d)
  BY DEF IInv, TypesOK
<1>2. /\ runnable # <<>>
      /\ pending' = [pending EXCEPT ![r] = rest]
      /\ runnable' = IF rest = <<>> THEN Tail(runnable) ELSE Append(Tail(runnable), r)
      /\ IF status[c] = "queued"
         THEN /\ status' = [status EXCEPT ![c] = "running"]
              /\ slots' = slots \cup {c}
         ELSE UNCHANGED <<status, slots>>
      /\ UNCHANGED <<log, synced, filed, writer, ending, endFiled, restarts, active, spawn,
                     finish, repair>>
  BY DEF Pump, PumpDue, storeVars, admissionVars
<1>3. /\ Len(runnable) \in Nat /\ 1 \in 1..Len(runnable) /\ r = runnable[1] /\ r \in Roots
      /\ Tail(runnable) \in Seq(Roots) /\ Len(Tail(runnable)) = Len(runnable) - 1
      /\ \A i \in 1..Len(Tail(runnable)) :
           i + 1 \in 1..Len(runnable) /\ Tail(runnable)[i] = runnable[i + 1]
  BY <1>1, <1>2 DEF QueuesOK
<1>4. pending[r] # <<>>
  BY <1>1, <1>3 DEF QueueOK
<1> HIDE DEF r
<1>5. /\ pending[r] \in Seq(Children) /\ Len(pending[r]) \in Nat
      /\ 1 \in 1..Len(pending[r]) /\ c = pending[r][1] /\ c \in Children
      /\ rest \in Seq(Children) /\ Len(rest) = Len(pending[r]) - 1
      /\ \A i \in 1..Len(rest) : i + 1 \in 1..Len(pending[r]) /\ rest[i] = pending[r][i + 1]
  BY <1>1, <1>3, <1>4 DEF QueuesOK
<1> HIDE DEF rest, c
<1>6. SpawnCommitted(c) /\ spawn[c] = "out"
  BY <1>1, <1>3, <1>5 DEF QueueOK
<1>7. /\ pending' \in [Roots -> Seq(Children)] /\ pending'[r] = rest
      /\ \A s \in Roots : s # r => pending'[s] = pending[s]
  BY <1>1, <1>2, <1>3, <1>5 DEF QueuesOK
<1>8. /\ LogKept /\ LogsOK' /\ FilesOK' /\ FactsOK' /\ \A d \in Children : NoNews(d)
      /\ \A d \in Children : /\ Said(d)' = Said(d) /\ Told(d)' = Told(d)
                             /\ SpawnCommitted(d)' = SpawnCommitted(d)
  BY <1>1, <1>2, WriterStays, LogsStay
<1>3a. PICK front \in Seq(Roots) : front = Tail(runnable)
  BY <1>3
<1>9. /\ runnable' \in Seq(Roots)
      /\ \A i \in 1..Len(runnable') : pending'[runnable'[i]] # <<>>
      /\ \A i, j \in 1..Len(runnable') : runnable'[i] = runnable'[j] => i = j
  <2>1. ASSUME NEW i \in 1..Len(front)
        PROVE  front[i] \in Roots /\ front[i] # r /\ pending[front[i]] # <<>>
    <3>1. i + 1 \in 1..Len(runnable) /\ i + 1 # 1 /\ front[i] = runnable[i + 1]
      BY <1>3, <1>3a
    <3> QED BY <1>1, <1>3, <1>3a, <3>1 DEF QueueOK
  <2>2. ASSUME NEW i \in 1..Len(front), NEW j \in 1..Len(front), front[i] = front[j]
        PROVE  i = j
    <3>1. /\ i + 1 \in 1..Len(runnable) /\ j + 1 \in 1..Len(runnable)
          /\ runnable[i + 1] = runnable[j + 1]
      BY <1>3, <1>3a, <2>2
    <3>2. i + 1 = j + 1
      BY <1>1, <3>1 DEF QueueOK
    <3> QED BY <3>2
  <2>3. \A i \in 1..Len(front) : pending'[front[i]] # <<>>
    BY <1>7, <2>1
  <2>4. CASE rest = <<>>
    BY <1>2, <1>3a, <2>2, <2>3, <2>4
  <2>5. CASE rest # <<>>
    <3>1. runnable' = Append(front, r)
      BY <1>2, <1>3a, <2>5
    <3>2. /\ runnable' \in Seq(Roots) /\ Len(runnable') = Len(front) + 1
          /\ Len(front) \in Nat
          /\ \A i \in 1..Len(runnable') :
               IF i <= Len(front) THEN runnable'[i] = front[i] ELSE runnable'[i] = r
      BY <1>3, <3>1
    <3>3. ASSUME NEW i \in 1..Len(runnable') PROVE pending'[runnable'[i]] # <<>>
      <4>1. CASE i <= Len(front)
        <5>1. i \in 1..Len(front)
          BY <3>2, <4>1
        <5> QED BY <2>3, <3>2, <4>1, <5>1
      <4>2. CASE ~(i <= Len(front))
        <5>1. runnable'[i] = r
          BY <3>2, <4>2
        <5> QED BY <1>7, <2>5, <5>1
      <4> QED BY <4>1, <4>2
    <3>4. ASSUME NEW i \in 1..Len(runnable'), NEW j \in 1..Len(runnable'),
                 runnable'[i] = runnable'[j]
          PROVE  i = j
      BY <2>1, <2>2, <3>2, <3>4
    <3> QED BY <3>2, <3>3, <3>4
  <2> QED BY <2>4, <2>5
<1>10. ChildrenOK'
  BY <1>1, <1>2, <1>5 DEF ChildrenOK, Statuses
<1>11. TypesOK'
  BY <1>7, <1>8, <1>9, <1>10 DEF TypesOK, QueuesOK
<1>12. QueueOK'
  <2>1. ASSUME NEW s \in Roots, NEW k \in 1..Len(pending'[s]), NEW d \in Children,
               d = pending'[s][k]
        PROVE  Parent[d] = s /\ SpawnCommitted(d)' /\ spawn'[d] = "out"
    <3>1. \E i \in 1..Len(pending[s]) : d = pending[s][i]
      BY <1>5, <1>7, <2>1
    <3>2. Parent[d] = s /\ SpawnCommitted(d) /\ spawn[d] = "out"
      BY <1>1, <3>1 DEF QueueOK
    <3> QED BY <1>2, <1>8, <3>2
  <2> QED BY <1>9, <2>1 DEF QueueOK
<1>13. CASE UNCHANGED <<status, slots>>
  <2>1. \A d \in Children : Same(d) /\ NoNews(d) /\ spawn'[d] = spawn[d]
    BY <1>2, <1>8, <1>13 DEF Same
  <2>2. ASSUME NEW d \in Children PROVE ChildOK(d)'
    <3>1. ChildOK(d) /\ SpawnGoesOn(d)
      BY <1>1, <2>1 DEF SpawnGoesOn
    <3> QED BY <1>1, <1>8, <1>11, <2>1, <3>1, Bystander
  <2> QED BY <1>8, <1>11, <1>12, <2>2 DEF IInv
<1>14. CASE /\ status[c] = "queued" /\ status' = [status EXCEPT ![c] = "running"]
            /\ slots' = slots \cup {c}
  <2>1. /\ status'[c] = "running"
        /\ \A d \in Children : d # c => Same(d) /\ NoNews(d) /\ spawn'[d] = spawn[d]
    BY <1>1, <1>2, <1>5, <1>8, <1>14 DEF ChildrenOK, Same
  <2>2. PICK d \in Children : d = c
    BY <1>5
  <2>3. /\ ChildOK(d) /\ d \in active /\ finish[d] = "none" /\ SpawnCommitted(d) /\ spawn[d] = "out"
        /\ status'[d] = "running"
        /\ Said(d)' = Said(d) /\ Told(d)' = Told(d) /\ SpawnCommitted(d)' = SpawnCommitted(d)
    BY <1>1, <1>6, <1>8, <1>14, <2>1, <2>2 DEF ChildOK, FinishKnown
  <2>4. SpawnKnown(d)'
    BY <1>2, <2>3 DEF ChildOK, SpawnKnown
  <2>5. FinishKnown(d)'
    BY <1>2, <2>3 DEF ChildOK, FinishKnown
  <2>6. ResultKnown(d)'
    BY <1>2, <2>3 DEF ChildOK, ResultKnown
  <2>7. \A e \in Children : e # d => Same(e) /\ NoNews(e) /\ spawn'[e] = spawn[e]
    BY <2>1, <2>2
  <2> QED BY <1>8, <1>11, <1>12, <2>4, <2>5, <2>6, <2>7, OneChild DEF ChildOK
<1> QED BY <1>2, <1>13, <1>14

\* After a restart the files are what is left.
LEMMA RestartStep ==
  ASSUME ExecutorAssumption, IInv, Restart
  PROVE  IInv'
<1>1. TypesOK /\ LogsOK /\ FilesOK /\ FactsOK /\ ChildrenOK /\ \A c \in Children : ChildOK(c)
  BY DEF IInv, TypesOK
<1>2. /\ restarts' = restarts + 1 /\ synced' = filed /\ filed' = filed /\ endFiled' = endFiled
      /\ log' = [r \in Roots |-> Canonical(r)] /\ writer' = [r \in Roots |-> "sound"]
      /\ ending' = [c \in Children |-> IF endFiled[c] THEN ending[c] ELSE "none"]
      /\ active' = {} /\ slots' = {} /\ runnable' = <<>>
      /\ pending' = [r \in Roots |-> <<>>]
      /\ status' = [c \in Children |-> "none"] /\ spawn' = [c \in Children |-> "out"]
      /\ finish' = [c \in Children |-> "done"] /\ repair' = [c \in Children |-> "none"]
  BY DEF Restart
<1>3. ASSUME NEW r \in Roots
      PROVE  /\ log'[r] \in Seq(Facts) /\ Len(log'[r]) = filed[r]
             /\ filed[r] \in Nat /\ filed[r] <= Len(log[r]) /\ Len(log[r]) \in Nat
             /\ \A p \in 1..filed[r] : log'[r][p] = log[r][p] /\ p \in 1..Len(log[r])
  <2>1. /\ log[r] \in Seq(Facts) /\ filed[r] \in Nat /\ filed[r] <= Len(log[r])
        /\ Len(log[r]) \in Nat /\ log'[r] = SubSeq(log[r], 1, filed[r])
    BY <1>1, <1>2 DEF LogsOK, FilesOK, Canonical
  <2> QED BY <2>1
<1>4. LogsOK'
  BY <1>1, <1>2, <1>3 DEF LogsOK
<1>5. FilesOK'
  BY <1>2, <1>3 DEF FilesOK
<1>6. FactsOK'
  BY <1>1, <1>3 DEF FactsOK
<1>7. ChildrenOK'
  BY <1>1, <1>2 DEF ChildrenOK, Endings, Statuses, Spawning, Finishing
<1>8. QueuesOK' /\ QueueOK'
  BY <1>2 DEF QueuesOK, QueueOK
<1>9. ASSUME NEW c \in Children PROVE ChildOK(c)'
  <2> DEFINE r == Parent[c]
  <2>1. r \in Roots /\ ChildOK(c)
    BY <1>1, ParentType
  <2>2. /\ Told(c)' \subseteq Told(c)
        /\ \A p \in Told(c)' : log'[r][p] = log[r][p] /\ p \in 1..filed[r]
    BY <1>3, <2>1 DEF Told
  <2>3. SpawnKnown(c)'
    BY <1>2 DEF SpawnKnown
  <2>4. FinishKnown(c)'
    BY <1>2 DEF FinishKnown
  <2>5. ASSUME NEW p \in Told(c)'
        PROVE  /\ log'[r][p].outcome # "queued"
               /\ log'[r][p].outcome = "completed" => endFiled'[c] /\ ending'[c] = "completed"
               /\ \E q \in 1..p : log'[r][q] = SpawnOf(c)
    <3>1. /\ log[r][p].outcome # "queued" /\ \E q \in 1..p : log[r][q] = SpawnOf(c)
          /\ log[r][p].outcome = "completed" => endFiled[c] /\ ending[c] = "completed"
      BY <2>1, <2>2 DEF ChildOK, ResultKnown
    <3>2. \A q \in 1..p : log'[r][q] = log[r][q]
      BY <1>3, <2>1, <2>2
    <3> QED BY <1>2, <2>2, <3>1, <3>2
  <2>6. ResultKnown(c)'
    BY <1>2, <2>5 DEF ResultKnown, SpawnOf
  <2> QED BY <2>3, <2>4, <2>6 DEF ChildOK
<1> QED BY <1>4, <1>5, <1>6, <1>7, <1>8, <1>9 DEF IInv, TypesOK

LEMMA InitHolds ==
  ASSUME ExecutorAssumption, Init
  PROVE  IInv
<1>1. LogsOK
  BY DEF Init, LogsOK
<1>2. ChildrenOK
  BY DEF Init, ChildrenOK, Endings, Statuses, Spawning, Finishing
<1>3. QueuesOK /\ QueueOK
  BY DEF Init, QueuesOK, QueueOK
<1>4. FilesOK /\ FactsOK
  BY DEF Init, FilesOK, FactsOK
<1>5. ASSUME NEW c \in Children PROVE ChildOK(c)
  <2>1. Parent[c] \in Roots
    BY ParentType
  <2>2. Told(c) = {}
    BY <2>1 DEF Init, Told
  <2> QED BY <2>2 DEF Init, ChildOK, SpawnKnown, FinishKnown, ResultKnown
<1> QED BY <1>1, <1>2, <1>3, <1>4, <1>5 DEF IInv, TypesOK

\* A step of Next but a restart.
Works ==
  \/ Pump
  \/ \E r \in Roots : RecordStored(r) \/ StorageBreaks(r) \/ Stop(r)
  \/ \E t \in Turns : Begin(t) \/ Close(t) \/ EndStep(t) \/ EndOtherwise(t)
  \/ \E c \in Children : Ask(c) \/ SpawnStep(c) \/ Cancel(c) \/ FinishStep(c) \/ RepairStep(c)

LEMMA WorkKeeps ==
  ASSUME ExecutorAssumption, IInv, Works
  PROVE  IInv' /\ LogKept
<1>1. CASE Pump
  BY <1>1, PumpStep
<1>2. ASSUME NEW r \in Roots, RecordStored(r) \/ StorageBreaks(r) \/ Stop(r)
      PROVE  IInv' /\ LogKept
  BY <1>2, StoreStep, StopStep
<1>3. ASSUME NEW t \in Turns, Begin(t) \/ Close(t) \/ EndStep(t) \/ EndOtherwise(t)
      PROVE  IInv' /\ LogKept
  BY <1>3, TurnStep, MarkedStep DEF EndStep
<1>4. ASSUME NEW c \in Children,
             Ask(c) \/ SpawnStep(c) \/ Cancel(c) \/ FinishStep(c) \/ RepairStep(c)
      PROVE  IInv' /\ LogKept
  <2>1. CASE Ask(c) \/ Cancel(c)
    BY <2>1, AskStep, CancelStep
  <2>2. CASE SpawnStep(c)
    BY <2>2, EnterManualStep, ManualStartedStep, RefuseStep, AdmitStep, MetaStoredStep,
       MetaFailsStep, CommitStep, UndoneStep DEF SpawnStep
  <2>3. CASE FinishStep(c)
    BY <2>3, RunEndsStep, ChildFlushedStep, ChildFlushFailsStep, SettleStep DEF FinishStep
  <2>4. CASE RepairStep(c)
    BY <2>4, RepairUndoesStep, RepairAdoptsStep, RepairRecordsStep, RepairSettlesStep
    DEF RepairStep
  <2> QED BY <1>4, <2>1, <2>2, <2>3, <2>4
<1> QED BY <1>1, <1>2, <1>3, <1>4 DEF Works

LEMMA StepKeeps ==
  ASSUME ExecutorAssumption, IInv, [Next]_vars
  PROVE  IInv'
<1>1. CASE UNCHANGED vars
  <2>1. Aside /\ UNCHANGED <<log, writer, spawn>>
    BY <1>1 DEF vars, storeVars, admissionVars, dispatchVars, Aside
  <2>2. LogsOK /\ ChildrenOK
    BY DEF IInv, TypesOK
  <2> QED BY <2>1, <2>2, SpawnStays, WriterStays, AsideSilent
<1>2. CASE Restart
  BY <1>2, RestartStep
<1>3. CASE Works
  BY <1>3, WorkKeeps
<1> QED BY <1>1, <1>2, <1>3 DEF Next, Works

\* The log of a root, the entry of each of its children and the queues agree at every
\* moment, whatever fails and whoever cancels.
THEOREM Invariance == Spec => []IInv
<1>1. Init => IInv
  BY ExecutorAssumption, InitHolds
<1>2. IInv /\ [Next]_vars => IInv'
  BY ExecutorAssumption, StepKeeps
<1> QED BY <1>1, <1>2, PTL DEF Spec

\* A child runs only when the file of its root has its spawn: what pump() launches was
\* committed before it was queued, however the commit, a cancel and a failing disk meet.
THEOREM RunningIsOnRecord == Spec => []RunsOnCommit
<1>1. IInv => RunsOnCommit
  BY DEF IInv, TypesOK, ChildrenOK, ChildOK, FinishKnown, RunsOnCommit
<1> QED BY <1>1, Invariance, PTL

\* A root's file says that a child completed only when the child's own file does: the
\* child's log is flushed before its parent is told, and what repair adopts or records
\* was there before.
THEOREM CompletionIsTrue == Spec => []CompletedIsTrue
<1>1. IInv => CompletedIsTrue
  <2> SUFFICES ASSUME IInv, NEW c \in Children, NEW p \in ResultsOf(c),
                      log[Parent[c]][p].outcome = "completed"
               PROVE  endFiled[c] /\ ending[c] = "completed"
    BY DEF CompletedIsTrue
  <2>1. p \in Told(c)
    BY ExecutorAssumption, ResultsAreTold DEF IInv, TypesOK
  <2> QED BY <2>1 DEF IInv, ChildOK, ResultKnown
<1> QED BY <1>1, Invariance, PTL

-----------------------------------------------------------------------------
(* The capacity of a root. *)

\* Who holds a reservation of a root.
Holds(c) == c \in active \/ spawn[c] = "undo"
Held(r) == {c \in Children : Parent[c] = r /\ Holds(c)}

\* A spawn on its way holds one, until it is on record and settled; nobody repairs a
\* child whose spawn is on its way.
CapKnown(c) ==
  /\ spawn[c] = "meta" => c \in active
  /\ spawn[c] = "commit" => c \in active \/ SpawnCommitted(c)
  /\ repair[c] = "parent" => spawn[c] = "out"

CapOK ==
  /\ reserved \in [Roots -> Nat]
  /\ \A r \in Roots : reserved[r] = Cardinality(Held(r)) /\ reserved[r] <= MaxPerRoot
  /\ \A c \in Children : CapKnown(c)

LEMMA HeldIsFinite ==
  ASSUME ExecutorAssumption, NEW r \in Roots
  PROVE  /\ IsFiniteSet(Held(r)) /\ Cardinality(Held(r)) \in Nat
         /\ IsFiniteSet(Held(r)') /\ Cardinality(Held(r)') \in Nat
<1>1. IsFiniteSet(Children)
  BY DEF ExecutorAssumption
<1>2. Held(r) \in SUBSET Children /\ Held(r)' \in SUBSET Children
  BY DEF Held
<1>3. IsFiniteSet(Held(r)) /\ IsFiniteSet(Held(r)')
  BY <1>1, <1>2, FS_Subset
<1> QED BY <1>3, FS_CardinalityType

\* How a step may move a spawn without giving its reservation up.
SpawnMoves(c) ==
  \/ spawn'[c] = spawn[c]
  \/ /\ spawn[c] \in {"none", "asked", "starting", "ready"}
     /\ spawn'[c] \in {"asked", "starting", "ready", "out"}
  \/ spawn[c] = "meta" /\ spawn'[c] = "commit"
  \/ spawn[c] = "commit" /\ spawn'[c] = "out"

\* A step that reserves and releases nothing.
LEMMA NobodyMoves ==
  ASSUME ExecutorAssumption, IInv, IInv', LogKept, CapOK, UNCHANGED <<reserved, active>>,
         \A c \in Children : SpawnMoves(c) /\ (repair'[c] = "parent" => spawn[c] = "out")
  PROVE  CapOK'
<1>1. \A c \in Children : SpawnCommitted(c) => SpawnCommitted(c)'
  BY KeptKnown DEF IInv
<1>2. ASSUME NEW r \in Roots PROVE Held(r)' = Held(r)
  <2>1. \A c \in Children : spawn'[c] = "undo" <=> spawn[c] = "undo"
    BY DEF SpawnMoves
  <2> QED BY <2>1 DEF Held, Holds
<1>3. ASSUME NEW c \in Children PROVE CapKnown(c)'
  <2>1. SpawnMoves(c) /\ (repair'[c] = "parent" => spawn[c] = "out") /\ CapKnown(c)
    BY DEF CapOK
  <2> QED BY <1>1, <2>1 DEF CapKnown, SpawnMoves
<1> QED BY <1>2, <1>3 DEF CapOK

\* A child takes a reservation of its root.
LEMMA OneMore ==
  ASSUME ExecutorAssumption, CapOK, NEW c \in Children, ~Holds(c), Holds(c)',
         reserved[Parent[c]] < MaxPerRoot,
         reserved' = [reserved EXCEPT ![Parent[c]] = @ + 1],
         \A d \in Children : d # c => (Holds(d)' <=> Holds(d)),
         \A d \in Children : CapKnown(d)'
  PROVE  CapOK'
<1>1. Parent[c] \in Roots
  BY ParentType
<1>2. ASSUME NEW r \in Roots
      PROVE  reserved'[r] = Cardinality(Held(r)') /\ reserved'[r] <= MaxPerRoot
  <2>1. IsFiniteSet(Held(r)) /\ Cardinality(Held(r)) \in Nat
    BY HeldIsFinite
  <2>2. CASE r = Parent[c]
    <3>1. Held(r)' = Held(r) \cup {c} /\ c \notin Held(r)
      BY <2>2 DEF Held
    <3>2. Cardinality(Held(r)') = Cardinality(Held(r)) + 1
      BY <2>1, <3>1, FS_AddElement
    <3> QED BY <1>1, <2>1, <2>2, <3>2 DEF CapOK, ExecutorAssumption
  <2>3. CASE r # Parent[c]
    <3>1. Held(r)' = Held(r)
      BY <2>3 DEF Held
    <3> QED BY <2>3, <3>1 DEF CapOK
  <2> QED BY <2>2, <2>3
<1>3. reserved' \in [Roots -> Nat]
  BY <1>1 DEF CapOK
<1> QED BY <1>2, <1>3 DEF CapOK

\* A child gives its reservation back.
LEMMA OneLess ==
  ASSUME ExecutorAssumption, CapOK, NEW c \in Children, Holds(c), ~Holds(c)',
         reserved' = [reserved EXCEPT ![Parent[c]] = Less(@)],
         \A d \in Children : d # c => (Holds(d)' <=> Holds(d)),
         \A d \in Children : CapKnown(d)'
  PROVE  CapOK'
<1>1. Parent[c] \in Roots /\ reserved[Parent[c]] \in Nat
  BY ParentType DEF CapOK
<1>2. Cardinality(Held(Parent[c])) # 0
  <2>1. c \in Held(Parent[c])
    BY DEF Held
  <2> QED BY <1>1, <2>1, HeldIsFinite, FS_EmptySet
<1>3. Less(reserved[Parent[c]]) = reserved[Parent[c]] - 1 /\ reserved[Parent[c]] > 0
  BY <1>1, <1>2 DEF CapOK, Less
<1>4. ASSUME NEW r \in Roots
      PROVE  reserved'[r] = Cardinality(Held(r)') /\ reserved'[r] <= MaxPerRoot
  <2>1. IsFiniteSet(Held(r)) /\ Cardinality(Held(r)) \in Nat
    BY HeldIsFinite
  <2>2. CASE r = Parent[c]
    <3>1. Held(r)' = Held(r) \ {c} /\ c \in Held(r)
      BY <2>2 DEF Held
    <3>2. Cardinality(Held(r)') = Cardinality(Held(r)) - 1
      BY <2>1, <3>1, FS_RemoveElement
    <3>3. reserved'[r] = reserved[r] - 1
      BY <1>1, <1>3, <2>2 DEF CapOK
    <3> QED BY <1>1, <2>1, <2>2, <3>2, <3>3 DEF CapOK, ExecutorAssumption
  <2>3. CASE r # Parent[c]
    <3>1. Held(r)' = Held(r)
      BY <2>3 DEF Held
    <3> QED BY <2>3, <3>1 DEF CapOK
  <2> QED BY <2>2, <2>3
<1>5. reserved' \in [Roots -> Nat]
  BY <1>1, <1>3 DEF CapOK
<1> QED BY <1>4, <1>5 DEF CapOK

\* Of a child a step does nothing to.
LEMMA OtherKnown ==
  ASSUME ExecutorAssumption, IInv, IInv', LogKept, CapOK, NEW d \in Children,
         spawn'[d] = spawn[d], repair'[d] \in {"none", repair[d]}, d \in active' <=> d \in active
  PROVE  CapKnown(d)' /\ (Holds(d)' <=> Holds(d))
<1>1. SpawnCommitted(d) => SpawnCommitted(d)'
  BY KeptKnown DEF IInv
<1> QED BY <1>1 DEF CapOK, CapKnown, Holds

LEMMA AdmitCap ==
  ASSUME ExecutorAssumption, IInv, IInv', LogKept, CapOK, NEW c \in Children, Admit(c)
  PROVE  CapOK'
<1>1. /\ active' = active \cup {c} /\ spawn' = [spawn EXCEPT ![c] = "meta"]
      /\ spawn[c] \in {"ready", "asked"} /\ UNCHANGED repair
      /\ reserved' = [reserved EXCEPT ![Parent[c]] = @ + 1]
      /\ ~(reserved[Parent[c]] >= MaxPerRoot)
  BY DEF Admit, Admissible, Full
<1>2. /\ spawn'[c] = "meta" /\ c \notin active
      /\ \A d \in Children : d # c => spawn'[d] = spawn[d]
  BY <1>1 DEF IInv, TypesOK, ChildrenOK, ChildOK, SpawnKnown
<1>3. \A d \in Children : d # c => CapKnown(d)' /\ (Holds(d)' <=> Holds(d))
  BY <1>1, <1>2, OtherKnown
<1>4. CapKnown(c)' /\ ~Holds(c) /\ Holds(c)'
  BY <1>1, <1>2 DEF CapOK, CapKnown, Holds
<1>5. reserved[Parent[c]] < MaxPerRoot
  BY <1>1, ParentType DEF CapOK, ExecutorAssumption
<1> QED BY <1>1, <1>3, <1>4, <1>5, OneMore

\* An attempt that is given up keeps its reservation until it has been undone.
LEMMA UndoCap ==
  ASSUME ExecutorAssumption, IInv, IInv', LogKept, CapOK, NEW c \in Children, Undo(c),
         spawn[c] = "meta" \/ (spawn[c] = "commit" /\ ~SpawnCommitted(c)),
         UNCHANGED <<reserved, repair>>
  PROVE  CapOK'
<1>1. /\ spawn'[c] = "undo" /\ c \in active
      /\ \A d \in Children : d # c => spawn'[d] = spawn[d] /\ (d \in active' <=> d \in active)
  BY DEF Undo, IInv, TypesOK, ChildrenOK, CapOK, CapKnown
<1>2. \A d \in Children : d # c => CapKnown(d)' /\ (Holds(d)' <=> Holds(d))
  BY <1>1, OtherKnown
<1>3. CapKnown(c)' /\ Holds(c) /\ Holds(c)'
  BY <1>1 DEF CapOK, CapKnown, Holds
<1>4. \A r \in Roots : Held(r)' = Held(r)
  BY <1>2, <1>3 DEF Held
<1> QED BY <1>2, <1>3, <1>4 DEF CapOK

LEMMA UndoneCap ==
  ASSUME ExecutorAssumption, IInv, IInv', LogKept, CapOK, NEW c \in Children, Undone(c)
  PROVE  CapOK'
<1>1. /\ spawn[c] = "undo" /\ spawn' = [spawn EXCEPT ![c] = "out"]
      /\ UNCHANGED <<active, repair>>
      /\ reserved' = [reserved EXCEPT ![Parent[c]] = Less(@)]
  BY DEF Undone, Fail
<1>2. /\ spawn'[c] = "out" /\ c \notin active
      /\ \A d \in Children : d # c => spawn'[d] = spawn[d]
  BY <1>1 DEF IInv, TypesOK, ChildrenOK, ChildOK, SpawnKnown
<1>3. \A d \in Children : d # c => CapKnown(d)' /\ (Holds(d)' <=> Holds(d))
  BY <1>1, <1>2, OtherKnown
<1>4. CapKnown(c)' /\ Holds(c) /\ ~Holds(c)'
  BY <1>1, <1>2 DEF CapKnown, Holds
<1> QED BY <1>1, <1>3, <1>4, OneLess

\* An active child is settled, or its retained spawn undone.
LEMMA ReleaseCap ==
  ASSUME ExecutorAssumption, IInv, IInv', LogKept, CapOK, NEW c \in Children, c \in active,
         active' = active \ {c}, reserved' = [reserved EXCEPT ![Parent[c]] = Less(@)],
         UNCHANGED spawn, repair'[c] \in {"none", repair[c]},
         \A d \in Children : d # c => repair'[d] = repair[d],
         spawn[c] # "meta", spawn[c] = "commit" => SpawnCommitted(c)
  PROVE  CapOK'
<1>1. spawn[c] # "undo"
  BY DEF IInv, ChildOK, SpawnKnown
<1>2. SpawnCommitted(c) => SpawnCommitted(c)'
  BY KeptKnown DEF IInv
<1>3. \A d \in Children : d # c => CapKnown(d)' /\ (Holds(d)' <=> Holds(d))
  BY OtherKnown
<1>4. CapKnown(c)' /\ Holds(c) /\ ~Holds(c)'
  BY <1>1, <1>2 DEF CapOK, CapKnown, Holds
<1> QED BY <1>3, <1>4, OneLess

\* The result the parent has recorded follows the spawn: where it is in the file, so is
\* the spawn.
LEMMA SettledIsCommitted ==
  ASSUME ExecutorAssumption, IInv, NEW c \in Children, Told(c) # {},
         ResultAt(c) <= synced[Parent[c]] \/ ResultAt(c) \in ResultsOf(c)
  PROVE  SpawnCommitted(c)
<1> DEFINE r == Parent[c]
           at == ResultAt(c)
<1>1. /\ TypesOK /\ LogsOK /\ FilesOK /\ r \in Roots /\ ChildOK(c)
  BY ParentType DEF IInv, TypesOK
<1>2. at \in Told(c)
  BY <1>1, ResultAtIs
<1>3. /\ filed[r] \in Nat /\ synced[r] \in Nat /\ synced[r] <= filed[r] /\ log[r] \in Seq(Facts)
      /\ filed[r] <= Len(log[r]) /\ Len(log[r]) \in Nat /\ at \in 1..Len(log[r])
  BY <1>1, <1>2 DEF LogsOK, FilesOK, Told
<1>4. at <= filed[r]
  <2>1. CASE at <= synced[r]
    BY <1>3, <2>1
  <2>2. CASE at \in ResultsOf(c)
    BY <1>1, <2>2, ResultsAreTold
  <2> QED BY <2>1, <2>2
<1>5. PICK q \in 1..at : log[r][q] = SpawnOf(c)
  BY <1>1, <1>2 DEF ChildOK, ResultKnown
<1> HIDE DEF at, r
<1>6. q \in 1..filed[r] /\ filed[r] \in 0..Len(log[r])
  BY <1>3, <1>4
<1>7. Contains(SubSeq(log[r], 1, filed[r]), SpawnOf(c))
  BY <1>3, <1>5, <1>6, InPrefix
<1> QED BY <1>7 DEF SpawnCommitted, Canonical, r

\* The steps that neither reserve nor release.
LEMMA IdleCap ==
  ASSUME ExecutorAssumption, IInv, IInv', LogKept, CapOK, UNCHANGED <<reserved, active>>,
         \A c \in Children : SpawnMoves(c) /\ repair'[c] \in {"none", repair[c]}
  PROVE  CapOK'
<1>1. ASSUME NEW c \in Children, repair'[c] = "parent" PROVE spawn[c] = "out"
  BY <1>1 DEF CapOK, CapKnown
<1> QED BY <1>1, NobodyMoves

LEMMA SpawnStepCap ==
  ASSUME ExecutorAssumption, IInv, IInv', LogKept, CapOK, NEW c \in Children,
         Ask(c) \/ SpawnStep(c)
  PROVE  CapOK'
<1>0. ChildrenOK
  BY DEF IInv, TypesOK
<1>1. CASE Ask(c) \/ EnterManual(c) \/ ManualStarted(c) \/ Refuse(c)
  <2>1. /\ UNCHANGED <<reserved, active, repair>>
        /\ spawn[c] \in {"none", "asked", "starting", "ready"}
        /\ \E to \in {"asked", "starting", "ready", "out"} : spawn' = [spawn EXCEPT ![c] = to]
    <3>1. CASE Ask(c)
      BY <3>1 DEF Ask, Fresh, admissionVars
    <3>2. CASE EnterManual(c)
      BY <3>2 DEF EnterManual
    <3>3. CASE ManualStarted(c)
      BY <3>3 DEF ManualStarted
    <3>4. CASE Refuse(c)
      BY <3>4 DEF Refuse, Fail, Admissible
    <3> QED BY <1>1, <3>1, <3>2, <3>3, <3>4
  <2>2. \A d \in Children : SpawnMoves(d)
    BY <1>0, <2>1 DEF ChildrenOK, SpawnMoves
  <2> QED BY <2>1, <2>2, IdleCap
<1>2. CASE Admit(c)
  BY <1>2, AdmitCap
<1>3. CASE MetaStored(c)
  <2>1. CASE Poisoned(Parent[c])
    BY <1>3, <2>1, UndoCap DEF MetaStored
  <2>2. CASE ~Poisoned(Parent[c])
    <3>1. /\ UNCHANGED <<reserved, active, repair>> /\ spawn[c] = "meta"
          /\ spawn' = [spawn EXCEPT ![c] = "commit"]
      BY <1>3, <2>2 DEF MetaStored
    <3>2. \A d \in Children : SpawnMoves(d)
      BY <1>0, <3>1 DEF ChildrenOK, SpawnMoves
    <3> QED BY <3>1, <3>2, IdleCap
  <2> QED BY <2>1, <2>2
<1>4. CASE MetaFails(c)
  BY <1>4, UndoCap DEF MetaFails
<1>5. CASE Commit(c)
  <2>1. /\ spawn[c] = "commit" /\ UNCHANGED <<reserved, repair>>
        /\ \/ Undo(c) /\ ~SpawnCommitted(c)
           \/ Spawned(c) /\ UNCHANGED active
    BY <1>5 DEF Commit
  <2>2. CASE Undo(c) /\ ~SpawnCommitted(c)
    BY <2>1, <2>2, UndoCap
  <2>3. CASE Spawned(c) /\ UNCHANGED active
    <3>1. spawn' = [spawn EXCEPT ![c] = "out"]
      BY <2>3 DEF Spawned
    <3>2. \A d \in Children : SpawnMoves(d)
      BY <1>0, <2>1, <3>1 DEF ChildrenOK, SpawnMoves
    <3> QED BY <2>1, <2>3, <3>2, IdleCap
  <2> QED BY <2>1, <2>2, <2>3
<1>6. CASE Undone(c)
  BY <1>6, UndoneCap
<1> QED BY <1>1, <1>2, <1>3, <1>4, <1>5, <1>6 DEF SpawnStep

LEMMA FinishStepCap ==
  ASSUME ExecutorAssumption, IInv, IInv', LogKept, CapOK, NEW c \in Children,
         Cancel(c) \/ FinishStep(c)
  PROVE  CapOK'
<1>1. \/ UNCHANGED <<reserved, active, spawn, repair>>
      \/ /\ Settle(c) /\ Finalize(c, status[c])
         /\ Durable(Parent[c], ResultAt(c)) \/ ResultAt(c) \in ResultsOf(c)
  <2>1. CASE Cancel(c)
    BY <2>1 DEF Cancel, admissionVars
  <2>2. CASE RunEnds(c)
    BY <2>2 DEF RunEnds, admissionVars
  <2>3. CASE ChildFlushed(c)
    BY <2>3 DEF ChildFlushed, Report, GiveUp
  <2>4. CASE ChildFlushFails(c)
    BY <2>4 DEF ChildFlushFails, GiveUp
  <2>5. CASE Settle(c)
    BY <2>5 DEF Settle, GiveUp
  <2> QED BY <2>1, <2>2, <2>3, <2>4, <2>5 DEF FinishStep
<1>2. CASE UNCHANGED <<reserved, active, spawn, repair>>
  <2>1. \A d \in Children : SpawnMoves(d)
    BY <1>2 DEF SpawnMoves
  <2> QED BY <1>2, <2>1, IdleCap
<1>3. CASE /\ Settle(c) /\ Finalize(c, status[c])
           /\ Durable(Parent[c], ResultAt(c)) \/ ResultAt(c) \in ResultsOf(c)
  <2>1. /\ finish[c] = "parent" /\ UNCHANGED <<spawn, repair>>
        /\ active' = active \ {c} /\ reserved' = [reserved EXCEPT ![Parent[c]] = Less(@)]
        /\ ResultAt(c) <= synced[Parent[c]] \/ ResultAt(c) \in ResultsOf(c)
    BY <1>3 DEF Settle, Finalize, Durable
  <2>2. c \in active /\ Told(c) # {} /\ spawn[c] # "meta"
    BY <2>1 DEF IInv, ChildOK, FinishKnown
  <2>3. SpawnCommitted(c)
    BY <2>1, <2>2, SettledIsCommitted
  <2> QED BY <2>1, <2>2, <2>3, ReleaseCap
<1> QED BY <1>1, <1>2, <1>3

LEMMA RepairStepCap ==
  ASSUME ExecutorAssumption, OrderedReads, IInv, IInv', LogKept, CapOK, NEW c \in Children,
         RepairStep(c)
  PROVE  CapOK'
<1>0. ChildrenOK
  BY DEF IInv, TypesOK
<1>1. CASE RepairUndoes(c) \/ RepairAdopts(c)
  <2>1. /\ c \in active /\ spawn[c] = "out" /\ UNCHANGED <<spawn, repair>>
        /\ active' = active \ {c} /\ reserved' = [reserved EXCEPT ![Parent[c]] = Less(@)]
    BY <1>1 DEF RepairUndoes, RepairAdopts, Uncertain, Finalize
  <2> QED BY <2>1, ReleaseCap
<1>2. CASE RepairRecords(c)
  <2>1. /\ UNCHANGED <<reserved, active, spawn>> /\ repair' = [repair EXCEPT ![c] = "parent"]
        /\ spawn[c] = "out" \/ restarts > 0
    BY <1>2 DEF RepairRecords, AppendRepair, Uncertain, Historical, admissionVars
  <2>2. spawn[c] = "out"
    BY <2>1 DEF IInv, ChildOK, SpawnKnown
  <2>3. ASSUME NEW d \in Children
        PROVE  SpawnMoves(d) /\ (repair'[d] = "parent" => spawn[d] = "out")
    BY <1>0, <2>1, <2>2 DEF SpawnMoves, CapOK, CapKnown, ChildrenOK
  <2> QED BY <2>1, <2>3, NobodyMoves
<1>3. CASE RepairSettles(c)
  <2>1. /\ repair[c] = "parent" /\ repair' = [repair EXCEPT ![c] = "none"] /\ UNCHANGED spawn
        /\ \/ UNCHANGED <<reserved, active>>
           \/ /\ c \in active /\ active' = active \ {c}
              /\ reserved' = [reserved EXCEPT ![Parent[c]] = Less(@)]
    BY <1>3 DEF RepairSettles, Finalize
  <2>2. /\ spawn[c] = "out" /\ repair'[c] = "none"
        /\ \A d \in Children : d # c => repair'[d] = repair[d]
    BY <1>0, <2>1 DEF CapOK, CapKnown, ChildrenOK
  <2>3. CASE UNCHANGED <<reserved, active>>
    <3>1. \A d \in Children : SpawnMoves(d) /\ repair'[d] \in {"none", repair[d]}
      BY <2>1, <2>2 DEF SpawnMoves
    <3> QED BY <2>3, <3>1, IdleCap
  <2>4. CASE /\ c \in active /\ active' = active \ {c}
             /\ reserved' = [reserved EXCEPT ![Parent[c]] = Less(@)]
    BY <2>1, <2>2, <2>4, ReleaseCap
  <2> QED BY <2>1, <2>3, <2>4
<1> QED BY <1>1, <1>2, <1>3 DEF RepairStep

LEMMA CapacityStep ==
  ASSUME ExecutorAssumption, OrderedReads, IInv, CapOK, [Next]_vars
  PROVE  CapOK'
<1>1. CASE Restart
  <2>1. /\ reserved' = [r \in Roots |-> 0] /\ active' = {}
        /\ spawn' = [c \in Children |-> "out"] /\ repair' = [c \in Children |-> "none"]
    BY <1>1 DEF Restart
  <2>2. \A r \in Roots : Held(r)' = {}
    BY <2>1 DEF Held, Holds
  <2>3. \A c \in Children : CapKnown(c)'
    BY <2>1 DEF CapKnown
  <2>4. \A r \in Roots : reserved'[r] = Cardinality(Held(r)') /\ reserved'[r] <= MaxPerRoot
    BY <2>1, <2>2, FS_EmptySet DEF ExecutorAssumption
  <2> QED BY <2>1, <2>3, <2>4 DEF CapOK
<1>2. CASE UNCHANGED <<reserved, active, spawn, repair, log, filed, restarts>>
  <2>1. \A r \in Roots : Held(r)' = Held(r)
    BY <1>2 DEF Held, Holds
  <2>2. \A c \in Children : CapKnown(c)'
    BY <1>2 DEF CapOK, CapKnown, SpawnCommitted, Canonical
  <2> QED BY <1>2, <2>1, <2>2 DEF CapOK
<1>3. CASE Works
  <2>1. IInv' /\ LogKept
    BY <1>3, WorkKeeps
  <2>2. CASE UNCHANGED <<reserved, active, spawn, repair>>
    <3>1. \A d \in Children : SpawnMoves(d)
      BY <2>2 DEF SpawnMoves
    <3> QED BY <2>1, <2>2, <3>1, IdleCap
  <2>3. CASE Pump
    <3>1. UNCHANGED <<reserved, active, spawn, repair>>
      BY <2>3 DEF Pump, admissionVars
    <3> QED BY <2>2, <3>1
  <2>4. ASSUME NEW r \in Roots, RecordStored(r) \/ StorageBreaks(r) \/ Stop(r) PROVE CapOK'
    <3>1. UNCHANGED <<reserved, active, spawn, repair>>
      BY <2>4 DEF RecordStored, StorageBreaks, Stop, admissionVars
    <3> QED BY <2>2, <3>1
  <2>5. ASSUME NEW t \in Turns, Begin(t) \/ Close(t) \/ EndStep(t) \/ EndOtherwise(t)
        PROVE  CapOK'
    <3>1. UNCHANGED <<reserved, active, spawn, repair>>
      BY <2>5 DEF Begin, Close, EndStep, EndOtherwise, CloseUnmarked, Mark, Marked, Complete,
                  FinishManual, ManualEnds, ReleaseTurns, notTurn
    <3> QED BY <2>2, <3>1
  <2>6. ASSUME NEW c \in Children,
               Ask(c) \/ SpawnStep(c) \/ Cancel(c) \/ FinishStep(c) \/ RepairStep(c)
        PROVE  CapOK'
    BY <2>1, <2>6, SpawnStepCap, FinishStepCap, RepairStepCap
  <2> QED BY <1>3, <2>3, <2>4, <2>5, <2>6 DEF Works
<1>4. CASE UNCHANGED vars
  BY <1>2, <1>4 DEF vars, storeVars, admissionVars
<1> QED BY <1>1, <1>3, <1>4 DEF Next, Works

\* The reservations of a root are its active children and the failed attempts still being
\* undone, and never exceed the limit: however a spawn fails, a cancel meets it or a
\* settlement is repaired, nothing is released twice or kept.  It needs reads of a file
\* that do not overtake one another.
THEOREM CapacityIsExact ==
  ASSUME OrderedReads
  PROVE  Spec => []CapacityExact
<1>1. Init => CapOK
  <2> SUFFICES ASSUME Init PROVE CapOK
    OBVIOUS
  <2>1. \A r \in Roots : Held(r) = {}
    BY DEF Init, Held, Holds
  <2>2. \A r \in Roots : reserved[r] = Cardinality(Held(r)) /\ reserved[r] <= MaxPerRoot
    <3>1. MaxPerRoot \in Nat
      BY ExecutorAssumption DEF ExecutorAssumption
    <3>2. \A r \in Roots : reserved[r] = 0
      BY DEF Init
    <3> QED BY <2>1, <3>1, <3>2, FS_EmptySet
  <2>3. \A c \in Children : CapKnown(c)
    BY DEF Init, CapKnown
  <2> QED BY <2>2, <2>3 DEF Init, CapOK
<1>2. IInv /\ CapOK /\ [Next]_vars => CapOK'
  BY ExecutorAssumption, CapacityStep
<1>3. CapOK => CapacityExact
  BY DEF CapOK, CapacityExact, Held, Holds
<1> QED BY <1>1, <1>2, <1>3, Invariance, PTL DEF Spec
=============================================================================
