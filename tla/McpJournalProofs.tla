-------------------------- MODULE McpJournalProofs --------------------------
(***************************************************************************)
(* Proofs about McpJournal for any set of calls and every bound on         *)
(* journals, faults and crashes.  They speak of the behaviours up to the   *)
(* first of three accidents the code does not guard against (`orderly`):   *)
(* a second opening beside the first, an append that fails with others     *)
(* behind it, and a rewriting of the file cut short by a crash.            *)
(***************************************************************************)
EXTENDS McpJournal, FiniteSetTheorems, TLAPS

-----------------------------------------------------------------------------
(* What a file says of a call; Recorded(c) is Standing(file, c). *)

Ends(f, c) == {i \in 1..Len(f) : f[i].kind = "terminal" /\ f[i].call = c}

Standing(f, c) ==
  CASE Ends(f, c) = {} -> IF c \in Ids(f, "intent") THEN "intent" ELSE "nothing"
    [] Cardinality(Ends(f, c)) = 1 -> f[CHOOSE i \in Ends(f, c) : TRUE].outcome
    [] OTHER -> "twice"

Lines == [kind : {"intent", "terminal", "junk"}, call : Calls, seq : Nat,
          outcome : Outcomes \cup {"none"}]
Entries == [kind : {"intent", "terminal"}, call : Calls,
            outcome : Outcomes \cup {"none"}, by : Users]
Phases == {"none", "reading", "cutting", "closing", "ready", "failed"}
Engaged == {"check", "intent", "calling", "waiting", "terminal", "faulting"}

-----------------------------------------------------------------------------
(* The inductive invariant. *)

FileOK ==
  /\ file \in Seq(Lines) /\ Valid(file)
  /\ \A i \in 1..Len(file) : file[i].kind = "terminal" => file[i].outcome \in Outcomes

TypesOK ==
  /\ opened \in 0..MaxJournals /\ current \in 0..MaxJournals
  /\ phase \in [Journals -> Phases] /\ seq \in [Journals -> Nat]
  /\ queue \in [Journals -> Seq(Entries)] /\ todo \in [Journals -> SUBSET Calls]
  /\ pc \in [Users -> Engaged \cup {"idle", "opening", "done", "clearing"}]
  /\ pc["repair"] \in {"idle", "opening", "clearing"}
  /\ own \in [Users -> 0..MaxJournals]
  /\ result \in [Calls -> Outcomes \cup {"none"}]
  /\ told \in [Calls -> Outcomes \cup {"none", "notSent", "blocked", "audit_fault"}]
  /\ sent \subseteq Calls

\* The provers take Booleans apart from the rest.
FlagsOK ==
  /\ half \in BOOLEAN /\ faultFile \in BOOLEAN
  /\ poisoned \in [Journals -> BOOLEAN]

\* Whether j is the journal in use: what it appends goes to the file.
InUse(j) == phase[j] = "ready" /\ ~poisoned[j]

\* One journal is being opened or in use, never two.
OneJournal ==
  /\ \A j \in Journals : j > opened => phase[j] = "none"
  /\ current # 0 => phase[current] = "ready"
  /\ \A j \in Journals : phase[j] \in {"reading", "cutting", "closing"} => current = 0
  /\ \A j \in Journals : InUse(j) => current = j
  /\ \A j, k \in Opening : j = k
  /\ \A u \in Users : pc[u] = "opening" => own[u] \in Opening
  /\ \A u, v \in Users : pc[u] = "opening" /\ pc[v] = "opening" => u = v
  /\ \A c \in Calls : pc[c] \in Engaged => own[c] \in Journals /\ phase[own[c]] = "ready"

\* It knows how long the file is, and the file ends with a line when it writes.
KnowsFile ==
  /\ \A j \in Journals :
       phase[j] \in {"cutting", "closing"} \/ InUse(j) => seq[j] = Len(file)
  /\ \A j \in Journals : phase[j] = "closing" \/ InUse(j) => ~half
  /\ \A j \in Journals : phase[j] \in {"cutting", "closing"} =>
       \A c \in todo[j] : Standing(file, c) = "intent"

\* What waits to be written, and for whom.
QueueOK ==
  /\ \A j \in Journals : queue[j] # <<>> => phase[j] = "closing" \/ InUse(j)
  /\ \A j \in Journals : phase[j] = "closing" =>
       /\ Len(queue[j]) <= 1
       /\ \A i \in 1..Len(queue[j]) :
            /\ queue[j][i].kind = "terminal" /\ queue[j][i].outcome = "indeterminate"
            /\ queue[j][i].call \in todo[j]
            /\ pc[queue[j][i].by] = "opening" /\ own[queue[j][i].by] = j
  /\ \A j \in Journals : phase[j] = "ready" =>
       /\ \A i \in 1..Len(queue[j]) :
            LET c == queue[j][i].call IN
            /\ queue[j][i].by = c /\ own[c] = j /\ pc[c] = queue[j][i].kind
            /\ pc[c] = "terminal" => queue[j][i].outcome = result[c]
       /\ \A i, k \in 1..Len(queue[j]) :
            queue[j][i].call = queue[j][k].call => i = k
  /\ \A c \in Calls : pc[c] = "terminal" =>
       \E i \in 1..Len(queue[own[c]]) : queue[own[c]][i].call = c

\* Where a call stands and what the file says of it.
CallsRecorded ==
  \A c \in Calls :
    /\ pc[c] \in {"idle", "opening", "check", "intent"} => Standing(file, c) = "nothing"
    /\ pc[c] \in {"calling", "waiting"} =>
         /\ Standing(file, c) \in {"intent", "indeterminate"}
         /\ ~poisoned[own[c]] => Standing(file, c) = "intent"
    /\ pc[c] = "terminal" => Standing(file, c) = "intent" /\ ~poisoned[own[c]]
    /\ pc[c] = "faulting" => poisoned[own[c]]

\* Where a call stands, what was sent and what was told.
CallsTold ==
  \A c \in Calls :
    /\ pc[c] # "done" => told[c] = "none"
    /\ c \in sent => pc[c] \in {"waiting", "terminal", "faulting", "done"}
    /\ pc[c] = "waiting" => c \in sent
    /\ pc[c] \in {"terminal", "faulting"} =>
         result[c] \in Outcomes /\ (result[c] = "withheld" <=> c \notin sent)

IInv ==
  /\ FileOK /\ TypesOK /\ FlagsOK
  /\ OneJournal /\ KnowsFile /\ QueueOK /\ CallsRecorded /\ CallsTold
-----------------------------------------------------------------------------
(* What appending a line to a file does to what it says. *)

\* The model's Recorded is Standing of the file.
LEMMA RecordedIsStanding == \A c \in Calls : Recorded(c) = Standing(file, c)
BY DEF Recorded, Standing, Ends

\* A file says "nothing" or "intent" of a call exactly when it holds no outcome.
LEMMA StandingOpen ==
  ASSUME NEW f \in Seq(Lines), NEW c \in Calls,
         \A i \in 1..Len(f) : f[i].kind = "terminal" => f[i].outcome \in Outcomes
  PROVE  /\ Standing(f, c) = "nothing" => Ends(f, c) = {} /\ c \notin Ids(f, "intent")
         /\ Standing(f, c) = "intent" => Ends(f, c) = {} /\ c \in Ids(f, "intent")
<1>1. CASE Ends(f, c) = {}
  BY <1>1, FS_EmptySet DEF Standing
<1>2. CASE Ends(f, c) # {} /\ Cardinality(Ends(f, c)) = 1
  <2>1. PICK i \in Ends(f, c) : i = CHOOSE n \in Ends(f, c) : TRUE
    BY <1>2
  <2>2. f[i].outcome \in Outcomes
    BY <2>1 DEF Ends
  <2>3. Standing(f, c) = f[i].outcome
    BY <1>2, <2>1 DEF Standing
  <2> QED BY <2>2, <2>3 DEF Outcomes
<1>3. CASE Ends(f, c) # {} /\ Cardinality(Ends(f, c)) # 1
  BY <1>3 DEF Standing
<1> QED BY <1>1, <1>2, <1>3

\* A line about one call changes nothing of what is said of another.
LEMMA StandingOther ==
  ASSUME NEW f \in Seq(Lines), NEW line \in Lines, NEW c \in Calls, line.call # c
  PROVE  Standing(Append(f, line), c) = Standing(f, c)
<1> DEFINE g == Append(f, line)
<1>1. /\ Len(g) = Len(f) + 1 /\ g[Len(f) + 1] = line /\ Len(f) \in Nat
      /\ \A i \in 1..Len(f) : g[i] = f[i]
  OBVIOUS
<1>2. Ends(g, c) = Ends(f, c)
  BY <1>1 DEF Ends
<1>3. c \in Ids(g, "intent") <=> c \in Ids(f, "intent")
  BY <1>1 DEF Ids
<1>4. Cardinality(Ends(f, c)) = 1 /\ Ends(f, c) # {} =>
        g[CHOOSE i \in Ends(f, c) : TRUE] = f[CHOOSE i \in Ends(f, c) : TRUE]
  <2>1. Ends(f, c) # {} => (CHOOSE i \in Ends(f, c) : TRUE) \in 1..Len(f)
    BY DEF Ends
  <2> QED BY <1>1, <2>1
<1> HIDE DEF g
<1>5. ASSUME Ends(f, c) = {} PROVE Standing(g, c) = Standing(f, c)
  BY <1>2, <1>3, <1>5, FS_EmptySet DEF Standing
<1>6. ASSUME Ends(f, c) # {} PROVE Standing(g, c) = Standing(f, c)
  BY <1>2, <1>4, <1>6 DEF Standing
<1>7. Standing(g, c) = Standing(f, c)
  BY <1>5, <1>6
<1> QED BY <1>7 DEF g

\* The first intent, and the first outcome, are what the file says from then on.
LEMMA StandingNext ==
  ASSUME NEW f \in Seq(Lines), NEW line \in Lines, Ends(f, line.call) = {}
  PROVE  /\ line.kind = "intent" => Standing(Append(f, line), line.call) = "intent"
         /\ line.kind = "terminal" => Standing(Append(f, line), line.call) = line.outcome
<1> DEFINE g == Append(f, line)
           c == line.call
<1>1. /\ Len(g) = Len(f) + 1 /\ g[Len(f) + 1] = line /\ Len(f) \in Nat
      /\ \A i \in 1..Len(f) : g[i] = f[i]
  OBVIOUS
<1>2. Ends(f, c) = {}
  OBVIOUS
<1> HIDE DEF g
<1>3. ASSUME line.kind = "intent" PROVE Standing(g, c) = "intent"
  <2>1. Ends(g, c) = {}
    BY <1>1, <1>2, <1>3 DEF Ends
  <2>2. c \in Ids(g, "intent")
    BY <1>1, <1>3 DEF Ids
  <2> QED BY <2>1, <2>2, FS_EmptySet DEF Standing
<1>4. ASSUME line.kind = "terminal" PROVE Standing(g, c) = line.outcome
  <2>1. Ends(g, c) = {Len(f) + 1}
    BY <1>1, <1>2, <1>4 DEF Ends
  <2>2. Cardinality(Ends(g, c)) = 1
    BY <2>1, FS_Singleton
  <2>3. (CHOOSE i \in Ends(g, c) : TRUE) = Len(f) + 1
    BY <2>1
  <2> QED BY <1>1, <2>1, <2>2, <2>3 DEF Standing
<1> QED BY <1>3, <1>4 DEF g

-----------------------------------------------------------------------------
(* Who writes: the one journal that is being opened or in use. *)

\* Behind a journal with something to write the file ends with its last line, and
\* no other journal has anything to write.
LEMMA OnlyWriter ==
  ASSUME JournalAssumption, IInv, NEW j \in Journals, queue[j] # <<>>
  PROVE  /\ phase[j] = "closing" \/ InUse(j)
         /\ seq[j] = Len(file) /\ half = FALSE
         /\ \A k \in Journals : k # j => queue[k] = <<>> /\ ~InUse(k) /\ k \notin Opening
<1>1. phase[j] = "closing" \/ InUse(j)
  BY DEF IInv, QueueOK
<1>2. seq[j] = Len(file) /\ half = FALSE
  BY <1>1 DEF IInv, KnowsFile, FlagsOK
<1>3. ASSUME NEW k \in Journals, k # j PROVE ~InUse(k) /\ k \notin Opening
  <2>1. CASE phase[j] = "closing"
    <3>1. j \in Opening /\ current = 0
      BY <2>1 DEF IInv, OneJournal, Opening
    <3>2. k # 0
      BY JournalAssumption DEF Journals, JournalAssumption
    <3> QED BY <1>3, <3>1, <3>2 DEF IInv, OneJournal
  <2>2. CASE InUse(j)
    <3>1. current = j /\ j # 0
      BY <2>2 DEF IInv, OneJournal, Journals, JournalAssumption
    <3> QED BY <1>3, <3>1 DEF IInv, OneJournal, Opening
  <2> QED BY <1>1, <2>1, <2>2
<1>4. ASSUME NEW k \in Journals, k # j PROVE queue[k] = <<>>
  BY <1>3, <1>4 DEF IInv, QueueOK, Opening
<1> QED BY <1>1, <1>2, <1>3, <1>4

\* The next line to be written is the first word or the last about its call.
LEMMA NextLine ==
  ASSUME JournalAssumption, IInv, NEW j \in Journals, queue[j] # <<>>
  PROVE  LET e == Head(queue[j]) IN
         /\ e \in Entries /\ e = queue[j][1] /\ 1 \in 1..Len(queue[j])
         /\ e.kind = "intent" => Standing(file, e.call) = "nothing"
         /\ e.kind = "terminal" =>
              /\ Standing(file, e.call) = "intent" /\ e.outcome \in Outcomes
              /\ e.outcome \in {"success", "error"} => e.call \in sent
              /\ e.outcome = "withheld" => e.call \notin sent
<1> DEFINE e == Head(queue[j])
<1>1. e \in Entries /\ e = queue[j][1] /\ 1 \in 1..Len(queue[j])
  BY DEF IInv, TypesOK
<1>2. e.call \in Calls /\ e.kind \in {"intent", "terminal"}
  BY <1>1 DEF Entries
<1>3. CASE phase[j] = "closing"
  <2>1. e.kind = "terminal" /\ e.outcome = "indeterminate" /\ e.call \in todo[j]
    BY <1>1, <1>3 DEF IInv, QueueOK
  <2>2. Standing(file, e.call) = "intent"
    BY <1>3, <2>1 DEF IInv, KnowsFile
  <2> QED BY <1>1, <2>1, <2>2 DEF Outcomes
<1>4. CASE InUse(j)
  <2>1. /\ pc[e.call] = e.kind
        /\ pc[e.call] = "terminal" => e.outcome = result[e.call]
    BY <1>1, <1>4 DEF IInv, QueueOK, InUse
  <2>2. e.kind = "intent" => Standing(file, e.call) = "nothing"
    BY <1>2, <2>1 DEF IInv, CallsRecorded
  <2>3. e.kind = "terminal" => Standing(file, e.call) = "intent"
    BY <1>2, <2>1 DEF IInv, CallsRecorded
  <2>4. e.kind = "terminal" =>
          e.outcome \in Outcomes /\ (e.outcome = "withheld" <=> e.call \notin sent)
    BY <1>2, <2>1 DEF IInv, CallsTold
  <2> QED BY <1>1, <2>2, <2>3, <2>4
<1> QED BY <1>3, <1>4, OnlyWriter

\* What the file says after the head of j's queue is written.
Then(j, c) ==
  LET e == Head(queue[j]) IN
  IF c # e.call THEN Standing(file, c)
  ELSE IF e.kind = "intent" THEN "intent" ELSE e.outcome

LEMMA WriteKeepsFile ==
  ASSUME JournalAssumption, IInv, NEW j \in Journals, queue[j] # <<>>
  PROVE  LET f == Written(Record(j)) IN
         /\ f \in Seq(Lines) /\ Valid(f) /\ Len(f) = Len(file) + 1
         /\ \A i \in 1..Len(f) : f[i].kind = "terminal" => f[i].outcome \in Outcomes
         /\ \A c \in Calls : Standing(f, c) = Then(j, c)
<1> DEFINE line == Record(j)
           e == Head(queue[j])
           f == Append(file, line)
<1>1. Written(Record(j)) = f
  BY OnlyWriter DEF Written
<1>2. e \in Entries
  BY NextLine
<1>3. line \in Lines /\ line.seq = Len(file) + 1 /\ line.kind = e.kind
      /\ line.call = e.call /\ line.outcome = e.outcome
  <2>1. seq[j] \in Nat /\ seq[j] = Len(file)
    BY OnlyWriter DEF IInv, TypesOK
  <2>2. line = [kind |-> e.kind, call |-> e.call, seq |-> seq[j] + 1, outcome |-> e.outcome]
    BY DEF Record
  <2> QED BY <1>2, <2>1, <2>2 DEF Entries, Lines
<1>4. file \in Seq(Lines) /\ Valid(file)
      /\ \A i \in 1..Len(file) : file[i].kind = "terminal" => file[i].outcome \in Outcomes
  BY DEF IInv, FileOK
<1> HIDE DEF line, e
<1>5. /\ f \in Seq(Lines) /\ Len(f) = Len(file) + 1 /\ f[Len(file) + 1] = line
      /\ \A i \in 1..Len(file) : f[i] = file[i]
  BY <1>3, <1>4
<1>6. line.kind \in {"intent", "terminal"} /\ line.call \in Calls
  BY <1>2, <1>3 DEF Entries
<1>7. line.kind = "terminal" => line.outcome \in Outcomes
  BY <1>3, NextLine DEF e
<1>8. Valid(f) /\ \A i \in 1..Len(f) : f[i].kind = "terminal" => f[i].outcome \in Outcomes
  <2> HIDE DEF f
  <2> SUFFICES ASSUME NEW i \in 1..Len(f)
               PROVE  /\ f[i].kind # "junk" /\ f[i].seq = i
                      /\ f[i].kind = "terminal" => f[i].outcome \in Outcomes
    BY DEF Valid
  <2>1. CASE i = Len(file) + 1
    BY <1>3, <1>5, <1>6, <1>7, <2>1
  <2>2. CASE i \in 1..Len(file)
    BY <1>4, <1>5, <2>2 DEF Valid
  <2> QED BY <1>4, <1>5, <2>1, <2>2
<1>9. ASSUME NEW c \in Calls PROVE Standing(f, c) = Then(j, c)
  <2>1. CASE c # line.call
    <3>1. Standing(f, c) = Standing(file, c)
      BY <1>3, <1>4, <2>1, StandingOther
    <3> QED BY <1>3, <2>1, <3>1 DEF Then, e
  <2>2. CASE c = line.call
    <3>1. Standing(file, c) \in {"nothing", "intent"}
      BY <1>3, <1>6, <2>2, NextLine DEF e
    <3>2. Ends(file, line.call) = {}
      BY <1>4, <1>6, <2>2, <3>1, StandingOpen
    <3>3. Standing(f, c) = IF line.kind = "intent" THEN "intent" ELSE line.outcome
      BY <1>3, <1>4, <1>6, <2>2, <3>2, StandingNext
    <3> QED BY <1>3, <2>2, <3>3 DEF Then, e
  <2> QED BY <2>1, <2>2
<1> QED BY <1>1, <1>5, <1>8, <1>9

-----------------------------------------------------------------------------
(* Every step keeps the invariant. *)

LEMMA InitIInv == JournalAssumption /\ Init => IInv
<1> SUFFICES ASSUME JournalAssumption, Init PROVE IInv
  OBVIOUS
<1> USE DEF Init
<1>1. FileOK
  BY DEF FileOK, Valid
<1>2. TypesOK
  BY DEF TypesOK, Phases, Users, Journals, JournalAssumption
<1>3. FlagsOK
  BY DEF FlagsOK
<1>4. OneJournal
  BY DEF OneJournal, InUse, Opening, Engaged, Users
<1>5. KnowsFile
  BY DEF KnowsFile, InUse
<1>6. QueueOK
  BY DEF QueueOK, Users
<1>7. CallsRecorded
  BY FS_EmptySet DEF CallsRecorded, Standing, Ends, Ids, Users
<1>8. CallsTold
  BY DEF CallsTold, Users
<1> QED BY <1>1, <1>2, <1>3, <1>4, <1>5, <1>6, <1>7, <1>8 DEF IInv

\* A call that waits for its outcome to be written waits for the journal in use.
LEMMA AwaitsOutcome ==
  ASSUME IInv, NEW c \in Calls, pc[c] = "terminal"
  PROVE  /\ own[c] \in Journals /\ InUse(own[c]) /\ own[c] = current /\ own[c] # 0
         /\ \E i \in 1..Len(queue[own[c]]) : queue[own[c]][i].call = c
<1>1. own[c] \in Journals /\ phase[own[c]] = "ready"
  BY DEF IInv, OneJournal, Engaged
<1>2. InUse(own[c]) /\ own[c] # 0
  BY <1>1 DEF IInv, CallsRecorded, InUse, Journals
<1> QED BY <1>1, <1>2 DEF IInv, OneJournal, QueueOK

\* A journal is made only when none is in use and none is being opened.
LEMMA OpenKeeps ==
  ASSUME JournalAssumption, orderly', IInv, NEW u \in Users, pc[u] = "idle",
         OpenJournal(u), current' = 0, current = 0 \/ ~InUse(current),
         UNCHANGED <<diskVars, seq, poisoned, queue, open, todo, result, told, sent>>
  PROVE  IInv'
<1> DEFINE j == opened + 1
<1>1. /\ Opening = {} /\ opened' = j /\ phase' = [phase EXCEPT ![j] = "reading"]
      /\ own' = [own EXCEPT ![u] = j] /\ pc' = [pc EXCEPT ![u] = "opening"]
      /\ j \in Journals /\ j # 0
  <2>1. Opening = {} /\ opened < MaxJournals /\ opened' = opened + 1
    BY DEF OpenJournal
  <2>2. opened \in Nat /\ j \in Journals /\ j # 0
    BY <2>1 DEF IInv, TypesOK, Journals, JournalAssumption
  <2> QED BY <2>1, <2>2 DEF OpenJournal, To
<1> HIDE DEF j
<1>2. phase[j] = "none"
  BY <1>1 DEF IInv, OneJournal, TypesOK, j
<1>3. \A k \in Journals : ~InUse(k)
  <2> SUFFICES ASSUME NEW k \in Journals, InUse(k) PROVE FALSE
    OBVIOUS
  <2>1. current = k /\ k # 0
    BY DEF IInv, OneJournal, Journals
  <2> QED BY <2>1
<1> USE DEF diskVars
<1>4. FileOK'
  BY DEF IInv, FileOK
<1>5. TypesOK'
  BY <1>1 DEF IInv, TypesOK, Phases, Journals
<1>6. FlagsOK'
  BY DEF IInv, FlagsOK
<1>7. \A k \in Journals : k # j => phase'[k] = phase[k]
  BY <1>1 DEF IInv, TypesOK
<1>8. phase'[j] = "reading"
  BY <1>1 DEF IInv, TypesOK
<1>14. \A k \in Journals : ~InUse(k)'
  BY <1>3, <1>7, <1>8 DEF InUse
<1>9. OneJournal'
  <2>1. \A k \in Journals : k > opened' => phase'[k] = "none"
    BY <1>1, <1>7 DEF IInv, OneJournal, TypesOK, Journals, j
  <2>2. \A k, l \in Opening' : k = l
    BY <1>1, <1>7 DEF Opening
  <2>3. \A v \in Users : pc[v] # "opening"
    BY <1>1 DEF IInv, OneJournal
  <2>4. \A v \in Users : pc'[v] = "opening" => v = u
    BY <1>1, <2>3 DEF IInv, TypesOK
  <2>5. \A v \in Users : pc'[v] = "opening" => own'[v] \in Opening'
    BY <1>1, <1>8, <2>4 DEF IInv, TypesOK, Opening
  <2>6. \A c \in Calls : pc'[c] \in Engaged => own'[c] \in Journals /\ phase'[own'[c]] = "ready"
    BY <1>1, <1>2, <1>7 DEF IInv, TypesOK, OneJournal, Engaged, Users
  <2> QED BY <1>14, <2>1, <2>2, <2>4, <2>5, <2>6 DEF OneJournal
<1>10. KnowsFile'
  BY <1>1, <1>7, <1>8, <1>14 DEF IInv, KnowsFile, Opening
<1>11. QueueOK'
  <2>1. \A k \in Journals : queue[k] = <<>>
    BY <1>1, <1>3 DEF IInv, QueueOK, Opening
  <2>2. \A c \in Calls : pc'[c] # "terminal"
    <3>1. \A c \in Calls : pc[c] # "terminal"
      BY <1>3, AwaitsOutcome
    <3> QED BY <1>1, <3>1 DEF IInv, TypesOK, Users
  <2> QED BY <2>1, <2>2 DEF QueueOK
<1>12. CallsRecorded'
  BY <1>1 DEF IInv, CallsRecorded, TypesOK, Users
<1>13. CallsTold'
  BY <1>1 DEF IInv, CallsTold, TypesOK, Users
<1> QED BY <1>4, <1>5, <1>6, <1>9, <1>10, <1>11, <1>12, <1>13 DEF IInv

\* What waits in a queue is an entry.
LEMMA EntryTypes ==
  ASSUME IInv, NEW k \in Journals, NEW i \in 1..Len(queue[k])
  PROVE  /\ queue[k][i].kind \in {"intent", "terminal"} /\ queue[k][i].call \in Calls
         /\ queue[k][i].by \in Users /\ queue[k][i].outcome \in Outcomes \cup {"none"}
<1>1. queue[k] \in Seq(Entries)
  BY DEF IInv, TypesOK
<1>2. queue[k][i] \in Entries
  BY <1>1
<1> QED BY <1>2 DEF Entries

LEMMA StartKeeps ==
  ASSUME JournalAssumption, orderly', IInv, NEW c \in Calls, Start(c)
  PROVE  IInv'
<1>1. c \in Users /\ pc[c] = "idle"
  BY DEF Start, Users
<1>2. CASE current = 0
  <2>1. OpenJournal(c) /\ current' = 0
        /\ UNCHANGED <<diskVars, seq, poisoned, queue, open, todo, result, told, sent>>
    BY <1>2 DEF Start
  <2> QED BY <1>1, <1>2, <2>1, OpenKeeps
<1>3. CASE current # 0
  <2>1. /\ own' = [own EXCEPT ![c] = current] /\ pc' = [pc EXCEPT ![c] = "check"]
        /\ UNCHANGED <<diskVars, current, opened, phase, seq, poisoned, queue, open, todo,
                       result, told, sent>>
    BY <1>3 DEF Start, To
  <2>2. current \in Journals /\ phase[current] = "ready"
    BY <1>3 DEF IInv, TypesOK, OneJournal, Journals
  <2> USE DEF diskVars
  <2>3. FileOK'
    BY <2>1 DEF IInv, FileOK
  <2>4. TypesOK'
    BY <1>1, <2>1, JournalAssumption DEF IInv, TypesOK, Engaged, JournalAssumption
  <2>5. FlagsOK'
    BY <2>1 DEF IInv, FlagsOK
  <2>6. OneJournal'
    BY <1>1, <2>1, <2>2 DEF IInv, TypesOK, OneJournal, InUse, Opening, Users, Engaged
  <2>7. KnowsFile'
    BY <2>1 DEF IInv, KnowsFile, InUse
  <2>8. QueueOK'
    <3>1. \A k \in Journals : \A i \in 1..Len(queue[k]) :
            queue[k][i].by \in Users /\ queue[k][i].call \in Calls
            /\ queue[k][i].kind \in {"intent", "terminal"}
      BY EntryTypes
    <3>2. \A u \in Users : u # c => pc'[u] = pc[u] /\ own'[u] = own[u]
      BY <2>1 DEF IInv, TypesOK
    <3>3. \A k \in Journals : phase[k] = "closing" =>
            \A i \in 1..Len(queue[k]) : queue[k][i].by # c
      BY <1>1 DEF IInv, QueueOK
    <3>4. \A k \in Journals : phase[k] = "ready" =>
            \A i \in 1..Len(queue[k]) : queue[k][i].call # c
      BY <1>1, <3>1 DEF IInv, QueueOK
    <3>5. \A d \in Calls : pc'[d] = "terminal" => pc[d] = "terminal" /\ own'[d] = own[d]
      BY <1>1, <2>1, <3>2 DEF IInv, TypesOK, Users
    <3> QED BY <2>1, <3>1, <3>2, <3>3, <3>4, <3>5 DEF IInv, QueueOK, InUse, Users
  <2>9. CallsRecorded'
    BY <1>1, <2>1 DEF IInv, CallsRecorded, TypesOK, Users
  <2>10. CallsTold'
    BY <1>1, <2>1 DEF IInv, CallsTold, TypesOK, Users
  <2> QED BY <2>3, <2>4, <2>5, <2>6, <2>7, <2>8, <2>9, <2>10 DEF IInv
<1> QED BY <1>2, <1>3

\* Steps of the operator's repair, which is no call.
LEMMA RepairKeeps ==
  ASSUME JournalAssumption, orderly', IInv, Repair \/ ClearFault
  PROVE  IInv'
<1>1. "repair" \in Users /\ "repair" \notin Calls
  BY JournalAssumption DEF Users, JournalAssumption
<1>2. CASE Repair /\ current # 0 /\ poisoned[current]
  <2>1. OpenJournal("repair") /\ current' = 0 /\ pc["repair"] = "idle" /\ ~InUse(current)
        /\ UNCHANGED <<diskVars, seq, poisoned, queue, open, todo, result, told, sent>>
    BY <1>2 DEF Repair, InUse
  <2> QED BY <1>1, <2>1, OpenKeeps
<1>3. CASE (Repair /\ ~(current # 0 /\ poisoned[current])) \/ ClearFault
  <2>1. /\ pc["repair"] \in {"idle", "clearing"}
        /\ \E next \in {"clearing", "idle"} : pc' = [pc EXCEPT !["repair"] = next]
        /\ UNCHANGED <<file, half, current, opened, phase, seq, poisoned, queue, open, todo,
                       own, result, told, sent>>
    BY <1>3 DEF Repair, ClearFault, To, diskVars, journalVars
  <2>2. faultFile' \in BOOLEAN
    BY <1>3 DEF Repair, ClearFault, diskVars, IInv, FlagsOK
  <2>3. FileOK'
    BY <2>1 DEF IInv, FileOK
  <2>4. TypesOK'
    BY <1>1, <2>1 DEF IInv, TypesOK
  <2>5. FlagsOK'
    BY <2>1, <2>2 DEF IInv, FlagsOK
  <2>10. \A u \in Users : u # "repair" => pc'[u] = pc[u]
    BY <2>1 DEF IInv, TypesOK
  <2>11. pc'["repair"] \in {"idle", "clearing"}
    BY <1>1, <2>1 DEF IInv, TypesOK
  <2>12. \A c \in Calls : c \in Users /\ pc'[c] = pc[c]
    BY <1>1, <2>10 DEF Users
  <2>6. OneJournal'
    BY <2>1, <2>10, <2>11, <2>12 DEF IInv, OneJournal, InUse, Opening
  <2>7. KnowsFile'
    BY <2>1 DEF IInv, KnowsFile, InUse
  <2>8. QueueOK'
    <3>1. \A k \in Journals : \A i \in 1..Len(queue[k]) :
            queue[k][i].by \in Users /\ queue[k][i].call \in Calls
      BY EntryTypes
    <3>2. \A k \in Journals : phase[k] = "closing" =>
            \A i \in 1..Len(queue[k]) : pc'[queue[k][i].by] = pc[queue[k][i].by]
      BY <2>1, <2>10, <3>1 DEF IInv, QueueOK
    <3> QED BY <2>1, <2>12, <3>1, <3>2 DEF IInv, QueueOK, InUse
  <2>9. CallsRecorded' /\ CallsTold'
    BY <2>1, <2>12 DEF IInv, CallsRecorded, CallsTold
  <2> QED BY <2>3, <2>4, <2>5, <2>6, <2>7, <2>8, <2>9 DEF IInv
<1> QED BY <1>2, <1>3

\* What a reader finds unresolved is what the file holds an intent and no outcome of.
LEMMA UnresolvedStands ==
  ASSUME FileOK, NEW c \in Unresolved(file)
  PROVE  c \in Calls /\ Standing(file, c) = "intent"
<1>1. c \in Ids(file, "intent") /\ c \notin Ids(file, "terminal")
  BY DEF Unresolved
<1>2. PICK i \in 1..Len(file) : c = file[i].call
  BY <1>1 DEF Ids
<1>3. c \in Calls
  <2>1. file[i] \in Lines
    BY <1>2 DEF FileOK
  <2> QED BY <1>2, <2>1 DEF Lines
<1>4. Ends(file, c) = {}
  BY <1>1 DEF Ids, Ends
<1> QED BY <1>1, <1>3, <1>4, FS_EmptySet DEF Standing

\* Steps of the opening of journal j, which neither write nor resume anyone: they
\* move it from one phase to the next.
LEMMA OpeningKeeps ==
  ASSUME JournalAssumption, IInv, NEW u \in Users, NEW j \in Journals, NEW next \in Phases,
         pc[u] = "opening", own[u] = j, queue[j] = <<>>,
         phase' = [phase EXCEPT ![j] = next], next \in {"cutting", "closing"},
         UNCHANGED <<file, faultFile, current, opened, poisoned, queue, pc, own, result,
                     told, sent>>,
         seq' \in [Journals -> Nat], seq'[j] = Len(file),
         \A k \in Journals : k # j => seq'[k] = seq[k] /\ todo'[k] = todo[k],
         todo' \in [Journals -> SUBSET Calls],
         \A c \in todo'[j] : Standing(file, c) = "intent",
         half' \in BOOLEAN, half' => half /\ next = "cutting"
  PROVE  IInv'
<1>1. /\ phase'[j] = next /\ phase[j] \in {"reading", "cutting", "closing"}
      /\ \A k \in Journals : k # j => phase'[k] = phase[k]
  BY DEF IInv, TypesOK, OneJournal, Opening
<1>2. FileOK'
  BY DEF IInv, FileOK
<1>3. TypesOK'
  BY DEF IInv, TypesOK
<1>4. FlagsOK'
  BY DEF IInv, FlagsOK
<1>5. \A k \in Journals : k # j => ~InUse(k) /\ k \notin Opening
  <2>1. j \in Opening /\ current = 0 /\ \A k \in Journals : k # 0
    BY <1>1 DEF IInv, OneJournal, Opening, Journals
  <2> QED BY <2>1 DEF IInv, OneJournal
<1>6. \A k \in Journals : ~InUse(k)'
  BY <1>1, <1>5 DEF InUse
<1>7. OneJournal'
  <2>2. current = 0 /\ (\A k \in Journals : k > opened' => phase'[k] = "none")
    BY <1>1 DEF IInv, OneJournal
  <2>3. Opening' = Opening
    BY <1>1 DEF Opening
  <2>4. \A c \in Calls : pc'[c] \in Engaged => own'[c] \in Journals /\ phase'[own'[c]] = "ready"
    BY <1>1 DEF IInv, OneJournal
  <2> QED BY <1>6, <2>2, <2>3, <2>4 DEF IInv, OneJournal
<1>8. KnowsFile'
  BY <1>1, <1>5, <1>6 DEF IInv, KnowsFile, Opening
<1>9. QueueOK'
  BY <1>1, <1>5 DEF IInv, QueueOK, InUse
<1>10. CallsRecorded' /\ CallsTold'
  BY DEF IInv, CallsRecorded, CallsTold
<1> QED BY <1>2, <1>3, <1>4, <1>7, <1>8, <1>9, <1>10 DEF IInv

\* Reading and cutting: what is cut off is no line.
LEMMA ReadKeeps ==
  ASSUME JournalAssumption, IInv, NEW u \in Users, Read(u) \/ Cut(u)
  PROVE  IInv'
<1> DEFINE j == own[u]
<1>1. pc[u] = "opening" /\ j \in Journals /\ phase[j] \in {"reading", "cutting"}
      /\ queue[j] = <<>>
  <2>1. pc[u] = "opening" /\ phase[j] \in {"reading", "cutting"}
    BY DEF Read, Cut
  <2>2. j \in Journals
    BY <2>1 DEF IInv, OneJournal, Opening
  <2> QED BY <2>1, <2>2 DEF IInv, QueueOK, InUse
<1>2. CASE Read(u)
  <2>1. /\ seq' = [seq EXCEPT ![j] = Len(file)]
        /\ todo' = [todo EXCEPT ![j] = Unresolved(file)]
        /\ phase' = [phase EXCEPT ![j] = IF half THEN "cutting" ELSE "closing"]
        /\ UNCHANGED <<file, half, faultFile, current, opened, poisoned, queue, pc, own, result,
                       told, sent>>
    BY <1>2 DEF Read, IInv, FileOK, diskVars
  <2>2. Unresolved(file) \subseteq Calls
        /\ \A c \in Unresolved(file) : Standing(file, c) = "intent"
    BY UnresolvedStands DEF IInv
  <2>3. Len(file) \in Nat /\ half \in BOOLEAN
    BY DEF IInv, FileOK, FlagsOK
  <2>4. /\ seq' \in [Journals -> Nat] /\ todo' \in [Journals -> SUBSET Calls]
        /\ seq'[j] = Len(file) /\ todo'[j] = Unresolved(file)
        /\ \A k \in Journals : k # j => seq'[k] = seq[k] /\ todo'[k] = todo[k]
    BY <1>1, <2>1, <2>2, <2>3 DEF IInv, TypesOK
  <2>5. CASE half
    <3>1. phase' = [phase EXCEPT ![j] = "cutting"]
      BY <2>1, <2>5
    <3> HIDE DEF j
    <3> QED BY <1>1, <2>1, <2>2, <2>3, <2>4, <2>5, <3>1, OpeningKeeps DEF Phases, j
  <2>6. CASE ~half
    <3>1. phase' = [phase EXCEPT ![j] = "closing"]
      BY <2>1, <2>6
    <3> HIDE DEF j
    <3> QED BY <1>1, <2>1, <2>2, <2>3, <2>4, <2>6, <3>1, OpeningKeeps DEF Phases, j
  <2> QED BY <2>5, <2>6
<1>3. CASE Cut(u)
  <2>1. phase[j] = "cutting" /\ seq[j] = Len(file) /\ file \in Seq(Lines)
    BY <1>1, <1>3 DEF Cut, IInv, KnowsFile, FileOK
  <2>2. file' = file
    BY <1>3, <2>1 DEF Cut
  <2>3. /\ phase' = [phase EXCEPT ![j] = "closing"] /\ half' = FALSE
        /\ UNCHANGED <<faultFile, current, opened, seq, todo, poisoned, queue, pc, own, result,
                       told, sent>>
    BY <1>3 DEF Cut, userVars
  <2>4. /\ seq \in [Journals -> Nat] /\ todo \in [Journals -> SUBSET Calls]
        /\ \A c \in todo[j] : Standing(file, c) = "intent"
    BY <1>1, <2>1 DEF IInv, TypesOK, KnowsFile
  <2> HIDE DEF j
  <2> QED BY <1>1, <2>1, <2>2, <2>3, <2>4, OpeningKeeps DEF Phases, j
<1> QED BY <1>2, <1>3

\* One more entry in a queue; the others keep their places.
LEMMA EnqueueTypes ==
  ASSUME IInv, NEW j \in Journals, NEW e \in Entries,
         queue' = [queue EXCEPT ![j] = Append(@, e)]
  PROVE  /\ queue' \in [Journals -> Seq(Entries)]
         /\ Len(queue[j]) \in Nat /\ Len(queue'[j]) = Len(queue[j]) + 1
         /\ queue'[j][Len(queue[j]) + 1] = e
         /\ \A i \in 1..Len(queue[j]) : queue'[j][i] = queue[j][i]
         /\ \A k \in Journals : k # j => queue'[k] = queue[k]
<1>1. queue \in [Journals -> Seq(Entries)]
  BY DEF IInv, TypesOK
<1>2. queue'[j] = Append(queue[j], e) /\ \A k \in Journals : k # j => queue'[k] = queue[k]
  BY <1>1
<1>3. queue[j] \in Seq(Entries)
  BY <1>1
<1>4. /\ Append(queue[j], e) \in Seq(Entries) /\ Len(queue[j]) \in Nat
      /\ Len(Append(queue[j], e)) = Len(queue[j]) + 1
      /\ Append(queue[j], e)[Len(queue[j]) + 1] = e
      /\ \A i \in 1..Len(queue[j]) : Append(queue[j], e)[i] = queue[j][i]
  BY <1>3
<1> QED BY <1>1, <1>2, <1>4

\* Closing what a dead process left, and being done with it.
LEMMA CloseNextKeeps ==
  ASSUME JournalAssumption, IInv, NEW u \in Users, CloseNext(u)
  PROVE  IInv'
<1> DEFINE j == own[u]
<1>1. /\ pc[u] = "opening" /\ phase[j] = "closing" /\ queue[j] = <<>> /\ ~poisoned[j]
      /\ UNCHANGED <<file, half, faultFile, opened, seq, poisoned, todo, own, result,
                     told, sent>>
  BY DEF CloseNext, diskVars
<1>2. j \in Journals /\ j # 0 /\ j \in Opening /\ current = 0
  BY <1>1 DEF IInv, OneJournal, Opening, Journals
<1>3. \A k \in Journals : k # j => ~InUse(k) /\ k \notin Opening /\ queue[k] = <<>>
  <2>1. \A k \in Journals : k # j => ~InUse(k) /\ k \notin Opening
    BY <1>2 DEF IInv, OneJournal, Journals
  <2> QED BY <2>1 DEF IInv, QueueOK, Opening
<1>4. FileOK' /\ FlagsOK'
  BY <1>1 DEF IInv, FileOK, FlagsOK
<1>5. CASE todo[j] # {}
  <2>1. PICK c \in todo[j] :
          queue' = [queue EXCEPT ![j] = Append(@, [kind |-> "terminal", call |-> c,
                                                   outcome |-> "indeterminate", by |-> u])]
    BY <1>5 DEF CloseNext, Enqueue
  <2>2. UNCHANGED <<phase, current, pc>>
    BY <1>5 DEF CloseNext
  <2> DEFINE e == [kind |-> "terminal", call |-> c, outcome |-> "indeterminate", by |-> u]
  <2>3. c \in Calls /\ e \in Entries
    BY <1>2 DEF IInv, TypesOK, Entries, Outcomes
  <2>4. /\ e.kind = "terminal" /\ e.call = c /\ e.outcome = "indeterminate" /\ e.by = u
        /\ queue' = [queue EXCEPT ![j] = Append(@, e)]
    BY <2>1
  <2> HIDE DEF e, j
  <2>5. TypesOK'
    BY <1>1, <1>2, <2>2, <2>3, <2>4, EnqueueTypes DEF IInv, TypesOK
  <2>6. OneJournal' /\ KnowsFile'
    BY <1>1, <2>2 DEF IInv, OneJournal, KnowsFile, InUse, Opening
  <2>7. QueueOK'
    <3>1. /\ Len(queue'[j]) = 1 /\ queue'[j][1] = e
          /\ \A k \in Journals : k # j => queue'[k] = <<>>
      <4>1. Len(queue[j]) = 0
        BY <1>1
      <4>2. queue'[j][0 + 1] = e /\ Len(queue'[j]) = 0 + 1
            /\ \A k \in Journals : k # j => queue'[k] = queue[k]
        BY <1>2, <2>3, <2>4, <4>1, EnqueueTypes
      <4> QED BY <1>3, <4>2
    <3>2. \A i \in 1..Len(queue'[j]) : queue'[j][i] = e
      BY <3>1
    <3>3. \A d \in Calls : pc[d] # "terminal"
      BY <1>2, AwaitsOutcome
    <3> QED BY <1>1, <1>2, <2>2, <2>4, <3>1, <3>2, <3>3 DEF QueueOK, j
  <2>8. CallsRecorded' /\ CallsTold'
    BY <1>1, <2>2 DEF IInv, CallsRecorded, CallsTold
  <2> QED BY <1>4, <2>5, <2>6, <2>7, <2>8 DEF IInv
<1>6. CASE todo[j] = {}
  <2>1. /\ phase' = [phase EXCEPT ![j] = "ready"] /\ current' = j
        /\ UNCHANGED queue
        /\ \E next \in {"clearing", "check"} :
             pc' = [pc EXCEPT ![u] = next] /\ (next = "clearing" <=> u = "repair")
    BY <1>6 DEF CloseNext, To
  <2>2. /\ \A v \in Users : v # u => pc'[v] = pc[v] /\ pc'[v] # "opening"
        /\ pc'[u] = IF u = "repair" THEN "clearing" ELSE "check"
    BY <1>1, <2>1 DEF IInv, TypesOK, OneJournal
  <2>3. phase'[j] = "ready" /\ \A k \in Journals : k # j => phase'[k] = phase[k]
    BY <1>2, <2>1 DEF IInv, TypesOK
  <2>4. InUse(j)' /\ \A k \in Journals : k # j => ~InUse(k)'
    BY <1>1, <1>3, <2>3 DEF InUse
  <2> HIDE DEF j
  <2>5. TypesOK'
    <3>1. phase' \in [Journals -> Phases] /\ current' \in 0..MaxJournals
      BY <1>2, <2>1 DEF IInv, TypesOK, Phases, Journals
    <3>2. /\ pc' \in [Users -> Engaged \cup {"idle", "opening", "done", "clearing"}]
          /\ pc'["repair"] \in {"idle", "opening", "clearing"}
      BY <2>1, <2>2 DEF IInv, TypesOK, Engaged, Users
    <3> QED BY <1>1, <2>1, <3>1, <3>2 DEF IInv, TypesOK
  <2>6. OneJournal'
    <3>1. \A k \in Journals : k > opened' => phase'[k] = "none"
      BY <1>1, <2>3 DEF IInv, OneJournal
    <3>2. Opening' = {}
      BY <1>3, <2>3 DEF Opening
    <3>3. \A v \in Users : pc'[v] # "opening"
      BY <2>2
    <3>4. \A c \in Calls : pc'[c] \in Engaged =>
            own'[c] \in Journals /\ phase'[own'[c]] = "ready"
      BY <1>1, <1>2, <2>2, <2>3 DEF IInv, OneJournal, Users, j
    <3> QED BY <2>1, <2>3, <2>4, <3>1, <3>2, <3>3, <3>4 DEF OneJournal, Opening
  <2>7. KnowsFile'
    BY <1>1, <1>2, <1>3, <2>3, <2>4 DEF IInv, KnowsFile, Opening
  <2>8. QueueOK'
    <3>1. \A d \in Calls : pc'[d] # "terminal"
      BY <1>2, <2>2, AwaitsOutcome DEF Users
    <3> QED BY <1>1, <1>3, <2>1, <3>1 DEF QueueOK
  <2>9. CallsRecorded' /\ CallsTold'
    BY <1>1, <2>2, JournalAssumption
       DEF IInv, CallsRecorded, CallsTold, Users, JournalAssumption
  <2> QED BY <1>4, <2>5, <2>6, <2>7, <2>8, <2>9 DEF IInv
<1> QED BY <1>5, <1>6

\* What holds of one call in CallsRecorded and CallsTold.
Fine(c) ==
  /\ pc[c] \in {"idle", "opening", "check", "intent"} => Standing(file, c) = "nothing"
  /\ pc[c] \in {"calling", "waiting"} =>
       /\ Standing(file, c) \in {"intent", "indeterminate"}
       /\ ~poisoned[own[c]] => Standing(file, c) = "intent"
  /\ pc[c] = "terminal" => Standing(file, c) = "intent" /\ ~poisoned[own[c]]
  /\ pc[c] = "faulting" => poisoned[own[c]]
  /\ pc[c] # "done" => told[c] = "none"
  /\ c \in sent => pc[c] \in {"waiting", "terminal", "faulting", "done"}
  /\ pc[c] = "waiting" => c \in sent
  /\ pc[c] \in {"terminal", "faulting"} =>
       result[c] \in Outcomes /\ (result[c] = "withheld" <=> c \notin sent)

LEMMA AllFine == (\A c \in Calls : Fine(c)) <=> CallsRecorded /\ CallsTold
BY DEF Fine, CallsRecorded, CallsTold

\* A step of a call that does not wait for the file: it may ask for a record.
LEMMA CallStepKeeps ==
  ASSUME JournalAssumption, IInv, NEW c \in Calls, NEW next \in Engaged \cup {"done"},
         pc[c] \in {"check", "calling", "waiting", "faulting"},
         pc' = [pc EXCEPT ![c] = next],
         UNCHANGED <<file, half, current, opened, phase, seq, poisoned, todo, own>>,
         faultFile' \in BOOLEAN,
         \/ queue' = queue /\ next # "terminal"
         \/ /\ ~poisoned[own[c]] /\ next \in {"intent", "terminal"}
            /\ \E outcome \in Outcomes \cup {"none"} :
                 /\ queue' = [queue EXCEPT ![own[c]] = Append(@,
                                [kind |-> next, call |-> c, outcome |-> outcome, by |-> c])]
                 /\ next = "terminal" => outcome = result'[c],
         result' \in [Calls -> Outcomes \cup {"none"}],
         told' \in [Calls -> Outcomes \cup {"none", "notSent", "blocked", "audit_fault"}],
         sent' \subseteq Calls,
         \A d \in Calls : d # c =>
           result'[d] = result[d] /\ told'[d] = told[d] /\ (d \in sent' <=> d \in sent),
         Fine(c)'
  PROVE  IInv'
<1>1. c \in Users /\ c # "repair" /\ Calls \subseteq Users
  BY JournalAssumption DEF Users, JournalAssumption
<1>2. pc'[c] = next /\ (\A u \in Users : u # c => pc'[u] = pc[u])
  BY <1>1 DEF IInv, TypesOK
<1>3. own[c] \in Journals /\ phase[own[c]] = "ready"
  BY <1>1 DEF IInv, OneJournal, Engaged
<1>4. FileOK' /\ FlagsOK'
  BY DEF IInv, FileOK, FlagsOK
<1>5. OneJournal'
  <2>1. \A u \in Users : pc'[u] = "opening" => pc[u] = "opening"
    BY <1>2 DEF Engaged
  <2>2. \A d \in Calls : pc'[d] \in Engaged => pc[d] \in Engaged
    BY <1>1, <1>2 DEF Engaged
  <2> QED BY <2>1, <2>2 DEF IInv, OneJournal, InUse, Opening
<1>6. KnowsFile'
  BY DEF IInv, KnowsFile, InUse
<1>7. CallsRecorded' /\ CallsTold'
  <2>1. \A d \in Calls : d # c => Fine(d)
    BY AllFine DEF IInv
  <2>2. ASSUME NEW d \in Calls, d # c PROVE Fine(d)'
    <3>1. /\ pc'[d] = pc[d] /\ result'[d] = result[d] /\ told'[d] = told[d]
          /\ d \in sent' <=> d \in sent
      BY <1>1, <1>2, <2>2
    <3>2. Fine(d)
      BY <2>1, <2>2
    <3> QED BY <3>1, <3>2 DEF Fine
  <2>3. \A d \in Calls : Fine(d)'
    BY <2>2
  <2> QED BY <2>3 DEF Fine, CallsRecorded, CallsTold
<1>8. TypesOK' /\ QueueOK'
  <2>1. \A k \in Journals : \A i \in 1..Len(queue[k]) :
          queue[k][i].call \in Calls /\ queue[k][i].by \in Users
    BY EntryTypes
  <2>2. \A k \in Journals : phase[k] = "ready" =>
          \A i \in 1..Len(queue[k]) : queue[k][i].call # c
    <3> SUFFICES ASSUME NEW k \in Journals, phase[k] = "ready",
                        NEW i \in 1..Len(queue[k]), queue[k][i].call = c
                 PROVE  FALSE
      OBVIOUS
    <3>1. pc[c] = queue[k][i].kind
      BY DEF IInv, QueueOK
    <3> QED BY <3>1, EntryTypes
  <2>3. \A k \in Journals : phase[k] = "closing" =>
          \A i \in 1..Len(queue[k]) :
            queue[k][i].by # c /\ pc'[queue[k][i].by] = pc[queue[k][i].by]
    BY <1>1, <1>2, <2>1 DEF IInv, QueueOK
  <2>4. /\ pc' \in [Users -> Engaged \cup {"idle", "opening", "done", "clearing"}]
        /\ pc'["repair"] \in {"idle", "opening", "clearing"}
    BY <1>1 DEF IInv, TypesOK, Users
  <2>5. CASE queue' = queue /\ next # "terminal"
    <3>1. TypesOK'
      BY <2>4, <2>5 DEF IInv, TypesOK
    <3>2. \A k \in Journals : phase[k] = "ready" => \A i \in 1..Len(queue[k]) :
            LET d == queue[k][i].call IN pc'[d] = pc[d] /\ result'[d] = result[d]
      <4> SUFFICES ASSUME NEW k \in Journals, phase[k] = "ready", NEW i \in 1..Len(queue[k])
                   PROVE  LET d == queue[k][i].call IN
                          pc'[d] = pc[d] /\ result'[d] = result[d]
        OBVIOUS
      <4>1. queue[k][i].call \in Calls /\ queue[k][i].call # c
        BY <2>1, <2>2
      <4> QED BY <1>1, <1>2, <4>1
    <3>3. \A d \in Calls : pc'[d] = "terminal" => pc[d] = "terminal"
      BY <1>1, <1>2, <2>5
    <3> QED BY <2>3, <2>5, <3>1, <3>2, <3>3 DEF IInv, QueueOK, InUse
  <2>6. CASE ~(queue' = queue /\ next # "terminal")
    <3> DEFINE j == own[c]
    <3>1. PICK outcome \in Outcomes \cup {"none"} :
            /\ queue' = [queue EXCEPT ![j] = Append(@,
                           [kind |-> next, call |-> c, outcome |-> outcome, by |-> c])]
            /\ next = "terminal" => outcome = result'[c]
      BY <2>6
    <3> DEFINE e == [kind |-> next, call |-> c, outcome |-> outcome, by |-> c]
    <3>2. ~poisoned[j] /\ next \in {"intent", "terminal"} /\ j \in Journals
      BY <1>3, <2>6
    <3>3. e \in Entries
      BY <1>1, <3>2 DEF Entries
    <3>4. /\ e.kind = next /\ e.call = c /\ e.by = c /\ e.outcome = outcome
          /\ queue' = [queue EXCEPT ![j] = Append(@, e)]
      BY <3>1
    <3> HIDE DEF e
    <3>5. /\ queue' \in [Journals -> Seq(Entries)]
          /\ Len(queue[j]) \in Nat /\ Len(queue'[j]) = Len(queue[j]) + 1
          /\ queue'[j][Len(queue[j]) + 1] = e
          /\ \A i \in 1..Len(queue[j]) : queue'[j][i] = queue[j][i]
          /\ \A k \in Journals : k # j => queue'[k] = queue[k]
      BY <3>2, <3>3, <3>4, EnqueueTypes
    <3>6. TypesOK'
      BY <2>4, <3>5 DEF IInv, TypesOK
    <3>7. \A k \in Journals : queue'[k] # <<>> => phase'[k] = "closing" \/ InUse(k)'
      <4>1. \A k \in Journals : k # j => queue'[k] = queue[k] 
        BY <3>5
      <4>2. InUse(j)'
        BY <1>3, <3>2 DEF InUse
      <4> QED BY <4>1, <4>2 DEF IInv, QueueOK, InUse
    <3>8. \A k \in Journals : phase'[k] = "closing" =>
            /\ Len(queue'[k]) <= 1
            /\ \A i \in 1..Len(queue'[k]) :
                 /\ queue'[k][i].kind = "terminal" /\ queue'[k][i].outcome = "indeterminate"
                 /\ queue'[k][i].call \in todo'[k]
                 /\ pc'[queue'[k][i].by] = "opening" /\ own'[queue'[k][i].by] = k
      BY <1>3, <2>3, <3>5 DEF IInv, QueueOK
    <3>9. ASSUME NEW k \in Journals, phase'[k] = "ready"
          PROVE  /\ \A i \in 1..Len(queue'[k]) :
                      LET d == queue'[k][i].call IN
                      /\ queue'[k][i].by = d /\ own'[d] = k /\ pc'[d] = queue'[k][i].kind
                      /\ pc'[d] = "terminal" => queue'[k][i].outcome = result'[d]
                 /\ \A i, l \in 1..Len(queue'[k]) :
                      queue'[k][i].call = queue'[k][l].call => i = l
      <4>1. \A i \in 1..Len(queue[k]) :
              LET d == queue[k][i].call IN
              /\ queue[k][i].by = d /\ own'[d] = k /\ pc'[d] = queue[k][i].kind
              /\ pc'[d] = "terminal" => queue[k][i].outcome = result'[d]
              /\ d # c
        <5> SUFFICES ASSUME NEW i \in 1..Len(queue[k])
                     PROVE  LET d == queue[k][i].call IN
                            /\ queue[k][i].by = d /\ own'[d] = k /\ pc'[d] = queue[k][i].kind
                            /\ pc'[d] = "terminal" => queue[k][i].outcome = result'[d]
                            /\ d # c
          OBVIOUS
        <5> DEFINE d == queue[k][i].call
        <5>1. d \in Calls /\ d # c
          BY <2>1, <2>2, <3>9
        <5>2. pc'[d] = pc[d] /\ result'[d] = result[d]
          BY <1>1, <1>2, <5>1
        <5>3. /\ queue[k][i].by = d /\ own[d] = k /\ pc[d] = queue[k][i].kind
              /\ pc[d] = "terminal" => queue[k][i].outcome = result[d]
          BY <3>9 DEF IInv, QueueOK
        <5> QED BY <5>1, <5>2, <5>3
      <4>2. \A i, l \in 1..Len(queue[k]) : queue[k][i].call = queue[k][l].call => i = l
        BY <3>9 DEF IInv, QueueOK
      <4>3. CASE k # j
        <5>1. queue'[k] = queue[k]
          BY <3>5, <4>3
        <5> QED BY <4>1, <4>2, <5>1
      <4>4. CASE k = j
        <5>1. \A i \in 1..Len(queue'[j]) : i \in 1..Len(queue[j]) \/ i = Len(queue[j]) + 1
          BY <3>5
        <5>2. \A i \in 1..Len(queue'[j]) :
                LET d == queue'[j][i].call IN
                /\ queue'[j][i].by = d /\ own'[d] = j /\ pc'[d] = queue'[j][i].kind
                /\ pc'[d] = "terminal" => queue'[j][i].outcome = result'[d]
          <6>1. \A i \in 1..Len(queue[j]) : queue'[j][i] = queue[j][i]
            BY <3>5
          <6>2. queue'[j][Len(queue[j]) + 1].call = c
            BY <3>4, <3>5
          <6>3. ASSUME NEW i \in 1..Len(queue'[j]), i \in 1..Len(queue[j])
                PROVE  LET d == queue'[j][i].call IN
                       /\ queue'[j][i].by = d /\ own'[d] = j /\ pc'[d] = queue'[j][i].kind
                       /\ pc'[d] = "terminal" => queue'[j][i].outcome = result'[d]
            BY <4>1, <4>4, <6>1, <6>3
          <6>4. ASSUME NEW i \in 1..Len(queue'[j]), i = Len(queue[j]) + 1
                PROVE  LET d == queue'[j][i].call IN
                       /\ queue'[j][i].by = d /\ own'[d] = j /\ pc'[d] = queue'[j][i].kind
                       /\ pc'[d] = "terminal" => queue'[j][i].outcome = result'[d]
            BY <1>2, <3>1, <3>4, <3>5, <6>2, <6>4
          <6> QED BY <5>1, <6>3, <6>4
        <5>3. \A i, l \in 1..Len(queue'[j]) :
                queue'[j][i].call = queue'[j][l].call => i = l
          <6>1. \A i \in 1..Len(queue[j]) :
                  queue'[j][i].call = queue[j][i].call /\ queue[j][i].call # c
            BY <3>5, <4>1, <4>4
          <6>2. queue'[j][Len(queue[j]) + 1].call = c
            BY <3>4, <3>5
          <6> SUFFICES ASSUME NEW i \in 1..Len(queue'[j]), NEW l \in 1..Len(queue'[j]),
                              queue'[j][i].call = queue'[j][l].call
                       PROVE  i = l
            OBVIOUS
          <6>3. i = Len(queue[j]) + 1 <=> queue'[j][i].call = c
            BY <5>1, <6>1, <6>2, <3>5
          <6>4. l = Len(queue[j]) + 1 <=> queue'[j][l].call = c
            BY <5>1, <6>1, <6>2, <3>5
          <6>5. CASE i \in 1..Len(queue[j]) /\ l \in 1..Len(queue[j])
            <7>1. queue[j][i].call = queue[j][l].call
              BY <6>1, <6>5
            <7> QED BY <4>2, <4>4, <6>5, <7>1
          <6> QED BY <5>1, <6>3, <6>4, <6>5
        <5> QED BY <4>4, <5>2, <5>3
      <4> QED BY <4>3, <4>4
    <3>10. ASSUME NEW d \in Calls, pc'[d] = "terminal"
           PROVE  \E i \in 1..Len(queue'[own'[d]]) : queue'[own'[d]][i].call = d
      <4>1. CASE d = c
        <5>1. Len(queue[j]) + 1 \in 1..Len(queue'[j])
          BY <3>5
        <5> QED BY <3>4, <3>5, <4>1, <5>1
      <4>2. CASE d # c
        <5>1. pc[d] = "terminal" /\ own'[d] = own[d]
          BY <1>1, <1>2, <3>10, <4>2
        <5>2. own[d] \in Journals /\ \E i \in 1..Len(queue[own[d]]) : queue[own[d]][i].call = d
          BY <5>1, AwaitsOutcome
        <5>3. CASE own[d] = j
          <6>1. PICK i \in 1..Len(queue[j]) : queue[j][i].call = d
            BY <5>2, <5>3
          <6>2. queue'[j][i] = queue[j][i]
            BY <3>5, <6>1
          <6>3. \A m, n \in Nat : n = m + 1 => 1..m \subseteq 1..n
            OBVIOUS
          <6>4. 1..Len(queue[j]) \subseteq 1..Len(queue'[j])
            <7>1. Len(queue[j]) \in Nat /\ Len(queue'[j]) = Len(queue[j]) + 1
              BY <3>5
            <7>2. Len(queue'[j]) \in Nat
              BY <7>1
            <7> QED BY <6>3, <7>1, <7>2
          <6>5. i \in 1..Len(queue'[j])
            BY <6>1, <6>4
          <6>6. own'[d] = j /\ queue'[j][i].call = d
            BY <5>1, <5>3, <6>1, <6>2
          <6> QED BY <6>5, <6>6
        <5>4. CASE own[d] # j
          BY <3>5, <5>1, <5>2, <5>4
        <5> QED BY <5>3, <5>4
      <4> QED BY <4>1, <4>2
    <3> QED BY <3>6, <3>7, <3>8, <3>9, <3>10 DEF QueueOK
  <2> QED BY <2>5, <2>6
<1> QED BY <1>4, <1>5, <1>6, <1>7, <1>8 DEF IInv

LEMMA CheckKeeps ==
  ASSUME JournalAssumption, IInv, NEW c \in Calls, Check(c)
  PROVE  IInv'
<1> USE DEF diskVars
<1>1. Fine(c) /\ pc[c] = "check" /\ c \in Users /\ poisoned \in [Journals -> BOOLEAN]
  BY AllFine DEF IInv, FlagsOK, Check, Users
<1>2. /\ UNCHANGED <<file, half, faultFile, current, opened, phase, seq, poisoned, todo, own,
                     result, sent>>
      /\ told[c] = "none" /\ c \notin sent /\ Standing(file, c) = "nothing"
  BY <1>1 DEF Check, Fine
<1>3. pc \in [Users -> Engaged \cup {"idle", "opening", "done", "clearing"}] /\ faultFile \in BOOLEAN
      /\ told \in [Calls -> Outcomes \cup {"none", "notSent", "blocked", "audit_fault"}]
      /\ result \in [Calls -> Outcomes \cup {"none"}] /\ sent \subseteq Calls
  BY DEF IInv, TypesOK, FlagsOK
<1>4. CASE \E what \in {"blocked", "notSent"} : Answer(c, what) /\ UNCHANGED queue
  <2>1. PICK what \in {"blocked", "notSent"} :
          /\ pc' = [pc EXCEPT ![c] = "done"] /\ told' = [told EXCEPT ![c] = what]
          /\ UNCHANGED queue
    BY <1>4 DEF Answer
  <2>2. pc'[c] = "done" /\ told' \in [Calls -> Outcomes \cup {"none", "notSent", "blocked", "audit_fault"}]
        /\ \A d \in Calls : d # c => told'[d] = told[d]
    BY <1>1, <1>3, <2>1
  <2>3. Fine(c)'
    BY <1>2, <2>2 DEF Fine
  <2> QED BY <1>1, <1>2, <1>3, <2>1, <2>2, <2>3, CallStepKeeps
<1>5. CASE ~faultFile /\ ~poisoned[own[c]]
  <2>1. /\ pc' = [pc EXCEPT ![c] = "intent"] /\ UNCHANGED told
        /\ queue' = [queue EXCEPT ![own[c]] = Append(@,
                       [kind |-> "intent", call |-> c, outcome |-> "none", by |-> c])]
    BY <1>5 DEF Check, Enqueue, To
  <2>2. pc'[c] = "intent"
    BY <1>1, <1>3, <2>1
  <2>3. Fine(c)'
    BY <1>2, <2>1, <2>2 DEF Fine
  <2> QED BY <1>1, <1>2, <1>3, <1>5, <2>1, <2>3, CallStepKeeps DEF Engaged
<1>6. (\E what \in {"blocked", "notSent"} : Answer(c, what) /\ UNCHANGED queue)
      \/ (~faultFile /\ ~poisoned[own[c]])
  <2>1. CASE faultFile
    BY <2>1 DEF Check
  <2>2. CASE ~faultFile /\ poisoned[own[c]]
    BY <2>2 DEF Check
  <2> QED BY <2>1, <2>2
<1> QED BY <1>4, <1>5, <1>6

\* The file stands still while a call is sent, returns, or its fault is noted.
LEMMA SendKeeps ==
  ASSUME JournalAssumption, IInv, NEW c \in Calls, Send(c)
  PROVE  IInv'
<1>1. Fine(c) /\ pc[c] = "calling" /\ c \in Users
  BY AllFine DEF IInv, Send, Users
<1>2. /\ UNCHANGED <<file, half, faultFile, current, opened, phase, seq, poisoned, queue, todo,
                     own, result, told>>
      /\ sent' = sent \cup {c} /\ pc' = [pc EXCEPT ![c] = "waiting"]
  BY DEF Send, To, diskVars, journalVars
<1>3. pc'[c] = "waiting"
  BY <1>1, <1>2 DEF IInv, TypesOK
<1>4. Fine(c)'
  BY <1>1, <1>2, <1>3 DEF Fine
<1>5. faultFile \in BOOLEAN /\ sent' \subseteq Calls
  BY <1>2 DEF IInv, FlagsOK, TypesOK
<1> QED BY <1>1, <1>2, <1>4, <1>5, CallStepKeeps DEF Engaged, IInv, TypesOK

LEMMA ReturnKeeps ==
  ASSUME JournalAssumption, IInv, NEW c \in Calls, NEW outcome \in Outcomes, Return(c, outcome)
  PROVE  IInv'
<1>1. Fine(c) /\ c \in Users /\ pc[c] \in {"calling", "waiting"}
      /\ (outcome = "withheld" <=> pc[c] = "calling")
  BY AllFine DEF IInv, Return, Users
<1>2. /\ UNCHANGED <<file, half, faultFile, current, opened, phase, seq, poisoned, todo, own,
                     told, sent>>
      /\ result' = [result EXCEPT ![c] = outcome]
  BY DEF Return, diskVars
<1>3. result'[c] = outcome /\ result' \in [Calls -> Outcomes \cup {"none"}]
      /\ \A d \in Calls : d # c => result'[d] = result[d]
  BY <1>2 DEF IInv, TypesOK
<1>4. told[c] = "none" /\ (outcome = "withheld" <=> c \notin sent)
  BY <1>1 DEF Fine
<1>5. faultFile \in BOOLEAN
  BY DEF IInv, FlagsOK
<1>6. CASE poisoned[own[c]]
  <2>1. pc' = [pc EXCEPT ![c] = "faulting"] /\ queue' = queue
    BY <1>6 DEF Return, To
  <2>2. pc'[c] = "faulting"
    BY <1>1, <2>1 DEF IInv, TypesOK
  <2>3. Fine(c)'
    BY <1>2, <1>3, <1>4, <1>6, <2>2 DEF Fine
  <2> QED BY <1>1, <1>2, <1>3, <1>5, <2>1, <2>3, CallStepKeeps DEF Engaged, IInv, TypesOK
<1>7. CASE ~poisoned[own[c]]
  <2>1. /\ pc' = [pc EXCEPT ![c] = "terminal"]
        /\ queue' = [queue EXCEPT ![own[c]] = Append(@,
                       [kind |-> "terminal", call |-> c, outcome |-> outcome, by |-> c])]
    BY <1>7 DEF Return, To, Enqueue
  <2>2. pc'[c] = "terminal"
    BY <1>1, <2>1 DEF IInv, TypesOK
  <2>3. Fine(c)'
    <3>1. Standing(file, c) = "intent"
      BY <1>1, <1>7 DEF Fine
    <3> QED BY <1>2, <1>3, <1>4, <1>7, <2>2, <3>1 DEF Fine
  <2> QED BY <1>1, <1>2, <1>3, <1>5, <1>7, <2>1, <2>3, CallStepKeeps DEF Engaged, IInv, TypesOK
<1> QED BY <1>6, <1>7

LEMMA FaultKeeps ==
  ASSUME JournalAssumption, IInv, NEW c \in Calls, Fault(c)
  PROVE  IInv'
<1>1. Fine(c) /\ c \in Users /\ pc[c] = "faulting"
  BY AllFine DEF IInv, Fault, Users
<1>2. /\ UNCHANGED <<file, half, current, opened, phase, seq, poisoned, queue, todo, own,
                     result, sent>>
      /\ pc' = [pc EXCEPT ![c] = "done"]
      /\ told' = [told EXCEPT ![c] = IF result[c] \in {"success", "error"} THEN "audit_fault"
                                     ELSE result[c]]
  BY DEF Fault, Answer, journalVars
<1>3. faultFile' \in BOOLEAN
  BY DEF Fault, IInv, FlagsOK
<1>4. pc'[c] = "done"
  BY <1>1, <1>2 DEF IInv, TypesOK
<1>5. told' \in [Calls -> Outcomes \cup {"none", "notSent", "blocked", "audit_fault"}]
      /\ \A d \in Calls : d # c => told'[d] = told[d]
  BY <1>2 DEF IInv, TypesOK
<1>6. Fine(c)'
  BY <1>1, <1>2, <1>4 DEF Fine
<1> QED BY <1>1, <1>2, <1>3, <1>5, <1>6, CallStepKeeps DEF Engaged, IInv, TypesOK

\* Who waits for the head of the queue: the one who opens the journal, or the
\* call that the record is about.
LEMMA Waits ==
  ASSUME JournalAssumption, IInv, NEW j \in Journals, queue[j] # <<>>
  PROVE  LET e == Head(queue[j]) IN
         /\ e.call \in Calls /\ e.call \in Users /\ e.by \in Users
         /\ e.kind \in {"intent", "terminal"}
         /\ phase[j] = "closing" =>
              /\ pc[e.by] = "opening" /\ own[e.by] = j /\ Tail(queue[j]) = <<>>
              /\ e.kind = "terminal" /\ e.outcome = "indeterminate"
              /\ pc[e.call] \notin {"idle", "opening", "check", "intent", "terminal"}
              /\ pc[e.call] \in {"calling", "waiting"} => poisoned[own[e.call]]
         /\ phase[j] = "ready" =>
              /\ InUse(j) /\ own[e.call] = j /\ e.by = e.call /\ pc[e.call] = e.kind
              /\ e.kind = "terminal" => e.outcome = result[e.call]
              /\ \A i \in 1..Len(Tail(queue[j])) : queue[j][i + 1].call # e.call
<1> DEFINE e == Head(queue[j])
<1>1. e = queue[j][1] /\ 1 \in 1..Len(queue[j]) /\ e \in Entries
      /\ (e.kind = "terminal" => Standing(file, e.call) = "intent")
  BY NextLine
<1>2. e.call \in Calls /\ e.call \in Users /\ e.by \in Users /\ e.kind \in {"intent", "terminal"}
  BY <1>1 DEF Entries, Users
<1>3. queue[j] \in Seq(Entries)
  BY DEF IInv, TypesOK
<1> HIDE DEF e
<1>4. ASSUME phase[j] = "closing"
      PROVE  /\ pc[e.by] = "opening" /\ own[e.by] = j /\ Tail(queue[j]) = <<>>
             /\ e.kind = "terminal" /\ e.outcome = "indeterminate"
             /\ pc[e.call] \notin {"idle", "opening", "check", "intent", "terminal"}
             /\ pc[e.call] \in {"calling", "waiting"} => poisoned[own[e.call]]
  <2>1. /\ pc[e.by] = "opening" /\ own[e.by] = j /\ Len(queue[j]) <= 1
        /\ e.kind = "terminal" /\ e.outcome = "indeterminate"
    BY <1>1, <1>4 DEF IInv, QueueOK
  <2>2. Tail(queue[j]) = <<>>
    BY <1>3, <2>1
  <2>3. Standing(file, e.call) = "intent"
    BY <1>1, <2>1
  <2>4. \A k \in Journals : ~InUse(k)
    BY <1>4, OnlyWriter DEF InUse
  <2>5. pc[e.call] \notin {"idle", "opening", "check", "intent"}
    BY <1>2, <2>3 DEF IInv, CallsRecorded
  <2>6. pc[e.call] # "terminal"
    BY <1>2, <2>4, AwaitsOutcome
  <2>9. pc[e.call] \in {"calling", "waiting"} => poisoned[own[e.call]]
    BY <1>2, <2>4 DEF IInv, OneJournal, Engaged, InUse
  <2> QED BY <2>1, <2>2, <2>5, <2>6, <2>9
<1>5. ASSUME phase[j] = "ready"
      PROVE  /\ InUse(j) /\ own[e.call] = j /\ e.by = e.call /\ pc[e.call] = e.kind
             /\ e.kind = "terminal" => e.outcome = result[e.call]
             /\ \A i \in 1..Len(Tail(queue[j])) : queue[j][i + 1].call # e.call
  <2>1. InUse(j)
    BY <1>5, OnlyWriter
  <2>2. /\ own[e.call] = j /\ e.by = e.call /\ pc[e.call] = e.kind
        /\ e.kind = "terminal" => e.outcome = result[e.call]
    BY <1>1, <1>5 DEF IInv, QueueOK
  <2>3. \A i \in 1..Len(Tail(queue[j])) : i + 1 \in 1..Len(queue[j]) /\ i + 1 # 1
    BY <1>1, <1>3
  <2>4. \A i \in 1..Len(Tail(queue[j])) : queue[j][i + 1].call # e.call
    BY <1>1, <1>5, <2>3 DEF IInv, QueueOK
  <2> QED BY <2>1, <2>2, <2>4
<1> QED BY <1>1, <1>2, <1>4, <1>5 DEF e

\* What happens to who waits for the record, when it is stored and when it is not.
LEMMA ResumesStored ==
  ASSUME JournalAssumption, IInv, NEW j \in Journals, queue[j] # <<>>, Resume(j, TRUE)
  PROVE  LET e == Head(queue[j]) IN
         /\ phase[j] = "closing" => UNCHANGED <<pc, told>>
         /\ phase[j] = "ready" =>
              /\ pc' = [pc EXCEPT ![e.call] = IF e.kind = "intent" THEN "calling" ELSE "done"]
              /\ told' = IF e.kind = "intent" THEN told
                         ELSE [told EXCEPT ![e.call] = result[e.call]]
<1> DEFINE e == Head(queue[j])
<1>1. CASE phase[j] = "closing"
  BY <1>1, Waits DEF Resume
<1>2. CASE phase[j] = "ready"
  <2>1. e.by = e.call /\ pc[e.by] # "opening" /\ e.kind \in {"intent", "terminal"}
    BY <1>2, Waits
  <2>2. CASE e.kind = "intent"
    BY <1>2, <2>1, <2>2 DEF Resume, To, Answer
  <2>3. CASE e.kind = "terminal"
    BY <1>2, <2>1, <2>3 DEF Resume, To, Answer
  <2> QED BY <1>2, <2>1, <2>2, <2>3
<1> QED BY <1>1, <1>2, OnlyWriter DEF InUse

LEMMA ResumesFailed ==
  ASSUME JournalAssumption, IInv, NEW j \in Journals, queue[j] # <<>>, Resume(j, FALSE)
  PROVE  LET e == Head(queue[j]) IN
         /\ phase[j] = "closing" =>
              \E next \in {"idle", "done"} :
                /\ next = "idle" <=> e.by = "repair"
                /\ pc' = [pc EXCEPT ![e.by] = next]
                /\ told' = IF e.by = "repair" THEN told ELSE [told EXCEPT ![e.by] = "notSent"]
         /\ phase[j] = "ready" =>
              /\ pc' = [pc EXCEPT ![e.call] = IF e.kind = "intent" THEN "done" ELSE "faulting"]
              /\ told' = IF e.kind = "intent" THEN [told EXCEPT ![e.call] = "notSent"] ELSE told
<1> DEFINE e == Head(queue[j])
<1>1. CASE phase[j] = "closing"
  <2>1. GiveUp(e.by)
    BY <1>1, Waits DEF Resume
  <2>2. CASE e.by = "repair"
    BY <1>1, <2>1, <2>2 DEF GiveUp, To
  <2>3. CASE e.by # "repair"
    BY <1>1, <2>1, <2>3 DEF GiveUp, Answer
  <2> QED BY <2>2, <2>3
<1>2. CASE phase[j] = "ready"
  <2>1. e.by = e.call /\ pc[e.by] # "opening" /\ e.kind \in {"intent", "terminal"}
    BY <1>2, Waits
  <2>2. CASE e.kind = "intent"
    BY <1>2, <2>1, <2>2 DEF Resume, To, Answer
  <2>3. CASE e.kind = "terminal"
    BY <1>2, <2>1, <2>3 DEF Resume, To, Answer
  <2> QED BY <1>2, <2>1, <2>2, <2>3
<1> QED BY <1>1, <1>2, OnlyWriter DEF InUse

\* A record that is stored: who waits for it goes on.
LEMMA AppendedKeeps ==
  ASSUME JournalAssumption, IInv, NEW j \in Journals, Appended(j)
  PROVE  IInv'
<1> DEFINE e == Head(queue[j])
<1>1. queue[j] # <<>> /\ file' = Written(Record(j)) /\ half' = FALSE
      /\ todo' = [todo EXCEPT ![j] = @ \ {e.call}] /\ seq' = [seq EXCEPT ![j] = @ + 1]
      /\ queue' = [queue EXCEPT ![j] = Tail(@)] /\ Resume(j, TRUE)
      /\ UNCHANGED <<faultFile, current, opened, phase, poisoned, own, result, sent>>
  BY DEF Appended
<1>2. /\ e.call \in Calls /\ e.call \in Users /\ e.by \in Users
      /\ e.kind \in {"intent", "terminal"}
      /\ phase[j] = "closing" =>
           /\ pc[e.by] = "opening" /\ own[e.by] = j /\ Tail(queue[j]) = <<>>
           /\ e.kind = "terminal" /\ e.outcome = "indeterminate"
           /\ pc[e.call] \notin {"idle", "opening", "check", "intent", "terminal"}
           /\ pc[e.call] \in {"calling", "waiting"} => poisoned[own[e.call]]
      /\ phase[j] = "ready" =>
           /\ InUse(j) /\ own[e.call] = j /\ e.by = e.call /\ pc[e.call] = e.kind
           /\ e.kind = "terminal" => e.outcome = result[e.call]
           /\ \A i \in 1..Len(Tail(queue[j])) : queue[j][i + 1].call # e.call
  BY <1>1, Waits
<1>3. phase[j] = "closing" \/ phase[j] = "ready"
  BY <1>1, OnlyWriter DEF InUse
<1>4. /\ seq[j] = Len(file)
      /\ \A k \in Journals : k # j => queue[k] = <<>> /\ ~InUse(k) /\ k \notin Opening
  BY <1>1, OnlyWriter
<1>5. /\ file' \in Seq(Lines) /\ Valid(file') /\ Len(file') = Len(file) + 1
      /\ \A i \in 1..Len(file') : file'[i].kind = "terminal" => file'[i].outcome \in Outcomes
      /\ \A c \in Calls : Standing(file', c) = Then(j, c)
  BY <1>1, WriteKeepsFile
<1>6. /\ \A c \in Calls : c # e.call => Standing(file', c) = Standing(file, c)
      /\ Standing(file', e.call) = IF e.kind = "intent" THEN "intent" ELSE e.outcome
  BY <1>2, <1>5 DEF Then
\* The waiting call resumes; the closer does not move.
<1>7. /\ phase[j] = "closing" => UNCHANGED <<pc, told>>
      /\ phase[j] = "ready" =>
           /\ pc' = [pc EXCEPT ![e.call] = IF e.kind = "intent" THEN "calling" ELSE "done"]
           /\ told' = IF e.kind = "intent" THEN told
                      ELSE [told EXCEPT ![e.call] = result[e.call]]
  BY <1>1, ResumesStored
<1> HIDE DEF e
<1>8. /\ queue[j] \in Seq(Entries) /\ Tail(queue[j]) \in Seq(Entries)
      /\ \A i \in 1..Len(Tail(queue[j])) :
           i + 1 \in 1..Len(queue[j]) /\ Tail(queue[j])[i] = queue[j][i + 1]
      /\ \A i \in 1..Len(queue[j]) : i = 1 \/ i - 1 \in 1..Len(Tail(queue[j]))
  <2>1. queue[j] \in Seq(Entries)
    BY DEF IInv, TypesOK
  <2> QED BY <1>1, <2>1
<1>9. queue'[j] = Tail(queue[j]) /\ \A k \in Journals : k # j => queue'[k] = <<>>
  BY <1>1, <1>4 DEF IInv, TypesOK
<1>10. /\ \A u \in Users : u # e.call => pc'[u] = pc[u]
       /\ phase[j] = "closing" => pc' = pc /\ told' = told
       /\ phase[j] = "ready" =>
            /\ pc'[e.call] = IF e.kind = "intent" THEN "calling" ELSE "done"
            /\ e.kind = "intent" => told' = told
       /\ \A c \in Calls : c # e.call => told'[c] = told[c]
  BY <1>2, <1>3, <1>7 DEF IInv, TypesOK
<1>11. FileOK' /\ FlagsOK'
  BY <1>1, <1>5 DEF IInv, FileOK, FlagsOK
<1>12. TypesOK'
  <2>1. queue' \in [Journals -> Seq(Entries)]
    BY <1>1, <1>8 DEF IInv, TypesOK
  <2>2. seq' \in [Journals -> Nat] /\ todo' \in [Journals -> SUBSET Calls]
    BY <1>1 DEF IInv, TypesOK
  <2>3. /\ pc' \in [Users -> Engaged \cup {"idle", "opening", "done", "clearing"}]
        /\ told' \in [Calls -> Outcomes \cup {"none", "notSent", "blocked", "audit_fault"}]
    <3>1. CASE phase[j] = "closing"
      BY <1>7, <3>1 DEF IInv, TypesOK
    <3>2. CASE phase[j] = "ready"
      <4>1. pc' \in [Users -> Engaged \cup {"idle", "opening", "done", "clearing"}]
        BY <1>2, <1>7, <3>2 DEF IInv, TypesOK, Engaged
      <4>2. told' \in [Calls -> Outcomes \cup {"none", "notSent", "blocked", "audit_fault"}]
        BY ZenonT(40), <1>2, <1>7, <3>2 DEF IInv, TypesOK
      <4> QED BY <4>1, <4>2
    <3> QED BY <1>3, <3>1, <3>2
  <2>4. pc'["repair"] \in {"idle", "opening", "clearing"}
    BY <1>2, <1>10, JournalAssumption DEF IInv, TypesOK, Users, JournalAssumption
  <2> QED BY <1>1, <2>1, <2>2, <2>3, <2>4 DEF IInv, TypesOK
<1>13. OneJournal'
  <2>1. \A u \in Users : pc'[u] = "opening" => pc[u] = "opening"
    BY <1>2, <1>3, <1>10
  <2>2. \A c \in Calls : pc'[c] \in Engaged => pc[c] \in Engaged
    BY <1>2, <1>3, <1>10 DEF Engaged, Users
  <2> QED BY <1>1, <2>1, <2>2 DEF IInv, OneJournal, InUse, Opening
<1>14. KnowsFile'
  <2>1. seq'[j] = Len(file') /\ todo'[j] = todo[j] \ {e.call}
    BY <1>1, <1>4, <1>5 DEF IInv, TypesOK, e
  <2>2. phase[j] = "closing" => \A c \in todo'[j] : Standing(file', c) = "intent"
    <3>1. todo[j] \subseteq Calls
      BY DEF IInv, TypesOK
    <3> QED BY <1>6, <2>1, <3>1 DEF IInv, KnowsFile
  <2>3. \A k \in Journals : k # j => phase'[k] \notin {"reading", "cutting", "closing"} /\ ~InUse(k)'
    BY <1>1, <1>4 DEF Opening, InUse
  <2> QED BY <1>1, <1>3, <2>1, <2>2, <2>3 DEF KnowsFile
<1>15. QueueOK'
  <2>1. CASE phase[j] = "closing"
    <3>1. \A k \in Journals : queue'[k] = <<>>
      BY <1>2, <1>9, <2>1
    <3>2. \A c \in Calls : pc'[c] # "terminal"
      BY <1>4, <1>10, <2>1, AwaitsOutcome DEF InUse
    <3> QED BY <3>1, <3>2 DEF QueueOK
  <2>2. CASE phase[j] = "ready"
    <3>1. InUse(j)'
      BY <1>1, <1>2, <2>2 DEF InUse
    <3>2. ASSUME NEW i \in 1..Len(queue'[j])
          PROVE  LET c == queue'[j][i].call IN
                 /\ c \in Calls /\ c # e.call
                 /\ queue'[j][i].by = c /\ own'[c] = j /\ pc'[c] = queue'[j][i].kind
                 /\ pc'[c] = "terminal" => queue'[j][i].outcome = result'[c]
      <4>1. queue'[j][i] = queue[j][i + 1] /\ i + 1 \in 1..Len(queue[j])
        BY <1>8, <1>9
      <4>2. queue[j][i + 1].call # e.call
        BY <1>2, <1>9, <2>2
      <4>3. queue[j][i + 1].call \in Calls
        BY <4>1, EntryTypes
      <4> DEFINE c == queue[j][i + 1].call
      <4>4. /\ queue[j][i + 1].by = c /\ own[c] = j /\ pc[c] = queue[j][i + 1].kind
            /\ pc[c] = "terminal" => queue[j][i + 1].outcome = result[c]
        BY <2>2, <4>1 DEF IInv, QueueOK
      <4>5. pc'[c] = pc[c] /\ own'[c] = own[c] /\ result'[c] = result[c]
        BY <1>1, <1>10, <4>2, <4>3 DEF Users
      <4> QED BY <4>1, <4>2, <4>3, <4>4, <4>5
    <3>3. ASSUME NEW i \in 1..Len(queue'[j]), NEW k \in 1..Len(queue'[j]),
                 queue'[j][i].call = queue'[j][k].call
          PROVE  i = k
      <4>1. /\ queue'[j][i] = queue[j][i + 1] /\ i + 1 \in 1..Len(queue[j])
            /\ queue'[j][k] = queue[j][k + 1] /\ k + 1 \in 1..Len(queue[j])
        BY <1>8, <1>9
      <4>2. i + 1 = k + 1
        BY <2>2, <3>3, <4>1 DEF IInv, QueueOK
      <4> QED BY <4>2
    <3>4. ASSUME NEW c \in Calls, pc'[c] = "terminal"
          PROVE  \E i \in 1..Len(queue'[own'[c]]) : queue'[own'[c]][i].call = c
      <4>1. c # e.call /\ pc[c] = "terminal" /\ own'[c] = own[c]
        BY <1>1, <1>10, <2>2, <3>4 DEF Users
      <4>2. PICK i \in 1..Len(queue[own[c]]) : queue[own[c]][i].call = c
        BY <4>1, AwaitsOutcome
      <4>3. own[c] = j
        BY <1>4, <4>1, AwaitsOutcome
      <4>4. i # 1
        BY <1>1, <4>1, <4>2, <4>3, NextLine DEF e
      <4>5. i - 1 \in 1..Len(queue'[j]) /\ queue'[j][i - 1] = queue[j][i]
        BY <1>8, <1>9, <4>2, <4>3, <4>4
      <4> QED BY <4>1, <4>2, <4>3, <4>5
    <3>5. \A k \in Journals : k # j => queue'[k] = <<>>
      BY <1>9
    <3>6. phase'[j] = "ready" /\ \A k \in Journals : k # j => phase'[k] # "closing"
      BY <1>1, <1>4, <2>2 DEF Opening
    <3> QED BY <3>1, <3>2, <3>3, <3>4, <3>5, <3>6 DEF QueueOK
  <2> QED BY <1>3, <2>1, <2>2
<1>16. CallsRecorded' /\ CallsTold'
  <2>1. \A c \in Calls : Fine(c)
    BY AllFine DEF IInv
  <2>2. ASSUME NEW c \in Calls, c # e.call PROVE Fine(c)'
    <3>1. pc'[c] = pc[c] /\ told'[c] = told[c] /\ Standing(file', c) = Standing(file, c)
      BY <1>6, <1>10, <2>2 DEF Users
    <3> QED BY <1>1, <2>1, <3>1 DEF Fine
  <2>3. ASSUME NEW c \in Calls, c = e.call PROVE Fine(c)'
    <3>1. Fine(c) /\ c \in Users
      BY <2>1 DEF Users
    <3>2. Standing(file', c) = IF e.kind = "intent" THEN "intent" ELSE e.outcome
      BY <1>6, <2>3
    <3>3. CASE phase[j] = "closing"
      BY <1>1, <1>2, <1>10, <2>3, <3>1, <3>2, <3>3 DEF Fine, Outcomes
    <3>4. CASE phase[j] = "ready" /\ e.kind = "intent"
      <4>1. pc[c] = "intent" /\ pc'[c] = "calling" /\ told' = told /\ own'[c] = j
        BY <1>1, <1>2, <1>10, <2>3, <3>4
      <4> QED BY <1>1, <3>1, <3>2, <3>4, <4>1 DEF Fine
    <3>5. CASE phase[j] = "ready" /\ e.kind = "terminal"
      <4>1. pc[c] = "terminal" /\ pc'[c] = "done"
        BY <1>2, <1>10, <2>3, <3>5
      <4> QED BY <1>1, <3>1, <4>1 DEF Fine
    <3> QED BY <1>2, <1>3, <3>3, <3>4, <3>5
  <2>4. \A c \in Calls : Fine(c)'
    BY <2>2, <2>3
  <2> QED BY <2>4 DEF Fine, CallsRecorded, CallsTold
<1> QED BY <1>11, <1>12, <1>13, <1>14, <1>15, <1>16 DEF IInv

\* What a write that did not return leaves of the record at the head of j's queue.
LEMMA Left ==
  ASSUME JournalAssumption, IInv, NEW j \in Journals, queue[j] # <<>>,
         NEW left \in {"nothing", "record", "half"}, Leaves(Record(j), left)
  PROVE  /\ FileOK' /\ half' \in BOOLEAN
         /\ \/ \A c \in Calls : Standing(file', c) = Standing(file, c)
            \/ \A c \in Calls : Standing(file', c) = Then(j, c)
         /\ \A c \in Calls : Standing(file', c) \in {Standing(file, c), Then(j, c)}
         /\ \A c \in Calls : c # Head(queue[j]).call => Standing(file', c) = Standing(file, c)
<1>1. CASE left = "record"
  <2>1. file' = Written(Record(j)) /\ half' = FALSE
    BY <1>1 DEF Leaves
  <2>2. FileOK' /\ \A c \in Calls : Standing(file', c) = Then(j, c)
    BY <2>1, WriteKeepsFile DEF FileOK
  <2> QED BY <2>1, <2>2 DEF Then
<1>2. CASE left \in {"nothing", "half"}
  <2>1. file' = file /\ half' \in {half, TRUE}
    BY <1>2 DEF Leaves
  <2> QED BY <2>1 DEF IInv, FileOK, FlagsOK
<1> QED BY <1>1, <1>2

LEMMA OnlyEntry ==
  ASSUME NEW S, NEW s \in Seq(S), s # <<>>, Len(s) <= 1
  PROVE  Tail(s) = <<>>
OBVIOUS

\* A write that fails poisons its journal, and nothing waits behind it.
LEMMA AppendFailsKeeps ==
  ASSUME JournalAssumption, orderly', IInv, NEW j \in Journals,
         NEW left \in {"nothing", "record", "half"}, AppendFails(j, left)
  PROVE  IInv'
<1> DEFINE e == Head(queue[j])
<1>1. queue[j] # <<>> /\ Len(queue[j]) = 1 /\ Leaves(Record(j), left)
      /\ queue' = [queue EXCEPT ![j] = Tail(@)] /\ Resume(j, FALSE)
      /\ poisoned' = [poisoned EXCEPT ![j] = TRUE]
      /\ phase' = [phase EXCEPT ![j] = IF @ = "closing" THEN "failed" ELSE @]
      /\ UNCHANGED <<faultFile, current, opened, seq, todo, own, result, sent>>
  BY DEF AppendFails
<1>2. /\ e.call \in Calls /\ e.call \in Users /\ e.by \in Users
      /\ e.kind \in {"intent", "terminal"}
      /\ phase[j] = "closing" =>
           /\ pc[e.by] = "opening" /\ own[e.by] = j
           /\ e.kind = "terminal" /\ e.outcome = "indeterminate"
           /\ pc[e.call] \notin {"idle", "opening", "check", "intent", "terminal"}
           /\ pc[e.call] \in {"calling", "waiting"} => poisoned[own[e.call]]
      /\ phase[j] = "ready" =>
           /\ InUse(j) /\ own[e.call] = j /\ e.by = e.call /\ pc[e.call] = e.kind
           /\ e.kind = "terminal" => e.outcome = result[e.call]
  BY <1>1, Waits
<1>3. phase[j] = "closing" \/ phase[j] = "ready"
  BY <1>1, OnlyWriter DEF InUse
<1>4. \A k \in Journals : k # j => queue[k] = <<>> /\ ~InUse(k) /\ k \notin Opening
  BY <1>1, OnlyWriter
<1>5. /\ FileOK' /\ half' \in BOOLEAN
      /\ \A c \in Calls : Standing(file', c) \in {Standing(file, c), Then(j, c)}
      /\ \A c \in Calls : c # e.call => Standing(file', c) = Standing(file, c)
  BY <1>1, Left
<1>6. e.kind = "terminal" => Standing(file, e.call) = "intent"
  BY <1>1, NextLine
<1>7. /\ phase[j] = "closing" =>
           \E next \in {"idle", "done"} :
             /\ next = "idle" <=> e.by = "repair"
             /\ pc' = [pc EXCEPT ![e.by] = next]
             /\ told' = IF e.by = "repair" THEN told ELSE [told EXCEPT ![e.by] = "notSent"]
      /\ phase[j] = "ready" =>
           /\ pc' = [pc EXCEPT ![e.call] = IF e.kind = "intent" THEN "done" ELSE "faulting"]
           /\ told' = IF e.kind = "intent" THEN [told EXCEPT ![e.call] = "notSent"] ELSE told
  BY <1>1, ResumesFailed
<1>8. \A c \in Calls : pc[c] = "terminal" => c = e.call /\ phase[j] = "ready"
  <2> SUFFICES ASSUME NEW c \in Calls, pc[c] = "terminal"
               PROVE  c = e.call /\ phase[j] = "ready"
    OBVIOUS
  <2>1. own[c] = j /\ InUse(j)
    BY <1>4, AwaitsOutcome
  <2>2. PICK i \in 1..Len(queue[j]) : queue[j][i].call = c
    BY <2>1, AwaitsOutcome
  <2>3. i = 1 /\ e = queue[j][1]
    BY <1>1, NextLine
  <2> QED BY <2>1, <2>2, <2>3 DEF InUse
<1> HIDE DEF e
<1>9. \A k \in Journals : queue'[k] = <<>>
  <2>1. queue[j] \in Seq(Entries)
    BY DEF IInv, TypesOK
  <2>2. Tail(queue[j]) = <<>>
    <3>1. queue[j] # <<>> /\ Len(queue[j]) <= 1
      BY <1>1
    <3> QED BY <2>1, <3>1, OnlyEntry
  <2> QED BY <1>1, <1>4, <2>2 DEF IInv, TypesOK
<1>10. /\ \A k \in Journals : k # j => phase'[k] = phase[k] /\ poisoned'[k] = poisoned[k]
       /\ phase'[j] = IF phase[j] = "closing" THEN "failed" ELSE "ready"
       /\ poisoned'[j] = TRUE
  BY <1>1, <1>3 DEF IInv, TypesOK, FlagsOK
<1>11. \A k \in Journals : ~InUse(k)' /\ phase'[k] \notin {"reading", "cutting", "closing"}
  BY <1>4, <1>10 DEF InUse, Opening
<1>12. /\ \A u \in Users : u # e.call /\ u # e.by => pc'[u] = pc[u]
       /\ \A c \in Calls : c # e.call /\ c # e.by => told'[c] = told[c]
       /\ phase[j] = "closing" =>
            /\ pc'[e.by] = IF e.by = "repair" THEN "idle" ELSE "done"
            /\ e.call # e.by /\ pc'[e.call] = pc[e.call] /\ told'[e.call] = told[e.call]
       /\ phase[j] = "ready" =>
            /\ pc'[e.call] = IF e.kind = "intent" THEN "done" ELSE "faulting"
            /\ e.kind = "terminal" => told' = told
  <2>1. pc \in [Users -> Engaged \cup {"idle", "opening", "done", "clearing"}]
        /\ told \in [Calls -> Outcomes \cup {"none", "notSent", "blocked", "audit_fault"}]
    BY DEF IInv, TypesOK
  <2>2. CASE phase[j] = "closing"
    <3>1. e.call # e.by
      BY <1>2, <2>2
    <3>2. PICK next \in {"idle", "done"} :
            /\ next = "idle" <=> e.by = "repair"
            /\ pc' = [pc EXCEPT ![e.by] = next]
            /\ told' = IF e.by = "repair" THEN told ELSE [told EXCEPT ![e.by] = "notSent"]
      BY <1>7, <2>2
    <3> QED BY <1>2, <2>1, <2>2, <3>1, <3>2
  <2>3. CASE phase[j] = "ready"
    BY <1>2, <1>7, <2>1, <2>3
  <2> QED BY <1>3, <2>2, <2>3
<1>13. FlagsOK'
  BY <1>1, <1>5 DEF IInv, FlagsOK
<1>14. TypesOK'
  <2>1. /\ queue' \in [Journals -> Seq(Entries)] /\ phase' \in [Journals -> Phases]
    BY <1>1, <1>9 DEF IInv, TypesOK, Phases
  <2>2. told' \in [Calls -> Outcomes \cup {"none", "notSent", "blocked", "audit_fault"}]
    BY <1>2, <1>3, <1>7 DEF IInv, TypesOK
  <2>3. pc' \in [Users -> Engaged \cup {"idle", "opening", "done", "clearing"}]
    BY <1>2, <1>3, <1>7 DEF IInv, TypesOK, Engaged
  <2>4. pc'["repair"] \in {"idle", "opening", "clearing"}
    <3>1. "repair" # e.call /\ "repair" \in Users
      BY <1>2, JournalAssumption DEF JournalAssumption, Users
    <3>2. phase[j] = "ready" => e.by = e.call
      BY <1>2
    <3> QED BY <1>3, <1>12, <3>1, <3>2 DEF IInv, TypesOK
  <2> QED BY <1>1, <2>1, <2>2, <2>3, <2>4 DEF IInv, TypesOK
<1>15. OneJournal'
  <2>1. \A u \in Users : pc'[u] = "opening" => u # e.by /\ pc[u] = "opening"
    BY <1>2, <1>3, <1>12
  <2>2. \A u \in Users : pc'[u] # "opening"
    <3>1. phase[j] = "closing" => \A u \in Users : pc[u] = "opening" => u = e.by
      BY <1>2 DEF IInv, OneJournal
    <3>2. phase[j] = "ready" => \A u \in Users : pc[u] # "opening"
      BY <1>4 DEF IInv, OneJournal, Opening
    <3> QED BY <1>3, <2>1, <3>1, <3>2
  <2>3. \A c \in Calls : pc'[c] \in Engaged => pc[c] \in Engaged
    BY <1>2, <1>3, <1>12 DEF Engaged, Users
  <2>4. \A k \in Journals : phase[k] = "ready" => phase'[k] = "ready"
    BY <1>3, <1>10
  <2>5. \A k \in Journals : k > opened' => phase'[k] = "none"
    BY <1>1, <1>3, <1>10 DEF IInv, OneJournal
  <2>6. current' # 0 => phase'[current'] = "ready"
    BY <1>1, <2>4 DEF IInv, OneJournal, TypesOK, Journals
  <2>7. \A c \in Calls : pc'[c] \in Engaged => own'[c] \in Journals /\ phase'[own'[c]] = "ready"
    BY <1>1, <2>3, <2>4 DEF IInv, OneJournal
  <2> QED BY <1>11, <2>2, <2>5, <2>6, <2>7 DEF OneJournal, Opening
<1>16. KnowsFile'
  BY <1>11 DEF KnowsFile
<1>17. QueueOK'
  <2>1. \A c \in Calls : pc'[c] # "terminal"
    <3> SUFFICES ASSUME NEW c \in Calls, pc'[c] = "terminal" PROVE FALSE
      OBVIOUS
    <3>1. CASE phase[j] = "closing"
      BY <1>2, <1>8, <1>12, <3>1 DEF Users
    <3>2. CASE phase[j] = "ready"
      BY <1>2, <1>8, <1>12, <3>2 DEF Users
    <3> QED BY <1>3, <3>1, <3>2
  <2> QED BY <1>9, <2>1 DEF QueueOK
<1>18. CallsRecorded' /\ CallsTold'
  <2>1. \A c \in Calls : Fine(c) /\ c \in Users
    BY AllFine DEF IInv, Users
  <2>2. ASSUME NEW c \in Calls, pc[c] \in {"calling", "waiting", "faulting"}
        PROVE  poisoned[own[c]] => poisoned'[own[c]]
    BY <1>10, <2>2 DEF IInv, OneJournal, Engaged
  <2>3. ASSUME NEW c \in Calls, c # e.call, c # e.by PROVE Fine(c)'
    <3>1. pc'[c] = pc[c] /\ told'[c] = told[c] /\ Standing(file', c) = Standing(file, c)
          /\ pc[c] # "terminal" /\ own'[c] = own[c]
      BY <1>1, <1>5, <1>8, <1>12, <2>1, <2>3
    <3> QED BY <1>1, <2>1, <2>2, <3>1 DEF Fine
  <2>4. ASSUME NEW c \in Calls, phase[j] = "closing", c = e.by PROVE Fine(c)'
    <3>1. pc'[c] = "done"
      BY <1>12, <2>4, JournalAssumption DEF JournalAssumption
    <3> QED BY <3>1 DEF Fine
  <2>5. ASSUME NEW c \in Calls, phase[j] = "closing", c = e.call PROVE Fine(c)'
    <3>1. pc'[c] = pc[c] /\ told'[c] = told[c] /\ own'[c] = own[c]
      BY <1>1, <1>12, <2>5
    <3>2. Standing(file', c) \in {"intent", "indeterminate"}
      BY <1>2, <1>5, <1>6, <2>5 DEF Then, e
    <3>3. pc[c] \notin {"idle", "opening", "check", "intent", "terminal"}
          /\ (pc[c] \in {"calling", "waiting"} => poisoned[own[c]])
      BY <1>2, <2>5
    <3> QED BY <1>1, <2>1, <2>2, <3>1, <3>2, <3>3 DEF Fine
  <2>6. ASSUME NEW c \in Calls, phase[j] = "ready", c = e.call PROVE Fine(c)'
    <3>1. CASE e.kind = "intent"
      BY <1>12, <2>6, <3>1 DEF Fine
    <3>2. CASE e.kind = "terminal"
      <4>1. pc[c] = "terminal" /\ pc'[c] = "faulting" /\ told' = told /\ own'[c] = j
        BY <1>1, <1>2, <1>12, <2>6, <3>2
      <4> QED BY <1>1, <1>10, <2>1, <4>1 DEF Fine
    <3> QED BY <1>2, <3>1, <3>2
  <2>7. \A c \in Calls : Fine(c)'
    BY <1>2, <1>3, <2>3, <2>4, <2>5, <2>6
  <2> QED BY <2>7 DEF Fine, CallsRecorded, CallsTold
<1> QED BY <1>5, <1>13, <1>14, <1>15, <1>16, <1>17, <1>18 DEF IInv

\* A crash ends every call under way and every journal.
LEMMA CrashKeeps ==
  ASSUME JournalAssumption, orderly', IInv, Crash
  PROVE  IInv'
<1>1. /\ current' = 0
      /\ phase' = [j \in Journals |-> IF phase[j] = "none" THEN "none" ELSE "failed"]
      /\ queue' = [j \in Journals |-> <<>>]
      /\ pc' = [u \in Users |-> IF u = "repair" \/ pc[u] = "idle" THEN "idle" ELSE "done"]
      /\ UNCHANGED <<faultFile, opened, seq, poisoned, todo, own, result, told, sent>>
  BY DEF Crash
<1>2. /\ FileOK' /\ half' \in BOOLEAN
      /\ \A c \in Calls : pc[c] = "idle" => Standing(file', c) = Standing(file, c)
  <2>1. CASE UNCHANGED <<file, half>>
    BY <2>1 DEF IInv, FileOK, FlagsOK
  <2>2. CASE \E j \in Journals, left \in {"record", "half"} :
               queue[j] # <<>> /\ Leaves(Record(j), left)
    <3>1. PICK j \in Journals, left \in {"record", "half"} :
            queue[j] # <<>> /\ Leaves(Record(j), left)
      BY <2>2
    <3>2. /\ FileOK' /\ half' \in BOOLEAN
          /\ \A c \in Calls : c # Head(queue[j]).call => Standing(file', c) = Standing(file, c)
      BY <3>1, Left
    <3>3. pc[Head(queue[j]).call] # "idle"
      BY <3>1, Waits, OnlyWriter DEF InUse
    <3> QED BY <3>2, <3>3
  <2> QED BY <2>1, <2>2 DEF Crash, CutShort
<1>3. FlagsOK'
  BY <1>1, <1>2 DEF IInv, FlagsOK
<1>4. TypesOK'
  BY <1>1 DEF IInv, TypesOK, Phases, Users
<1>5. \A j \in Journals : phase'[j] \in {"none", "failed"} /\ queue'[j] = <<>>
      /\ (phase[j] = "none" => phase'[j] = "none")
  BY <1>1
<1>6. \A u \in Users : pc'[u] \in {"idle", "done"}
  BY <1>1
<1>7. OneJournal'
  BY <1>1, <1>5, <1>6 DEF IInv, OneJournal, InUse, Opening, Engaged, Users
<1>8. KnowsFile'
  BY <1>5 DEF KnowsFile, InUse
<1>9. QueueOK'
  BY <1>5, <1>6 DEF QueueOK, Users
<1>10. CallsRecorded' /\ CallsTold'
  <2>1. \A c \in Calls : Fine(c) /\ c \in Users
    BY AllFine DEF IInv, Users
  <2>2. ASSUME NEW c \in Calls PROVE Fine(c)'
    <3>1. pc'[c] = IF pc[c] = "idle" THEN "idle" ELSE "done"
      BY <1>1, <2>1, JournalAssumption DEF JournalAssumption
    <3>2. CASE pc[c] = "idle"
      BY <1>1, <1>2, <2>1, <3>1, <3>2 DEF Fine
    <3>3. CASE pc[c] # "idle"
      BY <3>1, <3>3 DEF Fine
    <3> QED BY <3>2, <3>3
  <2> QED BY <2>2 DEF Fine, CallsRecorded, CallsTold
<1> QED BY <1>2, <1>3, <1>4, <1>7, <1>8, <1>9, <1>10 DEF IInv

LEMMA StepKeeps == JournalAssumption /\ orderly' /\ IInv /\ [Next]_vars => IInv'
<1> SUFFICES ASSUME JournalAssumption, orderly', IInv, [Next]_vars PROVE IInv'
  OBVIOUS
<1>1. CASE Next
  <2>1. ASSUME NEW u \in Users, Start(u) \/ Check(u) \/ Send(u) \/ Fault(u) PROVE IInv'
    <3>1. u \in Calls
      BY <2>1, JournalAssumption DEF Start, Check, Send, Fault, IInv, TypesOK, Users
    <3> QED BY <2>1, <3>1, StartKeeps, CheckKeeps, SendKeeps, FaultKeeps
  <2>2. ASSUME NEW u \in Users, Read(u) \/ Cut(u) \/ CloseNext(u) PROVE IInv'
    BY <2>2, ReadKeeps, CloseNextKeeps
  <2>3. ASSUME NEW c \in Calls, NEW outcome \in Outcomes, Return(c, outcome) PROVE IInv'
    BY <2>3, ReturnKeeps
  <2>4. ASSUME NEW j \in Journals, Appended(j) PROVE IInv'
    BY <2>4, AppendedKeeps
  <2>5. ASSUME NEW j \in Journals, NEW left \in {"nothing", "record", "half"},
               AppendFails(j, left)
        PROVE  IInv'
    BY <2>5, AppendFailsKeeps
  <2>6. CASE Repair \/ ClearFault
    BY <2>6, RepairKeeps
  <2>7. CASE Crash
    BY <2>7, CrashKeeps
  <2> QED BY <1>1, <2>1, <2>2, <2>3, <2>4, <2>5, <2>6, <2>7 DEF Next
<1>2. CASE UNCHANGED vars
  <2> USE <1>2 DEF vars, diskVars, journalVars, userVars
  <2>1. FileOK' /\ TypesOK' /\ FlagsOK'
    BY DEF IInv, FileOK, TypesOK, FlagsOK
  <2>2. OneJournal' /\ KnowsFile'
    BY DEF IInv, OneJournal, KnowsFile, InUse, Opening
  <2>3. QueueOK'
    BY DEF IInv, QueueOK, InUse
  <2>4. CallsRecorded' /\ CallsTold'
    BY DEF IInv, CallsRecorded, CallsTold
  <2> QED BY <2>1, <2>2, <2>3, <2>4 DEF IInv
<1> QED BY <1>1, <1>2

\* An accident is not taken back.
LEMMA OrderlySteps ==
  ASSUME orderly \in BOOLEAN, [Next]_vars
  PROVE  orderly' \in BOOLEAN /\ (orderly' => orderly)
<1>1. ASSUME NEW u \in Users, OpenJournal(u)
      PROVE  orderly' \in BOOLEAN /\ (orderly' => orderly)
  BY <1>1 DEF OpenJournal
<1>2. ASSUME NEW u \in Users, Start(u)
      PROVE  orderly' \in BOOLEAN /\ (orderly' => orderly)
  BY <1>1, <1>2 DEF Start
<1>3. CASE Repair
  BY <1>1, <1>3 DEF Repair, Users
<1>4. ASSUME NEW u \in Users, Read(u) \/ Cut(u) \/ CloseNext(u) \/ Check(u) \/ Send(u)
                              \/ Fault(u)
      PROVE  orderly' = orderly
  BY <1>4 DEF Read, Cut, CloseNext, Check, Send, Fault
<1>5. ASSUME NEW c \in Calls, NEW outcome \in Outcomes, Return(c, outcome)
      PROVE  orderly' = orderly
  BY <1>5 DEF Return
<1>6. ASSUME NEW j \in Journals, Appended(j)
      PROVE  orderly' = orderly
  BY <1>6 DEF Appended
<1>7. ASSUME NEW j \in Journals, NEW left \in {"nothing", "record", "half"},
             AppendFails(j, left)
      PROVE  orderly' \in BOOLEAN /\ (orderly' => orderly)
  BY <1>7 DEF AppendFails
<1>8. CASE ClearFault
  BY <1>8 DEF ClearFault
<1>10. CASE Crash
  <2>1. orderly' = orderly \/ orderly' = FALSE
    BY <1>10, Zenon DEF Crash, CutShort
  <2>2. CASE orderly' = orderly
    BY <2>2
  <2>3. CASE orderly' = FALSE
    BY <2>3
  <2> QED BY <2>1, <2>2, <2>3
<1>9. CASE UNCHANGED vars
  BY <1>9 DEF vars
<1> QED BY <1>2, <1>3, <1>4, <1>5, <1>6, <1>7, <1>8, <1>9, <1>10 DEF Next

\* Up to the first of the three accidents the invariant holds, for any calls,
\* journals, faults and crashes.
THEOREM Invariance == Spec => [](orderly => IInv)
<1> DEFINE J == orderly \in BOOLEAN /\ (orderly => IInv)
<1>1. Init => J
  BY InitIInv, JournalAssumption DEF Init
<1>2. J /\ [Next]_vars => J'
  BY OrderlySteps, StepKeeps, JournalAssumption
<1>3. J => (orderly => IInv)
  OBVIOUS
<1> QED BY <1>1, <1>2, <1>3, PTL DEF Spec

\* Whatever crashes, fails, is cut off and repaired, the next process can read
\* the file, unless it was opened by two at once, an append failed with others
\* behind it, or a crash cut its rewriting short.
THEOREM AlwaysReadable == Spec => []ReadableInOrder
<1>1. (orderly => IInv) => ReadableInOrder
  BY DEF IInv, FileOK, Readable, ReadableInOrder
<1> QED BY <1>1, Invariance, PTL

-----------------------------------------------------------------------------
(* The journal keeps the evidence: step by step, it implements CallEvidence. *)

LEMMA RecordedNext == \A c \in Calls : Recorded(c)' = Standing(file', c)
BY DEF Recorded, Standing, Ends

\* A line written is one thing recorded: the intent of a call or its outcome.
LEMMA LineIsRecorded ==
  ASSUME JournalAssumption, IInv, NEW j \in Journals, queue[j] # <<>>,
         \A c \in Calls : Standing(file', c) = Then(j, c)
  PROVE  \E c \in Calls : \/ Evidence!Intend(c)
                          \/ \E outcome \in Outcomes : Evidence!Conclude(c, outcome)
<1> DEFINE e == Head(queue[j])
           rec == [c \in Calls |-> Recorded(c)]
<1>1. e.call \in Calls /\ e.kind \in {"intent", "terminal"}
  BY Waits
<1>2. rec = [c \in Calls |-> Standing(file, c)]
  BY RecordedIsStanding
<1>3. rec' = [c \in Calls |-> Then(j, c)]
  BY RecordedNext
<1>4. rec' = [rec EXCEPT ![e.call] = IF e.kind = "intent" THEN "intent" ELSE e.outcome]
  BY <1>1, <1>2, <1>3 DEF Then
<1>5. CASE e.kind = "intent"
  <2>1. rec[e.call] = "nothing"
    BY <1>1, <1>2, <1>5, NextLine
  <2>2. Evidence!Intend(e.call)
    BY <1>4, <1>5, <2>1 DEF Evidence!Intend
  <2> QED BY <1>1, <2>2
<1>6. CASE e.kind = "terminal"
  <2>1. /\ rec[e.call] = "intent" /\ e.outcome \in Outcomes
        /\ e.outcome \in {"success", "error"} => e.call \in sent
        /\ e.outcome = "withheld" => e.call \notin sent
    BY <1>1, <1>2, <1>6, NextLine
  <2>2. Evidence!Conclude(e.call, e.outcome)
    BY <1>4, <1>6, <2>1 DEF Evidence!Conclude
  <2> QED BY <1>1, <2>1, <2>2
<1> QED BY <1>1, <1>5, <1>6

\* What a step leaves of the record, for a write that did not return.
LEMMA LeftIsRecorded ==
  ASSUME JournalAssumption, IInv, NEW j \in Journals, queue[j] # <<>>,
         NEW left \in {"nothing", "record", "half"}, Leaves(Record(j), left)
  PROVE  \/ \A c \in Calls : Recorded(c)' = Recorded(c)
         \/ \E c \in Calls : \/ Evidence!Intend(c)
                             \/ \E outcome \in Outcomes : Evidence!Conclude(c, outcome)
<1>1. \/ \A c \in Calls : Standing(file', c) = Standing(file, c)
      \/ \A c \in Calls : Standing(file', c) = Then(j, c)
  BY Left
<1>2. CASE \A c \in Calls : Standing(file', c) = Standing(file, c)
  BY <1>2, RecordedIsStanding, RecordedNext
<1>3. CASE \A c \in Calls : Standing(file', c) = Then(j, c)
  BY <1>3, LineIsRecorded
<1> QED BY <1>1, <1>2, <1>3

LEMMA SameFile == UNCHANGED file => \A c \in Calls : Recorded(c)' = Recorded(c)
BY RecordedIsStanding, RecordedNext

\* A record made, if any, and one caller told, if any, are one step of the evidence.
LEMMA NoteSteps ==
  ASSUME sent' = sent,
         \/ \A c \in Calls : Recorded(c)' = Recorded(c)
         \/ \E c \in Calls : \/ Evidence!Intend(c)
                             \/ \E outcome \in Outcomes : Evidence!Conclude(c, outcome),
         told' = told \/ \E c \in Calls : Evidence!Tell(c, told'[c])
  PROVE  Evidence!Next
<1>1. CASE \A c \in Calls : Recorded(c)' = Recorded(c)
  <2>1. [c \in Calls |-> Recorded(c)]' = [c \in Calls |-> Recorded(c)]
    BY <1>1
  <2> QED BY <2>1 DEF Evidence!Next, Evidence!Note
<1>2. CASE \E c \in Calls : \/ Evidence!Intend(c)
                            \/ \E outcome \in Outcomes : Evidence!Conclude(c, outcome)
  BY <1>2 DEF Evidence!Next, Evidence!Note
<1> QED BY <1>1, <1>2

\* A call that was never sent may be told so, whatever is recorded.
LEMMA ToldUnsent ==
  ASSUME NEW c \in Calls, told[c] = "none", c \notin sent,
         NEW what \in {"notSent", "blocked"}, told' = [told EXCEPT ![c] = what],
         told \in [Calls -> Outcomes \cup {"none", "notSent", "blocked", "audit_fault"}]
  PROVE  Evidence!Tell(c, told'[c])
<1>1. told'[c] = what
  OBVIOUS
<1> QED BY <1>1 DEF Evidence!Tell

LEMMA CheckNotes ==
  ASSUME JournalAssumption, IInv, NEW c \in Calls, Check(c)
  PROVE  Evidence!Next
<1>1. told[c] = "none" /\ c \notin sent
  BY DEF IInv, CallsTold, Check
<1>2. \A d \in Calls : Recorded(d)' = Recorded(d)
  BY SameFile DEF Check, diskVars
<1>3. sent' = sent
  BY DEF Check
<1>4. CASE \E what \in {"blocked", "notSent"} : told' = [told EXCEPT ![c] = what]
  BY <1>1, <1>2, <1>3, <1>4, ToldUnsent, NoteSteps DEF IInv, TypesOK
<1>5. CASE told' = told
  BY <1>2, <1>3, <1>5, NoteSteps
<1> QED BY <1>4, <1>5 DEF Check, Answer

LEMMA FaultNotes ==
  ASSUME JournalAssumption, IInv, NEW c \in Calls, Fault(c)
  PROVE  Evidence!Next
<1> DEFINE what == IF result[c] \in {"success", "error"} THEN "audit_fault" ELSE result[c]
<1>1. /\ told[c] = "none" /\ result[c] \in Outcomes
      /\ result[c] = "withheld" <=> c \notin sent
  BY DEF IInv, CallsTold, Fault
<1>2. told' = [told EXCEPT ![c] = what] /\ sent' = sent /\ UNCHANGED file
  BY DEF Fault, Answer
<1>3. told'[c] = what
  BY <1>2 DEF IInv, TypesOK
<1>4. what \in {"audit_fault", "indeterminate", "withheld"}
  BY <1>1 DEF Outcomes
<1>5. Evidence!Tell(c, told'[c])
  <2>1. what = "withheld" => c \notin sent
    BY <1>1
  <2> HIDE DEF what
  <2> QED BY <1>1, <1>2, <1>3, <1>4, <2>1 DEF Evidence!Tell
<1> QED BY <1>2, <1>5, SameFile, NoteSteps

\* The outcome that is told is the outcome just recorded.
LEMMA AppendedNotes ==
  ASSUME JournalAssumption, IInv, NEW j \in Journals, Appended(j)
  PROVE  Evidence!Next
<1> DEFINE e == Head(queue[j])
<1>1. queue[j] # <<>> /\ file' = Written(Record(j)) /\ Resume(j, TRUE) /\ sent' = sent
  BY DEF Appended
<1>2. \A c \in Calls : Standing(file', c) = Then(j, c)
  BY <1>1, WriteKeepsFile
<1>3. \E c \in Calls : \/ Evidence!Intend(c)
                       \/ \E outcome \in Outcomes : Evidence!Conclude(c, outcome)
  BY <1>1, <1>2, LineIsRecorded
<1>4. told' = told \/ /\ phase[j] = "ready" /\ e.kind = "terminal"
                      /\ told' = [told EXCEPT ![e.call] = result[e.call]]
  BY <1>1, ResumesStored, Waits, OnlyWriter DEF InUse
<1>5. CASE told' = told
  BY <1>1, <1>3, <1>5, NoteSteps
<1>6. CASE /\ phase[j] = "ready" /\ e.kind = "terminal"
           /\ told' = [told EXCEPT ![e.call] = result[e.call]]
  <2>1. e.call \in Calls /\ pc[e.call] = "terminal" /\ e.outcome = result[e.call]
    BY <1>1, <1>6, Waits
  <2>2. /\ told[e.call] = "none" /\ result[e.call] \in Outcomes
        /\ result[e.call] = "withheld" => e.call \notin sent
    BY <2>1 DEF IInv, CallsTold
  <2>3. PICK c \in Calls : c = e.call
    BY <2>1
  <2>4. Then(j, c) = result[c]
    BY <1>6, <2>1, <2>3 DEF Then
  <2>5. Recorded(c)' = result[c]
    BY <1>2, <2>4, RecordedNext
  <2>6. told' = [told EXCEPT ![c] = result[c]] /\ told'[c] = result[c]
    BY <1>6, <2>3 DEF IInv, TypesOK
  <2>7. [d \in Calls |-> Recorded(d)]'[c] = result[c]
    BY <2>5
  <2>8. Evidence!Tell(c, told'[c])
    BY <2>2, <2>3, <2>6, <2>7 DEF Evidence!Tell, Outcomes
  <2> QED BY <1>1, <1>3, <2>8, NoteSteps
<1> QED BY <1>4, <1>5, <1>6

\* A write that fails is told as such to who had sent nothing.
LEMMA AppendFailsNotes ==
  ASSUME JournalAssumption, orderly', IInv, NEW j \in Journals,
         NEW left \in {"nothing", "record", "half"}, AppendFails(j, left)
  PROVE  Evidence!Next
<1> DEFINE e == Head(queue[j])
<1>1. queue[j] # <<>> /\ Leaves(Record(j), left) /\ Resume(j, FALSE) /\ sent' = sent
  BY DEF AppendFails
<1>2. told' = told \/ \E c \in Calls : /\ told' = [told EXCEPT ![c] = "notSent"]
                                       /\ pc[c] \in {"opening", "intent"}
  <2>1. CASE phase[j] = "closing"
    <3>1. pc[e.by] = "opening" /\ e.by \in Users
      BY <1>1, <2>1, Waits
    <3>2. told' = IF e.by = "repair" THEN told ELSE [told EXCEPT ![e.by] = "notSent"]
      BY <1>1, <2>1, ResumesFailed
    <3> QED BY <3>1, <3>2 DEF Users
  <2>2. CASE phase[j] = "ready"
    <3>1. pc[e.call] = e.kind /\ e.call \in Calls
      BY <1>1, <2>2, Waits
    <3>2. told' = IF e.kind = "intent" THEN [told EXCEPT ![e.call] = "notSent"] ELSE told
      BY <1>1, <2>2, ResumesFailed
    <3> QED BY <3>1, <3>2
  <2> QED BY <1>1, <2>1, <2>2, OnlyWriter DEF InUse
<1>3. CASE told' = told
  BY <1>1, <1>3, LeftIsRecorded, NoteSteps
<1>4. ASSUME NEW c \in Calls, told' = [told EXCEPT ![c] = "notSent"],
             pc[c] \in {"opening", "intent"}
      PROVE  Evidence!Next
  <2>1. told[c] = "none" /\ c \notin sent
    BY <1>4 DEF IInv, CallsTold
  <2>2. Evidence!Tell(c, told'[c])
    BY <1>4, <2>1, ToldUnsent DEF IInv, TypesOK
  <2> QED BY <1>1, <2>2, LeftIsRecorded, NoteSteps
<1> QED BY <1>2, <1>3, <1>4

LEMMA SendSends ==
  ASSUME IInv, NEW c \in Calls, Send(c)
  PROVE  Evidence!Next
<1>1. \A d \in Calls : Recorded(d)' = Recorded(d)
  BY SameFile DEF Send, diskVars
<1>2. [d \in Calls |-> Recorded(d)]' = [d \in Calls |-> Recorded(d)]
  BY <1>1
<1>3. told[c] = "none" /\ Recorded(c) \in {"intent", "indeterminate"}
  BY RecordedIsStanding DEF IInv, CallsTold, CallsRecorded, Send
<1>4. sent' = sent \cup {c} /\ told' = told
  BY DEF Send
<1>5. Evidence!Send(c)
  BY <1>2, <1>3, <1>4 DEF Evidence!Send
<1> QED BY <1>5 DEF Evidence!Next

LEMMA CrashNotes ==
  ASSUME JournalAssumption, orderly', IInv, Crash
  PROVE  Evidence!Next
<1>1. told' = told /\ sent' = sent
  BY DEF Crash
<1>2. CASE UNCHANGED file
  BY <1>1, <1>2, SameFile, NoteSteps
<1>3. CASE \E j \in Journals, left \in {"record", "half"} :
             queue[j] # <<>> /\ Leaves(Record(j), left)
  BY <1>1, <1>3, LeftIsRecorded, NoteSteps
<1> QED BY <1>2, <1>3 DEF Crash, CutShort

\* The other steps are none of the evidence's business.
LEMMA QuietStutters ==
  ASSUME UNCHANGED <<file, told, sent>>
  PROVE  UNCHANGED Evidence!vars
<1>1. [c \in Calls |-> Recorded(c)]' = [c \in Calls |-> Recorded(c)]
  BY SameFile
<1> QED BY <1>1 DEF Evidence!vars

LEMMA StepNotes ==
  ASSUME JournalAssumption, orderly', IInv, [Next]_vars
  PROVE  [Evidence!Next]_(Evidence!vars)
<1>1. ASSUME NEW u \in Users, Start(u) \/ Check(u) \/ Send(u) \/ Fault(u)
      PROVE  [Evidence!Next]_(Evidence!vars)
  <2>1. u \in Calls
    BY <1>1, JournalAssumption DEF Start, Check, Send, Fault, IInv, TypesOK, Users
  <2>2. CASE Start(u)
    BY <2>2, QuietStutters DEF Start, diskVars
  <2> QED BY <1>1, <2>1, <2>2, CheckNotes, SendSends, FaultNotes
<1>2. ASSUME NEW u \in Users, Read(u) \/ Cut(u) \/ CloseNext(u)
      PROVE  [Evidence!Next]_(Evidence!vars)
  <2>1. CASE Read(u)
    BY <2>1, QuietStutters DEF Read, diskVars, IInv, FileOK
  <2>2. CASE Cut(u)
    <3>1. own[u] \in Journals
      BY <2>2 DEF Cut, IInv, OneJournal, Opening
    <3>2. seq[own[u]] = Len(file) /\ file \in Seq(Lines)
      BY <2>2, <3>1 DEF Cut, IInv, KnowsFile, FileOK
    <3>3. file' = file
      BY <2>2, <3>2 DEF Cut
    <3> QED BY <2>2, <3>3, QuietStutters DEF Cut, userVars
  <2>3. CASE CloseNext(u)
    BY <2>3, QuietStutters DEF CloseNext, diskVars
  <2> QED BY <1>2, <2>1, <2>2, <2>3
<1>3. ASSUME NEW c \in Calls, NEW outcome \in Outcomes, Return(c, outcome)
      PROVE  [Evidence!Next]_(Evidence!vars)
  BY <1>3, QuietStutters DEF Return, diskVars
<1>4. ASSUME NEW j \in Journals,
             Appended(j) \/ \E left \in {"nothing", "record", "half"} : AppendFails(j, left)
      PROVE  [Evidence!Next]_(Evidence!vars)
  BY <1>4, AppendedNotes, AppendFailsNotes
<1>5. CASE Repair \/ ClearFault
  BY <1>5, QuietStutters DEF Repair, ClearFault, diskVars
<1>6. CASE Crash
  BY <1>6, CrashNotes
<1>7. CASE UNCHANGED vars
  BY <1>7, QuietStutters DEF vars, diskVars, userVars
<1> QED BY <1>1, <1>2, <1>3, <1>4, <1>5, <1>6, <1>7 DEF Next

\* Over failed writes, repairs, crashes and the closing of what a dead process
\* left, and up to the first of the three accidents, the journal is evidence of
\* the calls: each is recorded before it is sent, its outcome once and for good,
\* and what the model is told is on record.
THEOREM EvidenceKept == Spec => KeepsEvidence
<1>1. Init => Evidence!Init
  <2> SUFFICES ASSUME Init PROVE Evidence!Init
    OBVIOUS
  <2>1. \A c \in Calls : Recorded(c) = "nothing"
    BY FS_EmptySet DEF Init, Recorded, Ids
  <2> QED BY <2>1 DEF Init, Evidence!Init
<1> DEFINE J == orderly \in BOOLEAN /\ (orderly => IInv)
<1>2. Init => J
  BY InitIInv, JournalAssumption DEF Init
<1>3. J /\ [Next]_vars => J'
  BY OrderlySteps, StepKeeps, JournalAssumption
<1>4. J /\ [Next]_vars => [orderly' => Evidence!Next]_(Evidence!vars)
  BY StepNotes, OrderlySteps, JournalAssumption
<1> QED BY <1>1, <1>2, <1>3, <1>4, PTL DEF Spec, KeepsEvidence

=============================================================================
