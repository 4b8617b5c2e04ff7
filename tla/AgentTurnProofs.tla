--------------------------- MODULE AgentTurnProofs ---------------------------
(***************************************************************************)
(* Proofs about AgentTurn for every value of its constants: any inputs,    *)
(* any number of replies, calls, stops, steers and retries, and a storage  *)
(* that breaks at any record.                                              *)
(***************************************************************************)
EXTENDS AgentTurn, EventLogProofs, FunctionTheorems

-----------------------------------------------------------------------------
(* Logs by the positions of their facts. *)

\* A one-to-one correspondence keeps the size.
LEMMA SameSize ==
  ASSUME NEW U, NEW V, IsFiniteSet(U), NEW f \in [U -> V],
         \A a, b \in U : f[a] = f[b] => a = b,
         \A v \in V : \E u \in U : f[u] = v
  PROVE  IsFiniteSet(V) /\ Cardinality(V) = Cardinality(U)
<1>1. f \in Bijection(U, V)
  BY Fun_IsBij
<1> QED BY <1>1, FS_Bijection DEF ExistsBijection

\* Where the facts of a type are.
At(l, t) == {p \in 1..Len(l) : l[p].type = t}

LEMMA AtIsFinite ==
  ASSUME NEW S, NEW l \in Seq(S), NEW t
  PROVE  /\ IsFiniteSet(At(l, t)) /\ Cardinality(At(l, t)) \in Nat
         /\ At(l, t) \in SUBSET Nat /\ At(l, t) \subseteq 1..Len(l)
<1>1. At(l, t) \in SUBSET (1..Len(l)) /\ At(l, t) \in SUBSET Nat
  BY DEF At
<1>2. IsFiniteSet(1..Len(l))
  BY FS_Interval
<1> QED BY <1>1, <1>2, FS_Subset, FS_CardinalityType

\* What follows is found behind what was there.
LEMMA AtGrown ==
  ASSUME NEW S, NEW l \in Seq(S), NEW facts \in Seq(S), NEW t
  PROVE  /\ l \o facts \in Seq(S) /\ Len(l \o facts) = Len(l) + Len(facts)
         /\ \A p \in 1..Len(l) : (l \o facts)[p] = l[p]
         /\ \A k \in 1..Len(facts) : (l \o facts)[Len(l) + k] = facts[k]
         /\ At(l \o facts, t) = At(l, t) \cup {Len(l) + k : k \in At(facts, t)}
         /\ Cardinality(At(l \o facts, t))
              = Cardinality(At(l, t)) + Cardinality(At(facts, t))
<1> DEFINE later == {Len(l) + k : k \in At(facts, t)}
<1>1. /\ l \o facts \in Seq(S) /\ Len(l \o facts) = Len(l) + Len(facts)
      /\ \A p \in 1..Len(l) : (l \o facts)[p] = l[p]
      /\ \A k \in 1..Len(facts) : (l \o facts)[Len(l) + k] = facts[k]
  BY ConcatAt
<1>2. At(l \o facts, t) = At(l, t) \cup later
  <2>1. ASSUME NEW p \in At(l \o facts, t) PROVE p \in At(l, t) \cup later
    <3>1. p \in 1 .. Len(l) + Len(facts) /\ (l \o facts)[p].type = t
      BY <1>1, <2>1 DEF At
    <3>2. CASE p <= Len(l)
      BY <1>1, <3>1, <3>2 DEF At
    <3>3. CASE ~(p <= Len(l))
      <4>1. PICK k \in 1..Len(facts) : p = Len(l) + k
        <5>1. p - Len(l) \in 1..Len(facts) /\ p = Len(l) + (p - Len(l))
          BY <3>1, <3>3
        <5> QED BY <5>1
      <4> QED BY <1>1, <3>1, <4>1 DEF At
    <3> QED BY <3>2, <3>3
  <2>2. ASSUME NEW p \in At(l, t) PROVE p \in At(l \o facts, t)
    BY <1>1, <2>2 DEF At
  <2>3. ASSUME NEW k \in At(facts, t) PROVE Len(l) + k \in At(l \o facts, t)
    BY <1>1, <2>3 DEF At
  <2> QED BY <2>1, <2>2, <2>3
<1>3. IsFiniteSet(later) /\ Cardinality(later) = Cardinality(At(facts, t))
  <2> DEFINE f == [k \in At(facts, t) |-> Len(l) + k]
  <2>1. At(facts, t) \in SUBSET Nat /\ IsFiniteSet(At(facts, t)) /\ Len(l) \in Nat
    BY AtIsFinite
  <2>2. \A k \in At(facts, t) : k \in Nat
    BY <2>1
  <2>3. f \in [At(facts, t) -> later] /\ \A v \in later : \E u \in At(facts, t) : f[u] = v
    OBVIOUS
  <2>4. \A a, b \in At(facts, t) : f[a] = f[b] => a = b
    BY <2>1, <2>2
  <2> HIDE DEF f, later
  <2> QED BY <2>1, <2>3, <2>4, SameSize
<1>4. At(l, t) \cap later = {}
  <2>1. \A p \in At(l, t) : p <= Len(l) /\ p \in Nat
    BY DEF At
  <2>2. \A k \in At(facts, t) : k > 0 /\ k \in Nat
    BY DEF At
  <2> QED BY <2>1, <2>2
<1> HIDE DEF later
<1>5. Cardinality(At(l, t) \cup later) = Cardinality(At(l, t)) + Cardinality(later)
  <2>1. IsFiniteSet(At(l, t)) /\ Cardinality(At(l, t)) \in Nat
    BY AtIsFinite
  <2>2. IsFiniteSet(later) /\ Cardinality(later) \in Nat
    BY <1>3, FS_CardinalityType
  <2>3. Cardinality(At(l, t) \cap later) = 0
    BY <1>4, FS_EmptySet
  <2>4. Cardinality(At(l, t) \cup later)
          = Cardinality(At(l, t)) + Cardinality(later) - Cardinality(At(l, t) \cap later)
    BY <2>1, <2>2, FS_Union
  <2> QED BY <2>1, <2>2, <2>3, <2>4
<1> QED BY <1>1, <1>2, <1>3, <1>5 DEF later

\* Up to a position of the log there is nothing new.
LEMMA GrownBefore ==
  ASSUME NEW S, NEW l \in Seq(S), NEW facts \in Seq(S), NEW t, NEW p \in 1..Len(l)
  PROVE  /\ {q \in At(l \o facts, t) : q < p} = {q \in At(l, t) : q < p}
         /\ {q \in At(l \o facts, t) : q <= p} = {q \in At(l, t) : q <= p}
         /\ p \in At(l \o facts, t) <=> p \in At(l, t)
<1>1. /\ At(l \o facts, t) = At(l, t) \cup {Len(l) + k : k \in At(facts, t)}
      /\ At(l, t) \subseteq 1..Len(l) /\ Len(l) \in Nat
  BY AtGrown, AtIsFinite
<1>2. \A k \in At(facts, t) : k \in Nat /\ k > 0
  BY DEF At
<1>3. ASSUME NEW q \in At(l \o facts, t), q <= p PROVE q \in At(l, t)
  BY <1>1, <1>2, <1>3
<1>4. \A q \in At(l \o facts, t) : q \in Nat /\ (q < p => q <= p)
  BY <1>1, <1>2
<1>5. p <= p
  OBVIOUS
<1> QED BY <1>1, <1>3, <1>4, <1>5

\* Short sequences of facts.
LEMMA AtShort ==
  ASSUME NEW t
  PROVE  /\ At(<<>>, t) = {} /\ Cardinality(At(<<>>, t)) = 0
         /\ \A e : /\ At(<<e>>, t) = IF e.type = t THEN {1} ELSE {}
                   /\ Cardinality(At(<<e>>, t)) = IF e.type = t THEN 1 ELSE 0
<1>1. At(<<>>, t) = {}
  BY DEF At
<1>2. \A e : At(<<e>>, t) = IF e.type = t THEN {1} ELSE {}
  <2> TAKE e
  <2>1. Len(<<e>>) = 1 /\ <<e>>[1] = e
    OBVIOUS
  <2>2. \A p : p \in 1..1 <=> p = 1
    OBVIOUS
  <2> QED BY <2>1, <2>2 DEF At
<1> QED BY <1>1, <1>2, FS_EmptySet, FS_Singleton

\* A selection of a sequence has the elements selected, each once if it had each
\* once.
NoRepeat(s) == \A i, j \in 1..Len(s) : s[i] = s[j] => i = j

LEMMA PickedIs ==
  ASSUME NEW S, NEW s \in Seq(S), NEW U \in SUBSET (1..Len(s))
  PROVE  /\ Picked(s, U) \in Seq(S) /\ Len(Picked(s, U)) = Cardinality(U)
         /\ ToSet(Picked(s, U)) = {s[i] : i \in U}
         /\ \A k \in 1..Len(Picked(s, U)) : \E i \in U : Picked(s, U)[k] = s[i]
         /\ (\A i, j \in U : s[i] = s[j] => i = j) => NoRepeat(Picked(s, U))
<1>1. IsFiniteSet(U) /\ Cardinality(U) \in Nat /\ U \in SUBSET Nat
  <2>1. IsFiniteSet(1..Len(s)) /\ U \in SUBSET Nat
    BY FS_Interval
  <2>2. IsFiniteSet(U)
    BY <2>1, FS_Subset
  <2> QED BY <2>1, <2>2, FS_CardinalityType
<1>2. /\ \A k \in 1..Cardinality(U) : Nth(U, k) \in U /\ Rank(U, Nth(U, k)) = k
      /\ \A i \in U : Nth(U, Rank(U, i)) = i /\ Rank(U, i) \in 1..Cardinality(U)
  BY <1>1, NthHasRank, RankOrders
<1>3. PICK n \in Nat : n = Cardinality(U)
  BY <1>1
<1>4. PICK picked : picked = Picked(s, U)
  OBVIOUS
<1>5. picked = [k \in 1..n |-> s[Nth(U, k)]]
  BY <1>3, <1>4 DEF Picked
<1>6. \A i \in U : s[i] \in S
  OBVIOUS
<1>7. \A k \in 1..n : s[Nth(U, k)] \in S
  BY <1>2, <1>3, <1>6
<1>8. picked \in Seq(S) /\ Len(picked) = n /\ \A k \in 1..n : picked[k] = s[Nth(U, k)]
  BY <1>5, <1>7
<1>9. ToSet(picked) = {s[i] : i \in U}
  <2>1. ToSet(picked) = {picked[k] : k \in 1..n}
    BY <1>8 DEF ToSet
  <2>2. ASSUME NEW k \in 1..n PROVE picked[k] \in {s[i] : i \in U}
    BY <1>2, <1>3, <1>8
  <2>3. ASSUME NEW i \in U PROVE \E k \in 1..n : picked[k] = s[i]
    BY <1>2, <1>3, <1>8
  <2> QED BY <2>1, <2>2, <2>3
<1>10. ASSUME \A i, j \in U : s[i] = s[j] => i = j PROVE NoRepeat(picked)
  <2> SUFFICES ASSUME NEW a \in 1..n, NEW b \in 1..n, picked[a] = picked[b]
               PROVE  a = b
    BY <1>8 DEF NoRepeat
  <2>1. Nth(U, a) = Nth(U, b)
    BY <1>2, <1>3, <1>8, <1>10
  <2>2. Rank(U, Nth(U, a)) = a /\ Rank(U, Nth(U, b)) = b
    BY <1>2, <1>3
  <2> QED BY <2>1, <2>2
<1>11. \A k \in 1..Len(picked) : \E i \in U : picked[k] = s[i]
  BY <1>2, <1>3, <1>8
<1> QED BY <1>3, <1>4, <1>8, <1>9, <1>10, <1>11

LEMMA SetOf ==
  ASSUME NEW S, NEW s \in Seq(S), NEW x
  PROVE  x \in ToSet(s) <=> \E i \in 1..Len(s) : s[i] = x
BY DEF ToSet

-----------------------------------------------------------------------------
(* Types, and what the steps do to the log. *)

TurnTypes == {"turn/start", "turn/end", "turn/error", "tool/call", "tool/result"}
InputTypes == {"input/queued", "input/settled"}
Facts == [type : TurnTypes, of : Nat] \cup [type : InputTypes, of : Inputs]

\* Where a turn is open, and where the driver can be.
OpenPcs == {"preStep", "admission", "request", "stream", "prepare", "intent", "tool",
            "answer", "stepClose", "skipped", "stopClose", "stopping", "errorNoted"}
Pcs == OpenPcs \cup {"turnEnd", "failedEnd", "return", "loop", "exit", "idle"}

FlagsOK ==
  /\ broken \in BOOLEAN /\ poisoned \in BOOLEAN /\ aborted \in BOOLEAN
  /\ steering \in BOOLEAN /\ quiet \in BOOLEAN /\ owing \in BOOLEAN
  /\ poisoned => broken

DataOK ==
  /\ log \in Seq(Facts) /\ onDisk \in 0..Len(log) /\ barrier \in 0..Len(log)
  /\ inbox \in Seq(Inputs) /\ claimed \in Seq(Inputs)
  /\ pc \in Pcs /\ unstarted \in Nat /\ (pc = "prepare" => unstarted > 0)
  /\ request \in [Inputs -> {"none", "accepting", "accepted", "refused"}]
  /\ stale \in [Inputs -> Seq(Inputs)]
  /\ begun \in Nat

Typed == FlagsOK /\ DataOK

LEMMA FactTypes ==
  /\ \A t \in TurnTypes, n \in Nat : Fact(t, n) \in Facts
  /\ \A t \in InputTypes, x \in Inputs : Fact(t, x) \in Facts
  /\ \A t, x : Fact(t, x).type = t /\ Fact(t, x).of = x
BY DEF Fact, Facts

LEMMA OfIsAt == \A t : Of(t) = At(log, t)
BY DEF Of, At

LEMMA OfTypes ==
  ASSUME DataOK
  PROVE  /\ \A t \in TurnTypes : \A p \in Of(t) : log[p].of \in Nat
         /\ \A t \in InputTypes : \A p \in Of(t) : log[p].of \in Inputs
         /\ \A t : \A p \in Of(t) : p \in 1..Len(log)
         /\ Turns \in Nat /\ Executions \in Nat
<1>1. log \in Seq(Facts)
  BY DEF DataOK
<1>2. \A p \in 1..Len(log) : log[p] \in Facts
  BY <1>1
<1>3. /\ \A t \in TurnTypes : \A p \in Of(t) : log[p].of \in Nat
      /\ \A t \in InputTypes : \A p \in Of(t) : log[p].of \in Inputs
      /\ \A t : \A p \in Of(t) : p \in 1..Len(log)
  BY <1>2 DEF Of, Facts, TurnTypes, InputTypes
<1>4. Turns \in Nat /\ Executions \in Nat
  BY <1>1, AtIsFinite, OfIsAt DEF Turns, Executions
<1> QED BY <1>3, <1>4

LEMMA SettledIs ==
  ASSUME DataOK
  PROVE  /\ Settled \in Seq(Facts) /\ Len(Settled) = Len(claimed)
         /\ \A k \in 1..Len(claimed) :
              Settled[k].type = "input/settled" /\ Settled[k].of = claimed[k]
         /\ \A t : t # "input/settled" => At(Settled, t) = {}
         /\ At(Settled, "input/settled") = 1..Len(claimed)
<1>1. claimed \in Seq(Inputs) /\ DOMAIN claimed = 1..Len(claimed)
  BY DEF DataOK
<1>2. Settled = [k \in 1..Len(claimed) |-> Fact("input/settled", claimed[k])]
  BY <1>1 DEF Settled
<1>3. \A k \in 1..Len(claimed) : Fact("input/settled", claimed[k]) \in Facts
  BY <1>1, FactTypes DEF InputTypes
<1>4. /\ Settled \in Seq(Facts) /\ Len(Settled) = Len(claimed)
      /\ \A k \in 1..Len(claimed) : Settled[k] = Fact("input/settled", claimed[k])
  BY <1>1, <1>2, <1>3
<1>5. \A k \in 1..Len(claimed) :
        Settled[k].type = "input/settled" /\ Settled[k].of = claimed[k]
  BY <1>4, FactTypes
<1> QED BY <1>4, <1>5 DEF At

LEMMA PendingIs ==
  ASSUME DataOK
  PROVE  /\ Pending \in Seq(Inputs)
         /\ \A X : X \in ToSet(Pending) <=> Queued(X) /\ Unsettled(X)
         /\ (\A p, q \in Of("input/queued") : log[p].of = log[q].of => p = q)
              => NoRepeat(Pending)
<1> DEFINE U == {p \in Of("input/queued") : Unsettled(log[p].of)}
<1>1. /\ log \in Seq(Facts) /\ U \in SUBSET (1..Len(log))
      /\ \A p \in U : log[p].of \in Inputs
  BY OfTypes DEF DataOK, Of, InputTypes
<1>2. PICK queued \in Seq(Facts) :
        /\ queued = Picked(log, U)
        /\ ToSet(queued) = {log[i] : i \in U}
        /\ \A k \in 1..Len(queued) : \E i \in U : queued[k] = log[i]
        /\ (\A i, j \in U : log[i] = log[j] => i = j) => NoRepeat(queued)
  <2> HIDE DEF U
  <2> QED BY <1>1, PickedIs
<1>3. Pending = [k \in 1..Len(queued) |-> queued[k].of]
  BY <1>2 DEF Pending
<1>4. \A k \in 1..Len(queued) : queued[k].of \in Inputs
  BY <1>1, <1>2
<1>5. PICK pending \in Seq(Inputs) :
        /\ pending = Pending /\ Len(pending) = Len(queued)
        /\ \A k \in 1..Len(queued) : pending[k] = queued[k].of
  BY <1>3, <1>4
<1>6. ASSUME NEW X PROVE X \in ToSet(pending) <=> Queued(X) /\ Unsettled(X)
  <2>1. X \in ToSet(pending) <=> \E k \in 1..Len(queued) : queued[k].of = X
    BY <1>5 DEF ToSet
  <2>2. (\E k \in 1..Len(queued) : queued[k].of = X) <=> \E i \in U : log[i].of = X
    <3>1. ASSUME NEW i \in U PROVE \E k \in 1..Len(queued) : queued[k] = log[i]
      <4>1. log[i] \in ToSet(queued)
        BY <1>2
      <4> QED BY <4>1, SetOf
    <3>2. ASSUME NEW i \in U, log[i].of = X PROVE \E k \in 1..Len(queued) : queued[k].of = X
      <4>1. PICK k \in 1..Len(queued) : queued[k] = log[i]
        BY <3>1
      <4>2. queued[k].of = X
        BY <3>2, <4>1
      <4> QED BY <4>2
    <3>3. ASSUME NEW k \in 1..Len(queued), queued[k].of = X PROVE \E i \in U : log[i].of = X
      <4>1. PICK i \in U : queued[k] = log[i]
        BY <1>2
      <4>2. log[i].of = X
        BY <3>3, <4>1
      <4> QED BY <4>2
    <3> HIDE DEF U
    <3> QED BY <3>2, <3>3
  <2>3. (\E i \in U : log[i].of = X) <=> Queued(X) /\ Unsettled(X)
    BY DEF Queued
  <2> QED BY <2>1, <2>2, <2>3
<1>7. ASSUME \A p, q \in Of("input/queued") : log[p].of = log[q].of => p = q
      PROVE  NoRepeat(pending)
  <2>1. \A i, j \in U : log[i] = log[j] => i = j
    BY <1>7
  <2>2. NoRepeat(queued)
    BY <1>2, <2>1
  <2> SUFFICES ASSUME NEW a \in 1..Len(queued), NEW b \in 1..Len(queued),
                      queued[a].of = queued[b].of
               PROVE  a = b
    BY <1>5 DEF NoRepeat
  <2>3. PICK i \in U, j \in U : queued[a] = log[i] /\ queued[b] = log[j]
    BY <1>2
  <2>4. i = j
    BY <1>7, <2>3
  <2> QED BY <2>2, <2>3, <2>4 DEF NoRepeat
<1> QED BY <1>5, <1>6, <1>7

LEMMA JoinedIs ==
  ASSUME NEW S, NEW a \in Seq(S), NEW b \in Seq(S)
  PROVE  /\ a \o b \in Seq(S)
         /\ \A X \in ToSet(a \o b) : X \in ToSet(a) \/ X \in ToSet(b)
         /\ NoRepeat(a) /\ NoRepeat(b) /\ (\A X \in ToSet(a) : X \notin ToSet(b))
              => NoRepeat(a \o b)
<1>1. /\ a \o b \in Seq(S) /\ Len(a \o b) = Len(a) + Len(b)
      /\ \A i \in 1..Len(a) : (a \o b)[i] = a[i]
      /\ \A i \in 1..Len(b) : (a \o b)[Len(a) + i] = b[i]
  BY ConcatAt
<1>2. \A i \in 1..Len(a \o b) :
        i \in 1..Len(a) \/ \E k \in 1..Len(b) : i = Len(a) + k
  <2> TAKE i \in 1..Len(a \o b)
  <2>1. CASE i <= Len(a)
    BY <2>1
  <2>2. CASE ~(i <= Len(a))
    <3> i - Len(a) \in 1..Len(b) /\ i = Len(a) + (i - Len(a))
      BY <1>1, <2>2
    <3> QED OBVIOUS
  <2> QED BY <2>1, <2>2
<1>3. /\ \A i \in 1..Len(a) : a[i] \in ToSet(a)
      /\ \A i \in 1..Len(b) : b[i] \in ToSet(b)
  BY SetOf
<1>4. ASSUME NEW X \in ToSet(a \o b) PROVE X \in ToSet(a) \/ X \in ToSet(b)
  <2>1. PICK i \in 1..Len(a \o b) : (a \o b)[i] = X
    BY <1>1, <1>4, SetOf
  <2> QED BY <1>1, <1>2, <1>3, <2>1
<1>5. ASSUME NoRepeat(a), NoRepeat(b), \A X \in ToSet(a) : X \notin ToSet(b)
      PROVE  NoRepeat(a \o b)
  <2>1. \A i \in 1..Len(a), k \in 1..Len(b) : a[i] # b[k]
    BY <1>3, <1>5
  <2> SUFFICES ASSUME NEW i \in 1..Len(a \o b), NEW j \in 1..Len(a \o b),
                      (a \o b)[i] = (a \o b)[j]
               PROVE  i = j
    BY DEF NoRepeat
  <2>2. CASE i \in 1..Len(a) /\ j \in 1..Len(a)
    BY <1>1, <1>5, <2>2 DEF NoRepeat
  <2>3. CASE i \in 1..Len(a) /\ j \notin 1..Len(a)
    <3>1. PICK k \in 1..Len(b) : j = Len(a) + k
      BY <1>2, <2>3
    <3>2. a[i] = b[k]
      BY <1>1, <2>3, <3>1
    <3> QED BY <2>1, <2>3, <3>2
  <2>4. CASE i \notin 1..Len(a) /\ j \in 1..Len(a)
    <3>1. PICK k \in 1..Len(b) : i = Len(a) + k
      BY <1>2, <2>4
    <3>2. a[j] = b[k]
      BY <1>1, <2>4, <3>1
    <3> QED BY <2>1, <2>4, <3>2
  <2>5. CASE i \notin 1..Len(a) /\ j \notin 1..Len(a)
    <3>1. PICK k \in 1..Len(b), m \in 1..Len(b) : i = Len(a) + k /\ j = Len(a) + m
      BY <1>2, <2>5
    <3>2. b[k] = b[m]
      BY <1>1, <3>1
    <3> QED BY <1>5, <3>1, <3>2 DEF NoRepeat
  <2> QED BY <2>2, <2>3, <2>4, <2>5
<1> QED BY <1>1, <1>4, <1>5

LEMMA AdoptedIs ==
  ASSUME DataOK, NEW pending \in Seq(Inputs)
  PROVE  /\ Adopted(pending) \in Seq(Inputs)
         /\ \A X : X \in ToSet(Adopted(pending)) =>
                     \/ X \in ToSet(inbox) /\ X \notin ToSet(pending)
                     \/ X \in ToSet(pending) /\ X \notin ToSet(claimed)
         /\ NoRepeat(inbox) /\ NoRepeat(pending) => NoRepeat(Adopted(pending))
<1> DEFINE U == {i \in DOMAIN inbox : inbox[i] \notin ToSet(pending)}
           V == {i \in DOMAIN pending : pending[i] \notin ToSet(claimed)}
<1>1. /\ inbox \in Seq(Inputs) /\ U \in SUBSET (1..Len(inbox))
      /\ V \in SUBSET (1..Len(pending))
  BY DEF DataOK
<1>2. PICK a \in Seq(Inputs) :
        /\ a = Picked(inbox, U) /\ ToSet(a) = {inbox[i] : i \in U}
        /\ (\A i, j \in U : inbox[i] = inbox[j] => i = j) => NoRepeat(a)
  <2> HIDE DEF U
  <2> QED BY <1>1, PickedIs
<1>3. PICK b \in Seq(Inputs) :
        /\ b = Picked(pending, V) /\ ToSet(b) = {pending[i] : i \in V}
        /\ (\A i, j \in V : pending[i] = pending[j] => i = j) => NoRepeat(b)
  <2> HIDE DEF V
  <2> QED BY <1>1, PickedIs
<1>4. Adopted(pending) = a \o b
  BY <1>2, <1>3 DEF Adopted
<1>5. /\ \A X \in ToSet(a) : X \in ToSet(inbox) /\ X \notin ToSet(pending)
      /\ \A X \in ToSet(b) : X \in ToSet(pending) /\ X \notin ToSet(claimed)
  <2>1. /\ \A i \in 1..Len(inbox) : inbox[i] \in ToSet(inbox)
        /\ \A i \in 1..Len(pending) : pending[i] \in ToSet(pending)
    BY <1>1, SetOf
  <2> QED BY <1>1, <1>2, <1>3, <2>1
<1>6. /\ a \o b \in Seq(Inputs)
      /\ \A X \in ToSet(a \o b) : X \in ToSet(a) \/ X \in ToSet(b)
  BY JoinedIs
<1>7. ASSUME NoRepeat(inbox), NoRepeat(pending) PROVE NoRepeat(a \o b)
  <2>1. NoRepeat(a) /\ NoRepeat(b)
    BY <1>1, <1>2, <1>3, <1>7 DEF NoRepeat
  <2>2. \A X \in ToSet(a) : X \notin ToSet(b)
    BY <1>5
  <2> QED BY <2>1, <2>2, JoinedIs
<1> QED BY <1>4, <1>5, <1>6, <1>7

\* What the driver records is made of facts.
LEMMA RecordedFacts ==
  ASSUME DataOK
  PROVE  /\ <<>> \in Seq(Facts) /\ Settled \in Seq(Facts) /\ Skipped \in Seq(Facts)
         /\ \A t \in TurnTypes, n \in Nat : <<Fact(t, n)>> \in Seq(Facts)
         /\ \A n \in Nat : <<Call(n)>> \in Seq(Facts) /\ <<Result(n)>> \in Seq(Facts)
                             /\ <<Call(n), Result(n)>> \in Seq(Facts)
         /\ \A x \in Inputs : <<Fact("input/queued", x)>> \in Seq(Facts)
<1>1. \A n \in Nat : Call(n) \in Facts /\ Result(n) \in Facts
  BY FactTypes DEF Call, Result, TurnTypes
<1>2. \A n \in Nat : <<Call(n)>> \in Seq(Facts) /\ <<Result(n)>> \in Seq(Facts)
                       /\ <<Call(n), Result(n)>> \in Seq(Facts)
  BY <1>1
<1>3. \A t \in TurnTypes, n \in Nat : <<Fact(t, n)>> \in Seq(Facts)
  BY FactTypes
<1>4. \A x \in Inputs : <<Fact("input/queued", x)>> \in Seq(Facts)
  BY FactTypes DEF InputTypes
<1>5. Skipped \in Seq(Facts)
  <2>1. PICK n \in Nat : n = unstarted
    BY DEF DataOK
  <2>2. PICK e \in Nat : e = Executions
    BY OfTypes
  <2>3. Skipped = [k \in 1 .. 2 * n |->
                     IF k % 2 = 1 THEN Call(e + (k + 1) \div 2) ELSE Result(e + k \div 2)]
    BY <2>1, <2>2 DEF Skipped
  <2>4. \A k \in 1 .. 2 * n : e + (k + 1) \div 2 \in Nat /\ e + k \div 2 \in Nat
    BY <2>1, <2>2
  <2>5. \A k \in 1 .. 2 * n :
          (IF k % 2 = 1 THEN Call(e + (k + 1) \div 2) ELSE Result(e + k \div 2)) \in Facts
    BY <1>1, <2>4
  <2>6. 2 * n \in Nat
    BY <2>1
  <2> QED BY <2>3, <2>5, <2>6
<1>6. <<>> \in Seq(Facts)
  OBVIOUS
<1> QED BY <1>2, <1>3, <1>4, <1>5, <1>6, SettledIs

\* The end of a turn is one fact behind the others.
LEMMA EndIs ==
  ASSUME DataOK, NEW facts \in Seq(Facts)
  PROVE  /\ Append(facts, Fact("turn/end", Turns)) = facts \o <<Fact("turn/end", Turns)>>
         /\ Append(facts, Fact("turn/end", Turns)) \in Seq(Facts)
         /\ Append(facts, Fact("turn/error", Turns)) = facts \o <<Fact("turn/error", Turns)>>
         /\ Append(facts, Fact("turn/error", Turns)) \in Seq(Facts)
<1>1. Fact("turn/end", Turns) \in Facts /\ Fact("turn/error", Turns) \in Facts
  BY OfTypes, FactTypes DEF TurnTypes
<1>2. PICK e \in Facts, f \in Facts : e = Fact("turn/end", Turns) /\ f = Fact("turn/error", Turns)
  BY <1>1
<1>3. /\ Append(facts, e) = facts \o <<e>> /\ Append(facts, e) \in Seq(Facts)
      /\ Append(facts, f) = facts \o <<f>> /\ Append(facts, f) \in Seq(Facts)
  BY <1>2
<1> QED BY <1>2, <1>3

LEMMA RecordTypes ==
  ASSUME DataOK, NEW facts \in Seq(Facts), NEW await \in Pcs, NEW how,
         Record(facts, await, how), onDisk' = onDisk
  PROVE  /\ log' \in Seq(Facts) /\ onDisk' \in 0..Len(log') /\ barrier' \in 0..Len(log')
         /\ pc' \in Pcs
<1>1. CASE poisoned
  BY <1>1 DEF Record, DataOK, Pcs
<1>2. CASE ~poisoned
  <2>1. log' = log \o facts /\ barrier' = Len(log') /\ pc' = await
    BY <1>2 DEF Record
  <2>2. log \o facts \in Seq(Facts) /\ Len(log \o facts) = Len(log) + Len(facts)
    BY ConcatAt DEF DataOK
  <2> QED BY <2>1, <2>2 DEF DataOK
<1> QED BY <1>1, <1>2

LEMMA BeginTypes ==
  ASSUME DataOK, NEW waiting \in Seq(Inputs), BeginTurn(waiting), onDisk' = onDisk
  PROVE  /\ log' \in Seq(Facts) /\ onDisk' \in 0..Len(log') /\ barrier' \in 0..Len(log')
         /\ pc' \in Pcs /\ inbox' \in Seq(Inputs) /\ claimed' \in Seq(Inputs)
         /\ unstarted' = unstarted /\ owing' = owing
<1>1. CASE poisoned
  BY <1>1 DEF BeginTurn, DataOK, Pcs
<1>2. CASE ~poisoned
  <2>1. Fact("turn/start", Turns + 1) \in Facts
    BY OfTypes, FactTypes DEF TurnTypes
  <2>2. PICK e \in Facts : e = Fact("turn/start", Turns + 1)
    BY <2>1
  <2>3. log' = Append(log, e) /\ log \in Seq(Facts)
    BY <1>2, <2>2 DEF BeginTurn, DataOK
  <2>4. log' \in Seq(Facts) /\ Len(log') = Len(log) + 1 /\ Len(log) \in Nat
    BY <2>3
  <2>5. barrier' = barrier /\ barrier \in 0..Len(log) /\ onDisk \in 0..Len(log)
    BY <1>2 DEF BeginTurn, DataOK
  <2> QED BY <1>2, <2>4, <2>5 DEF BeginTurn, Pcs, OpenPcs
<1> QED BY <1>1, <1>2

LEMMA EnqueuedIs ==
  ASSUME DataOK, NEW waiting \in Seq(Inputs), NEW input \in Inputs
  PROVE  /\ Enqueued(waiting, input) \in Seq(Inputs)
         /\ \A X : X \in ToSet(Enqueued(waiting, input)) =>
                     \/ X \in ToSet(waiting)
                     \/ X = input /\ input \notin ToSet(claimed)
         /\ NoRepeat(waiting) => NoRepeat(Enqueued(waiting, input))
<1>1. CASE input \in ToSet(claimed) \cup ToSet(waiting)
  BY <1>1 DEF Enqueued
<1>2. CASE input \notin ToSet(claimed) \cup ToSet(waiting)
  <2>1. Enqueued(waiting, input) = Append(waiting, input)
    BY <1>2 DEF Enqueued
  <2>2. PICK longer \in Seq(Inputs) :
          /\ longer = Append(waiting, input) /\ Len(longer) = Len(waiting) + 1
          /\ longer[Len(waiting) + 1] = input
          /\ \A i \in 1..Len(waiting) : longer[i] = waiting[i]
    <3>1. /\ Append(waiting, input) \in Seq(Inputs)
          /\ Len(Append(waiting, input)) = Len(waiting) + 1
      OBVIOUS
    <3>2. Append(waiting, input)[Len(waiting) + 1] = input
      OBVIOUS
    <3>3. \A i \in 1..Len(waiting) : Append(waiting, input)[i] = waiting[i]
      OBVIOUS
    <3> QED BY <3>1, <3>2, <3>3
  <2>3. \A i \in 1..Len(longer) : i \in 1..Len(waiting) \/ i = Len(waiting) + 1
    BY <2>2
  <2>4. \A i \in 1..Len(waiting) : waiting[i] \in ToSet(waiting)
    BY SetOf
  <2>5. ASSUME NEW X \in ToSet(longer) PROVE X \in ToSet(waiting) \/ X = input
    <3>1. PICK i \in 1..Len(longer) : longer[i] = X
      BY <2>5, SetOf
    <3> QED BY <2>2, <2>3, <2>4, <3>1
  <2>6. ASSUME NoRepeat(waiting) PROVE NoRepeat(longer)
    <3> SUFFICES ASSUME NEW i \in 1..Len(longer), NEW j \in 1..Len(longer),
                        longer[i] = longer[j]
                 PROVE  i = j
      BY DEF NoRepeat
    <3>1. \A k \in 1..Len(waiting) : waiting[k] # input
      BY <1>2, <2>4
    <3> QED BY <2>2, <2>3, <2>6, <3>1 DEF NoRepeat
  <2> QED BY <1>2, <2>1, <2>2, <2>5, <2>6
<1> QED BY <1>1, <1>2

LEMMA DispatchTypes ==
  ASSUME DataOK, NEW waiting \in Seq(Inputs), NEW delivery, Dispatch(waiting, delivery),
         onDisk' = onDisk
  PROVE  /\ log' \in Seq(Facts) /\ onDisk' \in 0..Len(log') /\ barrier' \in 0..Len(log')
         /\ pc' \in Pcs /\ inbox' \in Seq(Inputs) /\ claimed' \in Seq(Inputs)
         /\ unstarted' = unstarted /\ owing' = owing
<1>1. CASE pc = "idle"
  <2>1. BeginTurn(waiting)
    BY <1>1 DEF Dispatch, BeginRun
  <2> QED BY <2>1, BeginTypes
<1>2. CASE pc # "idle"
  BY <1>2 DEF Dispatch, DataOK, turnVars
<1> QED BY <1>1, <1>2

LEMMA FlagsStep ==
  ASSUME Typed, Next
  PROVE  FlagsOK'
<1> USE DEF Typed, FlagsOK
<1>1. CASE Continue
  <2>1. CASE PreStepHandsBack \/ PreStepEnters \/ PreStepRejects \/ PreStepAdmitsNothing \/ PreStepThrows
    BY <2>1 DEF PreStepHandsBack, PreStepEnters, PreStepRejects, PreStepAdmitsNothing, PreStepThrows, OutsideTurn, OutsideDriver,
       abortVars, turnVars, sessionVars, BeginTurn
  <2>2. CASE AdmissionFlushed \/ RequestReady \/ RequestThrows \/ StreamAborted \/ AnswerFlushed
    BY <2>2 DEF AdmissionFlushed, RequestReady, RequestThrows, StreamAborted, AnswerFlushed, OutsideTurn, OutsideDriver,
       abortVars, turnVars, sessionVars, BeginTurn
  <2>3. CASE StreamSilent
    BY <2>3 DEF StreamSilent, OutsideTurn, OutsideDriver,
       abortVars, turnVars, sessionVars, BeginTurn
  <2>4. CASE CallPrepared \/ PrepareThrows \/ IntentFlushed \/ ToolReturns
    BY <2>4 DEF CallPrepared, PrepareThrows, IntentFlushed, ToolReturns, OutsideTurn, OutsideDriver,
       abortVars, turnVars, sessionVars, BeginTurn
  <2>5. CASE SkippedFlushed \/ StepClosed \/ TurnStops \/ TurnStoppingThrows
    BY <2>5 DEF SkippedFlushed, StepClosed, TurnStops, TurnStoppingThrows, OutsideTurn, OutsideDriver,
       abortVars, turnVars, sessionVars, BeginTurn
  <2>6. CASE StopClosed \/ ErrorFlushed \/ EndFlushed \/ RunLeaves
    BY <2>6 DEF StopClosed, ErrorFlushed, EndFlushed, RunLeaves, OutsideTurn, OutsideDriver,
       abortVars, turnVars, sessionVars, BeginTurn
  <2>7. CASE TurnReturns
    BY <2>7 DEF TurnReturns, abortVars, sessionVars
  <2>8. CASE FlushFails
    BY <2>8 DEF FlushFails, OutsideDriver, abortVars
  <2>9. CASE RunLoops
    BY <2>9 DEF RunLoops, OutsideDriver, abortVars, BeginTurn
  <2>10. CASE RunSettles
    BY <2>10 DEF RunSettles, OutsideDriver, BeginRun, BeginTurn
  <2> QED BY <1>1, <2>1, <2>2, <2>3, <2>4, <2>5, <2>6, <2>7, <2>8, <2>9, <2>10 DEF Continue
<1>2. CASE Provider
  <2>1. ASSUME NEW calls \in Calls, StreamDone(calls) PROVE FlagsOK'
    <3>1. owing' \in BOOLEAN
      BY <2>1, AgentAssumption DEF StreamDone
    <3> QED BY <2>1, <3>1 DEF StreamDone, OutsideTurn, OutsideDriver, abortVars
  <2>2. CASE ProviderFails
    BY <2>2 DEF ProviderFails, OutsideTurn, OutsideDriver, abortVars
  <2> QED BY <1>2, <2>1, <2>2 DEF Provider, SomeReply
<1>3. CASE Request
  <2>1. ASSUME NEW input \in Inputs, Submit(input) PROVE FlagsOK'
    BY <2>1 DEF Submit, Driver, abortVars, turnVars
  <2>2. ASSUME NEW input \in Inputs, Resubmit(input) PROVE FlagsOK'
    BY <2>2 DEF Resubmit, Driver, abortVars, turnVars, sessionVars
  <2>3. ASSUME NEW input \in Inputs, NotAccepted(input) PROVE FlagsOK'
    BY <2>3 DEF NotAccepted, Driver, abortVars, turnVars
  <2>4. ASSUME NEW waiting, NEW delivery, Dispatch(waiting, delivery),
               broken' = broken, poisoned' = poisoned
        PROVE  FlagsOK'
    BY <2>4 DEF Dispatch, BeginRun, BeginTurn, Steered, abortVars, turnVars
  <2>5. ASSUME NEW input \in Inputs, Accepted(input) PROVE FlagsOK'
    BY <2>4, <2>5 DEF Accepted
  <2>6. CASE SteerSession
    BY <2>4, <2>6 DEF SteerSession
  <2>7. CASE Stop
    BY <2>7 DEF Stop, turnVars, sessionVars
  <2> QED BY <1>3, <2>1, <2>2, <2>3, <2>5, <2>6, <2>7 DEF Request
<1>4. CASE RecordStored
  BY <1>4 DEF RecordStored, turnVars, abortVars
<1>5. CASE StorageBreaks
  BY <1>5 DEF StorageBreaks, turnVars, abortVars
<1> QED BY <1>1, <1>2, <1>3, <1>4, <1>5 DEF Next

-----------------------------------------------------------------------------
(***************************************************************************)
(* What a step does to the log.  A turn is closed, open, or in a call      *)
(* whose answer is owed; facts that no bookkeeping counts are plain.       *)
(***************************************************************************)
Phase(place) ==
  IF place \in {"intent", "tool"} THEN "call"
  ELSE IF place \in OpenPcs THEN "open" ELSE "closed"

PlainTypes == {"input/queued", "input/settled", "turn/error"}
Plain(facts) == \A k \in 1..Len(facts) : facts[k].type \in PlainTypes

Kept == log' = log /\ (poisoned' \/ (~poisoned /\ Phase(pc') = Phase(pc)))

Grows(facts) ==
  /\ facts \in Seq(Facts) /\ ~poisoned /\ ~poisoned'
  /\ log' = log \o facts

PlainStep == \E facts : Grows(facts) /\ Plain(facts) /\ Phase(pc') = Phase(pc)
StartStep ==
  /\ Grows(<<Fact("turn/start", Turns + 1)>>)
  /\ Phase(pc) = "closed" /\ Phase(pc') = "open"
  /\ pc' = "preStep" /\ ~aborted'
EndStep ==
  /\ \E facts \in Seq(Facts) :
       Plain(facts) /\ Grows(facts \o <<Fact("turn/end", Turns)>>)
  /\ Phase(pc) = "open" /\ Phase(pc') = "closed"
CallStep ==
  /\ Grows(<<Call(Executions + 1)>>)
  /\ Phase(pc) = "open" /\ Phase(pc') = "call" /\ barrier' = Len(log')
CallResultStep ==
  /\ Grows(<<Call(Executions + 1), Result(Executions + 1)>>)
  /\ Phase(pc) = "open" /\ Phase(pc') = "open"
ResultStep ==
  /\ Grows(<<Result(Executions)>>)
  /\ Phase(pc) = "call" /\ Phase(pc') = "open"
SkippedStep ==
  /\ Grows(Skipped) /\ Phase(pc) = "open" /\ Phase(pc') = "open"

LogStep ==
  \/ Kept \/ PlainStep \/ StartStep \/ EndStep
  \/ CallStep \/ CallResultStep \/ ResultStep \/ SkippedStep

LEMMA Recorded ==
  ASSUME DataOK, NEW facts \in Seq(Facts), NEW await, NEW how,
         Record(facts, await, how), poisoned' = poisoned
  PROVE  \/ Kept
         \/ Grows(facts) /\ pc' = await /\ barrier' = Len(log')
BY DEF Record, Kept, Grows

LEMMA PlainFacts ==
  ASSUME DataOK
  PROVE  /\ Plain(<<>>) /\ Plain(Settled)
         /\ Plain(<<Fact("turn/error", Turns)>>)
         /\ Plain(Append(Settled, Fact("turn/error", Turns)))
         /\ \A x \in Inputs : Plain(<<Fact("input/queued", x)>>)
<1>1. Plain(<<>>)
  BY DEF Plain
<1>2. Plain(Settled)
  BY SettledIs DEF Plain, PlainTypes
<1>3. \A x : Plain(<<Fact("turn/error", x)>>) /\ Plain(<<Fact("input/queued", x)>>)
  BY FactTypes DEF Plain, PlainTypes
<1>4. Plain(Append(Settled, Fact("turn/error", Turns)))
  <2>1. PICK s \in Seq(Facts) : s = Settled
    BY SettledIs
  <2>2. PICK e \in Facts : e = Fact("turn/error", Turns)
    BY OfTypes, FactTypes DEF TurnTypes
  <2>3. /\ Len(Append(s, e)) = Len(s) + 1
        /\ Append(s, e)[Len(s) + 1] = e
    OBVIOUS
  <2>4. \A i \in 1..Len(s) : Append(s, e)[i] = s[i]
    OBVIOUS
  <2>5. \A i \in 1 .. Len(s) + 1 : i \in 1..Len(s) \/ i = Len(s) + 1
    OBVIOUS
  <2>6. e.type = "turn/error"
    BY <2>2, FactTypes
  <2> QED BY <1>2, <2>1, <2>2, <2>3, <2>4, <2>5, <2>6 DEF Plain, PlainTypes
<1> QED BY <1>1, <1>2, <1>3, <1>4

LEMMA EndRecorded ==
  ASSUME DataOK, NEW facts \in Seq(Facts), Plain(facts), NEW how,
         EndTurn(facts, how), poisoned' = poisoned, Phase(pc) = "open"
  PROVE  Kept \/ EndStep
<1>1. \/ Kept
      \/ /\ Grows(Append(facts, Fact("turn/end", Turns))) /\ pc' = "turnEnd"
  BY EndIs, Recorded DEF EndTurn
<1>2. Phase("turnEnd") = "closed"
  BY DEF Phase, OpenPcs
<1> QED BY <1>1, <1>2, EndIs DEF EndStep

LEMMA FailRecorded ==
  ASSUME DataOK, Fail, poisoned' = poisoned, Phase(pc) = "open"
  PROVE  Kept \/ PlainStep
<1>1. <<Fact("turn/error", Turns)>> \in Seq(Facts) /\ Plain(<<Fact("turn/error", Turns)>>)
  BY RecordedFacts, PlainFacts, OfTypes DEF TurnTypes
<1>2. Kept \/ (Grows(<<Fact("turn/error", Turns)>>) /\ pc' = "errorNoted")
  BY <1>1, Recorded DEF Fail
<1>3. Phase("errorNoted") = "open"
  BY DEF Phase, OpenPcs
<1> QED BY <1>1, <1>2, <1>3 DEF PlainStep

LEMMA NothingRecorded ==
  ASSUME DataOK, NEW await, NEW how, Record(<<>>, await, how), poisoned' = poisoned,
         Phase(await) = Phase(pc)
  PROVE  Kept \/ PlainStep
<1>1. <<>> \in Seq(Facts) /\ Plain(<<>>)
  BY RecordedFacts, PlainFacts
<1>2. Kept \/ (Grows(<<>>) /\ pc' = await)
  BY <1>1, Recorded
<1> QED BY <1>1, <1>2 DEF PlainStep

LEMMA Begun ==
  ASSUME DataOK, NEW waiting, BeginTurn(waiting), poisoned' = poisoned, ~aborted',
         Phase(pc) = "closed"
  PROVE  Kept \/ StartStep
<1>1. CASE poisoned
  BY <1>1 DEF BeginTurn, Kept
<1>2. CASE ~poisoned
  <2>1. PICK e \in Facts : e = Fact("turn/start", Turns + 1)
    BY OfTypes, FactTypes DEF TurnTypes
  <2>2. log' = Append(log, e) /\ pc' = "preStep" /\ log \in Seq(Facts)
    BY <1>2, <2>1 DEF BeginTurn, DataOK
  <2>3. log' = log \o <<e>> /\ <<e>> \in Seq(Facts)
    BY <2>2
  <2>4. Phase("preStep") = "open"
    BY DEF Phase, OpenPcs
  <2> QED BY <1>2, <2>1, <2>2, <2>3, <2>4 DEF StartStep, Grows
<1> QED BY <1>1, <1>2

LEMMA PhaseOf ==
  /\ \A place \in {"preStep", "admission", "request", "stream", "prepare", "answer",
                   "stepClose", "skipped", "stopClose", "stopping", "errorNoted"} :
       Phase(place) = "open"
  /\ \A place \in {"intent", "tool"} : Phase(place) = "call"
  /\ \A place \in {"turnEnd", "failedEnd", "return", "loop", "exit", "idle"} :
       Phase(place) = "closed"
BY DEF Phase, OpenPcs

LEMMA AdmissionLogs ==
  ASSUME DataOK,
         \/ PreStepHandsBack \/ PreStepEnters \/ PreStepRejects \/ PreStepAdmitsNothing
         \/ PreStepThrows
  PROVE  LogStep
<1> USE PhaseOf
<1>1. CASE PreStepHandsBack
  BY <1>1, EndRecorded, RecordedFacts, PlainFacts DEF PreStepHandsBack, LogStep
<1>2. CASE PreStepEnters
  <2>1. Kept \/ (Grows(Settled) /\ pc' = "admission")
    BY <1>2, Recorded, RecordedFacts DEF PreStepEnters, OutsideTurn
  <2> QED BY <1>2, <2>1, PlainFacts DEF PreStepEnters, LogStep, PlainStep
<1>3. CASE PreStepRejects
  BY <1>3, EndRecorded, EndIs, RecordedFacts, PlainFacts DEF PreStepRejects, OutsideTurn, LogStep
<1>4. CASE PreStepAdmitsNothing
  BY <1>4, EndRecorded, RecordedFacts, PlainFacts DEF PreStepAdmitsNothing, OutsideTurn, LogStep
<1>5. CASE PreStepThrows
  BY <1>5, FailRecorded DEF PreStepThrows, OutsideTurn, LogStep
<1> QED BY <1>1, <1>2, <1>3, <1>4, <1>5

LEMMA StepLogs ==
  ASSUME DataOK,
         \/ AdmissionFlushed \/ RequestReady \/ RequestThrows \/ StreamSilent
         \/ StreamAborted \/ SomeReply \/ ProviderFails
  PROVE  LogStep
<1> USE PhaseOf
<1>1. ASSUME CloseStep, poisoned' = poisoned, Phase(pc) = "open" PROVE LogStep
  BY <1>1, NothingRecorded DEF CloseStep, LogStep
<1>2. CASE AdmissionFlushed
  BY <1>1, <1>2 DEF AdmissionFlushed, Flushed, GoOnUnlessStopped, OutsideTurn, LogStep, Kept
<1>3. CASE RequestReady
  BY <1>1, <1>3 DEF RequestReady, GoOnUnlessStopped, OutsideTurn, LogStep, Kept
<1>4. CASE RequestThrows
  BY <1>4, FailRecorded DEF RequestThrows, OutsideTurn, LogStep
<1>5. CASE StreamSilent
  BY <1>5 DEF StreamSilent, sessionVars, turnVars, LogStep, Kept
<1>6. CASE StreamAborted
  BY <1>1, <1>6, FailRecorded DEF StreamAborted, OutsideTurn, LogStep
<1>7. ASSUME NEW calls \in Calls, StreamDone(calls) PROVE LogStep
  <2>1. pc = "stream" /\ poisoned' = poisoned
    BY <1>7 DEF StreamDone, OutsideTurn
  <2>2. CASE calls = 0
    BY <1>7, <2>1, <2>2, NothingRecorded DEF StreamDone, LogStep
  <2>3. CASE calls # 0
    BY <1>7, <2>1, <2>3, FailRecorded DEF StreamDone, LogStep, Kept
  <2> QED BY <2>2, <2>3
<1>8. CASE ProviderFails
  BY <1>8, FailRecorded DEF ProviderFails, OutsideTurn, LogStep
<1> QED BY <1>2, <1>3, <1>4, <1>5, <1>6, <1>7, <1>8 DEF SomeReply

LEMMA CallsLog ==
  ASSUME DataOK,
         \/ CallPrepared \/ PrepareThrows \/ IntentFlushed \/ ToolReturns
         \/ AnswerFlushed \/ SkippedFlushed \/ StepClosed
  PROVE  LogStep
<1> USE PhaseOf
<1>1. Executions \in Nat /\ Executions + 1 \in Nat
  BY OfTypes
<1>2. CASE CallPrepared
  BY <1>1, <1>2, Recorded, RecordedFacts DEF CallPrepared, OutsideTurn, LogStep, CallStep
<1>3. CASE PrepareThrows
  BY <1>1, <1>3, Recorded, RecordedFacts DEF PrepareThrows, OutsideTurn, LogStep, CallResultStep
<1>4. CASE IntentFlushed
  BY <1>4 DEF IntentFlushed, Flushed, OutsideTurn, LogStep, Kept
<1>5. CASE ToolReturns
  BY <1>1, <1>5, Recorded, RecordedFacts DEF ToolReturns, OutsideTurn, LogStep, ResultStep
<1>6. CASE AnswerFlushed
  <2>1. pc = "answer" /\ poisoned' = poisoned
    BY <1>6 DEF AnswerFlushed, Flushed, OutsideTurn
  <2>2. CASE Record(<<>>, "stepClose", outcome)
    BY <2>1, <2>2, NothingRecorded DEF LogStep
  <2>3. CASE Record(Skipped, "skipped", outcome)
    BY <2>1, <2>3, Recorded, RecordedFacts DEF LogStep, SkippedStep
  <2>4. CASE pc' = "prepare" /\ log' = log
    BY <2>1, <2>4 DEF LogStep, Kept
  <2> QED BY <1>6, <2>2, <2>3, <2>4 DEF AnswerFlushed
<1>7. CASE SkippedFlushed
  BY <1>7, NothingRecorded DEF SkippedFlushed, Flushed, CloseStep, OutsideTurn, LogStep
<1>8. CASE StepClosed
  <2>1. pc = "stepClose" /\ poisoned' = poisoned
    BY <1>8 DEF StepClosed, Flushed, OutsideTurn
  <2>2. CASE owing
    BY <1>8, <2>1, <2>2, NothingRecorded DEF StepClosed, LogStep
  <2>3. CASE ~owing
    BY <1>8, <2>1, <2>3 DEF StepClosed, LogStep, Kept
  <2> QED BY <2>2, <2>3
<1> QED BY <1>2, <1>3, <1>4, <1>5, <1>6, <1>7, <1>8

LEMMA EndLogs ==
  ASSUME DataOK,
         \/ TurnStops \/ TurnStoppingThrows \/ StopClosed \/ ErrorFlushed \/ EndFlushed
         \/ FlushFails \/ TurnReturns \/ RunLoops \/ RunLeaves \/ RunSettles
  PROVE  LogStep
<1> USE PhaseOf
<1>1. CASE TurnStops
  BY <1>1, EndRecorded, RecordedFacts, PlainFacts DEF TurnStops, OutsideTurn, LogStep
<1>2. CASE TurnStoppingThrows
  BY <1>2, FailRecorded DEF TurnStoppingThrows, OutsideTurn, LogStep
<1>3. CASE StopClosed
  BY <1>3, EndRecorded, RecordedFacts, PlainFacts DEF StopClosed, Flushed, OutsideTurn, LogStep
<1>4. CASE ErrorFlushed
  <2>1. PICK e \in Facts : e = Fact("turn/end", Turns)
    BY OfTypes, FactTypes DEF TurnTypes
  <2>2. <<e>> = <<>> \o <<e>> /\ <<e>> \in Seq(Facts)
    OBVIOUS
  <2>3. pc = "errorNoted" /\ poisoned' = poisoned
    BY <1>4 DEF ErrorFlushed, Flushed, OutsideTurn
  <2>4. Kept \/ (Grows(<<e>>) /\ pc' = "failedEnd")
    BY <1>4, <2>1, <2>2, <2>3, Recorded DEF ErrorFlushed
  <2> QED BY <2>1, <2>2, <2>3, <2>4, RecordedFacts, PlainFacts DEF LogStep, EndStep
<1>5. CASE EndFlushed
  BY <1>5 DEF EndFlushed, Flushed, OutsideTurn, LogStep, Kept
<1>6. CASE FlushFails
  BY <1>6 DEF FlushFails, LogStep, Kept
<1>7. CASE TurnReturns
  BY <1>7 DEF TurnReturns, sessionVars, LogStep, Kept
<1>8. CASE RunLoops
  BY <1>8, Begun DEF RunLoops, abortVars, LogStep
<1>9. CASE RunLeaves
  BY <1>9 DEF RunLeaves, sessionVars, LogStep, Kept
<1>10. CASE RunSettles
  BY <1>10, Begun DEF RunSettles, BeginRun, LogStep, Kept
<1> QED BY <1>1, <1>2, <1>3, <1>4, <1>5, <1>6, <1>7, <1>8, <1>9, <1>10

LEMMA RequestLogs ==
  ASSUME DataOK, Request \/ RecordStored \/ StorageBreaks
  PROVE  LogStep
<1> USE PhaseOf
<1>1. ASSUME NEW input \in Inputs, Submit(input) PROVE LogStep
  <2>1. pc' = pc /\ poisoned' = poisoned
    BY <1>1 DEF Submit, Driver, turnVars
  <2>2. CASE log' = log
    BY <2>1, <2>2 DEF LogStep, Kept
  <2>3. CASE log' # log
    <3>1. PICK e \in Facts : e = Fact("input/queued", input)
      BY FactTypes DEF InputTypes
    <3>2. ~poisoned /\ log' = Append(log, e) /\ log \in Seq(Facts)
      BY <1>1, <2>3, <3>1 DEF Submit, DataOK
    <3>3. log' = log \o <<e>> /\ <<e>> \in Seq(Facts)
      BY <3>2
    <3>4. Plain(<<e>>)
      BY <3>1, PlainFacts
    <3> QED BY <2>1, <3>2, <3>3, <3>4 DEF LogStep, PlainStep, Grows
  <2> QED BY <2>2, <2>3
<1>2. ASSUME NEW input \in Inputs, Resubmit(input) PROVE LogStep
  BY <1>2 DEF Resubmit, sessionVars, Driver, turnVars, LogStep, Kept
<1>3. ASSUME NEW input \in Inputs, NotAccepted(input) PROVE LogStep
  BY <1>3 DEF NotAccepted, LogStep, Kept
<1>4. ASSUME NEW waiting, NEW delivery, Dispatch(waiting, delivery), poisoned' = poisoned
      PROVE  LogStep
  <2>1. CASE pc = "idle"
    BY <1>4, <2>1, Begun DEF Dispatch, BeginRun, LogStep
  <2>2. CASE pc # "idle"
    BY <1>4, <2>2 DEF Dispatch, turnVars, LogStep, Kept
  <2> QED BY <2>1, <2>2
<1>5. ASSUME NEW input \in Inputs, Accepted(input) PROVE LogStep
  BY <1>4, <1>5 DEF Accepted
<1>6. CASE SteerSession
  BY <1>4, <1>6 DEF SteerSession
<1>7. CASE Stop
  BY <1>7 DEF Stop, sessionVars, turnVars, LogStep, Kept
<1>8. CASE RecordStored
  BY <1>8 DEF RecordStored, turnVars, LogStep, Kept
<1>9. CASE StorageBreaks
  BY <1>9 DEF StorageBreaks, turnVars, LogStep, Kept
<1> QED BY <1>1, <1>2, <1>3, <1>5, <1>6, <1>7, <1>8, <1>9 DEF Request

\* Every step treats the log in one of these ways.
LEMMA LogSteps ==
  ASSUME DataOK, Next
  PROVE  LogStep
BY AdmissionLogs, StepLogs, CallsLog, EndLogs, RequestLogs DEF Next, Continue, Provider

\* The log only grows.
LEMMA GrownLog ==
  ASSUME DataOK, LogStep
  PROVE  \E facts \in Seq(Facts) :
           log' = log \o facts /\ (~Kept => Grows(facts))
<1>1. CASE Kept
  <2>1. log \in Seq(Facts) /\ log' = log
    BY <1>1 DEF Kept, DataOK
  <2>2. log' = log \o <<>> /\ <<>> \in Seq(Facts)
    BY <2>1
  <2> QED BY <1>1, <2>2
<1>2. ASSUME NEW facts, Grows(facts) PROVE facts \in Seq(Facts) /\ log' = log \o facts
  BY <1>2 DEF Grows
<1> QED BY <1>1, <1>2 DEF LogStep, PlainStep, StartStep, EndStep, CallStep,
      CallResultStep, ResultStep, SkippedStep

\* What the driver waits for is the end of the log, or has been.
Waits ==
  /\ barrier' \in {barrier, 0, Len(log')} /\ pc' \in Pcs
  /\ onDisk' = onDisk \/ (onDisk' = onDisk + 1 /\ onDisk < Len(log))

LEMMA AllPcs ==
  \A place \in {"preStep", "admission", "request", "stream", "prepare", "intent", "tool",
                "answer", "stepClose", "skipped", "stopClose", "stopping", "errorNoted",
                "turnEnd", "failedEnd", "return", "loop", "exit", "idle"} : place \in Pcs
BY DEF Pcs, OpenPcs

LEMMA BeginWaits ==
  ASSUME DataOK, NEW waiting, BeginTurn(waiting), onDisk' = onDisk
  PROVE  Waits
BY AllPcs DEF BeginTurn, Waits

LEMMA RecordWaits ==
  ASSUME DataOK, NEW facts, NEW await \in Pcs, NEW how, Record(facts, await, how),
         onDisk' = onDisk
  PROVE  Waits
BY AllPcs DEF Record, Waits

LEMMA WaitSteps ==
  ASSUME DataOK, Next
  PROVE  Waits
<1> USE AllPcs, RecordWaits, BeginWaits
<1>1. pc \in Pcs
  BY DEF DataOK
<1>2. CASE \/ PreStepHandsBack \/ PreStepEnters \/ PreStepRejects \/ PreStepAdmitsNothing
           \/ PreStepThrows
  BY <1>2 DEF PreStepHandsBack, PreStepEnters, PreStepRejects, PreStepAdmitsNothing,
     PreStepThrows, EndTurn, Fail, OutsideTurn, OutsideDriver
<1>3. CASE \/ AdmissionFlushed \/ RequestReady \/ RequestThrows \/ StreamAborted
           \/ ProviderFails
  BY <1>3 DEF AdmissionFlushed, RequestReady, RequestThrows, StreamAborted, ProviderFails,
     GoOnUnlessStopped, CloseStep, Fail, OutsideTurn, OutsideDriver, Waits
<1>4. CASE SomeReply
  <2>1. PICK calls \in Calls : StreamDone(calls)
    BY <1>4 DEF SomeReply
  <2> QED BY <2>1 DEF StreamDone, Fail, OutsideTurn, OutsideDriver, Waits
<1>5. CASE \/ CallPrepared \/ PrepareThrows \/ IntentFlushed \/ ToolReturns
  BY <1>5 DEF CallPrepared, PrepareThrows, IntentFlushed, ToolReturns,
     OutsideTurn, OutsideDriver, Waits
<1>6. CASE AnswerFlushed
  BY <1>6 DEF AnswerFlushed, OutsideTurn, OutsideDriver, Waits
<1>7. CASE SkippedFlushed \/ StepClosed
  BY <1>7 DEF SkippedFlushed, StepClosed, CloseStep, OutsideTurn, OutsideDriver, Waits
<1>8. CASE \/ TurnStops \/ TurnStoppingThrows \/ StopClosed \/ ErrorFlushed
  BY <1>8 DEF TurnStops, TurnStoppingThrows, StopClosed, ErrorFlushed, EndTurn, Fail,
     OutsideTurn, OutsideDriver
<1>9. CASE \/ EndFlushed \/ FlushFails \/ TurnReturns \/ RunLeaves \/ StreamSilent
  BY <1>1, <1>9 DEF EndFlushed, FlushFails, TurnReturns, RunLeaves, StreamSilent,
     OutsideTurn, OutsideDriver, sessionVars, turnVars, Waits
<1>10. CASE RunLoops
  BY <1>10 DEF RunLoops, OutsideDriver
<1>11. CASE RunSettles
  BY <1>11 DEF RunSettles, BeginRun, OutsideDriver, Waits
<1>12. ASSUME NEW waiting, NEW delivery, Dispatch(waiting, delivery), onDisk' = onDisk
       PROVE  Waits
  BY <1>1, <1>12 DEF Dispatch, BeginRun, turnVars, Waits
<1>13. CASE Request
  <2>1. ASSUME NEW input \in Inputs, Submit(input) \/ Resubmit(input) \/ NotAccepted(input)
        PROVE  Waits
    BY <1>1, <2>1 DEF Submit, Resubmit, NotAccepted, Driver, sessionVars, turnVars, Waits
  <2>2. ASSUME NEW input \in Inputs, Accepted(input) PROVE Waits
    BY <1>12, <2>2 DEF Accepted
  <2>3. CASE SteerSession
    BY <1>12, <2>3 DEF SteerSession
  <2>4. CASE Stop
    BY <1>1, <2>4 DEF Stop, sessionVars, turnVars, Waits
  <2> QED BY <1>13, <2>1, <2>2, <2>3, <2>4 DEF Request
<1>14. CASE RecordStored \/ StorageBreaks
  BY <1>1, <1>14 DEF RecordStored, StorageBreaks, turnVars, Waits
<1> QED BY <1>2, <1>3, <1>4, <1>5, <1>6, <1>7, <1>8, <1>9, <1>10, <1>11, <1>13, <1>14
      DEF Next, Continue, Provider

\* The inputs an agent holds.
Boxes == inbox' \in Seq(Inputs) /\ claimed' \in Seq(Inputs)

LEMMA BoxSteps ==
  ASSUME DataOK, Next
  PROVE  Boxes
<1>1. /\ inbox \in Seq(Inputs) /\ claimed \in Seq(Inputs) /\ claimed \o inbox \in Seq(Inputs)
      /\ <<>> \in Seq(Inputs)
  BY DEF DataOK
<1>2. ASSUME UNCHANGED boxVars PROVE Boxes
  BY <1>1, <1>2 DEF Boxes, boxVars
<1>3. ASSUME NEW waiting \in Seq(Inputs), BeginTurn(waiting) PROVE Boxes
  BY <1>1, <1>3 DEF Boxes, BeginTurn
<1>4. ASSUME NEW waiting \in Seq(Inputs), NEW delivery, Dispatch(waiting, delivery)
      PROVE  Boxes
  BY <1>1, <1>3, <1>4 DEF Boxes, Dispatch, BeginRun
<1>5. CASE Request
  <2>1. ASSUME NEW input \in Inputs, Submit(input) \/ Resubmit(input) \/ NotAccepted(input)
        PROVE  Boxes
    BY <1>2, <2>1 DEF Submit, Resubmit, NotAccepted, Driver
  <2>2. ASSUME NEW input \in Inputs, Accepted(input) PROVE Boxes
    <3>1. stale[input] \in Seq(Inputs)
      BY DEF DataOK
    <3>2. Enqueued(Adopted(stale[input]), input) \in Seq(Inputs)
      BY <3>1, AdoptedIs, EnqueuedIs
    <3> QED BY <1>4, <2>2, <3>2 DEF Accepted
  <2>3. CASE SteerSession
    <3>1. Adopted(Pending) \in Seq(Inputs)
      BY PendingIs, AdoptedIs
    <3> QED BY <1>4, <2>3, <3>1 DEF SteerSession
  <2>4. CASE Stop
    BY <1>2, <2>4 DEF Stop
  <2> QED BY <1>5, <2>1, <2>2, <2>3, <2>4 DEF Request
<1>6. CASE PreStepHandsBack \/ TurnReturns
  BY <1>1, <1>6 DEF PreStepHandsBack, TurnReturns, Boxes
<1>7. CASE RunLoops \/ RunSettles
  BY <1>1, <1>2, <1>3, <1>7 DEF RunLoops, RunSettles, BeginRun
<1>8. CASE RecordStored \/ StorageBreaks
  BY <1>2, <1>8 DEF RecordStored, StorageBreaks
<1>9. CASE SomeReply
  BY <1>2, <1>9 DEF SomeReply, StreamDone, OutsideTurn
<1>10. CASE \/ PreStepEnters \/ PreStepRejects \/ PreStepAdmitsNothing \/ PreStepThrows
            \/ AdmissionFlushed \/ RequestReady \/ RequestThrows \/ StreamSilent
            \/ StreamAborted \/ ProviderFails
  BY <1>2, <1>10 DEF PreStepEnters, PreStepRejects, PreStepAdmitsNothing, PreStepThrows,
     AdmissionFlushed, RequestReady, RequestThrows, StreamSilent, StreamAborted,
     ProviderFails, OutsideTurn
<1>11. CASE \/ CallPrepared \/ PrepareThrows \/ IntentFlushed \/ ToolReturns
            \/ AnswerFlushed \/ SkippedFlushed \/ StepClosed
  BY <1>2, <1>11 DEF CallPrepared, PrepareThrows, IntentFlushed, ToolReturns,
     AnswerFlushed, SkippedFlushed, StepClosed, OutsideTurn
<1>12. CASE \/ TurnStops \/ TurnStoppingThrows \/ StopClosed \/ ErrorFlushed \/ EndFlushed
            \/ FlushFails \/ RunLeaves
  BY <1>2, <1>12 DEF TurnStops, TurnStoppingThrows, StopClosed, ErrorFlushed, EndFlushed,
     FlushFails, RunLeaves, OutsideTurn
<1> QED BY <1>5, <1>6, <1>7, <1>8, <1>9, <1>10, <1>11, <1>12 DEF Next, Continue, Provider

\* The calls a reply still owes.
Remaining == unstarted' \in Nat /\ (pc' = "prepare" => unstarted' > 0)

LEMMA RemainingSteps ==
  ASSUME DataOK, Next
  PROVE  Remaining
<1>1. /\ unstarted \in Nat /\ (pc = "prepare" => unstarted > 0)
      /\ (pc = "prepare" => unstarted - 1 \in Nat)
  BY DEF DataOK
<1>2. ASSUME unstarted' = unstarted, pc' # "prepare" \/ pc' = pc PROVE Remaining
  BY <1>1, <1>2 DEF Remaining
<1>3. ASSUME NEW waiting, BeginTurn(waiting) PROVE Remaining
  BY <1>2, <1>3 DEF BeginTurn
<1>4. ASSUME NEW waiting, NEW delivery, Dispatch(waiting, delivery) PROVE Remaining
  BY <1>2, <1>3, <1>4 DEF Dispatch, BeginRun, turnVars
<1>5. CASE Request
  BY <1>2, <1>4, <1>5 DEF Request, Submit, Resubmit, NotAccepted, Accepted, SteerSession, Stop,
     Driver, turnVars
<1>6. CASE RecordStored \/ StorageBreaks
  BY <1>2, <1>6 DEF RecordStored, StorageBreaks, turnVars
<1>7. CASE RunLoops \/ RunSettles
  BY <1>2, <1>3, <1>7 DEF RunLoops, RunSettles, BeginRun
<1>8. CASE SomeReply
  <2>1. PICK calls \in Calls : StreamDone(calls)
    BY <1>8 DEF SomeReply
  <2>2. calls \in Nat
    BY AgentAssumption
  <2> QED BY <2>1, <2>2 DEF StreamDone, Record, Fail, Remaining
<1>9. CASE CallPrepared \/ PrepareThrows
  BY <1>1, <1>9 DEF CallPrepared, PrepareThrows, Record, Remaining
<1>10. CASE AnswerFlushed
  BY <1>1, <1>10 DEF AnswerFlushed, Record, Remaining
<1>11. CASE TurnReturns
  BY <1>11 DEF TurnReturns, Remaining
<1>12. CASE \/ PreStepEnters \/ PreStepRejects \/ PreStepAdmitsNothing \/ PreStepThrows
            \/ PreStepHandsBack
  BY <1>2, <1>12 DEF PreStepEnters, PreStepRejects, PreStepAdmitsNothing, PreStepThrows,
     PreStepHandsBack, Record, EndTurn, Fail
<1>13. CASE \/ AdmissionFlushed \/ RequestReady \/ RequestThrows \/ StreamSilent
            \/ StreamAborted \/ ProviderFails
  BY <1>2, <1>13 DEF AdmissionFlushed, RequestReady, RequestThrows, StreamSilent,
     StreamAborted, ProviderFails, turnVars, GoOnUnlessStopped, CloseStep, Record, Fail
<1>14. CASE \/ IntentFlushed \/ ToolReturns \/ SkippedFlushed \/ StepClosed
  BY <1>2, <1>14 DEF IntentFlushed, ToolReturns, SkippedFlushed, StepClosed, CloseStep, Record
<1>15. CASE \/ TurnStops \/ TurnStoppingThrows \/ StopClosed \/ ErrorFlushed \/ EndFlushed
            \/ FlushFails \/ RunLeaves
  BY <1>2, <1>15 DEF TurnStops, TurnStoppingThrows, StopClosed, ErrorFlushed, EndFlushed,
     FlushFails, RunLeaves, EndTurn, Record, Fail
<1> QED BY <1>5, <1>6, <1>7, <1>8, <1>9, <1>10, <1>11, <1>12, <1>13, <1>14, <1>15
      DEF Next, Continue, Provider

\* What a request holds on to while it waits.
Asked ==
  /\ request' \in [Inputs -> {"none", "accepting", "accepted", "refused"}]
  /\ stale' \in [Inputs -> Seq(Inputs)]
  /\ begun' \in {begun, Executions}

LEMMA AskedSteps ==
  ASSUME DataOK, Next
  PROVE  Asked
<1>1. /\ request \in [Inputs -> {"none", "accepting", "accepted", "refused"}]
      /\ stale \in [Inputs -> Seq(Inputs)]
  BY DEF DataOK
<1>2. ASSUME UNCHANGED requestVars, begun' \in {begun, Executions} PROVE Asked
  BY <1>1, <1>2 DEF Asked, requestVars
<1>3. CASE Request
  <2>1. ASSUME NEW input \in Inputs, Submit(input) PROVE Asked
    BY <1>1, <2>1, PendingIs DEF Submit, Driver, Asked
  <2>2. ASSUME NEW input \in Inputs, NotAccepted(input) PROVE Asked
    BY <1>1, <2>2 DEF NotAccepted, Driver, Asked
  <2>3. ASSUME NEW input \in Inputs, Accepted(input) PROVE Asked
    BY <1>1, <2>3 DEF Accepted, Asked
  <2>4. ASSUME NEW input \in Inputs, Resubmit(input) PROVE Asked
    BY <1>1, <2>4 DEF Resubmit, Driver, Asked
  <2>5. CASE SteerSession \/ Stop
    BY <1>2, <2>5 DEF SteerSession, Stop
  <2> QED BY <1>3, <2>1, <2>2, <2>3, <2>4, <2>5 DEF Request
<1>4. CASE RecordStored \/ StorageBreaks
  BY <1>2, <1>4 DEF RecordStored, StorageBreaks
<1>5. CASE \/ PreStepEnters \/ PreStepRejects \/ PreStepAdmitsNothing \/ PreStepThrows
           \/ PreStepHandsBack
  BY <1>2, <1>5 DEF PreStepEnters, PreStepRejects, PreStepAdmitsNothing, PreStepThrows,
     PreStepHandsBack, OutsideTurn, OutsideDriver
<1>6. CASE \/ AdmissionFlushed \/ RequestReady \/ RequestThrows \/ StreamSilent
           \/ StreamAborted \/ ProviderFails \/ SomeReply
  BY <1>2, <1>6 DEF AdmissionFlushed, RequestReady, RequestThrows, StreamSilent,
     StreamAborted, ProviderFails, SomeReply, StreamDone, OutsideTurn, OutsideDriver
<1>7. CASE \/ CallPrepared \/ PrepareThrows \/ IntentFlushed \/ ToolReturns
           \/ AnswerFlushed \/ SkippedFlushed \/ StepClosed
  BY <1>2, <1>7 DEF CallPrepared, PrepareThrows, IntentFlushed, ToolReturns,
     AnswerFlushed, SkippedFlushed, StepClosed, OutsideTurn, OutsideDriver
<1>8. CASE \/ TurnStops \/ TurnStoppingThrows \/ StopClosed \/ ErrorFlushed \/ EndFlushed
           \/ FlushFails \/ TurnReturns \/ RunLoops \/ RunLeaves \/ RunSettles
  BY <1>2, <1>8 DEF TurnStops, TurnStoppingThrows, StopClosed, ErrorFlushed, EndFlushed,
     FlushFails, TurnReturns, RunLoops, RunLeaves, RunSettles, OutsideTurn, OutsideDriver
<1> QED BY <1>3, <1>4, <1>5, <1>6, <1>7, <1>8 DEF Next, Continue, Provider

LEMMA TypedInit ==
  ASSUME Init
  PROVE  Typed
<1>1. FlagsOK
  BY DEF Init, FlagsOK
<1>2. DataOK
  <2>1. request \in [Inputs -> {"none", "accepting", "accepted", "refused"}]
    BY DEF Init
  <2>2. stale \in [Inputs -> Seq(Inputs)]
    BY DEF Init
  <2> QED BY <2>1, <2>2, AllPcs DEF Init, DataOK
<1> QED BY <1>1, <1>2 DEF Typed

LEMMA TypedStep ==
  ASSUME Typed, [Next]_vars
  PROVE  Typed'
<1>1. CASE Next
  <2>1. DataOK
    BY DEF Typed
  <2>2. PICK facts \in Seq(Facts) : log' = log \o facts
    BY <1>1, <2>1, LogSteps, GrownLog
  <2>3. log' \in Seq(Facts) /\ Len(log') = Len(log) + Len(facts) /\ Len(log) \in Nat
    BY <2>1, <2>2, ConcatAt DEF DataOK
  <2>4. onDisk' \in 0..Len(log') /\ barrier' \in 0..Len(log') /\ pc' \in Pcs
    BY <1>1, <2>1, <2>3, WaitSteps DEF Waits, DataOK
  <2>5. begun' \in Nat
    BY <1>1, <2>1, AskedSteps, OfTypes DEF Asked, DataOK
  <2>6. DataOK'
    BY <1>1, <2>1, <2>3, <2>4, <2>5, BoxSteps, RemainingSteps, AskedSteps
       DEF DataOK, Boxes, Remaining, Asked
  <2> QED BY <1>1, <2>6, FlagsStep DEF Typed
<1>2. CASE UNCHANGED vars
  BY <1>2 DEF vars, sessionVars, boxVars, turnVars, abortVars, requestVars, Typed, FlagsOK, DataOK
<1> QED BY <1>1, <1>2

-----------------------------------------------------------------------------
(***************************************************************************)
(* The books of a session that can still be written: as many turns have    *)
(* ended as have begun, but for the open one; the calls are numbered       *)
(* without a gap, and each but the one in flight has one answer.           *)
(***************************************************************************)
Ends == Cardinality(Of("turn/end"))

OneAnswer(l, n) == \E r : {s \in At(l, "tool/result") : l[s].of = n} = {r}
AnswersUpTo(l, m) ==
  /\ \A n \in 1..m : OneAnswer(l, n)
  /\ \A r \in At(l, "tool/result") : l[r].of \in 1..m
CallsUpTo(l, m) == \A q \in At(l, "tool/call") : l[q].of \in 1..m

Answered == IF Phase(pc) = "call" THEN Executions - 1 ELSE Executions

Books ==
  ~poisoned =>
    /\ Turns = IF Phase(pc) = "closed" THEN Ends ELSE Ends + 1
    /\ Phase(pc) = "call" => Executions > 0
    /\ CallsUpTo(log, Executions)
    /\ AnswersUpTo(log, Answered)

\* Answers that follow on from those given keep the count.
LEMMA AnswersGrow ==
  ASSUME NEW S, NEW l \in Seq(S), NEW facts \in Seq(S), NEW m \in Nat, NEW more \in Nat,
         AnswersUpTo(l, m),
         \A n \in m + 1 .. m + more : OneAnswer(facts, n),
         \A r \in At(facts, "tool/result") : facts[r].of \in m + 1 .. m + more
  PROVE  AnswersUpTo(l \o facts, m + more)
<1> DEFINE R(s, n) == {i \in At(s, "tool/result") : s[i].of = n}
<1>1. /\ \A p \in 1..Len(l) : (l \o facts)[p] = l[p]
      /\ \A k \in 1..Len(facts) : (l \o facts)[Len(l) + k] = facts[k]
      /\ At(l \o facts, "tool/result")
           = At(l, "tool/result") \cup {Len(l) + k : k \in At(facts, "tool/result")}
  BY AtGrown
<1>2. /\ At(l, "tool/result") \subseteq 1..Len(l)
      /\ At(facts, "tool/result") \subseteq 1..Len(facts)
  BY AtIsFinite
<1>3. /\ \A p \in At(l, "tool/result") : (l \o facts)[p].of = l[p].of /\ l[p].of \in 1..m
      /\ \A k \in At(facts, "tool/result") :
           /\ (l \o facts)[Len(l) + k].of = facts[k].of
           /\ facts[k].of \in m + 1 .. m + more
  BY <1>1, <1>2 DEF AnswersUpTo
<1>4. \A r \in At(l \o facts, "tool/result") : (l \o facts)[r].of \in 1 .. m + more
  <2>1. \A x \in 1..m : x \in 1 .. m + more
    OBVIOUS
  <2>2. \A x \in m + 1 .. m + more : x \in 1 .. m + more
    OBVIOUS
  <2> QED BY <1>1, <1>3, <2>1, <2>2
<1>5. ASSUME NEW n \in 1 .. m + more PROVE OneAnswer(l \o facts, n)
  <2>1. CASE n <= m
    <3>1. n \in 1..m /\ n \notin m + 1 .. m + more
      BY <2>1
    <3>2. R(l \o facts, n) = R(l, n)
      <4>1. ASSUME NEW i \in R(l \o facts, n) PROVE i \in R(l, n)
        <5>1. i \in At(l \o facts, "tool/result") /\ (l \o facts)[i].of = n
          BY <4>1
        <5>2. \A k \in At(facts, "tool/result") : i # Len(l) + k
          BY <1>3, <3>1, <5>1
        <5>3. i \in At(l, "tool/result")
          BY <1>1, <5>1, <5>2
        <5> QED BY <1>3, <5>1, <5>3
      <4>2. ASSUME NEW i \in R(l, n) PROVE i \in R(l \o facts, n)
        BY <1>1, <1>3, <4>2
      <4> HIDE DEF R
      <4> QED BY <4>1, <4>2
    <3> QED BY <3>1, <3>2 DEF AnswersUpTo, OneAnswer
  <2>2. CASE ~(n <= m)
    <3>1. n \notin 1..m /\ n \in m + 1 .. m + more
      BY <2>2
    <3>2. PICK r : R(facts, n) = {r}
      BY <3>1 DEF OneAnswer
    <3>3. \A k : k \in R(facts, n) <=> k = r
      BY <3>2
    <3>4. R(l \o facts, n) = {Len(l) + r}
      <4>1. ASSUME NEW i \in R(l \o facts, n) PROVE i = Len(l) + r
        <5>1. i \in At(l \o facts, "tool/result") /\ (l \o facts)[i].of = n
          BY <4>1
        <5>2. i \notin At(l, "tool/result")
          BY <1>3, <3>1, <5>1
        <5>3. PICK k \in At(facts, "tool/result") : i = Len(l) + k
          BY <1>1, <5>1, <5>2
        <5>4. k \in R(facts, n)
          BY <1>3, <5>1, <5>3
        <5> QED BY <3>3, <5>3, <5>4
      <4>2. Len(l) + r \in R(l \o facts, n)
        <5>1. r \in R(facts, n)
          BY <3>3
        <5>2. r \in At(facts, "tool/result") /\ facts[r].of = n
          BY <5>1
        <5> QED BY <1>1, <1>3, <5>2
      <4> HIDE DEF R
      <4> QED BY <4>1, <4>2
    <3> QED BY <3>4 DEF OneAnswer
  <2> QED BY <2>1, <2>2
<1> QED BY <1>4, <1>5 DEF AnswersUpTo

LEMMA CallsGrow ==
  ASSUME NEW S, NEW l \in Seq(S), NEW facts \in Seq(S), NEW m \in Nat, NEW more \in Nat,
         CallsUpTo(l, m),
         \A q \in At(facts, "tool/call") : facts[q].of \in 1 .. m + more
  PROVE  CallsUpTo(l \o facts, m + more)
<1>1. /\ \A p \in 1..Len(l) : (l \o facts)[p] = l[p]
      /\ \A k \in 1..Len(facts) : (l \o facts)[Len(l) + k] = facts[k]
      /\ At(l \o facts, "tool/call")
           = At(l, "tool/call") \cup {Len(l) + k : k \in At(facts, "tool/call")}
  BY AtGrown
<1>2. /\ At(l, "tool/call") \subseteq 1..Len(l)
      /\ At(facts, "tool/call") \subseteq 1..Len(facts)
  BY AtIsFinite
<1>3. \A x \in 1..m : x \in 1 .. m + more
  OBVIOUS
<1> QED BY <1>1, <1>2, <1>3 DEF CallsUpTo

\* The calls a reply never came to: declared, numbered on, and answered.
LEMMA SkippedIs ==
  ASSUME DataOK
  PROVE  /\ At(Skipped, "turn/start") = {} /\ At(Skipped, "turn/end") = {}
         /\ Cardinality(At(Skipped, "tool/call")) = unstarted
         /\ \A q \in At(Skipped, "tool/call") :
              Skipped[q].of \in Executions + 1 .. Executions + unstarted
         /\ \A r \in At(Skipped, "tool/result") :
              Skipped[r].of \in Executions + 1 .. Executions + unstarted
         /\ \A n \in Executions + 1 .. Executions + unstarted : OneAnswer(Skipped, n)
<1>1. PICK u \in Nat : u = unstarted
  BY DEF DataOK
<1>2. PICK e \in Nat : e = Executions
  BY OfTypes
<1>3. PICK s : s = Skipped
  OBVIOUS
<1>4. s = [k \in 1 .. 2 * u |->
             IF k % 2 = 1 THEN Call(e + (k + 1) \div 2) ELSE Result(e + k \div 2)]
  BY <1>1, <1>2, <1>3 DEF Skipped
<1>5. s \in Seq(Facts)
  BY <1>3, RecordedFacts
<1>6. Len(s) = 2 * u
  <2>1. 2 * u \in Nat /\ DOMAIN s = 1 .. 2 * u
    BY <1>4
  <2>2. DOMAIN s = 1..Len(s) /\ Len(s) \in Nat
    BY <1>5
  <2> QED BY <2>1, <2>2
<1>7. \A j \in 1..u :
        /\ 2 * j - 1 \in 1 .. 2 * u /\ 2 * j \in 1 .. 2 * u
        /\ (2 * j - 1) % 2 = 1 /\ (2 * j) % 2 = 0
        /\ ((2 * j - 1) + 1) \div 2 = j /\ (2 * j) \div 2 = j
  OBVIOUS
<1>8. \A j \in 1..u : s[2 * j - 1] = Call(e + j) /\ s[2 * j] = Result(e + j)
  <2> TAKE j \in 1..u
  <2>1. s[2 * j - 1] = Call(e + ((2 * j - 1) + 1) \div 2)
    BY <1>4, <1>7
  <2>2. s[2 * j] = Result(e + (2 * j) \div 2)
    BY <1>4, <1>7
  <2> QED BY <1>7, <2>1, <2>2
<1>9. \A k \in 1 .. 2 * u : \E j \in 1..u : k = 2 * j - 1 \/ k = 2 * j
  <2> TAKE k \in 1 .. 2 * u
  <2>1. CASE k % 2 = 1
    <3> (k + 1) \div 2 \in 1..u /\ k = 2 * ((k + 1) \div 2) - 1
      BY <2>1
    <3> QED OBVIOUS
  <2>2. CASE k % 2 # 1
    <3> k \div 2 \in 1..u /\ k = 2 * (k \div 2)
      BY <2>2
    <3> QED OBVIOUS
  <2> QED BY <2>1, <2>2
<1>10. \A j \in 1..u : /\ s[2 * j - 1].type = "tool/call" /\ s[2 * j - 1].of = e + j
                      /\ s[2 * j].type = "tool/result" /\ s[2 * j].of = e + j
  BY <1>8, FactTypes DEF Call, Result
<1>11. At(s, "tool/call") = {2 * j - 1 : j \in 1..u}
  <2>1. ASSUME NEW k \in At(s, "tool/call") PROVE \E j \in 1..u : k = 2 * j - 1
    <3>1. k \in 1 .. 2 * u /\ s[k].type = "tool/call"
      BY <1>6, <2>1 DEF At
    <3>2. PICK j \in 1..u : k = 2 * j - 1 \/ k = 2 * j
      BY <1>9, <3>1
    <3> QED BY <1>10, <3>1, <3>2
  <2>2. ASSUME NEW j \in 1..u PROVE 2 * j - 1 \in At(s, "tool/call")
    BY <1>6, <1>7, <1>10 DEF At
  <2> QED BY <2>1, <2>2
<1>12. At(s, "tool/result") = {2 * j : j \in 1..u}
  <2>1. ASSUME NEW k \in At(s, "tool/result") PROVE \E j \in 1..u : k = 2 * j
    <3>1. k \in 1 .. 2 * u /\ s[k].type = "tool/result"
      BY <1>6, <2>1 DEF At
    <3>2. PICK j \in 1..u : k = 2 * j - 1 \/ k = 2 * j
      BY <1>9, <3>1
    <3> QED BY <1>10, <3>1, <3>2
  <2>2. ASSUME NEW j \in 1..u PROVE 2 * j \in At(s, "tool/result")
    BY <1>6, <1>7, <1>10 DEF At
  <2> QED BY <2>1, <2>2
<1>13. At(s, "turn/start") = {} /\ At(s, "turn/end") = {}
  BY <1>6, <1>9, <1>10 DEF At
<1>14. Cardinality(At(s, "tool/call")) = u
  <2> DEFINE odd == {2 * j - 1 : j \in 1..u}
             f == [j \in 1..u |-> 2 * j - 1]
  <2>1. f \in [1..u -> odd] /\ \A v \in odd : \E j \in 1..u : f[j] = v
    OBVIOUS
  <2>2. \A a, b \in 1..u : f[a] = f[b] => a = b
    OBVIOUS
  <2>3. IsFiniteSet(1..u) /\ Cardinality(1..u) = u
    BY FS_Interval
  <2> HIDE DEF f, odd
  <2>4. Cardinality(odd) = u
    BY <2>1, <2>2, <2>3, SameSize
  <2> QED BY <1>11, <2>4 DEF odd
<1>15. \A j \in 1..u : e + j \in e + 1 .. e + u
  OBVIOUS
<1>16. ASSUME NEW n \in e + 1 .. e + u PROVE OneAnswer(s, n)
  <2>1. n - e \in 1..u /\ e + (n - e) = n
    OBVIOUS
  <2>2. \A j \in 1..u : e + j = n => j = n - e
    OBVIOUS
  <2>3. {i \in At(s, "tool/result") : s[i].of = n} = {2 * (n - e)}
    <3>1. ASSUME NEW i \in At(s, "tool/result"), s[i].of = n PROVE i = 2 * (n - e)
      <4>1. PICK j \in 1..u : i = 2 * j
        BY <1>12
      <4>2. e + j = n
        BY <1>10, <3>1, <4>1
      <4> QED BY <2>2, <4>1, <4>2
    <3>2. 2 * (n - e) \in At(s, "tool/result") /\ s[2 * (n - e)].of = n
      BY <1>10, <1>12, <2>1
    <3> QED BY <3>1, <3>2
  <2> QED BY <2>3 DEF OneAnswer
<1>17. /\ \A q \in At(s, "tool/call") : s[q].of \in e + 1 .. e + u
       /\ \A r \in At(s, "tool/result") : s[r].of \in e + 1 .. e + u
  BY <1>10, <1>11, <1>12, <1>15
<1> QED BY <1>1, <1>2, <1>3, <1>13, <1>14, <1>16, <1>17

\* The facts of the other steps, counted.
LEMMA PlainIs ==
  ASSUME NEW facts, Plain(facts)
  PROVE  /\ At(facts, "turn/start") = {} /\ At(facts, "turn/end") = {}
         /\ At(facts, "tool/call") = {} /\ At(facts, "tool/result") = {}
BY DEF Plain, PlainTypes, At

LEMMA OneFact ==
  ASSUME NEW t, NEW n, NEW u
  PROVE  /\ At(<<Fact(t, n)>>, u) = IF t = u THEN {1} ELSE {}
         /\ Cardinality(At(<<Fact(t, n)>>, u)) = IF t = u THEN 1 ELSE 0
         /\ <<Fact(t, n)>>[1].of = n
<1>1. PICK e : e = Fact(t, n)
  OBVIOUS
<1>2. e.type = t /\ e.of = n
  BY <1>1, FactTypes
<1>3. <<e>>[1] = e
  OBVIOUS
<1> QED BY <1>1, <1>2, <1>3, AtShort

LEMMA CallAndResult ==
  ASSUME NEW n \in Nat
  PROVE  /\ At(<<Call(n), Result(n)>>, "tool/call") = {1}
         /\ At(<<Call(n), Result(n)>>, "tool/result") = {2}
         /\ At(<<Call(n), Result(n)>>, "turn/start") = {}
         /\ At(<<Call(n), Result(n)>>, "turn/end") = {}
         /\ <<Call(n), Result(n)>>[1].of = n /\ <<Call(n), Result(n)>>[2].of = n
<1>1. PICK c, r : c = Call(n) /\ r = Result(n)
  OBVIOUS
<1>2. c.type = "tool/call" /\ r.type = "tool/result" /\ c.of = n /\ r.of = n
  BY <1>1, FactTypes DEF Call, Result
<1>3. Len(<<c, r>>) = 2 /\ <<c, r>>[1] = c /\ <<c, r>>[2] = r
  OBVIOUS
<1>4. \A p : p \in 1..2 <=> p = 1 \/ p = 2
  OBVIOUS
<1> QED BY <1>1, <1>2, <1>3, <1>4 DEF At

\* How the counts move with what is recorded.
LEMMA CountsGrow ==
  ASSUME DataOK, NEW facts \in Seq(Facts), log' = log \o facts
  PROVE  /\ Turns' = Turns + Cardinality(At(facts, "turn/start"))
         /\ Ends' = Ends + Cardinality(At(facts, "turn/end"))
         /\ Executions' = Executions + Cardinality(At(facts, "tool/call"))
         /\ \A t : Cardinality(At(facts, t)) \in Nat
         /\ Turns \in Nat /\ Ends \in Nat /\ Executions \in Nat
<1>1. log \in Seq(Facts)
  BY DEF DataOK
<1>2. \A t : /\ Cardinality(At(log \o facts, t))
                  = Cardinality(At(log, t)) + Cardinality(At(facts, t))
             /\ Cardinality(At(facts, t)) \in Nat /\ Cardinality(At(log, t)) \in Nat
  BY <1>1, AtGrown, AtIsFinite
<1>3. /\ Turns' = Cardinality(At(log', "turn/start"))
      /\ Ends' = Cardinality(At(log', "turn/end"))
      /\ Executions' = Cardinality(At(log', "tool/call"))
  BY DEF Turns, Ends, Executions, Of, At
<1>4. /\ Turns = Cardinality(At(log, "turn/start"))
      /\ Ends = Cardinality(At(log, "turn/end"))
      /\ Executions = Cardinality(At(log, "tool/call"))
  BY DEF Turns, Ends, Executions, Of, At
<1> QED BY <1>2, <1>3, <1>4

LEMMA BooksGrow ==
  ASSUME DataOK, Books, NEW facts, Grows(facts),
         NEW calls \in Nat, NEW answers \in Nat,
         Cardinality(At(facts, "tool/call")) = calls,
         \A q \in At(facts, "tool/call") : facts[q].of \in Executions + 1 .. Executions + calls,
         \A n \in Answered + 1 .. Answered + answers : OneAnswer(facts, n),
         \A r \in At(facts, "tool/result") :
           facts[r].of \in Answered + 1 .. Answered + answers
  PROVE  /\ Executions' = Executions + calls /\ Executions \in Nat /\ Answered \in Nat
         /\ CallsUpTo(log', Executions') /\ AnswersUpTo(log', Answered + answers)
<1>1. facts \in Seq(Facts) /\ log' = log \o facts /\ ~poisoned /\ log \in Seq(Facts)
  BY DEF Grows, DataOK
<1>2. Executions' = Executions + calls /\ Executions \in Nat
  BY <1>1, CountsGrow
<1>3. /\ CallsUpTo(log, Executions) /\ AnswersUpTo(log, Answered)
      /\ (Phase(pc) = "call" => Executions > 0)
  BY <1>1 DEF Books
<1>4. Answered \in Nat
  BY <1>2, <1>3 DEF Answered
<1>5. \A x \in Executions + 1 .. Executions + calls : x \in 1 .. Executions + calls
  BY <1>2
<1>6. CallsUpTo(log \o facts, Executions + calls)
  BY <1>1, <1>2, <1>3, <1>5, CallsGrow
<1>7. AnswersUpTo(log \o facts, Answered + answers)
  BY <1>1, <1>3, <1>4, AnswersGrow
<1> QED BY <1>1, <1>2, <1>4, <1>6, <1>7

LEMMA BooksStep ==
  ASSUME DataOK, Books, LogStep
  PROVE  Books'
<1> SUFFICES ASSUME ~poisoned' PROVE Books'
  BY DEF Books
<1>1. CASE Kept
  <2>1. log' = log /\ ~poisoned /\ Phase(pc') = Phase(pc)
    BY <1>1 DEF Kept
  <2>2. Turns' = Turns /\ Ends' = Ends /\ Executions' = Executions
    BY <2>1 DEF Turns, Ends, Executions, Of
  <2>3. Answered' = Answered
    BY <2>1, <2>2 DEF Answered
  <2> QED BY <2>1, <2>2, <2>3 DEF Books
<1>2. ASSUME NEW facts, Grows(facts),
             At(facts, "tool/call") = {}, At(facts, "tool/result") = {}
      PROVE  /\ Executions' = Executions /\ Executions \in Nat /\ Answered \in Nat
             /\ CallsUpTo(log', Executions) /\ AnswersUpTo(log', Answered)
  <2>1. Cardinality(At(facts, "tool/call")) = 0
    BY <1>2, FS_EmptySet
  <2>2. Executions \in Nat /\ Answered \in Nat
    <3>1. Executions \in Nat
      BY OfTypes
    <3>2. Phase(pc) = "call" => Executions > 0
      BY <1>2 DEF Books, Grows
    <3> QED BY <3>1, <3>2 DEF Answered
  <2>3. \A n \in Answered + 1 .. Answered + 0 : OneAnswer(facts, n)
    BY <2>2
  <2>4. /\ Executions' = Executions + 0 /\ CallsUpTo(log', Executions')
        /\ AnswersUpTo(log', Answered + 0)
    BY <1>2, <2>1, <2>3, BooksGrow
  <2>5. Executions + 0 = Executions /\ Answered + 0 = Answered
    BY <2>2
  <2> QED BY <2>2, <2>4, <2>5
<1>3. CASE PlainStep
  <2>1. PICK facts : Grows(facts) /\ Plain(facts) /\ Phase(pc') = Phase(pc)
    BY <1>3 DEF PlainStep
  <2>2. /\ At(facts, "turn/start") = {} /\ At(facts, "turn/end") = {}
        /\ At(facts, "tool/call") = {} /\ At(facts, "tool/result") = {}
    BY <2>1, PlainIs
  <2>3. Turns' = Turns /\ Ends' = Ends
    <3>1. facts \in Seq(Facts) /\ log' = log \o facts
      BY <2>1 DEF Grows
    <3>2. /\ Cardinality(At(facts, "turn/start")) = 0
          /\ Cardinality(At(facts, "turn/end")) = 0
      BY <2>2, FS_EmptySet
    <3> QED BY <3>1, <3>2, CountsGrow
  <2>4. /\ Executions' = Executions
        /\ CallsUpTo(log', Executions) /\ AnswersUpTo(log', Answered)
    BY <1>2, <2>1, <2>2
  <2>5. Answered' = Answered
    BY <2>1, <2>4 DEF Answered
  <2> QED BY <2>1, <2>3, <2>4, <2>5 DEF Books, Grows
<1>4. CASE StartStep
  <2>1. PICK facts : facts = <<Fact("turn/start", Turns + 1)>>
    OBVIOUS
  <2>2. Grows(facts) /\ Phase(pc) = "closed" /\ Phase(pc') = "open"
    BY <1>4, <2>1 DEF StartStep
  <2>3. /\ Cardinality(At(facts, "turn/start")) = 1 /\ Cardinality(At(facts, "turn/end")) = 0
        /\ At(facts, "tool/call") = {} /\ At(facts, "tool/result") = {}
    BY <2>1, OneFact
  <2>4. Turns' = Turns + 1 /\ Ends' = Ends /\ Turns \in Nat /\ Ends \in Nat
    <3>1. facts \in Seq(Facts) /\ log' = log \o facts
      BY <2>2 DEF Grows
    <3> QED BY <2>3, <3>1, CountsGrow
  <2>5. /\ Executions' = Executions
        /\ CallsUpTo(log', Executions) /\ AnswersUpTo(log', Answered)
    BY <1>2, <2>2, <2>3
  <2>6. Answered' = Answered
    BY <2>2, <2>5 DEF Answered
  <2> QED BY <2>2, <2>4, <2>5, <2>6 DEF Books, Grows
<1>5. CASE EndStep
  <2>1. PICK plain \in Seq(Facts) :
          Plain(plain) /\ Grows(plain \o <<Fact("turn/end", Turns)>>)
    BY <1>5 DEF EndStep
  <2>2. PICK last : last = <<Fact("turn/end", Turns)>>
    OBVIOUS
  <2>3. PICK facts : facts = plain \o last
    OBVIOUS
  <2>4. Grows(facts) /\ Phase(pc) = "open" /\ Phase(pc') = "closed"
    BY <1>5, <2>1, <2>2, <2>3 DEF EndStep
  <2>5. last \in Seq(Facts)
    BY <2>2, RecordedFacts, OfTypes DEF TurnTypes
  <2>6. /\ At(plain, "turn/start") = {} /\ At(plain, "turn/end") = {}
        /\ At(plain, "tool/call") = {} /\ At(plain, "tool/result") = {}
    BY <2>1, PlainIs
  <2>7. /\ At(last, "turn/start") = {} /\ At(last, "turn/end") = {1}
        /\ At(last, "tool/call") = {} /\ At(last, "tool/result") = {}
    BY <2>2, OneFact
  <2>8. \A t : At(facts, t) = At(plain, t) \cup {Len(plain) + k : k \in At(last, t)}
    BY <2>3, <2>5, AtGrown
  <2>9. /\ At(facts, "turn/start") = {} /\ At(facts, "turn/end") = {Len(plain) + 1}
        /\ At(facts, "tool/call") = {} /\ At(facts, "tool/result") = {}
    <3>1. \A t : At(last, t) = {} /\ At(plain, t) = {} => At(facts, t) = {}
      BY <2>8
    <3>2. At(facts, "turn/end") = {Len(plain) + 1}
      BY <2>6, <2>7, <2>8
    <3> QED BY <2>6, <2>7, <3>1, <3>2
  <2>10. /\ Cardinality(At(facts, "turn/start")) = 0
         /\ Cardinality(At(facts, "turn/end")) = 1
    BY <2>9, FS_EmptySet, FS_Singleton
  <2>11. Turns' = Turns /\ Ends' = Ends + 1 /\ Turns \in Nat /\ Ends \in Nat
    <3>1. facts \in Seq(Facts) /\ log' = log \o facts
      BY <2>4 DEF Grows
    <3> QED BY <2>10, <3>1, CountsGrow
  <2>12. /\ Executions' = Executions
         /\ CallsUpTo(log', Executions) /\ AnswersUpTo(log', Answered)
    BY <1>2, <2>4, <2>9
  <2>13. Answered' = Answered
    BY <2>4, <2>12 DEF Answered
  <2> QED BY <2>4, <2>11, <2>12, <2>13 DEF Books, Grows
<1>6. ASSUME NEW facts, Grows(facts), At(facts, "turn/start") = {}, At(facts, "turn/end") = {},
             (Phase(pc) = "closed") = (Phase(pc') = "closed")
      PROVE  Turns' = IF Phase(pc') = "closed" THEN Ends' ELSE Ends' + 1
  <2>1. facts \in Seq(Facts) /\ log' = log \o facts /\ ~poisoned
    BY <1>6 DEF Grows
  <2>2. Turns' = Turns /\ Ends' = Ends
    <3>1. /\ Cardinality(At(facts, "turn/start")) = 0
          /\ Cardinality(At(facts, "turn/end")) = 0
      BY <1>6, FS_EmptySet
    <3> QED BY <2>1, <3>1, CountsGrow
  <2>3. Turns = IF Phase(pc) = "closed" THEN Ends ELSE Ends + 1
    BY <2>1 DEF Books
  <2> QED BY <1>6, <2>2, <2>3
<1>7. Executions \in Nat
  BY OfTypes
<1>8. CASE CallStep
  <2>1. PICK facts : facts = <<Call(Executions + 1)>>
    OBVIOUS
  <2>2. Grows(facts) /\ Phase(pc) = "open" /\ Phase(pc') = "call"
    BY <1>8, <2>1 DEF CallStep
  <2>3. Answered = Executions
    BY <2>2 DEF Answered
  <2>4. /\ At(facts, "turn/start") = {} /\ At(facts, "turn/end") = {}
        /\ At(facts, "tool/call") = {1} /\ At(facts, "tool/result") = {}
        /\ Cardinality(At(facts, "tool/call")) = 1 /\ facts[1].of = Executions + 1
    BY <2>1, OneFact DEF Call
  <2>5. Executions + 1 \in Executions + 1 .. Executions + 1
    BY <1>7
  <2>6. \A n \in Executions + 1 .. Executions + 0 : OneAnswer(facts, n)
    BY <1>7
  <2>7. /\ Executions' = Executions + 1 /\ CallsUpTo(log', Executions')
        /\ AnswersUpTo(log', Answered + 0)
    <3>1. /\ \A q \in At(facts, "tool/call") :
               facts[q].of \in Executions + 1 .. Executions + 1
          /\ \A n \in Answered + 1 .. Answered + 0 : OneAnswer(facts, n)
          /\ \A r \in At(facts, "tool/result") :
               facts[r].of \in Answered + 1 .. Answered + 0
      BY <2>3, <2>4, <2>5, <2>6
    <3> QED BY <2>2, <2>4, <3>1, BooksGrow
  <2>8. Answered' = Answered + 0 /\ Executions' > 0
    BY <1>7, <2>2, <2>3, <2>7 DEF Answered
  <2> QED BY <1>6, <2>2, <2>4, <2>7, <2>8 DEF Books, Grows
<1>9. CASE CallResultStep
  <2>1. PICK facts : facts = <<Call(Executions + 1), Result(Executions + 1)>>
    OBVIOUS
  <2>2. Grows(facts) /\ Phase(pc) = "open" /\ Phase(pc') = "open"
    BY <1>9, <2>1 DEF CallResultStep
  <2>3. Answered = Executions
    BY <2>2 DEF Answered
  <2>4. /\ At(facts, "turn/start") = {} /\ At(facts, "turn/end") = {}
        /\ At(facts, "tool/call") = {1} /\ At(facts, "tool/result") = {2}
        /\ facts[1].of = Executions + 1 /\ facts[2].of = Executions + 1
    BY <1>7, <2>1, CallAndResult
  <2>5. \A n : n \in Executions + 1 .. Executions + 1 <=> n = Executions + 1
    BY <1>7
  <2>6. Cardinality(At(facts, "tool/call")) = 1
    BY <2>4, FS_Singleton
  <2>7. OneAnswer(facts, Executions + 1)
    <3>1. {s \in At(facts, "tool/result") : facts[s].of = Executions + 1} = {2}
      BY <2>4
    <3> QED BY <3>1 DEF OneAnswer
  <2>8. /\ Executions' = Executions + 1 /\ CallsUpTo(log', Executions')
        /\ AnswersUpTo(log', Answered + 1)
    <3>1. /\ \A q \in At(facts, "tool/call") :
               facts[q].of \in Executions + 1 .. Executions + 1
          /\ \A n \in Answered + 1 .. Answered + 1 : OneAnswer(facts, n)
          /\ \A r \in At(facts, "tool/result") :
               facts[r].of \in Answered + 1 .. Answered + 1
      BY <2>3, <2>4, <2>5, <2>7
    <3> QED BY <2>2, <2>6, <3>1, BooksGrow
  <2>9. Answered' = Answered + 1
    BY <2>2, <2>3, <2>8 DEF Answered
  <2> QED BY <1>6, <2>2, <2>4, <2>8, <2>9 DEF Books, Grows
<1>10. CASE ResultStep
  <2>1. PICK facts : facts = <<Result(Executions)>>
    OBVIOUS
  <2>2. Grows(facts) /\ Phase(pc) = "call" /\ Phase(pc') = "open"
    BY <1>10, <2>1 DEF ResultStep
  <2>3. Answered = Executions - 1 /\ Executions > 0
    BY <2>2 DEF Answered, Books, Grows
  <2>4. /\ At(facts, "turn/start") = {} /\ At(facts, "turn/end") = {}
        /\ At(facts, "tool/call") = {} /\ At(facts, "tool/result") = {1}
        /\ Cardinality(At(facts, "tool/call")) = 0 /\ facts[1].of = Executions
    BY <2>1, OneFact DEF Result
  <2>5. \A n : n \in Answered + 1 .. Answered + 1 <=> n = Executions
    BY <1>7, <2>3
  <2>6. OneAnswer(facts, Executions)
    <3>1. {s \in At(facts, "tool/result") : facts[s].of = Executions} = {1}
      BY <2>4
    <3> QED BY <3>1 DEF OneAnswer
  <2>7. /\ Executions' = Executions + 0 /\ CallsUpTo(log', Executions')
        /\ AnswersUpTo(log', Answered + 1)
    <3>1. /\ \A q \in At(facts, "tool/call") :
               facts[q].of \in Executions + 1 .. Executions + 0
          /\ \A n \in Answered + 1 .. Answered + 1 : OneAnswer(facts, n)
          /\ \A r \in At(facts, "tool/result") :
               facts[r].of \in Answered + 1 .. Answered + 1
      BY <2>4, <2>5, <2>6
    <3>2. Grows(facts) /\ Cardinality(At(facts, "tool/call")) = 0 /\ 0 \in Nat /\ 1 \in Nat
      BY <2>2, <2>4
    <3> QED BY <3>1, <3>2, BooksGrow
  <2>8. Answered' = Answered + 1
    BY <1>7, <2>2, <2>3, <2>7 DEF Answered
  <2> QED BY <1>6, <2>2, <2>4, <2>7, <2>8 DEF Books, Grows
<1>11. CASE SkippedStep
  <2>1. Grows(Skipped) /\ Phase(pc) = "open" /\ Phase(pc') = "open"
    BY <1>11 DEF SkippedStep
  <2>2. Answered = Executions
    BY <2>1 DEF Answered
  <2>3. unstarted \in Nat
    BY DEF DataOK
  <2>4. /\ Executions' = Executions + unstarted /\ CallsUpTo(log', Executions')
        /\ AnswersUpTo(log', Answered + unstarted)
    BY <2>1, <2>2, <2>3, SkippedIs, BooksGrow
  <2>5. Answered' = Answered + unstarted
    BY <2>1, <2>2, <2>4 DEF Answered
  <2>6. Turns' = IF Phase(pc') = "closed" THEN Ends' ELSE Ends' + 1
    BY <1>6, <2>1, SkippedIs
  <2> QED BY <2>1, <2>4, <2>5, <2>6 DEF Books
<1> QED BY <1>1, <1>3, <1>4, <1>5, <1>8, <1>9, <1>10, <1>11 DEF LogStep

-----------------------------------------------------------------------------
(* TranscriptCloses: a turn that has ended stays closed, and ends closed. *)

BalancedAt(l, p) ==
  /\ Cardinality({q \in At(l, "turn/start") : q < p}) = l[p].of
  /\ Cardinality({q \in At(l, "turn/end") : q <= p}) = l[p].of
  /\ \A q \in At(l, "tool/call") : q < p =>
       Cardinality({r \in At(l, "tool/result") : r < p /\ l[r].of = l[q].of}) = 1

LEMMA ClosedStays ==
  ASSUME NEW S, NEW l \in Seq(S), NEW facts \in Seq(S), NEW p \in 1..Len(l), BalancedAt(l, p)
  PROVE  BalancedAt(l \o facts, p)
<1>1. \A q \in 1..Len(l) : (l \o facts)[q] = l[q]
  BY AtGrown
<1>2. \A t : {q \in At(l \o facts, t) : q < p} = {q \in At(l, t) : q < p}
  BY GrownBefore
<1>3. \A t : {q \in At(l \o facts, t) : q <= p} = {q \in At(l, t) : q <= p}
  BY GrownBefore
<1>4. \A t : At(l, t) \subseteq 1..Len(l)
  BY AtIsFinite
<1>5. ASSUME NEW q \in At(l \o facts, "tool/call"), q < p
      PROVE  Cardinality({r \in At(l \o facts, "tool/result") :
                            r < p /\ (l \o facts)[r].of = (l \o facts)[q].of}) = 1
  <2>1. q \in {i \in At(l, "tool/call") : i < p}
    BY <1>2, <1>5
  <2>2. q \in At(l, "tool/call") /\ (l \o facts)[q] = l[q]
    BY <1>1, <1>4, <2>1
  <2>3. ASSUME NEW r
        PROVE  r \in At(l \o facts, "tool/result") /\ r < p
                 <=> r \in At(l, "tool/result") /\ r < p
    BY <1>2
  <2>4. \A r \in At(l, "tool/result") : (l \o facts)[r] = l[r]
    BY <1>1, <1>4
  <2>5. {r \in At(l \o facts, "tool/result") :
           r < p /\ (l \o facts)[r].of = (l \o facts)[q].of}
          = {r \in At(l, "tool/result") : r < p /\ l[r].of = l[q].of}
    BY <2>2, <2>3, <2>4
  <2> QED BY <1>5, <2>2, <2>5 DEF BalancedAt
<1> QED BY <1>1, <1>2, <1>3, <1>5 DEF BalancedAt

LEMMA ClosedIs ==
  TranscriptCloses <=> \A p \in At(log, "turn/end") : BalancedAt(log, p)
BY DEF TranscriptCloses, BalancedAt, Of, At

LEMMA ClosedNext ==
  TranscriptCloses' <=> \A p \in At(log', "turn/end") : BalancedAt(log', p)
BY DEF TranscriptCloses, BalancedAt, Of, At

LEMMA AtJoined ==
  ASSUME NEW S, NEW l \in Seq(S), NEW facts \in Seq(S), NEW t
  PROVE  /\ At(facts, t) = {} => At(l \o facts, t) = At(l, t)
         /\ At(l, t) = {} /\ At(facts, t) = {1} => At(l \o facts, t) = {Len(l) + 1}
         /\ At(facts, t) = {Len(facts)}
              => At(l \o facts, t) = At(l, t) \cup {Len(l) + Len(facts)}
<1>1. At(l \o facts, t) = At(l, t) \cup {Len(l) + k : k \in At(facts, t)}
  BY AtGrown
<1>2. \A k : At(facts, t) = {k} => {Len(l) + i : i \in At(facts, t)} = {Len(l) + k}
  OBVIOUS
<1>3. At(facts, t) = {} => {Len(l) + i : i \in At(facts, t)} = {}
  OBVIOUS
<1> QED BY <1>1, <1>2, <1>3

\* What is recorded at the end of a turn.
LEMMA EndFacts ==
  ASSUME DataOK, NEW plain \in Seq(Facts), Plain(plain), NEW last \in Seq(Facts),
         last = <<Fact("turn/end", Turns)>>
  PROVE  /\ plain \o last \in Seq(Facts) /\ Len(plain \o last) \in 1..Len(plain \o last)
         /\ (plain \o last)[Len(plain \o last)].of = Turns
         /\ At(plain \o last, "turn/start") = {} /\ At(plain \o last, "tool/call") = {}
         /\ At(plain \o last, "tool/result") = {}
         /\ At(plain \o last, "turn/end") = {Len(plain \o last)}
<1>1. /\ Len(last) = 1 /\ last[1].of = Turns
      /\ At(last, "turn/start") = {} /\ At(last, "turn/end") = {1}
      /\ At(last, "tool/call") = {} /\ At(last, "tool/result") = {}
  BY OneFact
<1>2. /\ At(plain, "turn/start") = {} /\ At(plain, "turn/end") = {}
      /\ At(plain, "tool/call") = {} /\ At(plain, "tool/result") = {}
  BY PlainIs
<1>3. PICK b \in Seq(Facts) : b = last
  OBVIOUS
<1>4. /\ plain \o b \in Seq(Facts) /\ Len(plain \o b) = Len(plain) + Len(b)
      /\ \A k \in 1..Len(b) : (plain \o b)[Len(plain) + k] = b[k]
  BY <1>3, ConcatAt
<1>5. \A t : /\ At(b, t) = {} => At(plain \o b, t) = At(plain, t)
             /\ At(plain, t) = {} /\ At(b, t) = {1} => At(plain \o b, t) = {Len(plain) + 1}
  BY AtJoined
<1>6. Len(plain) + 1 \in 1 .. Len(plain) + 1
  OBVIOUS
<1> QED BY <1>1, <1>2, <1>3, <1>4, <1>5, <1>6

\* The end that is being recorded finds the books balanced.
LEMMA ClosesNow ==
  ASSUME DataOK, Books, NEW facts \in Seq(Facts), Grows(facts), Phase(pc) = "open",
         Len(facts) \in 1..Len(facts), facts[Len(facts)].of = Turns,
         At(facts, "turn/start") = {}, At(facts, "tool/call") = {},
         At(facts, "tool/result") = {}, At(facts, "turn/end") = {Len(facts)}
  PROVE  BalancedAt(log', Len(log) + Len(facts))
<1> DEFINE end == Len(log) + Len(facts)
<1>1. log' = log \o facts /\ log \in Seq(Facts) /\ ~poisoned
  BY DEF Grows, DataOK
<1>2. /\ \A p \in 1..Len(log) : log'[p] = log[p]
      /\ \A k \in 1..Len(facts) : log'[Len(log) + k] = facts[k]
  BY <1>1, AtGrown
<1>3. log'[end].of = Turns
  BY <1>2
<1>4. /\ At(log', "turn/start") = At(log, "turn/start")
       /\ At(log', "tool/call") = At(log, "tool/call")
       /\ At(log', "tool/result") = At(log, "tool/result")
       /\ At(log', "turn/end") = At(log, "turn/end") \cup {end}
  <2>1. \A t : At(facts, t) = {} => At(log \o facts, t) = At(log, t)
    BY <1>1, AtJoined
  <2>2. At(log \o facts, "turn/end") = At(log, "turn/end") \cup {Len(log) + Len(facts)}
    BY <1>1, AtJoined
  <2> QED BY <1>1, <2>1, <2>2
<1>5. \A t : At(log, t) \subseteq 1..Len(log) /\ IsFiniteSet(At(log, t))
  BY <1>1, AtIsFinite
<1>6. \A q \in 1..Len(log) : q < end /\ q <= end /\ q # end
  BY <1>1
<1>7. /\ Turns = Ends + 1 /\ CallsUpTo(log, Executions) /\ AnswersUpTo(log, Executions)
       /\ Ends \in Nat
  <2>1. Ends \in Nat
    BY <1>1, CountsGrow
  <2> QED BY <1>1, <2>1 DEF Books, Answered
<1>8. Cardinality({q \in At(log', "turn/start") : q < end}) = Turns
  <2>1. {q \in At(log', "turn/start") : q < end} = At(log, "turn/start")
    BY <1>4, <1>5, <1>6
  <2> QED BY <2>1, OfIsAt DEF Turns
<1>9. Cardinality({q \in At(log', "turn/end") : q <= end}) = Turns
  <2>1. {q \in At(log', "turn/end") : q <= end} = At(log, "turn/end") \cup {end}
    <3>1. end <= end
      BY <1>1
    <3> QED BY <1>4, <1>5, <1>6, <3>1
  <2>2. end \notin At(log, "turn/end")
    BY <1>5, <1>6
  <2>3. Cardinality(At(log, "turn/end") \cup {end}) = Ends + 1
    BY <1>5, <2>2, FS_AddElement, OfIsAt DEF Ends
  <2> QED BY <1>7, <2>1, <2>3
<1>10. ASSUME NEW q \in At(log', "tool/call")
       PROVE  Cardinality({r \in At(log', "tool/result") :
                             r < end /\ log'[r].of = log'[q].of}) = 1
  <2>1. q \in At(log, "tool/call") /\ log'[q] = log[q]
    BY <1>2, <1>4, <1>5, <1>10
  <2>2. log[q].of \in 1..Executions
    BY <1>7, <2>1 DEF CallsUpTo
  <2>3. PICK a : {r \in At(log, "tool/result") : log[r].of = log[q].of} = {a}
    BY <1>7, <2>2 DEF AnswersUpTo, OneAnswer
  <2>4. \A r \in At(log, "tool/result") : log'[r] = log[r] /\ r < end
    BY <1>2, <1>5, <1>6
  <2>5. {r \in At(log', "tool/result") : r < end /\ log'[r].of = log'[q].of} = {a}
    BY <1>4, <2>1, <2>3, <2>4
  <2> QED BY <2>5, FS_Singleton
<1> QED BY <1>3, <1>8, <1>9, <1>10 DEF BalancedAt

LEMMA ClosesStep ==
  ASSUME DataOK, Books, TranscriptCloses, LogStep
  PROVE  TranscriptCloses'
<1>1. CASE log' = log
  BY <1>1, ClosedIs, ClosedNext
<1>2. log \in Seq(Facts) /\ At(log, "turn/end") \subseteq 1..Len(log)
  BY AtIsFinite DEF DataOK
<1>3. ASSUME NEW facts, Grows(facts),
             \A k \in At(facts, "turn/end") : BalancedAt(log', Len(log) + k)
      PROVE  TranscriptCloses'
  <2>1. facts \in Seq(Facts) /\ log' = log \o facts
    BY <1>3 DEF Grows
  <2>2. At(log', "turn/end")
          = At(log, "turn/end") \cup {Len(log) + k : k \in At(facts, "turn/end")}
    BY <1>2, <2>1, AtGrown
  <2>3. \A p \in At(log, "turn/end") : BalancedAt(log', p)
    BY <1>2, <2>1, ClosedStays, ClosedIs
  <2> QED BY <1>3, <2>2, <2>3, ClosedNext
<1>4. ASSUME NEW facts, Grows(facts), At(facts, "turn/end") = {} PROVE TranscriptCloses'
  BY <1>3, <1>4
<1>5. CASE PlainStep
  BY <1>4, <1>5, PlainIs DEF PlainStep
<1>6. CASE StartStep
  BY <1>4, <1>6, OneFact DEF StartStep
<1>7. CASE EndStep
  <2>1. PICK plain \in Seq(Facts) :
          Plain(plain) /\ Grows(plain \o <<Fact("turn/end", Turns)>>)
    BY <1>7 DEF EndStep
  <2>2. PICK last \in Seq(Facts) : last = <<Fact("turn/end", Turns)>>
    BY RecordedFacts, OfTypes DEF TurnTypes
  <2>3. PICK facts : facts = plain \o last
    OBVIOUS
  <2>4. Phase(pc) = "open" /\ Grows(facts)
    BY <1>7, <2>1, <2>2, <2>3 DEF EndStep
  <2>5. /\ facts \in Seq(Facts) /\ Len(facts) \in 1..Len(facts)
        /\ facts[Len(facts)].of = Turns
        /\ At(facts, "turn/start") = {} /\ At(facts, "tool/call") = {}
        /\ At(facts, "tool/result") = {} /\ At(facts, "turn/end") = {Len(facts)}
    BY <2>1, <2>2, <2>3, EndFacts
  <2>6. BalancedAt(log', Len(log) + Len(facts))
    BY <2>4, <2>5, ClosesNow
  <2> QED BY <1>3, <2>4, <2>5, <2>6
<1>8. CASE CallStep
  BY <1>4, <1>8, OneFact DEF CallStep, Call
<1>9. CASE CallResultStep
  <2>1. Executions + 1 \in Nat
    BY OfTypes
  <2> QED BY <1>4, <1>9, <2>1, CallAndResult DEF CallResultStep
<1>10. CASE ResultStep
  BY <1>4, <1>10, OneFact DEF ResultStep, Result
<1>11. CASE SkippedStep
  BY <1>4, <1>11, SkippedIs DEF SkippedStep
<1> QED BY <1>1, <1>5, <1>6, <1>7, <1>8, <1>9, <1>10, <1>11 DEF LogStep, Kept

-----------------------------------------------------------------------------
(* IntentBeforeEffect: what the driver waits for before a body begins. *)

IntentKnown ==
  pc = "intent" => \E p \in Of("tool/call") : log[p].of = Executions /\ p <= barrier

LEMMA IntentSteps ==
  ASSUME Next, pc' = "intent"
  PROVE  CallPrepared \/ (pc = "intent" /\ barrier' = barrier)
<1>1. ASSUME NEW waiting, BeginTurn(waiting) PROVE FALSE
  BY <1>1 DEF BeginTurn
<1>2. ASSUME NEW facts, NEW await, NEW how, Record(facts, await, how), await # "intent"
      PROVE  FALSE
  BY <1>2 DEF Record
<1>3. CASE \/ PreStepHandsBack \/ PreStepEnters \/ PreStepRejects \/ PreStepAdmitsNothing
           \/ PreStepThrows
  BY <1>2, <1>3 DEF PreStepHandsBack, PreStepEnters, PreStepRejects, PreStepAdmitsNothing,
     PreStepThrows, EndTurn, Fail
<1>4. CASE \/ AdmissionFlushed \/ RequestReady \/ RequestThrows \/ StreamAborted
           \/ ProviderFails \/ StreamSilent
  BY <1>2, <1>4 DEF AdmissionFlushed, RequestReady, RequestThrows, StreamAborted,
     ProviderFails, StreamSilent, GoOnUnlessStopped, CloseStep, Fail, turnVars
<1>5. CASE SomeReply
  BY <1>2, <1>5 DEF SomeReply, StreamDone, Fail
<1>6. CASE \/ PrepareThrows \/ IntentFlushed \/ ToolReturns \/ AnswerFlushed
           \/ SkippedFlushed \/ StepClosed
  BY <1>2, <1>6 DEF PrepareThrows, IntentFlushed, ToolReturns, AnswerFlushed,
     SkippedFlushed, StepClosed, CloseStep
<1>7. CASE \/ TurnStops \/ TurnStoppingThrows \/ StopClosed \/ ErrorFlushed \/ EndFlushed
           \/ FlushFails \/ TurnReturns \/ RunLeaves
  BY <1>2, <1>7 DEF TurnStops, TurnStoppingThrows, StopClosed, ErrorFlushed, EndFlushed,
     FlushFails, TurnReturns, RunLeaves, EndTurn, Fail
<1>8. CASE RunLoops \/ RunSettles
  BY <1>1, <1>8 DEF RunLoops, RunSettles, BeginRun
<1>9. ASSUME NEW waiting, NEW delivery, Dispatch(waiting, delivery)
      PROVE  pc = "intent" /\ barrier' = barrier
  BY <1>1, <1>9 DEF Dispatch, BeginRun, turnVars
<1>10. CASE Request
  BY <1>9, <1>10 DEF Request, Submit, Resubmit, NotAccepted, Accepted, SteerSession, Stop,
     Driver, turnVars
<1>11. CASE RecordStored \/ StorageBreaks
  BY <1>11 DEF RecordStored, StorageBreaks, turnVars
<1> QED BY <1>3, <1>4, <1>5, <1>6, <1>7, <1>8, <1>10, <1>11 DEF Next, Continue, Provider

LEMMA KnownStep ==
  ASSUME DataOK, IntentKnown, Next
  PROVE  IntentKnown'
<1> SUFFICES ASSUME pc' = "intent"
             PROVE  \E p \in Of("tool/call")' : log'[p].of = Executions' /\ p <= barrier'
  BY DEF IntentKnown
<1>1. Executions \in Nat /\ log \in Seq(Facts) /\ \A t : Of(t) = At(log, t) /\ Of(t)' = At(log', t)
  BY OfTypes DEF DataOK, Of, At
<1>2. CASE CallPrepared
  <2>1. PICK facts \in Seq(Facts) : facts = <<Call(Executions + 1)>>
    <3>1. Executions + 1 \in Nat
      BY <1>1
    <3>2. <<Call(Executions + 1)>> \in Seq(Facts)
      BY <3>1, RecordedFacts
    <3> QED BY <3>2
  <2>2. pc = "prepare" /\ poisoned' = poisoned /\ Record(facts, "intent", outcome)
    BY <1>2, <2>1 DEF CallPrepared, OutsideTurn
  <2>3. log' = log \o facts /\ barrier' = Len(log')
    BY <2>2 DEF Record
  <2>4. /\ At(facts, "tool/call") = {1} /\ Cardinality(At(facts, "tool/call")) = 1
        /\ facts[1].of = Executions + 1 /\ Len(facts) = 1
    BY <2>1, OneFact DEF Call
  <2>5. /\ Len(log') = Len(log) + 1 /\ log'[Len(log) + 1] = facts[1]
        /\ Len(log) + 1 \in At(log', "tool/call")
    <3>1. PICK s \in Seq(Facts) : s = facts
      BY <2>1
    <3>2. Len(s) = 1 /\ 1 \in 1..Len(s) /\ At(s, "tool/call") = {1}
      BY <2>4, <3>1
    <3>3. /\ Len(log \o s) = Len(log) + Len(s)
          /\ \A k \in 1..Len(s) : (log \o s)[Len(log) + k] = s[k]
          /\ At(log \o s, "tool/call")
               = At(log, "tool/call") \cup {Len(log) + k : k \in At(s, "tool/call")}
      BY <1>1, AtGrown
    <3>4. /\ Len(log \o s) = Len(log) + 1 /\ (log \o s)[Len(log) + 1] = s[1]
          /\ Len(log) + 1 \in At(log \o s, "tool/call")
      BY <3>2, <3>3
    <3>5. log' = log \o s
      BY <2>3, <3>1
    <3> QED BY <3>1, <3>4, <3>5
  <2>6. Executions' = Executions + 1
    BY <2>1, <2>3, <2>4, CountsGrow
  <2>7. /\ Len(log) + 1 \in At(log', "tool/call") /\ Len(log) + 1 <= barrier'
        /\ log'[Len(log) + 1].of = Executions'
    BY <1>1, <2>3, <2>4, <2>5, <2>6
  <2> QED BY <1>1, <2>7
<1>3. CASE ~CallPrepared
  <2>1. pc = "intent" /\ barrier' = barrier
    BY <1>3, IntentSteps
  <2>2. PICK p \in At(log, "tool/call") : log[p].of = Executions /\ p <= barrier
    BY <1>1, <2>1 DEF IntentKnown
  <2>3. Phase(pc) = "call" /\ Phase(pc') = "call"
    BY <2>1, PhaseOf
  <2>4. Kept \/ PlainStep
    BY <2>3, LogSteps DEF LogStep, StartStep, EndStep, CallStep, CallResultStep, ResultStep,
       SkippedStep
  <2>5. CASE log' = log
    <3>1. Executions' = Executions
      BY <2>5 DEF Executions, Of
    <3> QED BY <1>1, <2>1, <2>2, <2>5, <3>1
  <2>6. ASSUME NEW facts, Grows(facts), Plain(facts)
        PROVE  \E i \in At(log', "tool/call") : log'[i].of = Executions' /\ i <= barrier'
    <3>1. facts \in Seq(Facts) /\ log' = log \o facts
      BY <2>6 DEF Grows
    <3>2. Cardinality(At(facts, "tool/call")) = 0
      BY <2>6, PlainIs, FS_EmptySet
    <3>3. Executions' = Executions
      BY <1>1, <3>1, <3>2, CountsGrow
    <3>4. p \in At(log', "tool/call") /\ log'[p] = log[p]
      BY <1>1, <3>1, AtGrown, AtIsFinite
    <3> QED BY <2>1, <2>2, <3>3, <3>4
  <2> QED BY <1>1, <2>4, <2>5, <2>6 DEF Kept, PlainStep
<1> QED BY <1>2, <1>3

LEMMA BegunSteps ==
  ASSUME Next, begun' # begun
  PROVE  IntentFlushed /\ begun' = Executions
<1>1. CASE Request
  BY <1>1 DEF Request, Submit, Resubmit, NotAccepted, Accepted, SteerSession, Stop, Driver
<1>2. CASE Continue
  BY <1>2 DEF Continue, PreStepHandsBack, PreStepEnters, PreStepRejects,
     PreStepAdmitsNothing, PreStepThrows, AdmissionFlushed, RequestReady, RequestThrows,
     StreamSilent, StreamAborted, CallPrepared, PrepareThrows, IntentFlushed, ToolReturns,
     AnswerFlushed, SkippedFlushed, StepClosed, TurnStops, TurnStoppingThrows, StopClosed,
     ErrorFlushed, EndFlushed, FlushFails, TurnReturns, RunLoops, RunLeaves, RunSettles
<1>3. CASE Provider \/ RecordStored \/ StorageBreaks
  BY <1>3 DEF Provider, SomeReply, StreamDone, ProviderFails, RecordStored, StorageBreaks
<1> QED BY <1>1, <1>2, <1>3 DEF Next

LEMMA EffectStep ==
  ASSUME DataOK, IntentKnown, IntentBeforeEffect, Next
  PROVE  IntentBeforeEffect'
<1> SUFFICES ASSUME begun' > 0
             PROVE  \E p \in Of("tool/call")' : log'[p].of = begun' /\ p <= onDisk'
  BY DEF IntentBeforeEffect
<1>1. /\ log \in Seq(Facts) /\ onDisk \in 0..Len(log) /\ barrier \in 0..Len(log)
      /\ \A t : Of(t) = At(log, t) /\ Of(t)' = At(log', t)
  BY DEF DataOK, Of, At
<1>2. PICK p \in At(log, "tool/call") : log[p].of = begun' /\ p <= onDisk
  <2>1. CASE begun' = begun
    BY <1>1, <2>1 DEF IntentBeforeEffect
  <2>2. CASE begun' # begun
    <3>1. IntentFlushed /\ begun' = Executions
      BY <2>2, BegunSteps
    <3>2. pc = "intent" /\ barrier <= onDisk
      BY <3>1 DEF IntentFlushed, Flushed
    <3>3. PICK p \in At(log, "tool/call") : log[p].of = Executions /\ p <= barrier
      BY <1>1, <3>2 DEF IntentKnown
    <3>4. p \in Nat
      BY <1>1, AtIsFinite
    <3> QED BY <1>1, <3>1, <3>2, <3>3, <3>4
  <2> QED BY <2>1, <2>2
<1>3. PICK facts \in Seq(Facts) : log' = log \o facts
  BY LogSteps, GrownLog
<1>4. p \in At(log', "tool/call") /\ log'[p] = log[p] /\ p \in Nat
  BY <1>1, <1>3, AtGrown, AtIsFinite
<1>5. onDisk' \in Nat /\ onDisk <= onDisk'
  BY <1>1, WaitSteps DEF Waits
<1> QED BY <1>1, <1>2, <1>4, <1>5

-----------------------------------------------------------------------------
(***************************************************************************)
(* StopNeverAdvances and NothingStranded: what the intents of the user     *)
(* have left behind wherever the driver is, and how a run may be left.     *)
(***************************************************************************)
Over == {"completed", "rejected", "empty", "failed", "cancelled", "steered"}
Left == pc = "exit" /\ leaving = "threw"

Causes ==
  /\ cause \in {"stop", "inactivity"} /\ leaving \in {"drained", "stopped", "threw"}
  /\ pc = "idle" => ~aborted /\ ~steering
  /\ steering => aborted

\* A stop holds until the user sends or steers again; an abort is the user's unless
\* the stream went silent, and then the turn fails.
Intent ==
  /\ quiet /\ pc # "idle" => aborted /\ ~steering
  /\ aborted /\ cause = "stop" /\ ~steering => quiet
  /\ aborted /\ cause = "inactivity" =>
       \/ pc = "stream"
       \/ pc \in {"errorNoted", "failedEnd", "return", "loop", "exit"} /\ outcome = "failed"

\* A run is left with its turn over, for a reason that still holds.
Leaving ==
  /\ pc \in {"turnEnd", "failedEnd", "return", "loop"} => outcome \in Over
  /\ pc = "errorNoted" => outcome = "failed"
  /\ pc = "exit" /\ leaving # "threw" => outcome \in Over
  /\ pc = "exit" /\ leaving = "stopped" => outcome \notin Closes \/ aborted
  /\ pc = "exit" /\ leaving = "drained" => outcome \in Closes
  /\ outcome = "steered" /\ pc # "idle" /\ ~Left => steering \/ quiet

StopInv == Causes /\ Intent /\ Leaving

LEMMA RecordPlaces ==
  ASSUME NEW facts, NEW await, NEW how, Record(facts, await, how)
  PROVE  \/ pc' = "return" /\ outcome' = "failed"
         \/ pc' = await /\ outcome' = how
BY DEF Record

LEMMA BeginPlaces ==
  ASSUME NEW waiting, BeginTurn(waiting)
  PROVE  \/ pc' = "exit" /\ leaving' = "threw" /\ outcome' = outcome
         \/ pc' = "preStep" /\ leaving' = leaving /\ outcome' = "open"
BY DEF BeginTurn

\* A run that begins, or begins again, is free of every earlier intent.
LEMMA RunBegins ==
  ASSUME StopInv, NEW waiting, BeginRun(waiting), ~quiet'
  PROVE  StopInv'
BY BeginPlaces DEF BeginRun, StopInv, Causes, Intent, Leaving, Left

\* A step that leaves the intents alone, and the run where it is.
LEMMA TurnGoesOn ==
  ASSUME FlagsOK, StopInv, pc # "idle", UNCHANGED <<abortVars, quiet, leaving>>,
         pc' \notin {"idle", "exit"},
         pc' \in {"turnEnd", "failedEnd", "return", "loop"} => outcome' \in Over,
         pc' = "errorNoted" => outcome' = "failed",
         outcome' = "steered" => steering \/ (outcome = "steered" /\ pc # "exit"),
         aborted /\ cause = "inactivity" =>
           pc' \in {"errorNoted", "failedEnd", "return", "loop"} /\ outcome' = "failed"
  PROVE  StopInv'
<1>1. /\ aborted' = aborted /\ cause' = cause /\ steering' = steering
      /\ quiet' = quiet /\ leaving' = leaving
  BY DEF abortVars
<1>2. Causes'
  BY <1>1 DEF StopInv, Causes
<1>3. Intent'
  BY <1>1 DEF StopInv, Intent
<1>4. Leaving'
  BY <1>1 DEF StopInv, Leaving, Left
<1> QED BY <1>2, <1>3, <1>4 DEF StopInv

LEMMA TurnStays ==
  ASSUME StopInv, UNCHANGED <<abortVars, quiet, leaving, pc, outcome>>
  PROVE  StopInv'
BY DEF StopInv, Causes, Intent, Leaving, Left, abortVars

LEMMA DispatchStops ==
  ASSUME FlagsOK, StopInv, NEW waiting, NEW delivery, Dispatch(waiting, delivery)
  PROVE  StopInv'
<1>1. CASE pc = "idle"
  BY <1>1, RunBegins, RecordPlaces DEF Dispatch, FlagsOK
<1>2. CASE pc # "idle" /\ delivery = "steer"
  <2>1. /\ steering' = TRUE /\ aborted' = TRUE /\ quiet' = FALSE
        /\ cause' = IF aborted THEN cause ELSE "stop"
        /\ pc' = pc /\ outcome' = outcome /\ leaving' = leaving
    BY <1>2 DEF Dispatch, Steered, turnVars
  <2> QED BY <1>2, <2>1 DEF StopInv, Causes, Intent, Leaving, Left
<1>3. CASE pc # "idle" /\ delivery # "steer"
  BY <1>3, TurnStays DEF Dispatch, turnVars
<1> QED BY <1>1, <1>2, <1>3

LEMMA StopStep ==
  ASSUME FlagsOK, StopInv, Next
  PROVE  StopInv'
<1> USE RecordPlaces
<1>1. /\ cause \in {"stop", "inactivity"}
      /\ aborted /\ cause = "inactivity" =>
           \/ pc = "stream"
           \/ pc \in {"errorNoted", "failedEnd", "return", "loop", "exit"} /\ outcome = "failed"
      /\ pc \in {"turnEnd", "failedEnd", "return", "loop"} => outcome \in Over
      /\ aborted \in BOOLEAN /\ steering \in BOOLEAN
  BY DEF StopInv, Causes, Intent, Leaving, FlagsOK
<1>2. StopReason = IF steering THEN "steered" ELSE "cancelled"
  BY DEF StopReason
<1>3. CASE \/ PreStepHandsBack \/ PreStepEnters \/ PreStepRejects \/ PreStepAdmitsNothing
           \/ PreStepThrows
  <2>1. pc = "preStep" /\ UNCHANGED <<abortVars, quiet, leaving>>
    BY <1>3 DEF PreStepHandsBack, PreStepEnters, PreStepRejects, PreStepAdmitsNothing,
       PreStepThrows, OutsideTurn, OutsideDriver
  <2>2. \/ pc' = "return" /\ outcome' = "failed"
        \/ pc' = "turnEnd" /\ outcome' \in {StopReason, "rejected", "empty"}
        \/ pc' = "admission" /\ outcome' = "open"
        \/ pc' = "errorNoted" /\ outcome' = "failed"
    BY <1>3 DEF PreStepHandsBack, PreStepEnters, PreStepRejects, PreStepAdmitsNothing,
       PreStepThrows, EndTurn, Fail
  <2> QED BY <1>1, <1>2, <2>1, <2>2, TurnGoesOn DEF Over
<1>4. CASE \/ AdmissionFlushed \/ RequestReady \/ RequestThrows \/ StreamAborted
           \/ ProviderFails \/ SomeReply
  <2>1. /\ pc \in {"admission", "request", "stream"}
        /\ UNCHANGED <<abortVars, quiet, leaving>>
    BY <1>4 DEF AdmissionFlushed, RequestReady, RequestThrows, StreamAborted, ProviderFails,
       SomeReply, StreamDone, Flushed, OutsideTurn, OutsideDriver
  <2>2. \/ pc' \in {"return", "errorNoted"} /\ outcome' = "failed"
        \/ /\ pc' \in {"request", "stream", "stepClose", "stopClose", "prepare"}
           /\ outcome' = outcome
    BY <1>4 DEF AdmissionFlushed, RequestReady, RequestThrows, StreamAborted, ProviderFails,
       SomeReply, StreamDone, GoOnUnlessStopped, CloseStep, Fail
  <2>3. aborted /\ cause = "inactivity" => pc' \in {"return", "errorNoted"} /\ outcome' = "failed"
    <3>1. CASE AdmissionFlushed \/ RequestReady \/ RequestThrows
      BY <1>1, <3>1 DEF AdmissionFlushed, RequestReady, RequestThrows, Flushed
    <3>2. CASE StreamAborted \/ ProviderFails
      BY <3>2 DEF StreamAborted, ProviderFails, Fail
    <3>3. CASE SomeReply
      BY <3>3 DEF SomeReply, StreamDone
    <3> QED BY <1>4, <3>1, <3>2, <3>3
  <2> QED BY <2>1, <2>2, <2>3, TurnGoesOn DEF Over
<1>5. CASE StreamSilent
  <2>1. /\ pc = "stream" /\ aborted' = TRUE /\ cause' = "inactivity" /\ ~aborted
        /\ pc' = pc /\ outcome' = outcome /\ leaving' = leaving
        /\ steering' = steering /\ quiet' = quiet
    BY <1>5 DEF StreamSilent, turnVars
  <2> QED BY <2>1 DEF StopInv, Causes, Intent, Leaving, Left
<1>6. CASE \/ CallPrepared \/ PrepareThrows \/ IntentFlushed \/ ToolReturns
           \/ SkippedFlushed \/ StepClosed \/ AnswerFlushed
  <2>1. /\ pc \in {"prepare", "intent", "tool", "skipped", "stepClose", "answer"}
        /\ UNCHANGED <<abortVars, quiet, leaving>>
    BY <1>6 DEF CallPrepared, PrepareThrows, IntentFlushed, ToolReturns, SkippedFlushed,
       StepClosed, AnswerFlushed, Flushed, OutsideTurn, OutsideDriver
  <2>2. \/ pc' = "return" /\ outcome' = "failed"
        \/ /\ pc' \in {"intent", "answer", "tool", "stopClose", "admission", "stopping",
                       "stepClose", "skipped", "prepare"}
           /\ outcome' = outcome
    BY <1>6 DEF CallPrepared, PrepareThrows, IntentFlushed, ToolReturns, SkippedFlushed,
       StepClosed, AnswerFlushed, CloseStep
  <2> QED BY <1>1, <2>1, <2>2, TurnGoesOn DEF Over
<1>7. CASE TurnStops \/ TurnStoppingThrows \/ StopClosed
  <2>1. pc \in {"stopping", "stopClose"} /\ UNCHANGED <<abortVars, quiet, leaving>>
    BY <1>7 DEF TurnStops, TurnStoppingThrows, StopClosed, Flushed, OutsideTurn, OutsideDriver
  <2>2. \/ pc' = "return" /\ outcome' = "failed"
        \/ pc' = "turnEnd" /\ outcome' \in {StopReason, "completed"}
        \/ pc' = "errorNoted" /\ outcome' = "failed"
    BY <1>7 DEF TurnStops, TurnStoppingThrows, StopClosed, EndTurn, Fail
  <2> QED BY <1>1, <1>2, <2>1, <2>2, TurnGoesOn DEF Over
<1>8. CASE ErrorFlushed \/ EndFlushed \/ FlushFails \/ TurnReturns
  <2>1. /\ pc \in Flushes \cup {"return"} /\ UNCHANGED <<abortVars, quiet, leaving>>
    BY <1>8 DEF ErrorFlushed, EndFlushed, FlushFails, TurnReturns, Flushed, OutsideTurn,
       OutsideDriver, Flushes
  <2>2. \/ pc' \in {"failedEnd", "return"} /\ outcome' = "failed"
        \/ pc \in {"turnEnd", "failedEnd"} /\ pc' = "return" /\ outcome' = outcome
        \/ pc = "return" /\ pc' = "loop" /\ outcome' = outcome
    BY <1>8 DEF ErrorFlushed, EndFlushed, FlushFails, TurnReturns, Flushed
  <2> QED BY <1>1, <2>1, <2>2, TurnGoesOn DEF Over, Flushes
<1>9. CASE RunLoops
  <2>1. /\ pc = "loop" /\ ~aborted /\ outcome \in Closes
        /\ aborted' = aborted /\ cause' = cause /\ steering' = steering /\ quiet' = quiet
    BY <1>9 DEF RunLoops, abortVars, OutsideDriver
  <2>2. \/ pc' = "exit" /\ leaving' = "threw" /\ outcome' = outcome
        \/ pc' = "preStep" /\ leaving' = leaving /\ outcome' = "open"
    BY <1>9, BeginPlaces DEF RunLoops
  <2> QED BY <2>1, <2>2 DEF StopInv, Causes, Intent, Leaving, Left
<1>10. CASE RunLeaves
  <2>1. /\ pc = "loop" /\ pc' = "exit" /\ outcome' = outcome
        /\ aborted' = aborted /\ cause' = cause /\ steering' = steering /\ quiet' = quiet
    BY <1>10 DEF RunLeaves, abortVars
  <2>2. \/ leaving' = "drained" /\ outcome \in Closes
        \/ leaving' = "stopped" /\ (outcome \notin Closes \/ aborted)
    BY <1>10 DEF RunLeaves
  <2> QED BY <2>1, <2>2 DEF StopInv, Causes, Intent, Leaving, Left
<1>11. CASE RunSettles
  <2>1. pc = "exit" /\ quiet' = quiet
    BY <1>11 DEF RunSettles, OutsideDriver
  <2>2. CASE RunsAgain
    <3>1. ~quiet
      BY <2>1, <2>2 DEF RunsAgain, StopInv, Causes, Intent, Leaving, Closes
    <3> QED BY <1>11, <2>1, <2>2, <3>1, RunBegins DEF RunSettles
  <2>3. CASE ~RunsAgain
    <3>1. /\ pc' = "idle" /\ aborted' = FALSE /\ steering' = FALSE /\ cause' = "stop"
          /\ leaving' = leaving
      BY <1>11, <2>3 DEF RunSettles
    <3> QED BY <3>1 DEF StopInv, Causes, Intent, Leaving, Left
  <2> QED BY <2>2, <2>3
<1>12. CASE Request
  <2>1. ASSUME NEW input \in Inputs, Submit(input) \/ Resubmit(input) \/ NotAccepted(input)
        PROVE  StopInv'
    BY <2>1, TurnStays DEF Submit, Resubmit, NotAccepted, Driver, turnVars
  <2>2. ASSUME NEW input \in Inputs, Accepted(input) PROVE StopInv'
    BY <2>2, DispatchStops DEF Accepted
  <2>3. CASE SteerSession
    BY <2>3, DispatchStops DEF SteerSession
  <2>4. CASE Stop
    <3>1. /\ pc # "idle" /\ quiet' = TRUE /\ steering' = FALSE /\ aborted' = TRUE
          /\ cause' = IF aborted THEN cause ELSE "stop"
          /\ pc' = pc /\ outcome' = outcome /\ leaving' = leaving
      BY <2>4 DEF Stop, turnVars
    <3> QED BY <3>1 DEF StopInv, Causes, Intent, Leaving, Left
  <2> QED BY <1>12, <2>1, <2>2, <2>3, <2>4 DEF Request
<1>13. CASE RecordStored \/ StorageBreaks
  BY <1>13, TurnStays DEF RecordStored, StorageBreaks, turnVars
<1> QED BY <1>3, <1>4, <1>5, <1>6, <1>7, <1>8, <1>9, <1>10, <1>11, <1>12, <1>13
      DEF Next, Continue, Provider

\* A turn begins on a live controller, hence with no stop in force.
LEMMA AdvanceStep ==
  ASSUME Typed, StopInv, Next
  PROVE  Len(log') > Len(log) /\ Turns' > Turns => ~quiet'
<1> SUFFICES ASSUME Turns' > Turns PROVE ~quiet'
  OBVIOUS
<1>1. DataOK /\ StopInv' /\ Turns \in Nat
  BY StopStep, OfTypes DEF Typed
<1>2. ~(log' = log)
  <2>1. ASSUME log' = log PROVE Turns' = Turns
    BY <2>1 DEF Turns, Of
  <2> QED BY <1>1, <2>1
<1>3. ASSUME NEW facts, Grows(facts), At(facts, "turn/start") = {} PROVE FALSE
  <2>1. facts \in Seq(Facts) /\ log' = log \o facts
    BY <1>3 DEF Grows
  <2>2. Cardinality(At(facts, "turn/start")) = 0
    BY <1>3, FS_EmptySet
  <2>3. Turns' = Turns + 0
    BY <1>1, <2>1, <2>2, CountsGrow
  <2> QED BY <1>1, <2>3
<1>4. StartStep
  <2>1. ~PlainStep
    BY <1>3, PlainIs DEF PlainStep
  <2>2. ~EndStep
    <3> SUFFICES ASSUME EndStep PROVE FALSE
      OBVIOUS
    <3>1. PICK plain \in Seq(Facts) :
            Plain(plain) /\ Grows(plain \o <<Fact("turn/end", Turns)>>)
      BY DEF EndStep
    <3>2. PICK last \in Seq(Facts) : last = <<Fact("turn/end", Turns)>>
      BY <1>1, RecordedFacts DEF TurnTypes
    <3>3. Grows(plain \o last)
      BY <3>1, <3>2
    <3> QED BY <1>1, <1>3, <3>1, <3>2, <3>3, EndFacts
  <2>3. ~CallStep /\ ~ResultStep
    BY <1>3, OneFact DEF CallStep, ResultStep, Call, Result
  <2>4. ~CallResultStep
    <3>1. Executions + 1 \in Nat
      BY <1>1, OfTypes
    <3> QED BY <1>3, <3>1, CallAndResult DEF CallResultStep
  <2>5. ~SkippedStep
    BY <1>1, <1>3, SkippedIs DEF SkippedStep
  <2> QED BY <1>1, <1>2, <2>1, <2>2, <2>3, <2>4, <2>5, LogSteps DEF LogStep, Kept
<1>5. pc' = "preStep" /\ ~aborted'
  BY <1>4 DEF StartStep
<1> QED BY <1>1, <1>5 DEF StopInv, Intent

LEMMA PoisonStays ==
  ASSUME Next
  PROVE  ~poisoned' => ~poisoned
<1>1. CASE Request
  BY <1>1 DEF Request, Submit, Resubmit, NotAccepted, Accepted, SteerSession, Stop, sessionVars
<1>2. CASE Continue
  BY <1>2 DEF Continue, PreStepHandsBack, PreStepEnters, PreStepRejects,
     PreStepAdmitsNothing, PreStepThrows, AdmissionFlushed, RequestReady, RequestThrows,
     StreamSilent, StreamAborted, CallPrepared, PrepareThrows, IntentFlushed, ToolReturns,
     AnswerFlushed, SkippedFlushed, StepClosed, TurnStops, TurnStoppingThrows, StopClosed,
     ErrorFlushed, EndFlushed, FlushFails, TurnReturns, RunLoops, RunLeaves, RunSettles,
     OutsideTurn, sessionVars
<1>3. CASE Provider \/ RecordStored \/ StorageBreaks
  BY <1>3 DEF Provider, SomeReply, StreamDone, ProviderFails, RecordStored, StorageBreaks,
     OutsideTurn
<1> QED BY <1>1, <1>2, <1>3 DEF Next

\* Only the end of a run makes the agent idle, and nothing but a new run ends that.
LEMMA IdleSteps ==
  ASSUME Next, pc' = "idle"
  PROVE  RunSettles \/ UNCHANGED <<pc, inbox, leaving, outcome, quiet>>
<1> USE RecordPlaces, BeginPlaces
<1>1. CASE Request
  <2>1. ASSUME NEW waiting, NEW delivery, Dispatch(waiting, delivery) PROVE FALSE
    <3>1. CASE pc = "idle"
      BY <2>1, <3>1 DEF Dispatch, BeginRun
    <3>2. CASE pc # "idle"
      BY <2>1, <3>2 DEF Dispatch, turnVars
    <3> QED BY <3>1, <3>2
  <2> QED BY <1>1, <2>1 DEF Request, Submit, Resubmit, NotAccepted, Accepted, SteerSession,
        Stop, Driver, boxVars, turnVars
<1>2. CASE \/ PreStepHandsBack \/ PreStepEnters \/ PreStepRejects \/ PreStepAdmitsNothing
           \/ PreStepThrows
  BY <1>2 DEF PreStepHandsBack, PreStepEnters, PreStepRejects, PreStepAdmitsNothing,
     PreStepThrows, EndTurn, Fail
<1>3. CASE \/ AdmissionFlushed \/ RequestReady \/ RequestThrows \/ StreamAborted
           \/ ProviderFails \/ SomeReply \/ StreamSilent
  BY <1>3 DEF AdmissionFlushed, RequestReady, RequestThrows, StreamAborted, ProviderFails,
     SomeReply, StreamDone, GoOnUnlessStopped, CloseStep, Fail, StreamSilent, turnVars
<1>4. CASE \/ CallPrepared \/ PrepareThrows \/ IntentFlushed \/ ToolReturns
           \/ SkippedFlushed \/ StepClosed \/ AnswerFlushed
  BY <1>4 DEF CallPrepared, PrepareThrows, IntentFlushed, ToolReturns, SkippedFlushed,
     StepClosed, AnswerFlushed, CloseStep
<1>5. CASE \/ TurnStops \/ TurnStoppingThrows \/ StopClosed \/ ErrorFlushed \/ EndFlushed
           \/ FlushFails \/ TurnReturns \/ RunLoops \/ RunLeaves
  BY <1>5 DEF TurnStops, TurnStoppingThrows, StopClosed, ErrorFlushed, EndFlushed,
     FlushFails, TurnReturns, RunLoops, RunLeaves, EndTurn, Fail
<1>6. CASE RecordStored \/ StorageBreaks
  BY <1>6 DEF RecordStored, StorageBreaks, boxVars, turnVars
<1> QED BY <1>1, <1>2, <1>3, <1>4, <1>5, <1>6 DEF Next, Continue, Provider

LEMMA StrandedStep ==
  ASSUME FlagsOK, StopInv, NothingStranded, Next
  PROVE  NothingStranded'
<1> SUFFICES ASSUME pc' = "idle", inbox' # <<>>, ~poisoned'
             PROVE  quiet' \/ leaving' = "threw" \/ outcome' \in {"failed", "cancelled"}
  BY DEF NothingStranded
<1>1. ~poisoned
  BY PoisonStays
<1>2. CASE UNCHANGED <<pc, inbox, leaving, outcome, quiet>>
  BY <1>1, <1>2 DEF NothingStranded
<1>3. CASE RunSettles
  <2>1. pc = "exit" /\ quiet' = quiet
    BY <1>3 DEF RunSettles, OutsideDriver
  <2>2. ~RunsAgain
    BY <1>3, BeginPlaces DEF RunSettles, BeginRun
  <2>3. inbox' = inbox /\ leaving' = leaving /\ outcome' = outcome
    BY <1>3, <2>2 DEF RunSettles, boxVars
  <2>4. \/ leaving = "threw"
        \/ ~steering /\ (leaving = "stopped" \/ (aborted /\ cause = "stop"))
    BY <1>1, <2>2, <2>3 DEF RunsAgain
  <2> QED BY <2>1, <2>3, <2>4 DEF StopInv, Causes, Intent, Leaving, Left, Closes, Over
<1> QED BY <1>2, <1>3, IdleSteps

-----------------------------------------------------------------------------
(***************************************************************************)
(* InputRunsOnce.  What waits in the inbox is queued and unsettled, and    *)
(* what a turn that has not admitted its inputs has claimed is not waiting *)
(* as well.  A request that still waits for its record was overtaken by a  *)
(* settlement only if that is of an input the running turn has claimed,    *)
(* and lies behind its own record: the turn cannot return before it.       *)
(***************************************************************************)
Waiting(s) == NoRepeat(s) /\ \A X \in ToSet(s) : Queued(X) /\ Unsettled(X)

Queue ==
  /\ \A p, q \in Of("input/queued") : log[p].of = log[q].of => p = q
  /\ \A p \in Of("input/settled") : Queued(log[p].of)
  /\ \A X \in Inputs : request[X] = "none" => ~Queued(X)
  /\ \A X \in Inputs : request[X] = "accepting" => Queued(X)
  /\ \A X \in Inputs : NoRepeat(stale[X]) /\ \A Y \in ToSet(stale[X]) : Queued(Y)

Held ==
  /\ Waiting(inbox) /\ NoRepeat(claimed) /\ \A X \in ToSet(claimed) : Queued(X)
  /\ pc = "preStep" => \A X \in ToSet(claimed) : X \notin ToSet(inbox) /\ Unsettled(X)
  /\ pc \in {"idle", "loop", "exit"} => claimed = <<>>

Reached ==
  /\ \A p \in Of("input/settled") : log[p].of \in ToSet(claimed) => p <= barrier
  /\ ~broken /\ pc = "return" => barrier <= onDisk
  /\ \A X \in Inputs, p \in Of("input/queued") :
       request[X] = "accepting" /\ log[p].of = X => onDisk <= p

Overtakes(p, Y) ==
  log[p].of \in ToSet(claimed) /\ \A q \in Of("input/queued") : log[q].of = Y => q < p
Overtaken ==
  ~broken => \A Y \in Inputs : request[Y] = "accepting" =>
    \A X \in {Y} \cup ToSet(stale[Y]), p \in Of("input/settled") :
      log[p].of = X => Overtakes(p, Y)

InputInv == Queue /\ InputRunsOnce /\ Held /\ Reached /\ Overtaken

\* A step that logs nothing of any input.
Calm ==
  /\ \A t \in InputTypes : Of(t)' = Of(t)
  /\ \A p \in 1..Len(log) : log'[p] = log[p]

InputFree(facts) == \A t \in InputTypes : At(facts, t) = {}

LEMMA GrowsCalm ==
  ASSUME DataOK, NEW facts \in Seq(Facts), InputFree(facts), log' = log \o facts
  PROVE  Calm
<1>1. PICK s \in Seq(Facts) : s = facts
  OBVIOUS
<1>2. log \in Seq(Facts) /\ log' = log \o s
  BY <1>1 DEF DataOK
<1>3. \A t \in InputTypes : At(log \o s, t) = At(log, t)
  BY <1>1, <1>2, AtJoined DEF InputFree
<1>4. \A p \in 1..Len(log) : (log \o s)[p] = log[p]
  BY <1>2, ConcatAt
<1>5. \A t : Of(t) = At(log, t) /\ Of(t)' = At(log', t)
  BY DEF Of, At
<1> QED BY <1>2, <1>3, <1>4, <1>5 DEF Calm

LEMMA SameCalm ==
  ASSUME log' = log
  PROVE  Calm
BY DEF Calm, Of

LEMMA RecordCalm ==
  ASSUME DataOK, NEW facts \in Seq(Facts), InputFree(facts), NEW await, NEW how,
         Record(facts, await, how)
  PROVE  Calm
BY GrowsCalm, SameCalm DEF Record

LEMMA FreeFacts ==
  ASSUME DataOK
  PROVE  /\ InputFree(<<>>) /\ InputFree(Skipped)
         /\ \A n : \A t \in TurnTypes : InputFree(<<Fact(t, n)>>)
         /\ \A n \in Nat : InputFree(<<Call(n), Result(n)>>)
<1>1. InputFree(<<>>)
  BY AtShort DEF InputFree
<1>2. \A n : \A t \in TurnTypes : InputFree(<<Fact(t, n)>>)
  BY OneFact DEF InputFree, TurnTypes, InputTypes
<1>3. \A n \in Nat : InputFree(<<Call(n), Result(n)>>)
  <2> TAKE n \in Nat
  <2>1. PICK c, r : c = Call(n) /\ r = Result(n)
    OBVIOUS
  <2>2. c.type = "tool/call" /\ r.type = "tool/result"
    BY <2>1, FactTypes DEF Call, Result
  <2>3. Len(<<c, r>>) = 2 /\ <<c, r>>[1] = c /\ <<c, r>>[2] = r
    OBVIOUS
  <2>4. \A p : p \in 1..2 <=> p = 1 \/ p = 2
    OBVIOUS
  <2> QED BY <2>1, <2>2, <2>3, <2>4 DEF InputFree, At, InputTypes
<1>4. InputFree(Skipped)
  <2>1. PICK s \in Seq(Facts) : s = Skipped
    BY RecordedFacts
  <2>2. \A k \in DOMAIN Skipped : Skipped[k].type \in {"tool/call", "tool/result"}
    BY FactTypes DEF Skipped, Call, Result
  <2>3. \A k \in 1..Len(s) : s[k].type \in {"tool/call", "tool/result"}
    BY <2>1, <2>2
  <2>4. InputFree(s)
    BY <2>3 DEF InputFree, At, InputTypes
  <2> QED BY <2>1, <2>4
<1> QED BY <1>1, <1>2, <1>3, <1>4

LEMMA EndCalm ==
  ASSUME DataOK, NEW how, EndTurn(<<>>, how)
  PROVE  Calm
<1>1. PICK e \in Facts : e = Fact("turn/end", Turns)
  BY OfTypes, FactTypes DEF TurnTypes
<1>2. Append(<<>>, e) = <<e>> /\ <<e>> \in Seq(Facts)
  OBVIOUS
<1>3. InputFree(<<e>>)
  BY <1>1, FreeFacts DEF TurnTypes
<1> QED BY <1>1, <1>2, <1>3, RecordCalm DEF EndTurn

LEMMA BeginCalm ==
  ASSUME DataOK, NEW waiting, BeginTurn(waiting)
  PROVE  Calm
<1>1. CASE poisoned
  BY <1>1, SameCalm DEF BeginTurn
<1>2. CASE ~poisoned
  <2>1. PICK e \in Facts : e = Fact("turn/start", Turns + 1)
    BY OfTypes, FactTypes DEF TurnTypes
  <2>2. log' = Append(log, e) /\ log \in Seq(Facts)
    BY <1>2, <2>1 DEF BeginTurn, DataOK
  <2>3. log' = log \o <<e>> /\ <<e>> \in Seq(Facts)
    BY <2>2
  <2>4. InputFree(<<e>>)
    BY <2>1, FreeFacts DEF TurnTypes
  <2> QED BY <2>3, <2>4, GrowsCalm
<1> QED BY <1>1, <1>2

\* Then the inputs stand where they stood.
LEMMA CalmInputs ==
  ASSUME DataOK, Calm
  PROVE  /\ Of("input/queued")' = Of("input/queued")
         /\ Of("input/settled")' = Of("input/settled")
         /\ \A p \in Of("input/queued") : log'[p] = log[p]
         /\ \A p \in Of("input/settled") : log'[p] = log[p]
         /\ \A X : (Queued(X)' <=> Queued(X)) /\ (Unsettled(X)' <=> Unsettled(X))
<1>1. /\ Of("input/queued")' = Of("input/queued")
      /\ Of("input/settled")' = Of("input/settled")
  BY DEF Calm, InputTypes
<1>2. /\ \A p \in Of("input/queued") : log'[p] = log[p]
      /\ \A p \in Of("input/settled") : log'[p] = log[p]
  BY OfTypes DEF Calm
<1>3. \A X : (Queued(X)' <=> Queued(X)) /\ (Unsettled(X)' <=> Unsettled(X))
  BY <1>1, <1>2 DEF Queued, Unsettled
<1> QED BY <1>1, <1>2, <1>3

\* The requests that end, if any, end answered.
OnlyAnswers ==
  \A X \in Inputs :
    \/ request'[X] = request[X] /\ stale'[X] = stale[X]
    \/ request'[X] \in {"accepted", "refused"} /\ stale'[X] = <<>>

LEMMA QueueCalm ==
  ASSUME DataOK, Queue, InputRunsOnce, Calm, OnlyAnswers
  PROVE  Queue' /\ InputRunsOnce'
<1>1. InputRunsOnce'
  BY CalmInputs DEF InputRunsOnce
<1>2. /\ \A p, q \in Of("input/queued")' : log'[p].of = log'[q].of => p = q
      /\ \A p \in Of("input/settled")' : \E q \in Of("input/queued")' : log'[q].of = log'[p].of
  <2>1. \A X : Queued(X) => \E p \in Of("input/queued")' : log'[p].of = X
    BY CalmInputs DEF Queued
  <2>2. \A p, q \in Of("input/queued")' : log'[p].of = log'[q].of => p = q
    BY CalmInputs DEF Queue
  <2>3. \A p \in Of("input/settled")' : Queued(log[p].of) /\ log'[p].of = log[p].of
    BY CalmInputs DEF Queue
  <2> QED BY <2>1, <2>2, <2>3
<1>3. \A X \in Inputs : /\ request'[X] = "none" => ~Queued(X)'
                        /\ request'[X] = "accepting" => Queued(X)'
  BY CalmInputs DEF Queue, OnlyAnswers
<1>4. \A X \in Inputs : NoRepeat(stale[X])' /\ \A Y \in ToSet(stale'[X]) : Queued(Y)'
  <2> TAKE X \in Inputs
  <2>1. NoRepeat(<<>>) /\ ToSet(<<>>) = {}
    BY DEF NoRepeat, ToSet
  <2>2. NoRepeat(stale[X])'
    BY <2>1 DEF Queue, OnlyAnswers, NoRepeat
  <2>3. \A Y \in ToSet(stale'[X]) : Queued(Y)'
    BY <2>1, CalmInputs DEF Queue, OnlyAnswers
  <2> QED BY <2>2, <2>3
<1> QED BY <1>1, <1>2, <1>3, <1>4 DEF Queue, Queued

LEMMA OvertakenCalm ==
  ASSUME DataOK, Overtaken, Calm, OnlyAnswers, broken => broken',
         claimed' = claimed \/ claimed = <<>>
  PROVE  Overtaken'
<1> SUFFICES ASSUME ~broken', NEW Y \in Inputs, request'[Y] = "accepting",
                    NEW X \in {Y} \cup ToSet(stale'[Y]),
                    NEW p \in Of("input/settled")', log'[p].of = X
             PROVE  /\ log'[p].of \in ToSet(claimed')
                    /\ \A q \in Of("input/queued")' : log'[q].of = Y => q < p
  BY DEF Overtaken, Overtakes
<1>1. request[Y] = "accepting" /\ X \in {Y} \cup ToSet(stale[Y])
  BY DEF OnlyAnswers
<1>2. p \in Of("input/settled") /\ log[p].of = X
  BY CalmInputs
<1>3. Overtakes(p, Y)
  BY <1>1, <1>2 DEF Overtaken
<1>4. claimed' = claimed
  <2>1. ToSet(<<>>) = {}
    BY DEF ToSet
  <2> QED BY <1>3, <2>1 DEF Overtakes
<1> QED BY <1>2, <1>3, <1>4, CalmInputs DEF Overtakes

\* What is accepting lies on disk no further than it did.
LEMMA AcceptingCalm ==
  ASSUME DataOK, Reached, Calm, OnlyAnswers, onDisk' = onDisk
  PROVE  \A X \in Inputs, p \in Of("input/queued")' :
           request'[X] = "accepting" /\ log'[p].of = X => onDisk' <= p
BY CalmInputs DEF Reached, OnlyAnswers

LEMMA InputsKept ==
  ASSUME Typed, Typed', InputInv, Calm, OnlyAnswers, claimed' = claimed, onDisk' = onDisk,
         broken => broken',
         NoRepeat(inbox'), \A X \in ToSet(inbox') : Queued(X) /\ Unsettled(X),
         barrier' \in {barrier, Len(log')},
         pc' = "preStep" => pc = "preStep" /\ \A X \in ToSet(claimed) : X \notin ToSet(inbox'),
         pc' \in {"idle", "loop", "exit"} => claimed = <<>>,
         pc' = "return" => broken' \/ barrier' <= onDisk
  PROVE  InputInv'
<1>1. DataOK /\ DataOK'
  BY DEF Typed
<1>2. Queue' /\ InputRunsOnce' /\ Overtaken'
  BY <1>1, QueueCalm, OvertakenCalm DEF InputInv
<1>3. Held'
  <2>1. NoRepeat(inbox)' /\ \A X \in ToSet(inbox') : Queued(X)' /\ Unsettled(X)'
    BY <1>1, CalmInputs DEF NoRepeat
  <2>2. NoRepeat(claimed)' /\ \A X \in ToSet(claimed') : Queued(X)'
    BY <1>1, CalmInputs DEF InputInv, Held, NoRepeat
  <2>3. pc' = "preStep" =>
          \A X \in ToSet(claimed') : X \notin ToSet(inbox') /\ Unsettled(X)'
    BY <1>1, CalmInputs DEF InputInv, Held
  <2> QED BY <2>1, <2>2, <2>3 DEF Held, Waiting
<1>4. Reached'
  <2>1. \A X \in Inputs, p \in Of("input/queued")' :
          request'[X] = "accepting" /\ log'[p].of = X => onDisk' <= p
    BY <1>1, AcceptingCalm DEF InputInv
  <2>2. ASSUME NEW p \in Of("input/settled")', log'[p].of \in ToSet(claimed')
        PROVE  p <= barrier'
    <3>1. p \in Of("input/settled") /\ log[p].of \in ToSet(claimed)
      BY <1>1, <2>2, CalmInputs
    <3>2. p <= barrier
      BY <3>1 DEF InputInv, Reached
    <3>3. p \in 1..Len(log')
      BY <2>2 DEF Of
    <3> QED BY <3>2, <3>3
  <2> QED BY <2>1, <2>2 DEF Reached
<1> QED BY <1>2, <1>3, <1>4 DEF InputInv

\* A turn takes all that waits.
LEMMA TurnTakes ==
  ASSUME Typed, InputInv, NEW waiting \in Seq(Inputs), Waiting(waiting),
         BeginTurn(waiting), OnlyAnswers, onDisk' = onDisk, broken' = broken,
         poisoned' = poisoned, claimed = <<>>, Typed'
  PROVE  InputInv'
<1>1. DataOK /\ DataOK' /\ Calm /\ (poisoned => broken)
  BY BeginCalm DEF Typed, FlagsOK
<1>2. CASE poisoned
  <2>1. inbox' = waiting /\ claimed' = claimed /\ barrier' = barrier /\ pc' = "exit"
    BY <1>2 DEF BeginTurn
  <2>2. /\ NoRepeat(inbox') /\ \A X \in ToSet(inbox') : Queued(X) /\ Unsettled(X)
        /\ pc' \notin {"preStep", "return"}
    BY <2>1 DEF Waiting
  <2> QED BY <1>1, <2>1, <2>2, InputsKept
<1>3. CASE ~poisoned
  <2>1. inbox' = <<>> /\ claimed' = waiting /\ barrier' = barrier /\ pc' = "preStep"
    BY <1>3 DEF BeginTurn
  <2>2. Queue' /\ InputRunsOnce' /\ Overtaken'
    BY <1>1, QueueCalm, OvertakenCalm DEF InputInv
  <2>3. ToSet(<<>>) = {} /\ NoRepeat(<<>>)
    BY DEF ToSet, NoRepeat
  <2>4. \A X \in ToSet(waiting) : Queued(X)' /\ Unsettled(X)'
    BY <1>1, CalmInputs DEF Waiting
  <2>5. Held'
    <3>1. Waiting(inbox)'
      BY <2>1, <2>3 DEF Waiting, NoRepeat
    <3>2. NoRepeat(claimed)'
      BY <2>1 DEF Waiting, NoRepeat
    <3> QED BY <2>1, <2>3, <2>4, <3>1, <3>2 DEF Held
  <2>6. Reached'
    <3>1. \A X \in Inputs, p \in Of("input/queued")' :
            request'[X] = "accepting" /\ log'[p].of = X => onDisk' <= p
      BY <1>1, AcceptingCalm DEF InputInv
    <3>2. \A p \in Of("input/settled")' : log'[p].of \notin ToSet(claimed')
      BY <2>1, <2>4 DEF Unsettled
    <3> QED BY <2>1, <3>1, <3>2 DEF Reached
  <2> QED BY <2>2, <2>5, <2>6 DEF InputInv
<1> QED BY <1>2, <1>3

\* A turn returns when what it settled is on disk: no request that still waits for
\* its record can have been overtaken.
LEMMA TurnLetsGo ==
  ASSUME Typed, Typed', InputInv, TurnReturns
  PROVE  InputInv'
<1>1. DataOK /\ DataOK' /\ Calm /\ pc = "return" /\ pc' = "loop" /\ claimed' = <<>>
  BY SameCalm DEF Typed, TurnReturns, sessionVars
<1>2. /\ inbox' = inbox /\ request' = request /\ stale' = stale /\ onDisk' = onDisk
      /\ broken' = broken /\ log' = log
  BY DEF TurnReturns, requestVars, sessionVars
<1>3. OnlyAnswers
  BY <1>2 DEF OnlyAnswers
<1>4. Queue' /\ InputRunsOnce'
  BY <1>1, <1>3, QueueCalm DEF InputInv
<1>5. ToSet(<<>>) = {} /\ NoRepeat(<<>>)
  BY DEF ToSet, NoRepeat
<1>6. Held'
  <2>1. Waiting(inbox)'
    BY <1>1, <1>2, CalmInputs DEF InputInv, Held, Waiting, NoRepeat
  <2>2. NoRepeat(claimed)'
    BY <1>1 DEF NoRepeat
  <2> QED BY <1>1, <1>5, <2>1, <2>2 DEF Held
<1>7. Reached'
  <2>1. \A X \in Inputs, p \in Of("input/queued")' :
          request'[X] = "accepting" /\ log'[p].of = X => onDisk' <= p
    BY <1>1, <1>2, <1>3, AcceptingCalm DEF InputInv
  <2> QED BY <1>1, <1>5, <2>1 DEF Reached
<1>8. Overtaken'
  <2> SUFFICES ASSUME ~broken, NEW Y \in Inputs, request[Y] = "accepting",
                      NEW X \in {Y} \cup ToSet(stale[Y]),
                      NEW p \in Of("input/settled"), log[p].of = X
               PROVE  FALSE
    BY <1>1, <1>2, CalmInputs DEF Overtaken
  <2>1. log[p].of \in ToSet(claimed) /\ \A q \in Of("input/queued") : log[q].of = Y => q < p
    BY DEF InputInv, Overtaken, Overtakes
  <2>2. p <= barrier /\ barrier <= onDisk
    BY <1>1, <2>1 DEF InputInv, Reached
  <2>3. PICK q \in Of("input/queued") : log[q].of = Y
    BY DEF InputInv, Queue, Queued
  <2>4. onDisk <= q /\ q < p
    BY <2>1, <2>3 DEF InputInv, Reached
  <2>5. p \in Nat /\ q \in Nat /\ barrier \in Nat /\ onDisk \in Nat
    <3>1. p \in Nat /\ q \in Nat
      BY DEF Of
    <3> QED BY <1>1, <3>1 DEF DataOK
  <2> QED BY <2>2, <2>4, <2>5
<1> QED BY <1>4, <1>6, <1>7, <1>8 DEF InputInv

\* The claimed inputs are admitted, or turned away: each is settled, once.
LEMMA SettlesClaimed ==
  ASSUME Typed, Typed', InputInv, pc = "preStep",
         NEW rest \in Seq(Facts), InputFree(rest),
         log' = log \o (Settled \o rest), barrier' = Len(log'),
         pc' \in {"admission", "turnEnd"},
         UNCHANGED <<boxVars, request, stale, onDisk, broken>>
  PROVE  InputInv'
<1> DEFINE later == {Len(log) + k : k \in 1..Len(claimed)}
<1>1. PICK s \in Seq(Facts) : s = Settled
  BY SettledIs DEF Typed
<1>2. /\ log \in Seq(Facts) /\ DataOK /\ DataOK'
      /\ inbox' = inbox /\ claimed' = claimed /\ claimed \in Seq(Inputs)
  BY DEF Typed, DataOK, boxVars
<1>3. /\ Len(s) = Len(claimed)
      /\ \A k \in 1..Len(claimed) : s[k].type = "input/settled" /\ s[k].of = claimed[k]
      /\ At(s, "input/queued") = {} /\ At(s, "input/settled") = 1..Len(claimed)
  BY <1>1, <1>2, SettledIs
<1>4. /\ At(s \o rest, "input/queued") = {} /\ At(s \o rest, "input/settled") = 1..Len(claimed)
      /\ \A k \in 1..Len(claimed) : (s \o rest)[k] = s[k]
      /\ Len(s \o rest) = Len(claimed) + Len(rest)
  <2>1. At(rest, "input/queued") = {} /\ At(rest, "input/settled") = {}
    BY DEF InputFree, InputTypes
  <2>2. s \in Seq(Facts) /\ rest \in Seq(Facts)
    BY <1>1
  <2>3. /\ At(s \o rest, "input/queued") = At(s, "input/queued")
        /\ At(s \o rest, "input/settled") = At(s, "input/settled")
    BY <2>1, <2>2, AtJoined
  <2>4. /\ \A k \in 1..Len(s) : (s \o rest)[k] = s[k]
        /\ Len(s \o rest) = Len(s) + Len(rest)
    BY <2>2, ConcatAt
  <2> QED BY <1>3, <2>3, <2>4
<1>5. PICK f \in Seq(Facts) :
        /\ log' = log \o f
        /\ At(f, "input/queued") = {} /\ At(f, "input/settled") = 1..Len(claimed)
        /\ \A k \in 1..Len(claimed) : f[k] = s[k] /\ k \in 1..Len(f)
  <2>1. log' = log \o (s \o rest) /\ s \o rest \in Seq(Facts)
    BY <1>1
  <2>2. \A k \in 1..Len(claimed) : k \in 1 .. Len(claimed) + Len(rest)
    OBVIOUS
  <2> QED BY <1>4, <2>1, <2>2
<1>6. /\ Of("input/queued")' = Of("input/queued")
      /\ Of("input/settled")' = Of("input/settled") \cup later
      /\ \A p \in 1..Len(log) : log'[p] = log[p]
      /\ \A k \in 1..Len(claimed) : log'[Len(log) + k].of = claimed[k]
  <2>1. /\ At(log \o f, "input/queued") = At(log, "input/queued")
        /\ At(log \o f, "input/settled")
             = At(log, "input/settled") \cup {Len(log) + k : k \in At(f, "input/settled")}
        /\ \A p \in 1..Len(log) : (log \o f)[p] = log[p]
        /\ \A k \in 1..Len(f) : (log \o f)[Len(log) + k] = f[k]
    <3>1. log \in Seq(Facts) /\ f \in Seq(Facts) /\ At(f, "input/queued") = {}
      BY <1>2, <1>5
    <3> QED BY <3>1, AtGrown, AtJoined
  <2>2. \A t : Of(t) = At(log, t) /\ Of(t)' = At(log', t)
    BY DEF Of, At
  <2>3. \A k \in 1..Len(claimed) : log'[Len(log) + k].of = claimed[k]
    BY <1>3, <1>5, <2>1
  <2> QED BY <1>5, <2>1, <2>2, <2>3
<1>7. /\ \A p \in Of("input/settled") : p \in 1..Len(log) /\ log'[p] = log[p]
      /\ \A p \in Of("input/queued") : p \in 1..Len(log) /\ log'[p] = log[p]
  BY <1>6 DEF Of
<1>8. \A p \in later : /\ p > Len(log) /\ p \in Nat
                       /\ \E k \in 1..Len(claimed) : p = Len(log) + k /\ log'[p].of = claimed[k]
                       /\ log'[p].of \in ToSet(claimed)
  <2>1. \A k \in 1..Len(claimed) : claimed[k] \in ToSet(claimed)
    BY <1>2, SetOf
  <2>2. \A k \in 1..Len(claimed) : Len(log) + k > Len(log) /\ Len(log) + k \in Nat
    BY <1>2
  <2> QED BY <1>6, <2>1, <2>2
<1>9. /\ \A X : Queued(X)' <=> Queued(X)
      /\ \A X : X \notin ToSet(claimed) => (Unsettled(X) => Unsettled(X)')
  BY <1>6, <1>7, <1>8 DEF Queued, Unsettled
<1>10. /\ \A X \in ToSet(claimed) : X \notin ToSet(inbox) /\ Unsettled(X) /\ Queued(X)
       /\ NoRepeat(claimed)
  BY DEF InputInv, Held
<1> HIDE DEF later
<1>11. InputRunsOnce'
  <2> SUFFICES ASSUME NEW p \in Of("input/settled") \cup later,
                      NEW q \in Of("input/settled") \cup later, log'[p].of = log'[q].of
               PROVE  p = q
    BY <1>6 DEF InputRunsOnce
  <2>1. CASE p \in Of("input/settled") /\ q \in Of("input/settled")
    BY <1>7, <2>1 DEF InputInv, InputRunsOnce
  <2>2. CASE p \in later /\ q \in later
    <3>1. PICK i \in 1..Len(claimed), j \in 1..Len(claimed) :
            /\ p = Len(log) + i /\ log'[p].of = claimed[i]
            /\ q = Len(log) + j /\ log'[q].of = claimed[j]
      BY <1>8, <2>2
    <3> QED BY <1>10, <3>1 DEF NoRepeat
  <2>3. ASSUME NEW a \in Of("input/settled"), NEW b \in later, log'[a].of = log'[b].of
        PROVE  FALSE
    <3>1. log[a].of \in ToSet(claimed)
      BY <1>7, <1>8, <2>3
    <3> QED BY <1>10, <3>1 DEF Unsettled
  <2> QED BY <2>1, <2>2, <2>3
<1>12. Queue'
  <2>1. \A p, q \in Of("input/queued")' : log'[p].of = log'[q].of => p = q
    BY <1>6, <1>7 DEF InputInv, Queue
  <2>2. \A X : Queued(X) => \E q \in Of("input/queued")' : log'[q].of = X
    BY <1>6, <1>7 DEF Queued
  <2>3. \A p \in Of("input/settled")' : Queued(log'[p].of)
    <3>1. \A p \in Of("input/settled") : Queued(log[p].of) /\ log'[p] = log[p]
      BY <1>7 DEF InputInv, Queue
    <3>2. \A p \in later : Queued(log'[p].of)
      BY <1>8, <1>10
    <3> QED BY <1>6, <3>1, <3>2
  <2>4. \A X \in Inputs : /\ request'[X] = "none" => ~Queued(X)'
                          /\ request'[X] = "accepting" => Queued(X)'
    BY <1>9 DEF InputInv, Queue
  <2>5. \A X \in Inputs : NoRepeat(stale[X])' /\ \A Y \in ToSet(stale'[X]) : Queued(Y)'
    BY <1>9 DEF InputInv, Queue, NoRepeat
  <2> QED BY <2>1, <2>2, <2>3, <2>4, <2>5 DEF Queue, Queued
<1>13. Held'
  <2>1. \A X \in ToSet(inbox) : Queued(X)' /\ Unsettled(X)'
    BY <1>9, <1>10 DEF InputInv, Held, Waiting
  <2>2. NoRepeat(inbox)' /\ NoRepeat(claimed)'
    BY <1>2 DEF InputInv, Held, Waiting, NoRepeat
  <2>3. \A X \in ToSet(claimed) : Queued(X)'
    BY <1>9, <1>10
  <2> QED BY <1>2, <2>1, <2>2, <2>3 DEF Held, Waiting
<1>14. Reached'
  <2>1. \A p \in Of("input/settled")' : p <= barrier'
    BY <1>2 DEF Of
  <2>2. \A X \in Inputs, p \in Of("input/queued")' :
          request'[X] = "accepting" /\ log'[p].of = X => onDisk' <= p
    BY <1>6, <1>7 DEF InputInv, Reached
  <2> QED BY <2>1, <2>2 DEF Reached
<1>15. Overtaken'
  <2> SUFFICES ASSUME ~broken, NEW Y \in Inputs, request[Y] = "accepting",
                      NEW X \in {Y} \cup ToSet(stale[Y]),
                      NEW p \in Of("input/settled")', log'[p].of = X
               PROVE  /\ log'[p].of \in ToSet(claimed)
                      /\ \A q \in Of("input/queued") : log'[q].of = Y => q < p
    BY <1>2, <1>6 DEF Overtaken, Overtakes
  <2>1. CASE p \in Of("input/settled")
    BY <1>7, <2>1 DEF InputInv, Overtaken, Overtakes
  <2>2. CASE p \in later
    <3>1. \A q \in Of("input/queued") : q < p
      BY <1>2, <1>7, <1>8, <2>2
    <3> QED BY <1>8, <2>2, <3>1
  <2> QED BY <1>6, <2>1, <2>2
<1> QED BY <1>11, <1>12, <1>13, <1>14, <1>15 DEF InputInv

\* A new input is queued: nobody holds it, and nothing has settled it.
LEMMA SubmitInputs ==
  ASSUME Typed, Typed', InputInv, NEW input \in Inputs, Submit(input)
  PROVE  InputInv'
<1>1. /\ DataOK /\ DataOK' /\ log \in Seq(Facts)
      /\ request[input] = "none" /\ inbox' = inbox /\ claimed' = claimed /\ pc' = pc
      /\ barrier' = barrier /\ onDisk' = onDisk /\ broken' = broken
      /\ request \in [Inputs -> {"none", "accepting", "accepted", "refused"}]
      /\ stale \in [Inputs -> Seq(Inputs)]
  BY DEF Typed, DataOK, Submit, Driver, boxVars, turnVars
<1>2. CASE log' = log
  <2>1. Calm
    BY <1>2, SameCalm
  <2>2. CASE request' = [request EXCEPT ![input] = "refused"] /\ stale' = stale
    <3>1. /\ \A X \in Inputs : X # input => request'[X] = request[X]
          /\ request'[input] = "refused"
      BY <1>1, <2>2
    <3>2. Queue' /\ InputRunsOnce'
      <4>1. \A X : Queued(X)' <=> Queued(X)
        BY <1>1, <2>1, CalmInputs
      <4>2. \A X \in Inputs : NoRepeat(stale[X])' /\ \A Y \in ToSet(stale'[X]) : Queued(Y)'
        BY <2>2, <4>1 DEF InputInv, Queue, NoRepeat
      <4>3. \A X \in Inputs : /\ request'[X] = "none" => ~Queued(X)'
                              /\ request'[X] = "accepting" => Queued(X)'
        BY <3>1, <4>1 DEF InputInv, Queue
      <4>4. InputRunsOnce'
        BY <1>1, <2>1, CalmInputs DEF InputInv, InputRunsOnce
      <4>5. /\ \A p, q \in Of("input/queued")' : log'[p].of = log'[q].of => p = q
            /\ \A p \in Of("input/settled")' : Queued(log'[p].of)
        <5>1. /\ Of("input/queued")' = Of("input/queued")
              /\ Of("input/settled")' = Of("input/settled")
          BY <1>1, <2>1, CalmInputs
        <5> QED BY <1>2, <5>1 DEF InputInv, Queue
      <4> QED BY <1>2, <4>2, <4>3, <4>4, <4>5 DEF Queue, Queued, Of
    <3>3. Held'
      BY <1>1, <2>1, CalmInputs DEF InputInv, Held, Waiting, NoRepeat
    <3>4. \A X \in Inputs : request'[X] = "accepting" => request[X] = "accepting"
      BY <3>1
    <3>5. /\ Of("input/queued")' = Of("input/queued") /\ Of("input/settled")' = Of("input/settled")
          /\ claimed' = claimed /\ barrier' = barrier /\ onDisk' = onDisk /\ pc' = pc
          /\ broken' = broken /\ stale' = stale
      BY <1>1, <2>1, <2>2, CalmInputs
    <3>6. Reached'
      BY <1>2, <3>4, <3>5 DEF InputInv, Reached
    <3>7. Overtaken'
      <4> SUFFICES ASSUME ~broken, NEW Y \in Inputs, request'[Y] = "accepting",
                          NEW X \in {Y} \cup ToSet(stale[Y]),
                          NEW p \in Of("input/settled"), log[p].of = X
                   PROVE  Overtakes(p, Y)
        BY <1>2, <3>5 DEF Overtaken, Overtakes
      <4> QED BY <3>4 DEF InputInv, Overtaken
    <3> QED BY <3>2, <3>3, <3>6, <3>7 DEF InputInv
  <2>3. CASE log' = Append(log, Fact("input/queued", input))
    <3>1. PICK e \in Facts : e = Fact("input/queued", input)
      BY FactTypes DEF InputTypes
    <3>2. Len(Append(log, e)) = Len(log) + 1
      BY <1>1
    <3> QED BY <1>1, <1>2, <2>3, <3>1, <3>2
  <2> QED BY <2>2, <2>3 DEF Submit
<1>3. CASE log' # log
  <2>1. PICK e \in Facts : e = Fact("input/queued", input)
    BY FactTypes DEF InputTypes
  <2>2. /\ log' = Append(log, e) /\ request' = [request EXCEPT ![input] = "accepting"]
        /\ stale' = [stale EXCEPT ![input] = Pending]
    BY <1>3, <2>1 DEF Submit
  <2>3. PICK n \in Nat : n = Len(log) + 1
    BY <1>1
  <2>4. log' = log \o <<e>> /\ <<e>> \in Seq(Facts) /\ Len(<<e>>) = 1 /\ <<e>>[1] = e
    BY <1>1, <2>2
  <2>5. /\ At(<<e>>, "input/queued") = {1} /\ At(<<e>>, "input/settled") = {}
        /\ e.of = input
    BY <2>1, OneFact, FactTypes
  <2>6. /\ At(log \o <<e>>, "input/queued") = At(log, "input/queued") \cup {n}
        /\ At(log \o <<e>>, "input/settled") = At(log, "input/settled")
        /\ \A p \in 1..Len(log) : (log \o <<e>>)[p] = log[p]
        /\ (log \o <<e>>)[n] = e
    <3>1. /\ \A p \in 1..Len(log) : (log \o <<e>>)[p] = log[p]
          /\ \A k \in 1..Len(<<e>>) : (log \o <<e>>)[Len(log) + k] = <<e>>[k]
      BY <1>1, <2>4, ConcatAt
    <3>2. PICK one \in Seq(Facts) : one = <<e>>
      BY <2>4
    <3>3. /\ log \in Seq(Facts) /\ one \in Seq(Facts) /\ Len(one) = 1
          /\ At(one, "input/queued") = {Len(one)} /\ At(one, "input/settled") = {}
      <4>1. log \in Seq(Facts) /\ one \in Seq(Facts) /\ Len(one) = 1
        BY <1>1, <2>4, <3>2
      <4>2. At(one, "input/queued") = {1} /\ At(one, "input/settled") = {}
        BY <2>5, <3>2
      <4> QED BY <4>1, <4>2
    <3>4. At(log \o one, "input/queued") = At(log, "input/queued") \cup {Len(log) + Len(one)}
      <4>1. /\ log \in Seq(Facts) /\ one \in Seq(Facts)
            /\ At(one, "input/queued") = {Len(one)}
        BY <3>3
      <4> QED BY <4>1, AtJoined
    <3>5. At(log \o one, "input/settled") = At(log, "input/settled")
      <4>1. /\ log \in Seq(Facts) /\ one \in Seq(Facts)
            /\ At(one, "input/settled") = {}
        BY <3>3
      <4> QED BY <4>1, AtJoined
    <3> QED BY <2>3, <2>4, <3>1, <3>2, <3>3, <3>4, <3>5
  <2>7. /\ Of("input/queued")' = Of("input/queued") \cup {n}
        /\ Of("input/settled")' = Of("input/settled")
        /\ \A p \in Of("input/queued") : log'[p] = log[p] /\ p \in Nat /\ p < n
        /\ \A p \in Of("input/settled") : log'[p] = log[p] /\ p \in Nat /\ p < n
        /\ log'[n].of = input /\ n \notin Of("input/queued")
    <3>1. \A t : Of(t) = At(log, t) /\ Of(t)' = At(log', t)
      BY DEF Of, At
    <3>2. \A t : At(log, t) \subseteq 1..Len(log)
      BY <1>1, AtIsFinite
    <3>3. \A p \in 1..Len(log) : p \in Nat /\ p < n
      BY <1>1, <2>3
    <3>4. n \notin 1..Len(log)
      BY <1>1, <2>3
    <3> QED BY <2>4, <2>5, <2>6, <3>1, <3>2, <3>3, <3>4
  <2>8. ~Queued(input)
    BY <1>1 DEF InputInv, Queue
  <2>9. /\ \A X : X # input => (Queued(X)' <=> Queued(X))
        /\ Queued(input)' /\ \A X : Queued(X) => Queued(X)'
        /\ \A X : Unsettled(X)' <=> Unsettled(X)
    BY <2>7, <2>8 DEF Queued, Unsettled
  <2>10. Unsettled(input)
    BY <2>8 DEF InputInv, Queue, Unsettled
  <2>11. /\ NoRepeat(Pending)
         /\ \A X : X \in ToSet(Pending) => Queued(X) /\ Unsettled(X)
    BY <1>1, PendingIs DEF InputInv, Queue
  <2>12. /\ \A X \in Inputs : X # input => request'[X] = request[X] /\ stale'[X] = stale[X]
         /\ request'[input] = "accepting" /\ stale'[input] = Pending
    BY <1>1, <2>2
  <2>13. InputRunsOnce'
    BY <2>7 DEF InputInv, InputRunsOnce
  <2>14. Queue'
    <3>1. \A p, q \in Of("input/queued")' : log'[p].of = log'[q].of => p = q
      BY <2>7, <2>8 DEF InputInv, Queue, Queued
    <3>2. \A p \in Of("input/settled")' : \E q \in Of("input/queued")' : log'[q].of = log'[p].of
      <4>1. \A X : Queued(X) => \E q \in Of("input/queued")' : log'[q].of = X
        BY <2>7 DEF Queued
      <4> QED BY <2>7, <4>1 DEF InputInv, Queue
    <3>3. \A X \in Inputs : /\ request'[X] = "none" => ~Queued(X)'
                            /\ request'[X] = "accepting" => Queued(X)'
      BY <2>9, <2>12 DEF InputInv, Queue
    <3>4. \A X \in Inputs : NoRepeat(stale[X])' /\ \A Y \in ToSet(stale'[X]) : Queued(Y)'
      <4> TAKE X \in Inputs
      <4>1. NoRepeat(stale'[X])
        BY <2>11, <2>12 DEF InputInv, Queue
      <4>2. \A Y \in ToSet(stale'[X]) : Queued(Y)'
        BY <2>9, <2>11, <2>12 DEF InputInv, Queue
      <4> QED BY <4>1, <4>2 DEF NoRepeat
    <3> QED BY <3>1, <3>2, <3>3, <3>4 DEF Queue, Queued
  <2>15. Held'
    <3>1. NoRepeat(inbox)' /\ NoRepeat(claimed)'
      BY <1>1 DEF InputInv, Held, Waiting, NoRepeat
    <3>2. /\ \A X \in ToSet(inbox') : Queued(X)' /\ Unsettled(X)'
          /\ \A X \in ToSet(claimed') : Queued(X)'
          /\ pc' = "preStep" =>
               \A X \in ToSet(claimed') : X \notin ToSet(inbox') /\ Unsettled(X)'
      BY <1>1, <2>9 DEF InputInv, Held, Waiting
    <3> QED BY <1>1, <3>1, <3>2 DEF InputInv, Held, Waiting
  <2>16. Reached'
    <3>1. onDisk \in Nat /\ onDisk <= n
      BY <1>1, <2>3 DEF DataOK
    <3>2. \A X \in Inputs, p \in Of("input/queued")' :
            request'[X] = "accepting" /\ log'[p].of = X => onDisk' <= p
      <4> SUFFICES ASSUME NEW X \in Inputs, NEW p \in Of("input/queued")',
                          request'[X] = "accepting", log'[p].of = X
                   PROVE  onDisk <= p
        BY <1>1
      <4>1. CASE p = n
        BY <3>1, <4>1
      <4>2. CASE p # n
        <5>1. p \in Of("input/queued") /\ log[p].of = X
          BY <2>7, <4>2
        <5>2. X # input
          BY <2>8, <5>1 DEF Queued
        <5>3. request[X] = "accepting"
          BY <2>12, <5>2
        <5> QED BY <5>1, <5>3 DEF InputInv, Reached
      <4> QED BY <4>1, <4>2
    <3>3. \A p \in Of("input/settled")' : log'[p].of \in ToSet(claimed') => p <= barrier'
      <4>1. Of("input/settled")' = Of("input/settled")
        BY <2>7
      <4>2. \A p \in Of("input/settled") : log'[p] = log[p]
        BY <2>7
      <4>3. claimed' = claimed /\ barrier' = barrier
        BY <1>1
      <4> QED BY <4>1, <4>2, <4>3 DEF InputInv, Reached
    <3>4. ~broken' /\ pc' = "return" => barrier' <= onDisk'
      BY <1>1 DEF InputInv, Reached
    <3> QED BY <3>2, <3>3, <3>4 DEF Reached
  <2>17. Overtaken'
    <3>0. /\ claimed' = claimed /\ broken' = broken
          /\ Of("input/settled")' = Of("input/settled")
          /\ \A p \in Of("input/settled") : log'[p] = log[p]
      BY <1>1, <2>7
    <3> SUFFICES ASSUME ~broken, NEW Y \in Inputs, request'[Y] = "accepting",
                        NEW X \in {Y} \cup ToSet(stale'[Y]),
                        NEW p \in Of("input/settled"), log[p].of = X
                 PROVE  /\ log[p].of \in ToSet(claimed)
                        /\ \A q \in Of("input/queued")' : log'[q].of = Y => q < p
      BY <3>0 DEF Overtaken, Overtakes
    <3>1. Y # input
      <4>1. ~Unsettled(X)
        BY DEF Unsettled
      <4> QED BY <2>10, <2>11, <2>12, <4>1
    <3>2. Overtakes(p, Y)
      BY <2>12, <3>1 DEF InputInv, Overtaken
    <3> QED BY <2>7, <3>1, <3>2 DEF Overtakes
  <2> QED BY <2>13, <2>14, <2>15, <2>16, <2>17 DEF InputInv
<1> QED BY <1>2, <1>3

\* A record that a request waits for is not passed by the next one.
LEMMA StoredInputs ==
  ASSUME Typed, Typed', InputInv, RecordStored
  PROVE  InputInv'
<1>1. /\ DataOK /\ Calm /\ log' = log /\ onDisk' = onDisk + 1 /\ onDisk < Len(log)
      /\ inbox' = inbox /\ claimed' = claimed /\ pc' = pc /\ barrier' = barrier
      /\ broken' = broken /\ request' = request /\ stale' = stale
      /\ onDisk \in Nat /\ barrier \in Nat
  BY SameCalm DEF Typed, DataOK, RecordStored, boxVars, turnVars, requestVars
<1>2. OnlyAnswers
  BY <1>1 DEF OnlyAnswers
<1>3. Queue' /\ InputRunsOnce' /\ Overtaken'
  BY <1>1, <1>2, QueueCalm, OvertakenCalm DEF InputInv
<1>4. Held'
  BY <1>1, CalmInputs DEF InputInv, Held, Waiting, NoRepeat
<1>5. ASSUME NEW X \in Inputs, NEW p \in Of("input/queued"),
             request[X] = "accepting", log[p].of = X
      PROVE  onDisk + 1 <= p
  <2>1. ~(Position(X) <= onDisk)
    BY <1>5 DEF RecordStored, ReactionsRun, Ready
  <2>2. Position(X) \in Of("input/queued") /\ log[Position(X)].of = X
    BY <1>5 DEF Position
  <2>3. Position(X) = p
    BY <1>5, <2>2 DEF InputInv, Queue
  <2>4. p \in Nat
    BY DEF Of
  <2> QED BY <1>1, <2>1, <2>3, <2>4
<1>6. Reached'
  <2>1. \A X \in Inputs, p \in Of("input/queued")' :
          request'[X] = "accepting" /\ log'[p].of = X => onDisk' <= p
    BY <1>1, <1>5, CalmInputs
  <2>2. \A p \in Of("input/settled")' : log'[p].of \in ToSet(claimed') => p <= barrier'
    BY <1>1, CalmInputs DEF InputInv, Reached
  <2>3. ~broken' /\ pc' = "return" => barrier' <= onDisk'
    BY <1>1 DEF InputInv, Reached
  <2> QED BY <2>1, <2>2, <2>3 DEF Reached
<1> QED BY <1>3, <1>4, <1>6 DEF InputInv

\* A step that logs nothing of any input, and moves none.
LEMMA DriverKeeps ==
  ASSUME Typed, Typed', InputInv, Calm, UNCHANGED <<boxVars, request, stale, onDisk, broken>>,
         barrier' \in {barrier, Len(log')},
         pc' = "preStep" => pc = "preStep",
         pc' \in {"idle", "loop", "exit"} => pc \in {"idle", "loop", "exit"},
         pc' = "return" => broken \/ barrier' <= onDisk
  PROVE  InputInv'
<1>1. /\ inbox' = inbox /\ claimed' = claimed /\ onDisk' = onDisk /\ broken' = broken
      /\ request' = request /\ stale' = stale
  BY DEF boxVars
<1>2. OnlyAnswers
  BY <1>1 DEF OnlyAnswers
<1>3. /\ NoRepeat(inbox') /\ \A X \in ToSet(inbox') : Queued(X) /\ Unsettled(X)
      /\ pc' = "preStep" =>
           pc = "preStep" /\ \A X \in ToSet(claimed) : X \notin ToSet(inbox')
      /\ pc' \in {"idle", "loop", "exit"} => claimed = <<>>
  BY <1>1 DEF InputInv, Held, Waiting
<1>4. (broken => broken') /\ (pc' = "return" => broken' \/ barrier' <= onDisk)
  BY <1>1
<1> QED BY <1>1, <1>2, <1>3, <1>4, InputsKept

LEMMA RecordKeeps ==
  ASSUME Typed, Typed', InputInv, NEW facts \in Seq(Facts), InputFree(facts),
         NEW await, await \notin {"preStep", "idle", "loop", "exit", "return"}, NEW how,
         Record(facts, await, how), UNCHANGED OutsideTurn
  PROVE  InputInv'
<1>1. DataOK /\ (poisoned => broken) /\ Calm
  BY RecordCalm DEF Typed, FlagsOK
<1>2. UNCHANGED <<boxVars, request, stale, onDisk, broken>>
  BY DEF OutsideTurn, OutsideDriver, requestVars
<1>3. /\ barrier' \in {barrier, Len(log')}
      /\ pc' \notin {"preStep", "idle", "loop", "exit"}
      /\ pc' = "return" => broken
  BY <1>1 DEF Record
<1> QED BY <1>1, <1>2, <1>3, DriverKeeps

\* A step that leaves the log and the driver where they are.
LEMMA SameDriver ==
  ASSUME Typed, Typed', InputInv, UNCHANGED <<log, boxVars, pc, barrier, onDisk>>,
         OnlyAnswers, broken => broken'
  PROVE  InputInv'
<1>1. /\ log' = log /\ inbox' = inbox /\ claimed' = claimed /\ pc' = pc
      /\ barrier' = barrier /\ onDisk' = onDisk
  BY DEF boxVars
<1>2. Calm
  BY <1>1, SameCalm
<1>3. /\ NoRepeat(inbox') /\ \A X \in ToSet(inbox') : Queued(X) /\ Unsettled(X)
      /\ pc' = "preStep" =>
           pc = "preStep" /\ \A X \in ToSet(claimed) : X \notin ToSet(inbox')
      /\ pc' \in {"idle", "loop", "exit"} => claimed = <<>>
  BY <1>1 DEF InputInv, Held, Waiting
<1>4. pc' = "return" => broken' \/ barrier' <= onDisk
  <2>1. broken' \in BOOLEAN /\ broken \in BOOLEAN
    BY DEF Typed, FlagsOK
  <2> QED BY <1>1, <2>1 DEF InputInv, Reached
<1> QED BY <1>1, <1>2, <1>3, <1>4, InputsKept

\* What a request hands to the agent waits, and no turn has claimed it.
Free(waiting) ==
  /\ waiting \in Seq(Inputs) /\ Waiting(waiting)
  /\ pc = "preStep" => \A X \in ToSet(claimed) : X \notin ToSet(waiting)

LEMMA AdoptedFree ==
  ASSUME Typed, InputInv, NEW pending \in Seq(Inputs), NoRepeat(pending),
         \A X \in ToSet(pending) : X \notin ToSet(claimed) => Queued(X) /\ Unsettled(X)
  PROVE  Free(Adopted(pending))
<1>1. DataOK /\ Waiting(inbox)
  BY DEF Typed, InputInv, Held
<1>2. /\ Adopted(pending) \in Seq(Inputs)
      /\ \A X : X \in ToSet(Adopted(pending)) =>
                  \/ X \in ToSet(inbox) /\ X \notin ToSet(pending)
                  \/ X \in ToSet(pending) /\ X \notin ToSet(claimed)
      /\ NoRepeat(Adopted(pending))
  BY <1>1, AdoptedIs DEF Waiting
<1>3. \A X \in ToSet(Adopted(pending)) : Queued(X) /\ Unsettled(X)
  BY <1>1, <1>2 DEF Waiting
<1>4. pc = "preStep" => \A X \in ToSet(claimed) : X \notin ToSet(Adopted(pending))
  BY <1>2 DEF InputInv, Held
<1> QED BY <1>2, <1>3, <1>4 DEF Free, Waiting

LEMMA AcceptedFree ==
  ASSUME Typed, InputInv, NEW input \in Inputs, request[input] = "accepting", ~broken
  PROVE  Free(Enqueued(Adopted(stale[input]), input))
<1>1. DataOK /\ stale[input] \in Seq(Inputs)
  BY DEF Typed, DataOK
<1>2. \A X \in {input} \cup ToSet(stale[input]) :
        X \notin ToSet(claimed) => Queued(X) /\ Unsettled(X)
  <2> TAKE X \in {input} \cup ToSet(stale[input])
  <2>1. Queued(X)
    BY DEF InputInv, Queue
  <2>2. \A p \in Of("input/settled") : log[p].of = X => Overtakes(p, input)
    BY DEF InputInv, Overtaken
  <2>3. X \notin ToSet(claimed) => Unsettled(X)
    BY <2>2 DEF Unsettled, Overtakes
  <2> QED BY <2>1, <2>3
<1>3. PICK adopted : adopted = Adopted(stale[input])
  OBVIOUS
<1>4. Free(adopted)
  <2>1. NoRepeat(stale[input])
    BY DEF InputInv, Queue
  <2> QED BY <1>1, <1>2, <1>3, <2>1, AdoptedFree
<1>5. /\ Enqueued(adopted, input) \in Seq(Inputs)
      /\ \A X : X \in ToSet(Enqueued(adopted, input)) =>
                  X \in ToSet(adopted) \/ (X = input /\ input \notin ToSet(claimed))
      /\ NoRepeat(Enqueued(adopted, input))
  BY <1>1, <1>4, EnqueuedIs DEF Free, Waiting
<1>6. \A X \in ToSet(Enqueued(adopted, input)) : Queued(X) /\ Unsettled(X)
  BY <1>2, <1>4, <1>5 DEF Free, Waiting
<1>7. pc = "preStep" => \A X \in ToSet(claimed) : X \notin ToSet(Enqueued(adopted, input))
  BY <1>4, <1>5 DEF Free
<1> QED BY <1>3, <1>5, <1>6, <1>7 DEF Free, Waiting

LEMMA SteeredFree ==
  ASSUME Typed, InputInv
  PROVE  Free(Adopted(Pending))
<1>1. /\ Pending \in Seq(Inputs) /\ NoRepeat(Pending)
      /\ \A X \in ToSet(Pending) : Queued(X) /\ Unsettled(X)
  BY PendingIs DEF Typed, InputInv, Queue
<1> QED BY <1>1, AdoptedFree

LEMMA DispatchKeeps ==
  ASSUME Typed, Typed', InputInv, NEW waiting, Free(waiting), NEW delivery,
         Dispatch(waiting, delivery), OnlyAnswers, UNCHANGED <<onDisk, broken, poisoned>>
  PROVE  InputInv'
<1>1. /\ waiting \in Seq(Inputs) /\ Waiting(waiting)
      /\ pc = "preStep" => \A X \in ToSet(claimed) : X \notin ToSet(waiting)
  BY DEF Free
<1>2. CASE pc = "idle"
  <2>1. BeginTurn(waiting) /\ claimed = <<>>
    BY <1>2 DEF Dispatch, BeginRun, InputInv, Held
  <2> QED BY <1>1, <2>1, TurnTakes
<1>3. CASE pc # "idle"
  <2>1. /\ log' = log /\ inbox' = waiting /\ claimed' = claimed /\ pc' = pc
        /\ barrier' = barrier /\ onDisk' = onDisk /\ broken' = broken
    BY <1>3 DEF Dispatch, turnVars
  <2>2. Calm
    BY <2>1, SameCalm
  <2>3. /\ NoRepeat(inbox') /\ \A X \in ToSet(inbox') : Queued(X) /\ Unsettled(X)
        /\ pc' = "preStep" =>
             pc = "preStep" /\ \A X \in ToSet(claimed) : X \notin ToSet(inbox')
        /\ pc' \in {"idle", "loop", "exit"} => claimed = <<>>
    BY <1>1, <2>1 DEF InputInv, Held, Waiting
  <2>4. pc' = "return" => broken' \/ barrier' <= onDisk
    BY <2>1 DEF InputInv, Reached, Typed, FlagsOK
  <2>5. (broken => broken') /\ barrier' \in {barrier, Len(log')}
    BY <2>1
  <2> QED BY <2>1, <2>2, <2>3, <2>4, <2>5, InputsKept
<1> QED BY <1>2, <1>3

\* Admission: what a turn has claimed is settled, handed back, or let go.
LEMMA AdmissionInputs ==
  ASSUME Typed, Typed', InputInv,
         \/ PreStepHandsBack \/ PreStepEnters \/ PreStepRejects \/ PreStepAdmitsNothing
         \/ PreStepThrows
  PROVE  InputInv'
<1>1. /\ DataOK /\ (poisoned => broken) /\ Turns \in Nat
      /\ pc = "preStep" /\ claimed \in Seq(Inputs) /\ inbox \in Seq(Inputs)
  BY OfTypes DEF Typed, FlagsOK, DataOK, PreStepHandsBack, PreStepEnters, PreStepRejects,
     PreStepAdmitsNothing, PreStepThrows
<1>2. CASE PreStepHandsBack
  <2>1. EndTurn(<<>>, StopReason) /\ inbox' = claimed \o inbox
    BY <1>2 DEF PreStepHandsBack
  <2>2. /\ claimed' = claimed /\ onDisk' = onDisk /\ broken' = broken
        /\ request' = request /\ stale' = stale
    BY <1>2 DEF PreStepHandsBack, OutsideDriver, requestVars
  <2>3. Calm /\ OnlyAnswers
    BY <1>1, <2>1, <2>2, EndCalm DEF OnlyAnswers
  <2>4. /\ NoRepeat(inbox) /\ NoRepeat(claimed)
        /\ \A X \in ToSet(claimed) : X \notin ToSet(inbox) /\ Queued(X) /\ Unsettled(X)
        /\ \A X \in ToSet(inbox) : Queued(X) /\ Unsettled(X)
    BY <1>1 DEF InputInv, Held, Waiting
  <2>5. NoRepeat(inbox') /\ \A X \in ToSet(inbox') : Queued(X) /\ Unsettled(X)
    <3>1. /\ NoRepeat(claimed \o inbox)
          /\ \A X \in ToSet(claimed \o inbox) : X \in ToSet(claimed) \/ X \in ToSet(inbox)
      BY <1>1, <2>4, JoinedIs
    <3> QED BY <2>1, <2>4, <3>1
  <2>6. /\ barrier' \in {barrier, Len(log')} /\ pc' \notin {"preStep", "idle", "loop", "exit"}
        /\ pc' = "return" => broken'
    BY <1>1, <2>1, <2>2 DEF EndTurn, Record
  <2> QED BY <2>2, <2>3, <2>5, <2>6, InputsKept
<1>3. ASSUME NEW rest \in Seq(Facts), InputFree(rest), NEW await \in {"admission", "turnEnd"},
             NEW how, Record(Settled \o rest, await, how), UNCHANGED OutsideTurn
      PROVE  InputInv'
  <2>1. UNCHANGED <<boxVars, request, stale, onDisk, broken>>
    BY <1>3 DEF OutsideTurn, OutsideDriver, requestVars
  <2>2. CASE poisoned
    <3>1. log' = log /\ barrier' = barrier /\ pc' = "return" /\ broken
      BY <1>1, <1>3, <2>2 DEF Record
    <3>2. /\ barrier' \in {barrier, Len(log')} /\ pc' \notin {"preStep", "idle", "loop", "exit"}
          /\ pc' = "return" => broken \/ barrier' <= onDisk
      BY <3>1
    <3> QED BY <2>1, <3>1, <3>2, SameCalm, DriverKeeps
  <2>3. CASE ~poisoned
    <3>1. /\ log' = log \o (Settled \o rest) /\ barrier' = Len(log')
          /\ pc' \in {"admission", "turnEnd"}
      BY <1>3, <2>3 DEF Record
    <3> QED BY <1>1, <1>3, <2>1, <3>1, SettlesClaimed
  <2> QED BY <2>2, <2>3
<1>4. PICK end \in Facts, error \in Facts :
        end = Fact("turn/end", Turns) /\ error = Fact("turn/error", Turns)
  BY <1>1, FactTypes DEF TurnTypes
<1>5. PICK s \in Seq(Facts) : s = Settled
  BY <1>1, SettledIs
<1>6. InputFree(<<>>) /\ InputFree(<<end>>) /\ InputFree(<<error>>)
  BY <1>1, <1>4, FreeFacts DEF TurnTypes
<1>7. CASE PreStepEnters
  <2>1. Record(s, "admission", "open") /\ UNCHANGED OutsideTurn
    BY <1>5, <1>7 DEF PreStepEnters
  <2>2. s \o <<>> = s /\ <<>> \in Seq(Facts)
    BY <1>5
  <2> QED BY <1>3, <1>5, <1>6, <2>1, <2>2
<1>8. CASE PreStepAdmitsNothing
  <2>1. Record(Append(s, end), "turnEnd", "empty") /\ UNCHANGED OutsideTurn
    BY <1>4, <1>5, <1>8 DEF PreStepAdmitsNothing, EndTurn
  <2>2. Append(s, end) = s \o <<end>> /\ <<end>> \in Seq(Facts)
    BY <1>5
  <2> QED BY <1>3, <1>5, <1>6, <2>1, <2>2
<1>9. CASE PreStepRejects
  <2>1. Record(Append(Append(s, error), end), "turnEnd", "rejected") /\ UNCHANGED OutsideTurn
    BY <1>4, <1>5, <1>9 DEF PreStepRejects, EndTurn
  <2>2. Append(Append(s, error), end) = s \o <<error, end>> /\ <<error, end>> \in Seq(Facts)
    BY <1>5
  <2>3. InputFree(<<error, end>>)
    <3>1. /\ Len(<<error, end>>) = 2 /\ <<error, end>>[1] = error /\ <<error, end>>[2] = end
          /\ \A p : p \in 1..2 <=> p = 1 \/ p = 2
      OBVIOUS
    <3>2. error.type = "turn/error" /\ end.type = "turn/end"
      BY <1>4, FactTypes
    <3> QED BY <3>1, <3>2 DEF InputFree, InputTypes, At
  <2> QED BY <1>3, <1>5, <2>1, <2>2, <2>3
<1>10. CASE PreStepThrows
  <2>1. Record(<<error>>, "errorNoted", "failed") /\ UNCHANGED OutsideTurn
    BY <1>4, <1>10 DEF PreStepThrows, Fail
  <2>2. <<error>> \in Seq(Facts)
    OBVIOUS
  <2> QED BY <1>6, <2>1, <2>2, RecordKeeps
<1> QED BY <1>2, <1>7, <1>8, <1>9, <1>10

\* The steps of a turn that record, or only wait.
Recording ==
  \E facts, await, how :
    /\ facts \in Seq(Facts) /\ InputFree(facts) /\ Record(facts, await, how)
    /\ await \notin {"preStep", "idle", "loop", "exit", "return"}
Passing ==
  /\ log' = log /\ barrier' = barrier
  /\ pc' \notin {"preStep", "idle", "loop", "exit", "return"}

LEMMA PassingKeeps ==
  ASSUME Typed, Typed', InputInv, Recording \/ Passing, UNCHANGED OutsideTurn
  PROVE  InputInv'
<1>1. CASE Recording
  BY <1>1, RecordKeeps DEF Recording
<1>2. CASE Passing
  <2>1. Calm /\ UNCHANGED <<boxVars, request, stale, onDisk, broken>>
    BY <1>2, SameCalm DEF Passing, OutsideTurn, OutsideDriver, requestVars
  <2>2. /\ barrier' \in {barrier, Len(log')}
        /\ pc' \notin {"preStep", "idle", "loop", "exit", "return"}
    BY <1>2 DEF Passing
  <2> QED BY <2>1, <2>2, DriverKeeps
<1> QED BY <1>1, <1>2

LEMMA Recordings ==
  ASSUME DataOK
  PROVE  /\ Fail => Recording
         /\ \A await, how : await \notin {"preStep", "idle", "loop", "exit", "return"} =>
              /\ Record(<<>>, await, how) => Recording
              /\ Record(Skipped, await, how) => Recording
              /\ \A t \in TurnTypes, n \in Nat :
                   Record(<<Fact(t, n)>>, await, how) => Recording
              /\ \A n \in Nat : Record(<<Call(n), Result(n)>>, await, how) => Recording
         /\ CloseStep => Recording
         /\ \A how : EndTurn(<<>>, how) => Recording
<1>1. /\ <<>> \in Seq(Facts) /\ Skipped \in Seq(Facts)
      /\ \A t \in TurnTypes, n \in Nat : <<Fact(t, n)>> \in Seq(Facts)
      /\ \A n \in Nat : <<Call(n), Result(n)>> \in Seq(Facts)
      /\ Turns \in Nat
  BY RecordedFacts, OfTypes
<1>2. ASSUME NEW await, NEW how, await \notin {"preStep", "idle", "loop", "exit", "return"}
      PROVE  /\ Record(<<>>, await, how) => Recording
             /\ Record(Skipped, await, how) => Recording
             /\ \A t \in TurnTypes, n \in Nat :
                  Record(<<Fact(t, n)>>, await, how) => Recording
             /\ \A n \in Nat : Record(<<Call(n), Result(n)>>, await, how) => Recording
  BY <1>1, <1>2, FreeFacts DEF Recording
<1>3. Fail => Recording
  BY <1>1, <1>2 DEF Fail, TurnTypes
<1>4. CloseStep => Recording
  BY <1>2 DEF CloseStep
<1>5. \A how : EndTurn(<<>>, how) => Recording
  <2>1. PICK e : e = Fact("turn/end", Turns)
    OBVIOUS
  <2>2. Append(<<>>, e) = <<e>>
    OBVIOUS
  <2> QED BY <1>1, <1>2, <2>1, <2>2 DEF EndTurn, TurnTypes
<1> QED BY <1>2, <1>3, <1>4, <1>5

LEMMA TurnInputs ==
  ASSUME Typed, Typed', InputInv,
         \/ AdmissionFlushed \/ RequestReady \/ RequestThrows \/ StreamAborted
         \/ ProviderFails \/ SomeReply
         \/ CallPrepared \/ PrepareThrows \/ IntentFlushed \/ ToolReturns
         \/ AnswerFlushed \/ SkippedFlushed \/ StepClosed
         \/ TurnStops \/ TurnStoppingThrows \/ StopClosed \/ ErrorFlushed
  PROVE  InputInv'
<1>1. DataOK /\ Turns \in Nat /\ Executions \in Nat /\ Executions + 1 \in Nat
  BY OfTypes DEF Typed
<1>2. CASE AdmissionFlushed \/ RequestReady \/ RequestThrows \/ StreamAborted
  <2>1. UNCHANGED OutsideTurn
    BY <1>2 DEF AdmissionFlushed, RequestReady, RequestThrows, StreamAborted
  <2>2. Recording \/ Passing
    BY <1>1, <1>2, Recordings DEF AdmissionFlushed, RequestReady, RequestThrows,
       StreamAborted, GoOnUnlessStopped, Passing
  <2> QED BY <2>1, <2>2, PassingKeeps
<1>3. CASE ProviderFails \/ SomeReply
  <2>1. UNCHANGED OutsideTurn
    BY <1>3 DEF ProviderFails, SomeReply, StreamDone
  <2>2. Recording \/ Passing
    BY <1>1, <1>3, Recordings DEF ProviderFails, SomeReply, StreamDone, Passing
  <2> QED BY <2>1, <2>2, PassingKeeps
<1>4. CASE CallPrepared \/ PrepareThrows \/ IntentFlushed \/ ToolReturns
  <2>1. UNCHANGED OutsideTurn
    BY <1>4 DEF CallPrepared, PrepareThrows, IntentFlushed, ToolReturns
  <2>2. CASE CallPrepared
    <3>1. Record(<<Fact("tool/call", Executions + 1)>>, "intent", outcome)
      BY <2>2 DEF CallPrepared, Call
    <3>2. Recording
      BY <1>1, <3>1, Recordings DEF TurnTypes
    <3> QED BY <2>1, <3>2, PassingKeeps
  <2>3. CASE PrepareThrows
    <3>1. Record(<<Call(Executions + 1), Result(Executions + 1)>>, "answer", outcome)
      BY <2>3 DEF PrepareThrows
    <3>2. Recording
      BY <1>1, <3>1, Recordings
    <3> QED BY <2>1, <3>2, PassingKeeps
  <2>4. CASE IntentFlushed
    BY <2>1, <2>4, PassingKeeps DEF IntentFlushed, Passing
  <2>5. CASE ToolReturns
    <3>1. Record(<<Fact("tool/result", Executions)>>, "answer", outcome)
      BY <2>5 DEF ToolReturns, Result
    <3>2. Recording
      BY <1>1, <3>1, Recordings DEF TurnTypes
    <3> QED BY <2>1, <3>2, PassingKeeps
  <2> QED BY <1>4, <2>2, <2>3, <2>4, <2>5
<1>5. CASE AnswerFlushed \/ SkippedFlushed \/ StepClosed
  <2>1. UNCHANGED OutsideTurn
    BY <1>5 DEF AnswerFlushed, SkippedFlushed, StepClosed
  <2>2. Recording \/ Passing
    BY <1>1, <1>5, Recordings DEF AnswerFlushed, SkippedFlushed, StepClosed, Passing
  <2> QED BY <2>1, <2>2, PassingKeeps
<1>6. CASE TurnStops \/ TurnStoppingThrows \/ StopClosed \/ ErrorFlushed
  <2>1. UNCHANGED OutsideTurn
    BY <1>6 DEF TurnStops, TurnStoppingThrows, StopClosed, ErrorFlushed
  <2>2. Recording
    BY <1>1, <1>6, Recordings DEF TurnStops, TurnStoppingThrows, StopClosed, ErrorFlushed,
       TurnTypes
  <2> QED BY <2>1, <2>2, PassingKeeps
<1> QED BY <1>2, <1>3, <1>4, <1>5, <1>6

\* The end of a turn, and of a run.
LEMMA RunInputs ==
  ASSUME Typed, Typed', InputInv,
         EndFlushed \/ FlushFails \/ TurnReturns \/ RunLoops \/ RunLeaves \/ RunSettles
  PROVE  InputInv'
<1>1. DataOK /\ DataOK' /\ Waiting(inbox) /\ inbox \in Seq(Inputs)
  BY DEF Typed, DataOK, InputInv, Held
<1>2. CASE EndFlushed
  <2>1. /\ log' = log /\ barrier' = barrier /\ pc' = "return" /\ barrier <= onDisk
        /\ UNCHANGED <<boxVars, request, stale, onDisk, broken>>
    BY <1>2 DEF EndFlushed, Flushed, OutsideTurn, OutsideDriver, requestVars
  <2>2. /\ barrier' \in {barrier, Len(log')} /\ pc' \notin {"preStep", "idle", "loop", "exit"}
        /\ pc' = "return" => broken \/ barrier' <= onDisk
    BY <2>1
  <2> QED BY <2>1, <2>2, SameCalm, DriverKeeps
<1>3. CASE FlushFails
  <2>1. /\ log' = log /\ barrier' = barrier /\ pc' = "return" /\ broken
        /\ UNCHANGED <<boxVars, request, stale, onDisk, broken>>
    BY <1>3 DEF FlushFails, OutsideDriver, requestVars
  <2>2. /\ barrier' \in {barrier, Len(log')} /\ pc' \notin {"preStep", "idle", "loop", "exit"}
        /\ pc' = "return" => broken \/ barrier' <= onDisk
    BY <2>1
  <2> QED BY <2>1, <2>2, SameCalm, DriverKeeps
<1>4. CASE TurnReturns
  BY <1>4, TurnLetsGo
<1>5. ASSUME pc \in {"loop", "exit"}, BeginTurn(inbox), UNCHANGED <<poisoned, OutsideDriver>>
      PROVE  InputInv'
  <2>1. /\ onDisk' = onDisk /\ broken' = broken /\ poisoned' = poisoned
        /\ request' = request /\ stale' = stale
    BY <1>5 DEF OutsideDriver, requestVars
  <2>2. OnlyAnswers /\ claimed = <<>>
    BY <1>5, <2>1 DEF OnlyAnswers, InputInv, Held
  <2> QED BY <1>1, <1>5, <2>1, <2>2, TurnTakes
<1>6. CASE RunLoops
  BY <1>5, <1>6 DEF RunLoops
<1>7. ASSUME pc \in {"loop", "exit"}, pc' \in {"exit", "idle"},
             UNCHANGED <<log, boxVars, barrier, request, stale, onDisk, broken>>
      PROVE  InputInv'
  <2>1. log' = log /\ barrier' \in {barrier, Len(log')}
    BY <1>7
  <2> QED BY <1>7, <2>1, SameCalm, DriverKeeps
<1>8. CASE RunLeaves
  BY <1>7, <1>8 DEF RunLeaves, sessionVars, requestVars
<1>9. CASE RunSettles
  <2>1. pc = "exit" /\ UNCHANGED <<poisoned, OutsideDriver>>
    BY <1>9 DEF RunSettles
  <2>2. CASE RunsAgain
    BY <1>5, <1>9, <2>1, <2>2 DEF RunSettles, BeginRun
  <2>3. CASE ~RunsAgain
    <3>1. pc' = "idle" /\ UNCHANGED <<log, boxVars, barrier>>
      BY <1>9, <2>3 DEF RunSettles
    <3>2. UNCHANGED <<request, stale, onDisk, broken>>
      BY <2>1 DEF OutsideDriver, requestVars
    <3> QED BY <1>7, <2>1, <3>1, <3>2
  <2> QED BY <2>2, <2>3
<1> QED BY <1>2, <1>3, <1>4, <1>6, <1>8, <1>9

LEMMA RequestInputs ==
  ASSUME Typed, Typed', InputInv, Request
  PROVE  InputInv'
<1>1. ASSUME NEW input \in Inputs, Submit(input) PROVE InputInv'
  BY <1>1, SubmitInputs
<1>2. ASSUME NEW input \in Inputs, Resubmit(input) PROVE InputInv'
  BY <1>2, SameDriver DEF Resubmit, Driver, sessionVars, turnVars, OnlyAnswers
<1>3. ASSUME NEW input \in Inputs, NotAccepted(input) PROVE InputInv'
  <2>1. /\ request' = [request EXCEPT ![input] = "refused"]
        /\ stale' = [stale EXCEPT ![input] = <<>>]
        /\ UNCHANGED <<log, boxVars, pc, barrier, onDisk, broken>>
    BY <1>3 DEF NotAccepted, Driver, turnVars
  <2>2. OnlyAnswers
    BY <2>1 DEF OnlyAnswers, Typed, DataOK
  <2> QED BY <2>1, <2>2, SameDriver
<1>4. ASSUME NEW input \in Inputs, Accepted(input) PROVE InputInv'
  <2>1. /\ request' = [request EXCEPT ![input] = "accepted"]
        /\ stale' = [stale EXCEPT ![input] = <<>>]
        /\ UNCHANGED <<onDisk, broken, poisoned>>
        /\ request[input] = "accepting" /\ ~broken
    BY <1>4 DEF Accepted, Ready
  <2>2. OnlyAnswers
    BY <2>1 DEF OnlyAnswers, Typed, DataOK
  <2>3. PICK waiting : waiting = Enqueued(Adopted(stale[input]), input)
    OBVIOUS
  <2>4. PICK delivery : Dispatch(waiting, delivery)
    BY <1>4, <2>3 DEF Accepted
  <2>5. Free(waiting)
    BY <2>1, <2>3, AcceptedFree
  <2> QED BY <2>1, <2>2, <2>4, <2>5, DispatchKeeps
<1>5. CASE SteerSession
  <2>1. /\ Dispatch(Adopted(Pending), "steer") /\ UNCHANGED <<onDisk, broken, poisoned>>
        /\ request' = request /\ stale' = stale
    BY <1>5 DEF SteerSession, requestVars
  <2>2. OnlyAnswers
    BY <2>1 DEF OnlyAnswers
  <2> QED BY <2>1, <2>2, SteeredFree, DispatchKeeps
<1>6. CASE Stop
  BY <1>6, SameDriver DEF Stop, sessionVars, turnVars, requestVars, OnlyAnswers
<1> QED BY <1>1, <1>2, <1>3, <1>4, <1>5, <1>6 DEF Request

LEMMA InputStep ==
  ASSUME Typed, Typed', InputInv, [Next]_vars
  PROVE  InputInv'
<1>1. ASSUME UNCHANGED <<log, onDisk, boxVars, turnVars, requestVars>>, broken => broken'
      PROVE  InputInv'
  BY <1>1, SameDriver DEF turnVars, requestVars, OnlyAnswers
<1>2. CASE StreamSilent \/ StorageBreaks
  BY <1>1, <1>2 DEF StreamSilent, StorageBreaks, sessionVars
<1>3. CASE RecordStored
  BY <1>3, StoredInputs
<1>4. CASE Request
  BY <1>4, RequestInputs
<1>5. CASE Continue \/ Provider
  BY <1>2, <1>5, AdmissionInputs, TurnInputs, RunInputs DEF Continue, Provider
<1>6. CASE UNCHANGED vars
  BY <1>1, <1>6 DEF vars, sessionVars
<1> QED BY <1>2, <1>3, <1>4, <1>5, <1>6 DEF Next

-----------------------------------------------------------------------------
IInv ==
  /\ Typed
  /\ Books /\ TranscriptCloses
  /\ IntentKnown /\ IntentBeforeEffect
  /\ StopInv /\ NothingStranded
  /\ InputInv

LEMMA InitKeeps == Init => IInv
<1> SUFFICES ASSUME Init PROVE IInv
  OBVIOUS
<1>1. Typed /\ log = <<>> /\ pc = "idle" /\ ~poisoned
  BY TypedInit DEF Init
<1>2. \A t : At(log, t) = {} /\ Of(t) = {}
  BY <1>1, AtShort, OfIsAt
<1>3. Turns = 0 /\ Ends = 0 /\ Executions = 0
  BY <1>2, FS_EmptySet DEF Turns, Ends, Executions
<1>4. Books
  <2>1. Phase(pc) = "closed"
    BY <1>1, PhaseOf DEF OpenPcs
  <2>2. CallsUpTo(log, Executions) /\ AnswersUpTo(log, Answered)
    BY <1>2, <1>3, <2>1 DEF CallsUpTo, AnswersUpTo, Answered
  <2> QED BY <1>3, <2>1, <2>2 DEF Books
<1>5. TranscriptCloses
  BY <1>2 DEF TranscriptCloses
<1>6. IntentKnown /\ IntentBeforeEffect
  BY DEF Init, IntentKnown, IntentBeforeEffect
<1>7. StopInv
  BY DEF Init, StopInv, Causes, Intent, Leaving, Left
<1>8. NothingStranded
  BY DEF Init, NothingStranded
<1>9. InputInv
  <2>1. /\ ToSet(<<>>) = {} /\ NoRepeat(<<>>)
    BY DEF ToSet, NoRepeat
  <2>2. \A X : ~Queued(X)
    BY <1>2 DEF Queued
  <2>3. Queue
    BY <1>2, <2>1, <2>2 DEF Init, Queue
  <2>4. Held
    BY <2>1 DEF Init, Held, Waiting
  <2>5. InputRunsOnce /\ Reached /\ Overtaken
    BY <1>2 DEF Init, InputRunsOnce, Reached, Overtaken
  <2> QED BY <2>3, <2>4, <2>5 DEF InputInv
<1> QED BY <1>1, <1>4, <1>5, <1>6, <1>7, <1>8, <1>9 DEF IInv

LEMMA StepKeeps == IInv /\ [Next]_vars => IInv'
<1> SUFFICES ASSUME IInv, [Next]_vars PROVE IInv'
  OBVIOUS
<1>1. Typed /\ FlagsOK /\ DataOK /\ Typed'
  BY TypedStep DEF IInv, Typed
<1>2. InputInv'
  BY <1>1, InputStep DEF IInv
<1>3. CASE Next
  <2>1. LogStep
    BY <1>1, <1>3, LogSteps
  <2>2. Books' /\ TranscriptCloses'
    BY <1>1, <2>1, BooksStep, ClosesStep DEF IInv
  <2>3. IntentKnown' /\ IntentBeforeEffect'
    BY <1>1, <1>3, KnownStep, EffectStep DEF IInv
  <2>4. StopInv' /\ NothingStranded'
    BY <1>1, <1>3, StopStep, StrandedStep DEF IInv
  <2> QED BY <1>1, <1>2, <2>2, <2>3, <2>4 DEF IInv
<1>4. CASE UNCHANGED vars
  <2>1. UNCHANGED <<log, onDisk, broken, poisoned, inbox, pc, barrier, outcome, leaving,
                    abortVars, begun, quiet>>
    BY <1>4 DEF vars, sessionVars, boxVars, turnVars
  <2>2. /\ \A t : Of(t)' = Of(t)
        /\ Turns' = Turns /\ Ends' = Ends /\ Executions' = Executions
    BY <2>1 DEF Of, Turns, Ends, Executions
  <2>3. Books'
    <3>1. Answered' = Answered
      BY <2>1, <2>2 DEF Answered
    <3> QED BY <2>1, <2>2, <3>1 DEF IInv, Books
  <2>4. TranscriptCloses'
    BY <2>1, <2>2, ClosedIs, ClosedNext DEF IInv
  <2>5. IntentKnown' /\ IntentBeforeEffect'
    BY <2>1, <2>2 DEF IInv, IntentKnown, IntentBeforeEffect
  <2>6. StopInv' /\ NothingStranded'
    BY <2>1, TurnStays DEF IInv, NothingStranded
  <2> QED BY <1>1, <1>2, <2>3, <2>4, <2>5, <2>6 DEF IInv
<1> QED BY <1>3, <1>4

\* The inductive invariant holds for any inputs, replies, calls and intents.
THEOREM Invariance == Spec => []IInv
<1>1. Init => IInv
  BY InitKeeps
<1>2. IInv /\ [Next]_vars => IInv'
  BY StepKeeps
<1> QED BY <1>1, <1>2, PTL DEF Spec

\* An accepted input is settled at most once, however acceptance, "Send now", the
\* hand-back of a stopped turn and the reruns overlap.
THEOREM RunsOnce == Spec => []InputRunsOnce
<1>1. IInv => InputRunsOnce
  BY DEF IInv, InputInv
<1> QED BY <1>1, Invariance, PTL

\* When a tool body begins, the record of its call is on disk, and stays there.
THEOREM IntentIsDurable == Spec => []IntentBeforeEffect
<1>1. IInv => IntentBeforeEffect
  BY DEF IInv
<1> QED BY <1>1, Invariance, PTL

\* A turn that has ended is closed: it did not overlap another, ended once, and
\* every call it recorded has one answer, whatever stopped or failed in between.
THEOREM TurnsClose == Spec => []TranscriptCloses
<1>1. IInv => TranscriptCloses
  BY DEF IInv
<1> QED BY <1>1, Invariance, PTL

\* No turn begins between a stop and the next thing the user sends or steers.
THEOREM StopHolds == Spec => StopNeverAdvances
<1> DEFINE Quiet == Len(log') > Len(log) /\ Turns' > Turns => ~quiet'
<1>1. IInv /\ [Next]_vars => [Quiet]_vars
  <2> SUFFICES ASSUME IInv, Next PROVE Quiet
    OBVIOUS
  <2> QED BY AdvanceStep DEF IInv
<1> HIDE DEF Quiet
<1>2. Spec => [][Quiet]_vars
  BY <1>1, Invariance, PTL DEF Spec
<1> QED BY <1>2 DEF StopNeverAdvances, Quiet

\* An agent is idle over waiting input only when the user stopped it or the latest
\* turn failed.
THEOREM IdleHasReason == Spec => []NothingStranded
<1>1. IInv => NothingStranded
  BY DEF IInv
<1> QED BY <1>1, Invariance, PTL

=============================================================================
