--------------------------- MODULE EventLogProofs ---------------------------
(***************************************************************************)
(* What recovery appends, for every log: the pure part of the proofs about *)
(* SessionLog, and the principle of induction the other proofs use.        *)
(***************************************************************************)
EXTENDS EventLog, NaturalsInduction, WellFoundedInduction, FiniteSetTheorems, TLAPS

-----------------------------------------------------------------------------
(* Induction over the naturals, as the least-number principle for sets. *)

\* A non-empty set of naturals has a least element.
LEMMA LeastNat ==
  ASSUME NEW T \in SUBSET Nat, T # {}
  PROVE  \E m \in T : \A n \in T : m <= n
<1> DEFINE R == {ss \in Nat \X Nat : ss[1] < ss[2]}
<1>1. IsWellFoundedOn(R, Nat)
  BY NatLessThanWellFounded DEF OpToRel
<1>2. \E m \in T : \A n \in T : <<n, m>> \notin R
  <2> HIDE DEF R
  <2> QED BY <1>1, WFMin
<1>3. \A m, n \in Nat : <<n, m>> \notin R => m <= n
  OBVIOUS
<1> QED BY <1>2, <1>3

\* The elements of a finite set of numbers are its first, second, ... last: every
\* rank up to its size is taken.
LEMMA EveryRankTaken ==
  ASSUME NEW U \in SUBSET Nat, IsFiniteSet(U), NEW k \in 1..Cardinality(U)
  PROVE  \E i \in U : Cardinality({j \in U : j <= i}) = k
<1> DEFINE Below(i) == {j \in U : j <= i}
           Untaken == {n \in 1..Cardinality(U) : \A i \in U : Cardinality(Below(i)) # n}
<1>c. Cardinality(U) \in Nat
  BY FS_CardinalityType
<1>f. \A i : IsFiniteSet(Below(i)) /\ Cardinality(Below(i)) \in Nat
  BY FS_Subset, FS_CardinalityType
<1> SUFFICES ASSUME Untaken # {} PROVE FALSE
  OBVIOUS
<1>1. PICK m \in Untaken : \A n \in Untaken : m <= n
  <2>1. Untaken \in SUBSET Nat
    BY <1>c
  <2> HIDE DEF Untaken
  <2> QED BY <2>1, LeastNat
\* Everything up to the element of rank m - 1 is left out of the rest.
<1>2. \E S \in SUBSET U : Cardinality(S) = m - 1 /\ \A i \in S, j \in U \ S : i < j
  <2>1. CASE m = 1
    <3> {} \in SUBSET U /\ Cardinality({}) = 0
      BY FS_EmptySet
    <3> QED BY <2>1
  <2>2. CASE m # 1
    <3>1. m - 1 \in 1..Cardinality(U) /\ m - 1 \notin Untaken
      BY <1>1, <1>c, <2>2
    <3>2. PICK i \in U : Cardinality(Below(i)) = m - 1
      BY <3>1
    <3>3. \A a \in Below(i), b \in U \ Below(i) : a < b
      OBVIOUS
    <3> QED BY <3>2, <3>3
  <2> QED BY <2>1, <2>2
<1>3. PICK S \in SUBSET U : Cardinality(S) = m - 1 /\ \A i \in S, j \in U \ S : i < j
  BY <1>2
<1>s. IsFiniteSet(S)
  BY FS_Subset
<1>4. U \ S # {}
  <2> SUFFICES ASSUME S = U PROVE FALSE
    OBVIOUS
  <2> QED BY <1>3, <1>c
<1>5. PICK i \in U \ S : \A j \in U \ S : i <= j
  <2> U \ S \in SUBSET Nat
    OBVIOUS
  <2> QED BY <1>4, LeastNat
<1>6. Below(i) = S \cup {i}
  <2>1. ASSUME NEW j \in S PROVE j \in Below(i)
    BY <1>3, <1>5
  <2>2. ASSUME NEW j \in Below(i) PROVE j \in S \cup {i}
    <3> j \in U \ S => i <= j
      BY <1>5
    <3> i \in Nat /\ j \in Nat
      OBVIOUS
    <3> QED OBVIOUS
  <2>3. i \in Below(i)
    OBVIOUS
  <2> HIDE DEF Below
  <2> QED BY <2>1, <2>2, <2>3
<1>7. Cardinality(S \cup {i}) = Cardinality(S) + 1
  BY <1>s, <1>5, FS_AddElement
<1> QED BY <1>1, <1>3, <1>5, <1>6, <1>7

LEMMA NthIsMember ==
  ASSUME NEW U \in SUBSET Nat, IsFiniteSet(U), NEW k \in 1..Cardinality(U)
  PROVE  Nth(U, k) \in U
BY EveryRankTaken DEF Nth

\* How many elements there are up to i.
Rank(U, i) == Cardinality({j \in U : j <= i})

\* Ranks tell the elements of a finite set apart, and follow their order.
LEMMA RankOrders ==
  ASSUME NEW U \in SUBSET Nat, IsFiniteSet(U), NEW i \in U
  PROVE  /\ Rank(U, i) \in 1..Cardinality(U)
         /\ \A k \in U : Rank(U, i) <= Rank(U, k) <=> i <= k
<1> DEFINE Below(k) == {j \in U : j <= k}
<1>1. \A k : /\ IsFiniteSet(Below(k)) /\ Cardinality(Below(k)) \in Nat
             /\ Cardinality(Below(k)) <= Cardinality(U)
  BY FS_Subset, FS_CardinalityType
<1>2. Cardinality(Below(i)) # 0
  <2>1. i \in Below(i)
    OBVIOUS
  <2> QED BY <1>1, <2>1, FS_EmptySet
<1>3. Cardinality(U) \in Nat
  BY FS_CardinalityType
<1>4. ASSUME NEW k \in U, i <= k
      PROVE  Cardinality(Below(i)) <= Cardinality(Below(k))
  <2>0. \A j \in U : j \in Nat
    OBVIOUS
  <2>1. Below(i) \in SUBSET Below(k)
    <3>1. \A j \in U : j <= i => j <= k
      BY <1>4, <2>0
    <3> QED BY <3>1
  <2> HIDE DEF Below
  <2> QED BY <1>1, <2>1, FS_Subset
<1>5. ASSUME NEW k \in U, ~(i <= k)
      PROVE  ~(Cardinality(Below(i)) <= Cardinality(Below(k)))
  <2>0. \A j \in U : j \in Nat
    OBVIOUS
  <2>1. Below(k) \in SUBSET Below(i) /\ i \in Below(i) /\ i \notin Below(k)
    <3>1. \A j \in U : j <= k => j <= i
      BY <1>5, <2>0
    <3>2. i <= i
      BY <2>0
    <3> QED BY <1>5, <3>1, <3>2
  <2> HIDE DEF Below
  <2>2. Cardinality(Below(k)) <= Cardinality(Below(i))
    BY <1>1, <2>1, FS_Subset
  <2>3. Cardinality(Below(i)) # Cardinality(Below(k))
    BY <1>1, <2>1, FS_Subset
  <2> QED BY <1>1, <2>2, <2>3
<1>6. \A k : Rank(U, k) = Cardinality(Below(k))
  BY DEF Rank
<1> HIDE DEF Below
<1>7. Rank(U, i) \in 1..Cardinality(U)
  BY <1>1, <1>2, <1>3, <1>6
<1>8. \A k \in U : Rank(U, i) <= Rank(U, k) <=> i <= k
  BY <1>4, <1>5, <1>6
<1> QED BY <1>7, <1>8

\* The element of a rank is the one that has it.
LEMMA NthHasRank ==
  ASSUME NEW U \in SUBSET Nat, IsFiniteSet(U)
  PROVE  /\ \A k \in 1..Cardinality(U) : Nth(U, k) \in U /\ Rank(U, Nth(U, k)) = k
         /\ \A i \in U : Nth(U, Rank(U, i)) = i
<1>1. ASSUME NEW k \in 1..Cardinality(U)
      PROVE  Nth(U, k) \in U /\ Rank(U, Nth(U, k)) = k
  BY EveryRankTaken DEF Nth, Rank
<1>2. ASSUME NEW i \in U PROVE Nth(U, Rank(U, i)) = i
  <2> DEFINE n == Nth(U, Rank(U, i))
  <2>1. Rank(U, i) \in 1..Cardinality(U)
    BY RankOrders
  <2>2. n \in U /\ Rank(U, n) = Rank(U, i)
    BY <1>1, <2>1
  <2> HIDE DEF n
  <2>3. n <= i /\ i <= n
    BY <2>1, <2>2, RankOrders
  <2>4. n \in Nat /\ i \in Nat
    BY <2>2
  <2>5. n = i
    BY <2>3, <2>4
  <2> QED BY <2>5 DEF n
<1> QED BY <1>1, <1>2

\* The first element of a set taken away m times over: the others move up by m.
LEMMA NthOfRest ==
  ASSUME NEW U \in SUBSET Nat, IsFiniteSet(U), NEW m \in 0..Cardinality(U)
  PROVE  LET rest == {i \in U : Rank(U, i) > m} IN
         /\ IsFiniteSet(rest) /\ Cardinality(rest) = Cardinality(U) - m
         /\ \A k \in 1 .. Cardinality(U) - m : Nth(rest, k) = Nth(U, k + m)
<1> DEFINE rest == {i \in U : Rank(U, i) > m}
           first == {i \in U : Rank(U, i) <= m}
<1>0. Cardinality(U) \in Nat
  BY FS_CardinalityType
<1>1. Cardinality(first) = m
  <2>1. CASE m = 0
    <3>1. first = {}
      <4>1. \A i \in U : Rank(U, i) \in Nat \ {0}
        BY <1>0, RankOrders
      <4>2. \A i \in U : ~(Rank(U, i) <= m)
        BY <2>1, <4>1
      <4> QED BY <4>2
    <3> QED BY <2>1, <3>1, FS_EmptySet
  <2>2. CASE m # 0
    <3> DEFINE n == Nth(U, m)
    <3>1. n \in U /\ Rank(U, n) = m
      BY <1>0, <2>2, NthHasRank
    <3> HIDE DEF n
    <3>2. \A i \in U : Rank(U, i) <= m <=> i <= n
      BY <3>1, RankOrders
    <3>3. first = {j \in U : j <= n}
      BY <3>2
    <3> QED BY <3>1, <3>3 DEF Rank
  <2> QED BY <2>1, <2>2
<1>2. rest = U \ first /\ U \cap first = first
  <2>1. \A i \in U : Rank(U, i) \in Nat
    BY <1>0, RankOrders
  <2>2. \A i \in U : Rank(U, i) > m <=> ~(Rank(U, i) <= m)
    BY <2>1
  <2> QED BY <2>2
<1>3. IsFiniteSet(rest) /\ Cardinality(rest) = Cardinality(U) - m
  <2> HIDE DEF rest, first
  <2> QED BY <1>1, <1>2, FS_Difference
<1>4. ASSUME NEW i \in rest PROVE Rank(rest, i) = Rank(U, i) - m
  <2> DEFINE below == {j \in U : j <= i}
  <2>1. IsFiniteSet(below)
    BY FS_Subset
  <2>2. {j \in rest : j <= i} = below \ first
    BY <1>2
  <2>3. below \cap first = first
    <3>1. ASSUME NEW j \in first PROVE j <= i
      <4>1. j \in U /\ i \in U /\ Rank(U, j) <= Rank(U, i)
        <5>1. Rank(U, i) \in Nat /\ Rank(U, j) \in Nat
          BY <1>0, RankOrders
        <5> QED BY <5>1
      <4> QED BY <4>1, RankOrders
    <3> QED BY <3>1
  <2> HIDE DEF first, rest, below
  <2>4. Cardinality(below \ first) = Cardinality(below) - m
    BY <1>1, <2>1, <2>3, FS_Difference
  <2> QED BY <2>2, <2>4 DEF Rank, below
<1>5. ASSUME NEW k \in 1 .. Cardinality(U) - m PROVE Nth(rest, k) = Nth(U, k + m)
  <2> DEFINE i == Nth(U, k + m)
  <2>1. i \in U /\ Rank(U, i) = k + m
    BY <1>0, NthHasRank
  <2> HIDE DEF i
  <2>2. i \in rest
    BY <2>1
  <2>3. rest \in SUBSET Nat
    OBVIOUS
  <2>4. Rank(rest, i) = k
    BY <1>4, <2>1, <2>2
  <2> HIDE DEF rest
  <2>5. Nth(rest, Rank(rest, i)) = i
    BY <1>3, <2>2, <2>3, NthHasRank
  <2> QED BY <2>4, <2>5 DEF i
<1> QED BY <1>3, <1>5

-----------------------------------------------------------------------------
(* What recovery appends. *)

\* Unclosed facts are facts of the log, of the type asked for.
LEMMA UnclosedType ==
  ASSUME NEW S, NEW log0 \in Seq(S), NEW type
  PROVE  /\ Unclosed(log0, type) \in Seq({event \in S : event.type = type})
<1> DEFINE open == {i \in 1..Len(log0) : log0[i].type = type /\ ~Closed(log0, log0[i])}
<1>1. IsFiniteSet(open) /\ open \in SUBSET Nat /\ Cardinality(open) \in Nat
  <2>1. IsFiniteSet(1..Len(log0))
    BY FS_Interval
  <2>2. open \subseteq 1..Len(log0)
    OBVIOUS
  <2>3. open \in SUBSET Nat
    OBVIOUS
  <2> HIDE DEF open
  <2>4. IsFiniteSet(open)
    BY <2>1, <2>2, FS_Subset
  <2> QED BY <2>3, <2>4, FS_CardinalityType
<1>2. \A k \in 1..Cardinality(open) : log0[Nth(open, k)] \in {event \in S : event.type = type}
  <2> TAKE k \in 1..Cardinality(open)
  <2>1. Nth(open, k) \in open
    <3> HIDE DEF open
    <3> QED BY <1>1, NthIsMember
  <2> QED BY <2>1
<1>3. Unclosed(log0, type) = [k \in 1..Cardinality(open) |-> log0[Nth(open, k)]]
  BY DEF Unclosed, Picked
<1> HIDE DEF open
<1> QED BY <1>1, <1>2, <1>3

\* The closing records are facts.
LEMMA TailType ==
  ASSUME NEW Names, NEW log0 \in Seq(Events(Names))
  PROVE  RecoveryTail(log0) \in Seq(Events(Names))
<1> DEFINE S == Events(Names)
           open == Unclosed(log0, OpeningTypes[1]) \o Unclosed(log0, OpeningTypes[2])
                     \o Unclosed(log0, OpeningTypes[3])
           Opening == {event \in S : event.type \in DOMAIN Closing}
<1>1. open \in Seq(Opening)
  <2>1. ASSUME NEW t \in DOMAIN Closing
        PROVE  Unclosed(log0, t) \in Seq(Opening)
    <3>1. Unclosed(log0, t) \in Seq({event \in S : event.type = t})
      BY UnclosedType
    <3>2. {event \in S : event.type = t} \subseteq Opening
      OBVIOUS
    <3> HIDE DEF Opening
    <3> QED BY <3>1, <3>2
  <2>2. /\ OpeningTypes[1] \in DOMAIN Closing /\ OpeningTypes[2] \in DOMAIN Closing
        /\ OpeningTypes[3] \in DOMAIN Closing
    BY DEF OpeningTypes, Closing
  <2> HIDE DEF Opening
  <2> QED BY <2>1, <2>2
<1>2. \A t \in DOMAIN Closing : Closing[t] \in EventTypes
  BY DEF EventTypes
<1>3. RecoveryTail(log0) \in Seq(S)
  <2>1. RecoveryTail(log0) = [i \in 1..Len(open) |->
           [seq |-> Len(log0) + i, type |-> Closing[open[i].type],
            id |-> open[i].id, recovered |-> TRUE]]
    BY DEF RecoveryTail
  <2>2. ASSUME NEW i \in 1..Len(open)
        PROVE  [seq |-> Len(log0) + i, type |-> Closing[open[i].type],
                id |-> open[i].id, recovered |-> TRUE] \in S
    <3>1. open[i] \in Opening
      <4> HIDE DEF open, Opening
      <4> QED BY <1>1
    <3>2. open[i].id \in Names /\ Closing[open[i].type] \in EventTypes
      <4> HIDE DEF open
      <4> QED BY <3>1, <1>2 DEF Events
    <3>3. Len(log0) + i \in Nat \ {0}
      <4> Len(open) \in Nat
        <5> HIDE DEF open, Opening
        <5> QED BY <1>1
      <4> HIDE DEF open
      <4> QED OBVIOUS
    <3> HIDE DEF open
    <3> QED BY <3>2, <3>3 DEF Events
  <2>3. Len(open) \in Nat
    <3> HIDE DEF open, Opening
    <3> QED BY <1>1
  <2> HIDE DEF open, S
  <2> QED BY <2>1, <2>2, <2>3
<1> HIDE DEF S, open
<1> QED BY <1>3 DEF S

\* Recovery extends the log with facts: what was there stays, in place.
LEMMA RecoveredType ==
  ASSUME NEW Names, NEW log0 \in Seq(Events(Names))
  PROVE  /\ Recovered(log0) \in Seq(Events(Names))
         /\ Len(Recovered(log0)) >= Len(log0)
         /\ \A i \in 1..Len(log0) : Recovered(log0)[i] = log0[i]
BY TailType DEF Recovered

-----------------------------------------------------------------------------
(* The order in which recovery closes what is open. *)

\* Where the open facts of a type are, how many there are, and how many closing
\* records come before theirs.
OpenAt(log, type) ==
  {i \in 1..Len(log) : log[i].type = type /\ ~Closed(log, log[i])}
Count(log, type) == Cardinality(OpenAt(log, type))
Before(log, type) ==
  IF type = "tool/call" THEN 0
  ELSE IF type = "approval/request" THEN Count(log, "tool/call")
  ELSE Count(log, "tool/call") + Count(log, "approval/request")

\* The k-th record that closes a fact of a type.
Closer(log, type, k) ==
  [seq |-> Len(log) + (Before(log, type) + k), type |-> Closing[type],
   id |-> log[Nth(OpenAt(log, type), k)].id, recovered |-> TRUE]

\* An identity names one fact of each type.
Distinct(log) ==
  \A i, j \in 1..Len(log) :
    log[i].type = log[j].type /\ log[i].id = log[j].id => i = j

\* The three pairs.
LEMMA ClosingPairs ==
  /\ DOMAIN Closing = {"tool/call", "approval/request", "turn/start"}
  /\ \A t \in DOMAIN Closing : Closing[t] \notin DOMAIN Closing
  /\ \A t, u \in DOMAIN Closing : Closing[t] = Closing[u] => t = u
  /\ OpeningTypes[1] = "tool/call" /\ OpeningTypes[2] = "approval/request"
  /\ OpeningTypes[3] = "turn/start"
BY DEF Closing, OpeningTypes

\* Closed, by position.
LEMMA ClosedAt ==
  ASSUME NEW S, NEW log0 \in Seq(S), NEW event
  PROVE  Closed(log0, event) <=>
           \E j \in 1..Len(log0) :
             log0[j].type = Closing[event.type] /\ log0[j].id = event.id
BY DEF Closed, ToSet

LEMMA OpenIsFinite ==
  ASSUME NEW S, NEW log0 \in Seq(S), NEW type
  PROVE  /\ OpenAt(log0, type) \in SUBSET Nat /\ IsFiniteSet(OpenAt(log0, type))
         /\ Count(log0, type) \in Nat
         /\ OpenAt(log0, type) \subseteq 1..Len(log0)
         /\ Len(Unclosed(log0, type)) = Count(log0, type)
         /\ Unclosed(log0, type) \in Seq(S)
         /\ \A k \in 1..Count(log0, type) :
              Unclosed(log0, type)[k] = log0[Nth(OpenAt(log0, type), k)]
<1>1. OpenAt(log0, type) \subseteq 1..Len(log0)
  BY DEF OpenAt
<1>2. OpenAt(log0, type) \in SUBSET Nat
  BY <1>1
<1>3. IsFiniteSet(OpenAt(log0, type))
  BY <1>1, FS_Interval, FS_Subset
<1>4. Count(log0, type) \in Nat
  BY <1>3, FS_CardinalityType DEF Count
<1>5. Unclosed(log0, type) =
        [k \in 1..Count(log0, type) |-> log0[Nth(OpenAt(log0, type), k)]]
  BY DEF Unclosed, Picked, Count, OpenAt
<1>6. \A k \in 1..Count(log0, type) : log0[Nth(OpenAt(log0, type), k)] \in S
  <2>1. \A k \in 1..Count(log0, type) : Nth(OpenAt(log0, type), k) \in 1..Len(log0)
    BY <1>1, <1>2, <1>3, NthIsMember DEF Count
  <2> QED BY <2>1
<1> QED BY <1>1, <1>2, <1>3, <1>4, <1>5, <1>6

\* Where the elements of two sequences are in their concatenation.
LEMMA ConcatAt ==
  ASSUME NEW S, NEW s \in Seq(S), NEW t \in Seq(S)
  PROVE  /\ s \o t \in Seq(S) /\ Len(s \o t) = Len(s) + Len(t)
         /\ \A i \in 1..Len(s) : (s \o t)[i] = s[i]
         /\ \A i \in 1..Len(t) : (s \o t)[Len(s) + i] = t[i]
<1>1. \A i \in 1 .. Len(s) + Len(t) :
        (s \o t)[i] = IF i <= Len(s) THEN s[i] ELSE t[i - Len(s)]
  OBVIOUS
<1>2. ASSUME NEW i \in 1..Len(t) PROVE (s \o t)[Len(s) + i] = t[i]
  <2> DEFINE p == Len(s) + i
  <2>1. p \in 1 .. Len(s) + Len(t) /\ ~(p <= Len(s)) /\ p - Len(s) = i
    OBVIOUS
  <2> HIDE DEF p
  <2>2. (s \o t)[p] = t[i]
    BY <1>1, <2>1
  <2> QED BY <2>2 DEF p
<1>3. \A i \in 1..Len(s) : (s \o t)[i] = s[i]
  BY <1>1
<1> QED BY <1>2, <1>3

\* ... and those of three.
LEMMA ConcatThree ==
  ASSUME NEW S, NEW a \in Seq(S), NEW b \in Seq(S), NEW c \in Seq(S)
  PROVE  /\ Len(a \o b \o c) = Len(a) + Len(b) + Len(c)
         /\ \A i \in 1..Len(a) : (a \o b \o c)[i] = a[i]
         /\ \A i \in 1..Len(b) : (a \o b \o c)[Len(a) + i] = b[i]
         /\ \A i \in 1..Len(c) : (a \o b \o c)[Len(a) + Len(b) + i] = c[i]
<1>0. PICK d \in Seq(S) : d = a \o b
  BY ConcatAt
<1>1. /\ Len(d) = Len(a) + Len(b)
      /\ \A i \in 1..Len(a) : d[i] = a[i]
      /\ \A i \in 1..Len(b) : d[Len(a) + i] = b[i]
  BY <1>0, ConcatAt
<1>2. /\ Len(d \o c) = Len(d) + Len(c)
      /\ \A i \in 1..Len(d) : (d \o c)[i] = d[i]
      /\ \A i \in 1..Len(c) : (d \o c)[Len(d) + i] = c[i]
  BY ConcatAt
<1>3. Len(a) \in Nat /\ Len(b) \in Nat
  OBVIOUS
<1>4. ASSUME NEW i \in 1..Len(a) PROVE (d \o c)[i] = a[i]
  BY <1>1, <1>2, <1>3, <1>4
<1>5. ASSUME NEW i \in 1..Len(b) PROVE (d \o c)[Len(a) + i] = b[i]
  <2>1. Len(a) + i \in 1..Len(d)
    BY <1>1, <1>3, <1>5
  <2> QED BY <1>1, <1>2, <2>1
<1>6. ASSUME NEW i \in 1..Len(c) PROVE (d \o c)[Len(a) + Len(b) + i] = c[i]
  BY <1>1, <1>2
<1> QED BY <1>1, <1>2, <1>4, <1>5, <1>6, <1>0

\* The closing records are those of the tool calls, then of the approval requests,
\* then of the turns, each in the order of the log.
LEMMA TailInOrder ==
  ASSUME NEW S, NEW log0 \in Seq(S)
  PROVE  /\ Len(RecoveryTail(log0)) = Count(log0, "tool/call")
              + Count(log0, "approval/request") + Count(log0, "turn/start")
         /\ \A t \in DOMAIN Closing, k \in 1..Len(RecoveryTail(log0)) :
              k <= Count(log0, t) =>
                /\ Before(log0, t) + k \in 1..Len(RecoveryTail(log0))
                /\ RecoveryTail(log0)[Before(log0, t) + k] = Closer(log0, t, k)
         /\ \A p \in 1..Len(RecoveryTail(log0)) :
              \E t \in DOMAIN Closing : \E k \in 1..Count(log0, t) :
                p = Before(log0, t) + k
<1> DEFINE u1 == Unclosed(log0, "tool/call")
           u2 == Unclosed(log0, "approval/request")
           u3 == Unclosed(log0, "turn/start")
           n1 == Count(log0, "tool/call")
           n2 == Count(log0, "approval/request")
           n3 == Count(log0, "turn/start")
           open == u1 \o u2 \o u3
<1>1. /\ u1 \in Seq(S) /\ u2 \in Seq(S) /\ u3 \in Seq(S)
      /\ Len(u1) = n1 /\ Len(u2) = n2 /\ Len(u3) = n3
      /\ n1 \in Nat /\ n2 \in Nat /\ n3 \in Nat
  BY OpenIsFinite
<1>2. RecoveryTail(log0) = [i \in 1..Len(open) |->
         [seq |-> Len(log0) + i, type |-> Closing[open[i].type],
          id |-> open[i].id, recovered |-> TRUE]]
  BY ClosingPairs DEF RecoveryTail
<1>3. /\ \A k \in 1..n1 : u1[k] = log0[Nth(OpenAt(log0, "tool/call"), k)]
      /\ \A k \in 1..n2 : u2[k] = log0[Nth(OpenAt(log0, "approval/request"), k)]
      /\ \A k \in 1..n3 : u3[k] = log0[Nth(OpenAt(log0, "turn/start"), k)]
  BY OpenIsFinite
<1> HIDE DEF u1, u2, u3
<1>4. /\ Len(open) = n1 + n2 + n3
      /\ \A k \in 1..n1 : open[0 + k] = u1[k]
      /\ \A k \in 1..n2 : open[n1 + k] = u2[k]
      /\ \A k \in 1..n3 : open[n1 + n2 + k] = u3[k]
  <2> HIDE DEF n1, n2, n3, open
  <2>1. PICK a \in Seq(S), b \in Seq(S), c \in Seq(S) : a = u1 /\ b = u2 /\ c = u3
    BY <1>1
  <2>2. /\ Len(a \o b \o c) = n1 + n2 + n3
        /\ \A i \in 1..n1 : (a \o b \o c)[i] = a[i]
        /\ \A i \in 1..n2 : (a \o b \o c)[n1 + i] = b[i]
        /\ \A i \in 1..n3 : (a \o b \o c)[n1 + n2 + i] = c[i]
    <3>1. /\ Len(a \o b \o c) = Len(a) + Len(b) + Len(c)
          /\ \A i \in 1..Len(a) : (a \o b \o c)[i] = a[i]
          /\ \A i \in 1..Len(b) : (a \o b \o c)[Len(a) + i] = b[i]
          /\ \A i \in 1..Len(c) : (a \o b \o c)[Len(a) + Len(b) + i] = c[i]
      BY ConcatThree
    <3> QED BY <1>1, <2>1, <3>1
  <2>3. open = a \o b \o c
    BY <2>1 DEF open
  <2>4. \A k \in 1..n1 : 0 + k = k
    BY <1>1
  <2> QED BY <2>1, <2>2, <2>3, <2>4
<1>5. \A t \in DOMAIN Closing, k \in Nat \ {0} : k <= Count(log0, t) =>
        LET i == Nth(OpenAt(log0, t), k) IN
        i \in 1..Len(log0) /\ log0[i].type = t
  <2> TAKE t \in DOMAIN Closing, k \in Nat \ {0}
  <2> HAVE k <= Count(log0, t)
  <2>1. k \in 1..Cardinality(OpenAt(log0, t))
    BY OpenIsFinite DEF Count
  <2>2. Nth(OpenAt(log0, t), k) \in OpenAt(log0, t)
    BY <2>1, OpenIsFinite, NthIsMember
  <2> QED BY <2>2 DEF OpenAt
<1> HIDE DEF open
<1>6. Len(RecoveryTail(log0)) = n1 + n2 + n3
  BY <1>1, <1>2, <1>4
<1>7. ASSUME NEW t \in DOMAIN Closing, NEW k \in 1..Len(RecoveryTail(log0)),
             k <= Count(log0, t)
      PROVE  /\ Before(log0, t) + k \in 1..Len(RecoveryTail(log0))
             /\ RecoveryTail(log0)[Before(log0, t) + k] = Closer(log0, t, k)
  <2> DEFINE p == Before(log0, t) + k
  <2>1. k \in Nat \ {0}
    BY <1>1, <1>6
  <2>2. /\ p \in 1 .. n1 + n2 + n3
        /\ open[p] = log0[Nth(OpenAt(log0, t), k)]
    <3>1. CASE t = "tool/call"
      <4>1. k \in 1..n1 /\ p = 0 + k
        BY <1>7, <2>1, <3>1, <1>1 DEF Before
      <4> HIDE DEF p
      <4> QED BY <4>1, <3>1, <1>1, <1>3, <1>4
    <3>2. CASE t = "approval/request"
      <4>1. k \in 1..n2 /\ p = n1 + k
        BY <1>7, <2>1, <3>2, <1>1 DEF Before
      <4> HIDE DEF p, n1, n2, n3
      <4>2. p \in 1 .. n1 + n2 + n3
        BY <4>1, <1>1
      <4>3. open[p] = u2[k]
        BY <4>1, <1>4
      <4> QED BY <4>1, <4>2, <4>3, <3>2, <1>3
    <3>3. CASE t = "turn/start"
      <4>1. k \in 1..n3 /\ p = n1 + n2 + k
        BY <1>7, <2>1, <3>3, <1>1 DEF Before
      <4> HIDE DEF p, n1, n2, n3
      <4>2. p \in 1 .. n1 + n2 + n3
        BY <4>1, <1>1
      <4>3. open[p] = u3[k]
        BY <4>1, <1>4
      <4> QED BY <4>1, <4>2, <4>3, <3>3, <1>3
    <3> QED BY <3>1, <3>2, <3>3, ClosingPairs
  <2>3. open[p].type = t
    BY <1>5, <1>7, <2>1, <2>2
  <2> HIDE DEF p
  <2>4. RecoveryTail(log0)[p] = [seq |-> Len(log0) + p, type |-> Closing[open[p].type],
          id |-> open[p].id, recovered |-> TRUE]
    BY <1>2, <1>4, <2>2
  <2>5. RecoveryTail(log0)[p] = Closer(log0, t, k)
    BY <2>2, <2>3, <2>4 DEF Closer, p
  <2> QED BY <1>6, <2>2, <2>5 DEF p
<1>8. ASSUME NEW p \in 1..Len(RecoveryTail(log0))
      PROVE  \E t \in DOMAIN Closing : \E k \in 1..Count(log0, t) :
               p = Before(log0, t) + k
  <2>1. CASE p <= n1
    <3>1. p \in 1..Count(log0, "tool/call") /\ p = Before(log0, "tool/call") + p
      BY <1>1, <1>6, <2>1 DEF Before
    <3> QED BY <3>1, ClosingPairs
  <2>2. CASE p > n1 /\ p <= n1 + n2
    <3>1. /\ p - n1 \in 1..Count(log0, "approval/request")
          /\ p = Before(log0, "approval/request") + (p - n1)
      BY <1>1, <1>6, <2>2 DEF Before
    <3> QED BY <3>1, ClosingPairs
  <2>3. CASE p > n1 + n2
    <3>1. /\ p - (n1 + n2) \in 1..Count(log0, "turn/start")
          /\ p = Before(log0, "turn/start") + (p - (n1 + n2))
      BY <1>1, <1>6, <2>3 DEF Before
    <3> QED BY <3>1, ClosingPairs
  <2>4. p <= n1 \/ (p > n1 /\ p <= n1 + n2) \/ p > n1 + n2
    BY <1>1, <1>6
  <2> QED BY <2>1, <2>2, <2>3, <2>4
<1> QED BY <1>6, <1>7, <1>8

\* What recovery leaves: the log, and behind it the closing records.
LEMMA RecoveredAt ==
  ASSUME NEW Names, NEW log0 \in Seq(Events(Names))
  PROVE  /\ RecoveryTail(log0) \in Seq(Events(Names))
         /\ Recovered(log0) \in Seq(Events(Names))
         /\ Len(Recovered(log0)) = Len(log0) + Len(RecoveryTail(log0))
         /\ \A i \in 1..Len(log0) : Recovered(log0)[i] = log0[i]
         /\ \A p \in 1..Len(RecoveryTail(log0)) :
              Recovered(log0)[Len(log0) + p] = RecoveryTail(log0)[p]
<1>1. PICK tail0 \in Seq(Events(Names)) : tail0 = RecoveryTail(log0)
  BY TailType
<1>2. /\ log0 \o tail0 \in Seq(Events(Names))
      /\ Len(log0 \o tail0) = Len(log0) + Len(tail0)
      /\ \A i \in 1..Len(log0) : (log0 \o tail0)[i] = log0[i]
      /\ \A p \in 1..Len(tail0) : (log0 \o tail0)[Len(log0) + p] = tail0[p]
  BY ConcatAt
<1>3. Recovered(log0) = log0 \o tail0
  BY <1>1 DEF Recovered
<1> QED BY <1>1, <1>2, <1>3

\* A closing record has a closing type, the identity of an open fact of its type,
\* and is marked as recovered.
LEMMA TailRecord ==
  ASSUME NEW S, NEW log0 \in Seq(S), NEW p \in 1..Len(RecoveryTail(log0))
  PROVE  \E t \in DOMAIN Closing, i \in 1..Len(log0) :
           /\ i \in OpenAt(log0, t) /\ p = Before(log0, t) + Rank(OpenAt(log0, t), i)
           /\ RecoveryTail(log0)[p].type = Closing[t]
           /\ RecoveryTail(log0)[p].id = log0[i].id
           /\ RecoveryTail(log0)[p].recovered = TRUE
<1>0. PICK t \in DOMAIN Closing : \E k \in 1..Count(log0, t) : p = Before(log0, t) + k
  BY TailInOrder
<1>1. PICK k \in 1..Count(log0, t) : p = Before(log0, t) + k
  BY <1>0
<1>2. /\ Count(log0, "tool/call") \in Nat /\ Count(log0, "approval/request") \in Nat
      /\ Count(log0, t) \in Nat /\ Len(RecoveryTail(log0)) \in Nat
      /\ Count(log0, "turn/start") \in Nat
  BY OpenIsFinite, TailInOrder
<1>3. k \in 1..Len(RecoveryTail(log0)) /\ k <= Count(log0, t)
  BY <1>1, <1>2 DEF Before
<1>4. RecoveryTail(log0)[p] = Closer(log0, t, k)
  BY <1>1, <1>3, TailInOrder
<1> DEFINE i == Nth(OpenAt(log0, t), k)
<1>5. i \in OpenAt(log0, t) /\ Rank(OpenAt(log0, t), i) = k
  <2>1. k \in 1..Cardinality(OpenAt(log0, t))
    BY DEF Count
  <2> QED BY <2>1, OpenIsFinite, NthHasRank
<1>6. i \in 1..Len(log0)
  BY <1>5, OpenIsFinite
<1>7. /\ RecoveryTail(log0)[p].type = Closing[t]
      /\ RecoveryTail(log0)[p].id = log0[i].id
      /\ RecoveryTail(log0)[p].recovered = TRUE
  BY <1>4 DEF Closer
<1> HIDE DEF i
<1> QED BY <1>1, <1>5, <1>6, <1>7

\* Every open fact has its closing record.
LEMMA OpenHasCloser ==
  ASSUME NEW S, NEW log0 \in Seq(S), NEW t \in DOMAIN Closing,
         NEW i \in OpenAt(log0, t)
  PROVE  LET p == Before(log0, t) + Rank(OpenAt(log0, t), i) IN
         /\ p \in 1..Len(RecoveryTail(log0))
         /\ RecoveryTail(log0)[p].type = Closing[t]
         /\ RecoveryTail(log0)[p].id = log0[i].id
<1> DEFINE k == Rank(OpenAt(log0, t), i)
<1>1. /\ OpenAt(log0, t) \in SUBSET Nat /\ IsFiniteSet(OpenAt(log0, t))
      /\ Count(log0, "tool/call") \in Nat /\ Count(log0, "approval/request") \in Nat
      /\ Count(log0, t) \in Nat /\ Len(RecoveryTail(log0)) \in Nat
      /\ Count(log0, "turn/start") \in Nat
  BY OpenIsFinite, TailInOrder
<1>2. k \in 1..Count(log0, t) /\ Nth(OpenAt(log0, t), k) = i
  BY <1>1, RankOrders, NthHasRank DEF Count
<1> HIDE DEF k
<1>3. Count(log0, t) <= Len(RecoveryTail(log0))
  BY <1>1, ClosingPairs, TailInOrder
<1>4. k \in 1..Len(RecoveryTail(log0)) /\ k <= Count(log0, t)
  BY <1>1, <1>2, <1>3
<1>5. /\ Before(log0, t) + k \in 1..Len(RecoveryTail(log0))
      /\ RecoveryTail(log0)[Before(log0, t) + k] = Closer(log0, t, k)
  BY <1>4, TailInOrder
<1>6. /\ RecoveryTail(log0)[Before(log0, t) + k].type = Closing[t]
      /\ RecoveryTail(log0)[Before(log0, t) + k].id = log0[i].id
  BY <1>2, <1>5 DEF Closer
<1> QED BY <1>5, <1>6 DEF k

\* Recovery closes everything that was open.
LEMMA RecoveredCloses ==
  ASSUME NEW Names, NEW log0 \in Seq(Events(Names)), NEW i \in 1..Len(log0),
         log0[i].type \in DOMAIN Closing
  PROVE  Closed(Recovered(log0), log0[i])
<1>1. /\ Recovered(log0) \in Seq(Events(Names))
      /\ Len(Recovered(log0)) = Len(log0) + Len(RecoveryTail(log0))
      /\ RecoveryTail(log0) \in Seq(Events(Names))
      /\ \A j \in 1..Len(log0) : Recovered(log0)[j] = log0[j]
      /\ \A p \in 1..Len(RecoveryTail(log0)) :
           Recovered(log0)[Len(log0) + p] = RecoveryTail(log0)[p]
  BY RecoveredAt
<1>2. SUFFICES \E j \in 1..Len(Recovered(log0)) :
                 /\ Recovered(log0)[j].type = Closing[log0[i].type]
                 /\ Recovered(log0)[j].id = log0[i].id
  BY <1>1, ClosedAt
<1>3. CASE Closed(log0, log0[i])
  <2>1. PICK j \in 1..Len(log0) :
          log0[j].type = Closing[log0[i].type] /\ log0[j].id = log0[i].id
    BY <1>3, ClosedAt
  <2>2. j \in 1..Len(Recovered(log0))
    BY <1>1
  <2> QED BY <1>1, <2>1, <2>2
<1>4. CASE ~Closed(log0, log0[i])
  <2>1. i \in OpenAt(log0, log0[i].type)
    BY <1>4 DEF OpenAt
  <2>2. PICK p \in 1..Len(RecoveryTail(log0)) :
          /\ RecoveryTail(log0)[p].type = Closing[log0[i].type]
          /\ RecoveryTail(log0)[p].id = log0[i].id
    BY <2>1, OpenHasCloser
  <2>3. Len(log0) + p \in 1..Len(Recovered(log0))
    BY <1>1
  <2> QED BY <1>1, <2>2, <2>3
<1> QED BY <1>3, <1>4

\* Recovery gives no fact a second record of its type.
LEMMA RecoveredDistinct ==
  ASSUME NEW Names, NEW log0 \in Seq(Events(Names)), Distinct(log0)
  PROVE  Distinct(Recovered(log0))
<1> DEFINE R == Recovered(log0)
           T == RecoveryTail(log0)
           n == Len(log0)
<1>1. /\ R \in Seq(Events(Names)) /\ T \in Seq(Events(Names)) /\ n \in Nat
      /\ Len(R) = n + Len(T)
      /\ \A i \in 1..n : R[i] = log0[i]
      /\ \A p \in 1..Len(T) : R[n + p] = T[p]
  BY RecoveredAt
<1>2. ASSUME NEW p \in 1..Len(T), NEW i \in 1..n,
             log0[i].type = T[p].type, log0[i].id = T[p].id
      PROVE  FALSE
  <2>1. PICK t \in DOMAIN Closing, o \in 1..n :
          o \in OpenAt(log0, t) /\ T[p].type = Closing[t] /\ T[p].id = log0[o].id
    BY TailRecord
  <2>2. log0[o].type = t /\ ~Closed(log0, log0[o])
    BY <2>1 DEF OpenAt
  <2>3. log0[i].type = Closing[log0[o].type] /\ log0[i].id = log0[o].id
    BY <1>2, <2>1, <2>2
  <2>4. Closed(log0, log0[o])
    BY <2>3, ClosedAt
  <2> QED BY <2>2, <2>4
<1>3. ASSUME NEW p \in 1..Len(T), NEW q \in 1..Len(T),
             T[p].type = T[q].type, T[p].id = T[q].id
      PROVE  p = q
  <2>1. PICK t \in DOMAIN Closing, o \in 1..n :
          /\ o \in OpenAt(log0, t) /\ p = Before(log0, t) + Rank(OpenAt(log0, t), o)
          /\ T[p].type = Closing[t] /\ T[p].id = log0[o].id
    BY TailRecord
  <2>2. PICK u \in DOMAIN Closing, m \in 1..n :
          /\ m \in OpenAt(log0, u) /\ q = Before(log0, u) + Rank(OpenAt(log0, u), m)
          /\ T[q].type = Closing[u] /\ T[q].id = log0[m].id
    BY TailRecord
  <2>3. t = u
    BY <1>3, <2>1, <2>2, ClosingPairs
  <2>4. log0[o].type = t /\ log0[m].type = t /\ log0[o].id = log0[m].id
    BY <1>3, <2>1, <2>2, <2>3 DEF OpenAt
  <2>5. o = m
    BY <2>4 DEF Distinct
  <2> QED BY <2>1, <2>2, <2>3, <2>5
<1>4. \A i \in 1..Len(R) : i \in 1..n \/ \E p \in 1..Len(T) : i = n + p
  <2>1. Len(T) \in Nat
    BY <1>1
  <2>2. ASSUME NEW i \in 1..Len(R), i \notin 1..n
        PROVE  i - n \in 1..Len(T) /\ i = n + (i - n)
    BY <1>1, <2>1, <2>2
  <2> QED BY <2>2
<1> HIDE DEF R, T, n
<1>5. ASSUME NEW i \in 1..Len(R), NEW j \in 1..Len(R),
             R[i].type = R[j].type, R[i].id = R[j].id
      PROVE  i = j
  <2>1. CASE i \in 1..n /\ j \in 1..n
    BY <1>1, <1>5, <2>1 DEF Distinct, n
  <2>2. CASE i \in 1..n /\ j \notin 1..n
    <3>1. PICK p \in 1..Len(T) : j = n + p
      BY <1>4, <2>2
    <3>2. log0[i].type = T[p].type /\ log0[i].id = T[p].id
      BY <1>1, <1>5, <2>2, <3>1
    <3> QED BY <1>2, <2>2, <3>2
  <2>3. CASE i \notin 1..n /\ j \in 1..n
    <3>1. PICK p \in 1..Len(T) : i = n + p
      BY <1>4, <2>3
    <3>2. log0[j].type = T[p].type /\ log0[j].id = T[p].id
      BY <1>1, <1>5, <2>3, <3>1
    <3> QED BY <1>2, <2>3, <3>2
  <2>4. CASE i \notin 1..n /\ j \notin 1..n
    <3>1. PICK p \in 1..Len(T), q \in 1..Len(T) : i = n + p /\ j = n + q
      BY <1>4, <2>4
    <3>2. T[p].type = T[q].type /\ T[p].id = T[q].id
      BY <1>1, <1>5, <3>1
    <3> QED BY <1>3, <3>1, <3>2
  <2> QED BY <2>1, <2>2, <2>3, <2>4
<1> QED BY <1>5 DEF Distinct, R

\* A prefix of a log has no fact that the log has not, and is distinct with it.
LEMMA PrefixDistinct ==
  ASSUME NEW S, NEW log0 \in Seq(S), NEW log1 \in Seq(S), Distinct(log1),
         Len(log0) <= Len(log1), \A i \in 1..Len(log0) : log0[i] = log1[i]
  PROVE  Distinct(log0)
<1>1. \A i \in 1..Len(log0) : i \in 1..Len(log1)
  OBVIOUS
<1> QED BY <1>1 DEF Distinct

\* A recovery that was interrupted is taken up where it stopped: whatever part of
\* the closing records reached the file, the next recovery appends the others, and
\* the log comes out the same.
THEOREM RecoveredAgain ==
  ASSUME NEW Names, NEW log0 \in Seq(Events(Names)), Distinct(log0),
         NEW log1 \in Seq(Events(Names)),
         Len(log0) <= Len(log1), Len(log1) <= Len(Recovered(log0)),
         \A i \in 1..Len(log1) : log1[i] = Recovered(log0)[i]
  PROVE  Recovered(log1) = Recovered(log0)
<1> DEFINE T == RecoveryTail(log0)
           n == Len(log0)
           j == Len(log1) - n
           O(t) == OpenAt(log0, t)
           C(t) == Count(log0, t)
           B(t) == Before(log0, t)
           \* how many of the first j closing records are of type Closing[t]
           m(t) == IF j <= B(t) THEN 0 ELSE IF j - B(t) < C(t) THEN j - B(t) ELSE C(t)
           rest(t) == {i \in O(t) : Rank(O(t), i) > m(t)}
<1>1. /\ T \in Seq(Events(Names)) /\ n \in Nat /\ Len(T) \in Nat
      /\ Len(Recovered(log0)) = n + Len(T)
      /\ \A i \in 1..n : Recovered(log0)[i] = log0[i]
      /\ \A p \in 1..Len(T) : Recovered(log0)[n + p] = T[p]
  BY RecoveredAt
<1>2. j \in 0..Len(T) /\ Len(log1) = n + j
  BY <1>1
<1>3. /\ \A i \in 1..n : log1[i] = log0[i]
      /\ \A p \in 1..j : log1[n + p] = T[p]
  <2>1. \A i \in 1..n : i \in 1..Len(log1)
    BY <1>1
  <2>2. \A p \in 1..j : n + p \in 1..Len(log1) /\ p \in 1..Len(T)
    BY <1>1, <1>2
  <2> QED BY <1>1, <2>1, <2>2
<1>4. /\ \A t \in DOMAIN Closing :
           /\ O(t) \in SUBSET Nat /\ IsFiniteSet(O(t)) /\ C(t) \in Nat /\ O(t) \subseteq 1..n
           /\ C(t) = Cardinality(O(t)) /\ B(t) \in Nat
      /\ Len(T) = C("tool/call") + C("approval/request") + C("turn/start")
  <2>1. \A t : /\ O(t) \in SUBSET Nat /\ IsFiniteSet(O(t)) /\ C(t) \in Nat
               /\ O(t) \subseteq 1..n /\ C(t) = Cardinality(O(t))
    BY OpenIsFinite DEF Count
  <2>2. \A t : B(t) \in Nat
    BY <2>1 DEF Before
  <2>3. Len(T) = C("tool/call") + C("approval/request") + C("turn/start")
    BY TailInOrder
  <2> QED BY <2>1, <2>2, <2>3
<1>5. \A t \in DOMAIN Closing : m(t) \in 0..C(t)
  BY <1>2, <1>4
<1> HIDE DEF T, n, j
\* They are j in all, and none of a type while one of an earlier type is missing.
<1>5b. /\ m("tool/call") + m("approval/request") + m("turn/start") = j
       /\ m("tool/call") < C("tool/call") =>
            m("approval/request") = 0 /\ m("turn/start") = 0
       /\ m("approval/request") < C("approval/request") => m("turn/start") = 0
  <2>1. /\ B("tool/call") = 0 /\ B("approval/request") = C("tool/call")
        /\ B("turn/start") = C("tool/call") + C("approval/request")
        /\ C("tool/call") \in Nat /\ C("approval/request") \in Nat /\ C("turn/start") \in Nat
    BY <1>4, ClosingPairs DEF Before
  <2> HIDE DEF B, C
  <2> QED BY <1>2, <1>4, <2>1
<1> HIDE DEF m
\* What stays open of each type is what ranks behind the records written already.
<1>6. ASSUME NEW t \in DOMAIN Closing PROVE OpenAt(log1, t) = rest(t)
  <2>1. ASSUME NEW i \in OpenAt(log1, t) PROVE i \in rest(t)
    <3>1. i \in 1..Len(log1) /\ log1[i].type = t /\ ~Closed(log1, log1[i])
      BY <2>1 DEF OpenAt
    <3>2. i \in 1..n
      <4>1. ASSUME i \notin 1..n PROVE FALSE
        <5>1. i - n \in 1..j /\ i = n + (i - n)
          BY <1>1, <1>2, <3>1, <4>1
        <5>2. PICK p \in 1..j : i = n + p
          BY <5>1
        <5>3. p \in 1..Len(T) /\ log1[i] = T[p]
          BY <1>2, <1>3, <5>2
        <5>4. \E u \in DOMAIN Closing : T[p].type = Closing[u]
          BY <5>3, TailRecord DEF T
        <5> QED BY <3>1, <5>3, <5>4, ClosingPairs
      <4> QED BY <4>1
    <3>3. log1[i] = log0[i]
      BY <1>3, <3>2
    <3>4. ~Closed(log0, log0[i])
      <4>1. ASSUME Closed(log0, log0[i]) PROVE FALSE
        <5>1. PICK q \in 1..n : log0[q].type = Closing[log0[i].type] /\ log0[q].id = log0[i].id
          BY <4>1, ClosedAt DEF n
        <5>2. /\ q \in 1..Len(log1) /\ log1[q].type = Closing[log1[i].type]
              /\ log1[q].id = log1[i].id
          BY <1>1, <1>2, <1>3, <3>3, <5>1
        <5> QED BY <3>1, <5>2, ClosedAt
      <4> QED BY <4>1
    <3>5. i \in O(t)
      BY <3>1, <3>2, <3>3, <3>4 DEF OpenAt, n
    <3>6. ASSUME Rank(O(t), i) <= m(t) PROVE FALSE
      <4> DEFINE p == B(t) + Rank(O(t), i)
      <4>1. /\ p \in 1..Len(T) /\ T[p].type = Closing[t] /\ T[p].id = log0[i].id
        BY <3>5, OpenHasCloser DEF T
      <4>2. Rank(O(t), i) \in 1..C(t)
        BY <1>4, <3>5, RankOrders
      <4>3. p \in 1..j
        BY <1>2, <1>4, <3>6, <4>1, <4>2 DEF m
      <4> HIDE DEF p
      <4>4. n + p \in 1..Len(log1) /\ log1[n + p] = T[p]
        BY <1>1, <1>2, <1>3, <4>3
      <4>5. log1[n + p].type = Closing[log1[i].type] /\ log1[n + p].id = log1[i].id
        BY <3>1, <3>3, <4>1, <4>4
      <4> QED BY <3>1, <4>4, <4>5, ClosedAt
    <3>7. Rank(O(t), i) \in Nat /\ m(t) \in Nat
      BY <1>4, <1>5, <3>5, RankOrders
    <3> QED BY <3>5, <3>6, <3>7
  <2>2. ASSUME NEW i \in rest(t) PROVE i \in OpenAt(log1, t)
    <3>1. i \in O(t) /\ Rank(O(t), i) > m(t)
      BY <2>2
    <3>2. i \in 1..n /\ log0[i].type = t /\ ~Closed(log0, log0[i])
      BY <3>1 DEF OpenAt, n
    <3>3. i \in 1..Len(log1) /\ log1[i] = log0[i]
      BY <1>1, <1>2, <1>3, <3>2
    <3>4. ASSUME Closed(log1, log1[i]) PROVE FALSE
      <4>1. PICK q \in 1..Len(log1) : log1[q].type = Closing[t] /\ log1[q].id = log0[i].id
        BY <3>2, <3>3, <3>4, ClosedAt
      <4>2. CASE q \in 1..n
        <5>1. log0[q].type = Closing[log0[i].type] /\ log0[q].id = log0[i].id
          BY <1>3, <3>2, <4>1, <4>2
        <5> QED BY <3>2, <4>2, <5>1, ClosedAt DEF n
      <4>3. CASE q \notin 1..n
        <5>1. q - n \in 1..j /\ q = n + (q - n)
          BY <1>1, <1>2, <4>1, <4>3
        <5>2. PICK p \in 1..j : q = n + p
          BY <5>1
        <5>3. p \in 1..Len(T) /\ log1[q] = T[p]
          BY <1>2, <1>3, <5>2
        <5>4. PICK u \in DOMAIN Closing, o \in 1..n :
                /\ o \in OpenAt(log0, u) /\ p = B(u) + Rank(O(u), o)
                /\ T[p].type = Closing[u] /\ T[p].id = log0[o].id
          <6>1. p \in 1..Len(RecoveryTail(log0))
            BY <5>3 DEF T
          <6>2. PICK u \in DOMAIN Closing, o \in 1..Len(log0) :
                  /\ o \in OpenAt(log0, u)
                  /\ p = Before(log0, u) + Rank(OpenAt(log0, u), o)
                  /\ RecoveryTail(log0)[p].type = Closing[u]
                  /\ RecoveryTail(log0)[p].id = log0[o].id
            BY <6>1, TailRecord
          <6> QED BY <6>2 DEF T, n
        <5>5. u = t
          BY <4>1, <5>3, <5>4, ClosingPairs
        <5>6. log0[o].type = t /\ log0[o].id = log0[i].id
          BY <4>1, <5>3, <5>4, <5>5 DEF OpenAt
        <5>7. o = i
          BY <3>2, <5>6 DEF Distinct, n
        <5>8. p = B(t) + Rank(O(t), i)
          BY <5>4, <5>5, <5>7
        <5>9. Rank(O(t), i) \in 1..C(t)
          BY <1>4, <3>1, RankOrders
        <5>10. Rank(O(t), i) <= m(t)
          BY <1>2, <1>4, <5>2, <5>8, <5>9 DEF m
        <5> QED BY <1>4, <1>5, <3>1, <5>9, <5>10
      <4> QED BY <4>2, <4>3
    <3> QED BY <3>2, <3>3, <3>4 DEF OpenAt
  <2> HIDE DEF rest
  <2> QED BY <2>1, <2>2
<1>7. ASSUME NEW t \in DOMAIN Closing
      PROVE  /\ Count(log1, t) = C(t) - m(t)
             /\ \A k \in 1 .. C(t) - m(t) : Nth(OpenAt(log1, t), k) = Nth(O(t), k + m(t))
  <2>1. m(t) \in 0..Cardinality(O(t))
    BY <1>4, <1>5
  <2>2. /\ Cardinality(rest(t)) = Cardinality(O(t)) - m(t)
        /\ \A k \in 1 .. Cardinality(O(t)) - m(t) : Nth(rest(t), k) = Nth(O(t), k + m(t))
    BY <1>4, <2>1, NthOfRest
  <2> HIDE DEF rest, O
  <2> QED BY <1>4, <1>6, <2>2 DEF Count
<1>8. Len(RecoveryTail(log1)) = Len(T) - j
  <2>1. Len(RecoveryTail(log1)) = Count(log1, "tool/call")
          + Count(log1, "approval/request") + Count(log1, "turn/start")
    BY TailInOrder
  <2>2. Len(RecoveryTail(log1)) = (C("tool/call") - m("tool/call"))
          + (C("approval/request") - m("approval/request"))
          + (C("turn/start") - m("turn/start"))
    BY <1>7, <2>1, ClosingPairs
  <2>3. /\ B("tool/call") = 0 /\ B("approval/request") = C("tool/call")
        /\ B("turn/start") = C("tool/call") + C("approval/request")
        /\ C("tool/call") \in Nat /\ C("approval/request") \in Nat /\ C("turn/start") \in Nat
    BY <1>4, ClosingPairs DEF Before
  <2>4. /\ m("tool/call") \in Nat /\ m("approval/request") \in Nat
        /\ m("turn/start") \in Nat
    BY <1>4, <1>5, ClosingPairs
  <2>5. Len(T) = C("tool/call") + C("approval/request") + C("turn/start")
    BY <1>4
  <2>6. PICK c1 \in Nat, c2 \in Nat, c3 \in Nat, m1 \in Nat, m2 \in Nat, m3 \in Nat :
          /\ c1 = C("tool/call") /\ c2 = C("approval/request") /\ c3 = C("turn/start")
          /\ m1 = m("tool/call") /\ m2 = m("approval/request") /\ m3 = m("turn/start")
    BY <2>3, <2>4
  <2> HIDE DEF B, C
  <2>7. m1 + m2 + m3 = j /\ Len(T) = c1 + c2 + c3
    BY <1>5b, <2>5, <2>6
  <2>8. Len(RecoveryTail(log1)) = (c1 - m1) + (c2 - m2) + (c3 - m3)
    BY <2>2, <2>6
  <2> QED BY <2>7, <2>8
\* The k-th record for a type is the one that ranks m behind it.
<1>9. ASSUME NEW p \in 1..Len(RecoveryTail(log1))
      PROVE  j + p \in 1..Len(T) /\ RecoveryTail(log1)[p] = T[j + p]
  <2>0. PICK t \in DOMAIN Closing : \E k \in 1..Count(log1, t) : p = Before(log1, t) + k
    BY TailInOrder
  <2>1. PICK k \in 1..Count(log1, t) : p = Before(log1, t) + k
    BY <2>0
  <2>2. /\ B("tool/call") = 0 /\ B("approval/request") = C("tool/call")
        /\ B("turn/start") = C("tool/call") + C("approval/request")
        /\ \A u \in DOMAIN Closing : C(u) \in Nat /\ B(u) \in Nat /\ m(u) \in 0..C(u)
    BY <1>4, <1>5, ClosingPairs DEF Before
  <2>3. /\ k \in 1 .. C(t) - m(t)
        /\ Before(log1, "tool/call") = 0
        /\ Before(log1, "approval/request") = C("tool/call") - m("tool/call")
        /\ Before(log1, "turn/start") = (C("tool/call") - m("tool/call"))
             + (C("approval/request") - m("approval/request"))
    BY <1>7, <2>1, ClosingPairs DEF Before
  <2>4. k + m(t) \in 1..C(t) /\ m(t) < C(t) /\ C(t) <= Len(T)
    <3>1. C(t) <= Len(T)
      <4> HIDE DEF B, C
      <4>1. Len(T) = C("tool/call") + C("approval/request") + C("turn/start")
        BY <1>4
      <4>2. /\ t \in {"tool/call", "approval/request", "turn/start"}
            /\ C("tool/call") \in Nat /\ C("approval/request") \in Nat
            /\ C("turn/start") \in Nat
        BY <2>2, ClosingPairs
      <4> QED BY <4>1, <4>2
    <3> HIDE DEF B, C
    <3> QED BY <2>2, <2>3, <3>1
  <2>5. j + p = B(t) + (k + m(t))
    <3>0. PICK c1 \in Nat, c2 \in Nat, c3 \in Nat, m1 \in Nat, m2 \in Nat, m3 \in Nat :
            /\ c1 = C("tool/call") /\ c2 = C("approval/request") /\ c3 = C("turn/start")
            /\ m1 = m("tool/call") /\ m2 = m("approval/request") /\ m3 = m("turn/start")
      <4>1. /\ m("tool/call") \in Nat /\ m("approval/request") \in Nat
            /\ m("turn/start") \in Nat
        BY <1>4, <1>5, ClosingPairs
      <4>2. /\ C("tool/call") \in Nat /\ C("approval/request") \in Nat
            /\ C("turn/start") \in Nat
        BY <1>4, ClosingPairs
      <4> HIDE DEF C
      <4> QED BY <4>1, <4>2
    <3> HIDE DEF B, C
    <3>1. /\ m1 + m2 + m3 = j /\ (m1 < c1 => m2 = 0 /\ m3 = 0) /\ (m2 < c2 => m3 = 0)
      BY <1>5b, <3>0
    <3>2. k \in Nat
      BY <2>2, <2>3
    <3>3. CASE t = "tool/call"
      <4>1. p = k /\ B(t) = 0 /\ m(t) = m1 /\ m1 < c1
        BY <2>1, <2>2, <2>3, <2>4, <3>0, <3>2, <3>3
      <4> QED BY <3>1, <3>2, <4>1
    <3>4. CASE t = "approval/request"
      <4>1. p = (c1 - m1) + k /\ B(t) = c1 /\ m(t) = m2 /\ m2 < c2
        BY <2>1, <2>2, <2>3, <2>4, <3>0, <3>2, <3>4
      <4> QED BY <3>1, <3>2, <4>1
    <3>5. CASE t = "turn/start"
      <4>1. p = ((c1 - m1) + (c2 - m2)) + k /\ B(t) = c1 + c2 /\ m(t) = m3
        BY <2>1, <2>2, <2>3, <3>0, <3>2, <3>5
      <4> QED BY <3>1, <3>2, <4>1
    <3> QED BY <3>3, <3>4, <3>5, ClosingPairs
  <2>6. /\ B(t) + (k + m(t)) \in 1..Len(T)
        /\ T[B(t) + (k + m(t))] = Closer(log0, t, k + m(t))
    <3>1. k + m(t) \in 1..Len(RecoveryTail(log0)) /\ k + m(t) <= Count(log0, t)
      BY <1>1, <2>2, <2>4 DEF T
    <3> QED BY <3>1, TailInOrder DEF T
  <2>7. RecoveryTail(log1)[p] = Closer(log1, t, k)
    <3>1. Count(log1, t) \in Nat /\ Before(log1, t) \in Nat
      BY OpenIsFinite DEF Before
    <3>2. k \in 1..Len(RecoveryTail(log1)) /\ k <= Count(log1, t)
      BY <2>1, <3>1
    <3> QED BY <2>1, <3>2, TailInOrder
  <2>8. log1[Nth(OpenAt(log1, t), k)] = log0[Nth(O(t), k + m(t))]
    <3>1. Nth(OpenAt(log1, t), k) = Nth(O(t), k + m(t))
      BY <1>7, <2>3
    <3>2. Nth(O(t), k + m(t)) \in O(t)
      BY <1>4, <2>4, NthHasRank
    <3>3. Nth(O(t), k + m(t)) \in 1..n
      BY <1>4, <3>2
    <3> QED BY <1>3, <3>1, <3>3
  <2>9. Len(log1) + (Before(log1, t) + k) = Len(log0) + (B(t) + (k + m(t)))
    <3>1. Before(log1, t) \in Nat
      BY OpenIsFinite DEF Before
    <3> HIDE DEF B, C
    <3> QED BY <1>1, <1>2, <2>1, <2>2, <2>4, <2>5, <3>1 DEF n
  <2>10. Closer(log1, t, k) = Closer(log0, t, k + m(t))
    BY <2>8, <2>9 DEF Closer
  <2> QED BY <2>5, <2>6, <2>7, <2>10
<1>10. /\ Recovered(log1) \in Seq(Events(Names))
       /\ RecoveryTail(log1) \in Seq(Events(Names))
       /\ Len(Recovered(log1)) = Len(log1) + Len(RecoveryTail(log1))
       /\ \A i \in 1..Len(log1) : Recovered(log1)[i] = log1[i]
       /\ \A p \in 1..Len(RecoveryTail(log1)) :
            Recovered(log1)[Len(log1) + p] = RecoveryTail(log1)[p]
  BY RecoveredAt
<1>11. Len(Recovered(log1)) = Len(Recovered(log0))
  BY <1>1, <1>2, <1>8, <1>10
<1>12. ASSUME NEW i \in 1..Len(Recovered(log1)) PROVE Recovered(log1)[i] = Recovered(log0)[i]
  <2>1. CASE i <= Len(log1)
    BY <1>10, <2>1
  <2>2. CASE ~(i <= Len(log1))
    <3>1. /\ i - Len(log1) \in 1..Len(RecoveryTail(log1))
          /\ i = Len(log1) + (i - Len(log1))
      BY <1>10, <2>2
    <3>2. PICK p \in 1..Len(RecoveryTail(log1)) : i = Len(log1) + p
      BY <3>1
    <3>3. Recovered(log1)[i] = T[j + p] /\ j + p \in 1..Len(T)
      BY <1>9, <1>10, <3>2
    <3>4. i = n + (j + p)
      BY <1>1, <1>2, <1>10, <3>2
    <3>5. Recovered(log0)[n + (j + p)] = T[j + p]
      BY <1>1, <3>3
    <3> QED BY <3>3, <3>4, <3>5
  <2> QED BY <2>1, <2>2
<1>13. /\ Recovered(log0) \in Seq(Events(Names)) /\ Recovered(log1) \in Seq(Events(Names))
       /\ Len(Recovered(log1)) = Len(Recovered(log0))
       /\ \A i \in 1..Len(Recovered(log1)) : Recovered(log1)[i] = Recovered(log0)[i]
  BY <1>10, <1>11, <1>12, RecoveredAt
<1> QED BY <1>13

=============================================================================
