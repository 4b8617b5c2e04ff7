--------------------------- MODULE ApprovalProofs ---------------------------
(***************************************************************************)
(* Proofs about Approval for any sessions, any modes and any kinds of      *)
(* calls: what runs is explained by the log and was let run by somebody.   *)
(***************************************************************************)
EXTENDS Approval, SequenceTheorems, TLAPS

Records == {"request", "grants", "mode"} \cup Decisions
Selection == [mode : Modes, at : Nat]

-----------------------------------------------------------------------------
(* The inductive invariant. *)

TypesOK ==
  /\ log \in [Sessions -> Seq(Records)]
  /\ onDisk \in [Sessions -> Nat] /\ barrier \in [Sessions -> Nat]
  /\ phase \in [Sessions -> Phases]
  /\ decision \in [Sessions -> Decisions \cup {"none"}]
  /\ winner \in [Sessions -> Answers \cup {"none"}]
  /\ mode \in [Roots -> Modes] /\ selecting \in [Roots -> Seq(Selection)]

\* The provers take Booleans apart from the rest.
FlagsOK == eased \in [Sessions -> BOOLEAN]

\* A call that was let go on.
Let(s) == \/ phase[s] \in {"granting", "ready", "running"}
          \/ phase[s] = "deciding" /\ decision[s] = "allow"

Asked(s) == \E p \in DOMAIN log[s] : log[s][p] = "request"
Allowed(s) == \E p \in DOMAIN log[s] : log[s][p] = "allow" /\ p <= onDisk[s]

\* A call raises its question from "idle"; the decision it waits for is the
\* record at its barrier; past the barrier, the decision is on disk.
Explained(s) ==
  /\ phase[s] = "idle" => ~Asked(s)
  /\ phase[s] = "deciding" /\ decision[s] = "allow" =>
       barrier[s] \in DOMAIN log[s] /\ log[s][barrier[s]] = "allow"
  /\ phase[s] \in {"granting", "ready", "running"} => ~Asked(s) \/ Allowed(s)

\* A call is let go on by a person or by a mode.
Authorised(s) == Let(s) => eased[s] \/ winner[s] \in {"allow", "session"}

\* A selection that may still release a call's question counts as a mode that
\* admits it, and no mode admits a call whose question is forced.
Eases(s) ==
  /\ phase[s] # "idle" /\ BeingSelected(Root[s], KindOf[s]) => eased[s]
  /\ eased[s] => ~ForceAsk(KindOf[s])

IInv ==
  /\ TypesOK /\ FlagsOK
  /\ \A s \in Sessions : Explained(s) /\ Authorised(s) /\ Eases(s)

-----------------------------------------------------------------------------
(* What a step may do to one session. *)

\* Its log keeps what it had and what is on disk.
Extends(s) ==
  /\ log'[s] = log[s] \/ \E x \in Records \ {"request"} : log'[s] = Append(log[s], x)
  /\ onDisk'[s] >= onDisk[s]

\* What was asked or allowed in a log that grows stays so, and nothing else is
\* asked by a record that is not a request.
LEMMA LogGrows ==
  ASSUME TypesOK, TypesOK', NEW s \in Sessions, Extends(s)
  PROVE  /\ Asked(s)' => Asked(s)
         /\ Allowed(s) => Allowed(s)'
         /\ \A p \in DOMAIN log[s] : p \in DOMAIN log'[s] /\ log'[s][p] = log[s][p]
<1>1. log[s] \in Seq(Records) /\ onDisk[s] \in Nat /\ onDisk'[s] \in Nat
  BY DEF TypesOK
<1>2. \A p \in DOMAIN log[s] : p \in DOMAIN log'[s] /\ log'[s][p] = log[s][p]
  <2>1. CASE log'[s] = log[s]
    BY <2>1
  <2>2. CASE \E x \in Records : log'[s] = Append(log[s], x)
    <3> PICK x \in Records : log'[s] = Append(log[s], x)
      BY <2>2
    <3> QED BY <1>1
  <2> QED BY <2>1, <2>2 DEF Extends
<1>3. Asked(s)' => Asked(s)
  BY <1>1 DEF Extends, Asked
<1>4. Allowed(s) => Allowed(s)'
  <2> SUFFICES ASSUME NEW p \in DOMAIN log[s], log[s][p] = "allow", p <= onDisk[s]
               PROVE  \E q \in DOMAIN log'[s] : log'[s][q] = "allow" /\ q <= onDisk'[s]
    BY DEF Allowed
  <2>1. p <= onDisk'[s]
    BY <1>1 DEF Extends
  <2> QED BY <1>2, <2>1
<1> QED BY <1>2, <1>3, <1>4

\* A session that only sees its log grow.
LEMMA StaysExplained ==
  ASSUME TypesOK, TypesOK', NEW s \in Sessions, Extends(s), Explained(s),
         phase'[s] = phase[s], decision'[s] = decision[s], barrier'[s] = barrier[s]
  PROVE  Explained(s)'
BY LogGrows DEF Explained

\* A call that waits for its question, or was denied, needs no explanation.
LEMMA WaitsExplained ==
  ASSUME NEW s \in Sessions, phase'[s] \in {"requesting", "asking", "denied"}
  PROVE  Explained(s)'
BY DEF Explained

\* A session that keeps its phase, its decision and its winner.
LEMMA StaysAuthorised ==
  ASSUME NEW s \in Sessions, Authorised(s), phase'[s] = phase[s],
         decision'[s] = decision[s], winner'[s] = winner[s], eased[s] => eased'[s]
  PROVE  Authorised(s)'
BY DEF Authorised, Let

\* The same call, and no selection that was not there.
LEMMA StaysEased ==
  ASSUME NEW s \in Sessions, Eases(s), eased'[s] = eased[s],
         phase[s] # "idle" \/ phase'[s] = "idle",
         selecting'[Root[s]] = selecting[Root[s]]
  PROVE  Eases(s)'
BY DEF Eases, BeingSelected

\* A session the step does not touch.
Apart(s) ==
  /\ phase'[s] = phase[s] /\ decision'[s] = decision[s] /\ winner'[s] = winner[s]
  /\ barrier'[s] = barrier[s] /\ eased'[s] = eased[s] /\ log'[s] = log[s]
  /\ onDisk'[s] = onDisk[s]

LEMMA ApartKeeps ==
  ASSUME IInv, TypesOK', NEW s \in Sessions, Apart(s)
  PROVE  Explained(s)' /\ Authorised(s)'
<1>1. Extends(s)
  BY DEF Extends, Apart, IInv, TypesOK
<1> QED BY <1>1, StaysExplained, StaysAuthorised DEF Apart, IInv

\* Every session is Apart but one, and the selections are left alone.
LEMMA OneSession ==
  ASSUME ApprovalAssumption, IInv, TypesOK', NEW s \in Sessions,
         \A t \in Sessions \ {s} : Apart(t),
         Explained(s)', Authorised(s)', UNCHANGED <<selecting, eased>>,
         phase[s] # "idle" \/ phase'[s] = "idle"
  PROVE  IInv'
<1>1. FlagsOK'
  BY DEF IInv, FlagsOK
<1>2. ASSUME NEW t \in Sessions PROVE Eases(t)'
  <2>1. phase[t] # "idle" \/ phase'[t] = "idle"
    BY DEF Apart
  <2> QED BY <2>1, StaysEased DEF IInv
<1>3. ASSUME NEW t \in Sessions PROVE Explained(t)' /\ Authorised(t)'
  BY ApartKeeps
<1> QED BY <1>1, <1>2, <1>3 DEF IInv

-----------------------------------------------------------------------------
(* Settling. *)

\* Whatever settles, a question is claimed once: what is claimed is recorded and
\* awaited, or denied, and nothing else moves.
LEMMA SettleSettles ==
  ASSUME TypesOK, NEW claimed \in SUBSET Sessions, NEW verdicts \in [claimed -> Decisions],
         Settle(verdicts)
  PROVE  /\ log' \in [Sessions -> Seq(Records)] /\ barrier' \in [Sessions -> Nat]
         /\ phase' \in [Sessions -> Phases]
         /\ decision' \in [Sessions -> Decisions \cup {"none"}]
         /\ \A s \in Sessions \ claimed :
              /\ log'[s] = log[s] /\ barrier'[s] = barrier[s]
              /\ decision'[s] = decision[s] /\ phase'[s] = phase[s]
         /\ \A s \in claimed :
              /\ decision'[s] = verdicts[s]
              /\ \/ phase'[s] = "denied"
                 \/ /\ phase'[s] = "deciding"
                    /\ log'[s] = Append(log[s], verdicts[s]) /\ barrier'[s] = Len(log'[s])
<1> DEFINE recorded == {s \in claimed : ~Poisoned(s)}
<1>1. DOMAIN verdicts = claimed /\ \A s \in claimed : verdicts[s] \in Decisions
  OBVIOUS
<1>2. log' = [s \in Sessions |->
                IF s \in recorded THEN Append(log[s], verdicts[s]) ELSE log[s]]
  BY <1>1 DEF Settle
<1>3. barrier' = [s \in Sessions |-> IF s \in claimed THEN Len(log'[s]) ELSE barrier[s]]
  BY <1>1 DEF Settle
<1>4. /\ decision' = [s \in Sessions |-> IF s \in claimed THEN verdicts[s] ELSE decision[s]]
      /\ phase' = [s \in Sessions |->
                     IF s \in recorded THEN "deciding"
                     ELSE IF s \in claimed THEN "denied" ELSE phase[s]]
  BY <1>1 DEF Settle
<1>5. recorded \subseteq claimed
  OBVIOUS
<1> HIDE DEF recorded
<1>6. \A s \in Sessions : log[s] \in Seq(Records)
  BY DEF TypesOK
<1>7. \A s \in recorded : Append(log[s], verdicts[s]) \in Seq(Records)
  BY <1>1, <1>5, <1>6 DEF Records
<1>8. log' \in [Sessions -> Seq(Records)]
  BY <1>2, <1>6, <1>7
<1>9. barrier' \in [Sessions -> Nat]
  BY <1>3, <1>8 DEF TypesOK
<1>10. phase' \in [Sessions -> Phases] /\ decision' \in [Sessions -> Decisions \cup {"none"}]
  BY <1>1, <1>4 DEF TypesOK, Phases
<1>11. ASSUME NEW s \in Sessions \ claimed
       PROVE  /\ log'[s] = log[s] /\ barrier'[s] = barrier[s]
              /\ decision'[s] = decision[s] /\ phase'[s] = phase[s]
  BY <1>2, <1>3, <1>4, <1>5
<1>12. ASSUME NEW s \in claimed
       PROVE  /\ decision'[s] = verdicts[s]
              /\ \/ phase'[s] = "denied"
                 \/ /\ phase'[s] = "deciding"
                    /\ log'[s] = Append(log[s], verdicts[s]) /\ barrier'[s] = Len(log'[s])
  BY <1>2, <1>3, <1>4, <1>5
<1> QED BY <1>8, <1>9, <1>10, <1>11, <1>12

\* A question that is settled: its decision is the record it waits for.
LEMMA SettledExplained ==
  ASSUME TypesOK, TypesOK', NEW s \in Sessions,
         \/ phase'[s] = "denied"
         \/ /\ phase'[s] = "deciding"
            /\ log'[s] = Append(log[s], decision'[s]) /\ barrier'[s] = Len(log'[s])
  PROVE  Explained(s)'
<1>1. CASE phase'[s] = "denied"
  BY <1>1, WaitsExplained
<1>2. CASE /\ phase'[s] = "deciding"
           /\ log'[s] = Append(log[s], decision'[s]) /\ barrier'[s] = Len(log'[s])
  <2>1. log[s] \in Seq(Records)
    BY DEF TypesOK
  <2>2. barrier'[s] \in DOMAIN log'[s] /\ log'[s][barrier'[s]] = decision'[s]
    BY <1>2, <2>1
  <2> QED BY <1>2, <2>2 DEF Explained
<1> QED BY <1>1, <1>2

\* Settling questions of some sessions, each with a verdict that is not to
\* allow, or that somebody stands behind.
LEMMA SettleKeeps ==
  ASSUME ApprovalAssumption, IInv, NEW claimed \in SUBSET Sessions,
         NEW verdicts \in [claimed -> Decisions], Settle(verdicts),
         \A s \in claimed : phase[s] # "idle",
         winner' \in [Sessions -> Answers \cup {"none"}],
         \A s \in Sessions \ claimed : winner'[s] = winner[s],
         \A s \in claimed :
           verdicts[s] = "allow" => eased[s] \/ winner'[s] \in {"allow", "session"},
         selecting' \in [Roots -> Seq(Selection)],
         \A s \in Sessions :
           BeingSelected(Root[s], KindOf[s])' => BeingSelected(Root[s], KindOf[s]),
         UNCHANGED <<onDisk, mode, eased>>
  PROVE  IInv'
<1>1. TypesOK /\ FlagsOK
  BY DEF IInv
<1>2. /\ log' \in [Sessions -> Seq(Records)] /\ barrier' \in [Sessions -> Nat]
      /\ phase' \in [Sessions -> Phases]
      /\ decision' \in [Sessions -> Decisions \cup {"none"}]
  BY <1>1, SettleSettles
<1>3. ASSUME NEW s \in Sessions \ claimed
      PROVE  /\ log'[s] = log[s] /\ barrier'[s] = barrier[s]
             /\ decision'[s] = decision[s] /\ phase'[s] = phase[s]
  BY ZenonT(40), <1>1, SettleSettles
<1>4. ASSUME NEW s \in claimed
      PROVE  /\ decision'[s] = verdicts[s]
             /\ \/ phase'[s] = "denied"
                \/ /\ phase'[s] = "deciding"
                   /\ log'[s] = Append(log[s], verdicts[s]) /\ barrier'[s] = Len(log'[s])
  BY <1>1, SettleSettles
<1>5. TypesOK'
  BY <1>1, <1>2 DEF TypesOK
<1>6. FlagsOK'
  BY <1>1 DEF FlagsOK
<1>7. ASSUME NEW s \in Sessions PROVE Explained(s)' /\ Authorised(s)'
  <2>1. CASE s \in claimed
    <3>1. Explained(s)'
      BY <1>1, <1>4, <1>5, <2>1, SettledExplained
    <3>2. Authorised(s)'
      BY <1>4, <2>1 DEF Authorised, Let
    <3> QED BY <3>1, <3>2
  <2>2. CASE s \notin claimed
    <3>1. Apart(s)
      BY <1>3, <2>2 DEF Apart
    <3> QED BY <1>5, <3>1, ApartKeeps
  <2> QED BY <2>1, <2>2
<1>8. ASSUME NEW s \in Sessions PROVE Eases(s)'
  <2>1. phase'[s] # "idle" => phase[s] # "idle"
    BY <1>3
  <2> QED BY <2>1 DEF IInv, Eases
<1> QED BY <1>5, <1>6, <1>7, <1>8 DEF IInv

-----------------------------------------------------------------------------
(* The steps of a call. *)

\* Everything the invariant reads is left alone.
LEMMA UntouchedKeeps ==
  ASSUME IInv,
         UNCHANGED <<log, onDisk, barrier, phase, decision, winner, mode, selecting, eased>>
  PROVE  IInv'
<1>1. TypesOK' /\ FlagsOK'
  BY DEF IInv, TypesOK, FlagsOK
<1>2. ASSUME NEW s \in Sessions PROVE Explained(s)' /\ Authorised(s)' /\ Eases(s)'
  <2>1. Apart(s)
    BY DEF Apart
  <2>2. Eases(s)'
    BY StaysEased DEF IInv
  <2> QED BY <1>1, <2>1, <2>2, ApartKeeps
<1> QED BY <1>1, <1>2 DEF IInv

\* A record of a session reaches the disk.
LEMMA RecordStoredKeeps ==
  ASSUME ApprovalAssumption, IInv, NEW s \in Sessions, RecordStored(s)
  PROVE  IInv'
<1>1. /\ onDisk' = [onDisk EXCEPT ![s] = @ + 1]
      /\ UNCHANGED <<log, barrier, phase, decision, winner, mode, selecting, eased>>
  BY DEF RecordStored, modeVars, callVars, answerVars
<1>2. /\ onDisk' \in [Sessions -> Nat] /\ onDisk'[s] >= onDisk[s]
      /\ \A t \in Sessions \ {s} : onDisk'[t] = onDisk[t]
  BY <1>1 DEF IInv, TypesOK
<1>3. TypesOK'
  BY <1>1, <1>2 DEF IInv, TypesOK
<1>4. \A t \in Sessions \ {s} : Apart(t)
  BY <1>1, <1>2 DEF Apart
<1>5. Explained(s)' /\ Authorised(s)'
  <2>1. Extends(s)
    BY <1>1, <1>2 DEF Extends
  <2> QED BY <1>1, <1>3, <2>1, StaysExplained, StaysAuthorised DEF IInv
<1> QED BY <1>1, <1>3, <1>4, <1>5, OneSession

\* A call moves on without a record; to go on it must have been let go on, and
\* its decision must be on disk.
LEMMA MovesKeeps ==
  ASSUME ApprovalAssumption, IInv, NEW s \in Sessions, NEW to \in Phases, Moves(s, to),
         phase[s] # "idle",
         \/ to \in {"asking", "denied"}
         \/ to \in {"ready", "running"} /\ Let(s) /\ (~Asked(s) \/ Allowed(s)),
         UNCHANGED <<onDisk, decision, winner, mode, selecting, eased>>
  PROVE  IInv'
<1>1. phase' = [phase EXCEPT ![s] = to] /\ UNCHANGED <<log, barrier>>
  BY DEF Moves
<1>2. /\ phase' \in [Sessions -> Phases] /\ phase'[s] = to
      /\ \A t \in Sessions \ {s} : phase'[t] = phase[t]
  BY <1>1 DEF IInv, TypesOK
<1>3. TypesOK'
  BY <1>1, <1>2 DEF IInv, TypesOK
<1>4. \A t \in Sessions \ {s} : Apart(t)
  BY <1>1, <1>2 DEF Apart
<1>5. (Asked(s)' <=> Asked(s)) /\ (Allowed(s)' <=> Allowed(s))
  BY <1>1 DEF Asked, Allowed
<1>6. Explained(s)'
  BY <1>2, <1>5 DEF Explained
<1>7. Authorised(s)'
  BY <1>1, <1>2 DEF IInv, Authorised, Let
<1> QED BY <1>3, <1>4, <1>6, <1>7, OneSession

\* A call that was let go on records what it must first.
LEMMA GrantingKeeps ==
  ASSUME ApprovalAssumption, IInv, NEW s \in Sessions, Await(s, "grants", "granting"),
         Let(s), phase[s] # "idle", ~Asked(s) \/ Allowed(s),
         UNCHANGED <<onDisk, decision, winner, mode, selecting, eased>>
  PROVE  IInv'
<1>1. CASE Poisoned(s)
  <2>1. Moves(s, "denied") /\ "denied" \in Phases
    BY <1>1 DEF Await, Moves, Phases
  <2> QED BY <2>1, MovesKeeps
<1>2. CASE ~Poisoned(s)
  <2>1. /\ log' = [log EXCEPT ![s] = Append(@, "grants")]
        /\ barrier' = [barrier EXCEPT ![s] = Len(log'[s])]
        /\ phase' = [phase EXCEPT ![s] = "granting"]
    BY <1>2 DEF Await
  <2>2. log[s] \in Seq(Records) /\ Append(log[s], "grants") \in Seq(Records)
    BY DEF IInv, TypesOK, Records
  <2>3. /\ log' \in [Sessions -> Seq(Records)] /\ log'[s] = Append(log[s], "grants")
        /\ \A t \in Sessions \ {s} : log'[t] = log[t]
    BY <2>1, <2>2 DEF IInv, TypesOK
  <2>4. /\ barrier' \in [Sessions -> Nat]
        /\ \A t \in Sessions \ {s} : barrier'[t] = barrier[t]
    BY <2>1, <2>2, <2>3 DEF IInv, TypesOK
  <2>5. /\ phase' \in [Sessions -> Phases] /\ phase'[s] = "granting"
        /\ \A t \in Sessions \ {s} : phase'[t] = phase[t]
    BY <2>1 DEF IInv, TypesOK, Phases
  <2>6. TypesOK'
    BY <2>3, <2>4, <2>5 DEF IInv, TypesOK
  <2>7. \A t \in Sessions \ {s} : Apart(t)
    BY <2>3, <2>4, <2>5 DEF Apart
  <2>8. Extends(s)
    BY <2>3 DEF Extends, Records, IInv, TypesOK
  <2>9. Explained(s)'
    BY <2>5, <2>6, <2>8, LogGrows DEF Explained, IInv
  <2>10. Authorised(s)'
    BY DEF IInv, Authorised, Let
  <2> QED BY <2>5, <2>6, <2>7, <2>9, <2>10, OneSession
<1> QED BY <1>1, <1>2

\* A call is prepared: a mode admits it, it is refused, or its request is
\* recorded.
LEMMA PrepareKeeps ==
  ASSUME ApprovalAssumption, IInv, NEW s \in Sessions, Prepare(s)
  PROVE  IInv'
<1> DEFINE m == Governing(s)
           admitted == Admits(m, KindOf[s])
<1>1. phase[s] = "idle" /\ UNCHANGED <<onDisk, decision, winner, mode, selecting>>
  BY DEF Prepare, modeVars, answerVars
<1>2. eased' = [eased EXCEPT ![s] = admitted \/ BeingSelected(Root[s], KindOf[s])]
  BY DEF Prepare
<1>3. \/ admitted /\ Moves(s, "ready")
      \/ Moves(s, "denied")
      \/ Await(s, "request", "requesting")
  BY DEF Prepare
<1>4. admitted => ~ForceAsk(KindOf[s])
  BY DEF Admits
<1>5. BeingSelected(Root[s], KindOf[s]) => ~ForceAsk(KindOf[s])
  BY DEF BeingSelected, Admits
<1> HIDE DEF admitted
<1>6. eased' \in [Sessions -> BOOLEAN]
  BY <1>2 DEF IInv, FlagsOK, BeingSelected
<1>7. \A t \in Sessions \ {s} : eased'[t] = eased[t]
  BY <1>2 DEF IInv, FlagsOK
<1>8. eased'[s] <=> admitted \/ BeingSelected(Root[s], KindOf[s])
  BY <1>2, Zenon DEF IInv, FlagsOK
<1>9. log[s] \in Seq(Records) /\ Append(log[s], "request") \in Seq(Records)
  BY DEF IInv, TypesOK, Records
<1>10. /\ log' \in [Sessions -> Seq(Records)] /\ barrier' \in [Sessions -> Nat]
       /\ \A t \in Sessions \ {s} : log'[t] = log[t] /\ barrier'[t] = barrier[t]
  <2>1. CASE UNCHANGED <<log, barrier>>
    BY <2>1 DEF IInv, TypesOK
  <2>2. CASE /\ log' = [log EXCEPT ![s] = Append(@, "request")]
             /\ barrier' = [barrier EXCEPT ![s] = Len(log'[s])]
    <3>1. /\ log' \in [Sessions -> Seq(Records)]
          /\ \A t \in Sessions \ {s} : log'[t] = log[t]
      BY <1>9, <2>2 DEF IInv, TypesOK
    <3>2. Len(log'[s]) \in Nat
      BY <3>1
    <3> QED BY <2>2, <3>1, <3>2 DEF IInv, TypesOK
  <2> QED BY <1>3, <2>1, <2>2 DEF Moves, Await
<1>11. /\ phase' \in [Sessions -> Phases]
       /\ \A t \in Sessions \ {s} : phase'[t] = phase[t]
       /\ phase'[s] \in {"requesting", "denied"} \/ (phase'[s] = "ready" /\ admitted /\ log' = log)
  BY ZenonT(40), <1>3 DEF Moves, Await, IInv, TypesOK, Phases
<1>12. TypesOK'
  BY <1>1, <1>10, <1>11 DEF IInv, TypesOK
<1>13. Explained(s)'
  <2>1. CASE phase'[s] \in {"requesting", "denied"}
    BY <2>1, WaitsExplained
  <2>2. CASE phase'[s] = "ready" /\ log' = log
    <3>1. ~Asked(s)
      BY <1>1 DEF IInv, Explained
    <3>2. ~Asked(s)'
      BY <2>2, <3>1 DEF Asked
    <3> QED BY <2>2, <3>2 DEF Explained
  <2> QED BY <1>11, <2>1, <2>2
<1>14. Authorised(s)'
  BY <1>8, <1>11 DEF Authorised, Let
<1>15. ASSUME NEW t \in Sessions PROVE Eases(t)'
  <2>1. CASE t = s
    <3>1. BeingSelected(Root[s], KindOf[s])' <=> BeingSelected(Root[s], KindOf[s])
      BY <1>1 DEF BeingSelected
    <3> QED BY <1>4, <1>5, <1>8, <2>1, <3>1 DEF Eases
  <2>2. CASE t # s
    <3>1. phase'[t] = phase[t] /\ eased'[t] = eased[t]
      BY <1>7, <1>11, <2>2
    <3> QED BY <1>1, <3>1, StaysEased DEF IInv
  <2> QED BY <2>1, <2>2
<1>16. ASSUME NEW t \in Sessions \ {s} PROVE Explained(t)' /\ Authorised(t)'
  <2>1. Apart(t)
    BY <1>1, <1>7, <1>10, <1>11 DEF Apart
  <2> QED BY <1>12, <2>1, ApartKeeps
<1> QED BY <1>6, <1>12, <1>13, <1>14, <1>15, <1>16 DEF IInv, FlagsOK

\* Settling one question that is not answered by an allow.
LEMMA SettleOneKeeps ==
  ASSUME ApprovalAssumption, IInv, NEW s \in Sessions, NEW verdict \in Decisions,
         Settle(Only(s, verdict)), phase[s] # "idle",
         winner' \in [Sessions -> Answers \cup {"none"}],
         \A t \in Sessions \ {s} : winner'[t] = winner[t],
         verdict = "allow" => winner'[s] \in {"allow", "session"},
         UNCHANGED <<onDisk, mode, selecting, eased>>
  PROVE  IInv'
<1>1. Only(s, verdict) \in [{s} -> Decisions] /\ \A t \in {s} : Only(s, verdict)[t] = verdict
  BY DEF Only
<1>2. selecting' \in [Roots -> Seq(Selection)]
  BY DEF IInv, TypesOK
<1>3. \A t \in Sessions :
        BeingSelected(Root[t], KindOf[t])' => BeingSelected(Root[t], KindOf[t])
  BY DEF BeingSelected
<1>4. /\ {s} \in SUBSET Sessions /\ \A t \in {s} : phase[t] # "idle"
      /\ \A t \in {s} : Only(s, verdict)[t] = "allow" =>
           eased[t] \/ winner'[t] \in {"allow", "session"}
  BY <1>1
<1> QED BY <1>1, <1>2, <1>3, <1>4, SettleKeeps

\* The awaits of a call end.
LEMMA AdvanceKeeps ==
  ASSUME ApprovalAssumption, IInv, NEW s \in Sessions, Advance(s)
  PROVE  IInv'
<1>1. "asking" \in Phases /\ "denied" \in Phases /\ "ready" \in Phases /\ "running" \in Phases
  BY DEF Phases
<1>2. Explained(s) /\ onDisk[s] \in Nat /\ winner \in [Sessions -> Answers \cup {"none"}]
  BY DEF IInv, TypesOK
<1>3. CASE Prepare(s)
  BY <1>3, PrepareKeeps
<1>4. CASE RequestStored(s)
  <2>1. phase[s] = "requesting" /\ UNCHANGED <<onDisk, winner, mode, selecting, eased>>
    BY <1>4 DEF RequestStored, modeVars, answerVars
  <2>2. CASE aborted[s]
    <3>1. Settle(Only(s, "cancelled")) /\ "cancelled" \in Decisions
      BY <1>4, <2>2 DEF RequestStored, Decisions
    <3> QED BY <1>2, <2>1, <3>1, SettleOneKeeps
  <2>3. CASE ~aborted[s]
    BY <1>1, <1>4, <2>1, <2>3, MovesKeeps DEF RequestStored
  <2> QED BY <2>2, <2>3
<1>5. CASE DecisionStored(s)
  <2>1. /\ phase[s] = "deciding" /\ Durable(s)
        /\ UNCHANGED <<onDisk, decision, winner, mode, selecting, eased>>
    BY <1>5 DEF DecisionStored, modeVars, answerVars
  <2>2. CASE decision[s] # "allow"
    BY <1>1, <1>5, <2>1, <2>2, MovesKeeps DEF DecisionStored
  <2>3. CASE decision[s] = "allow"
    <3>1. Let(s)
      BY <2>1, <2>3 DEF Let
    <3>2. Allowed(s)
      BY <1>2, <2>1, <2>3 DEF Explained, Allowed, Durable
    <3>3. CASE widen[s]
      BY <1>5, <2>1, <2>3, <3>1, <3>2, <3>3, GrantingKeeps DEF DecisionStored
    <3>4. CASE ~widen[s]
      BY <1>1, <1>5, <2>1, <2>3, <3>1, <3>2, <3>4, MovesKeeps DEF DecisionStored
    <3> QED BY <3>3, <3>4
  <2> QED BY <2>2, <2>3
<1>6. CASE GrantStored(s)
  <2>1. /\ phase[s] = "granting" /\ Moves(s, "ready")
        /\ UNCHANGED <<onDisk, decision, winner, mode, selecting, eased>>
    BY <1>6 DEF GrantStored, modeVars, answerVars
  <2> QED BY <1>1, <1>2, <2>1, MovesKeeps DEF Explained, Let
<1>7. CASE RecordFails(s)
  <2>1. /\ phase[s] # "idle" /\ Moves(s, "denied")
        /\ UNCHANGED <<onDisk, decision, winner, mode, selecting, eased>>
    BY <1>7 DEF RecordFails, modeVars, answerVars
  <2> QED BY <1>1, <2>1, MovesKeeps
<1>8. CASE StartBody(s)
  <2>1. /\ phase[s] = "ready" /\ (Moves(s, "running") \/ Moves(s, "denied"))
        /\ UNCHANGED <<onDisk, decision, winner, mode, selecting, eased>>
    BY <1>8 DEF StartBody, modeVars, answerVars
  <2> QED BY <1>1, <1>2, <2>1, MovesKeeps DEF Explained, Let
<1> QED BY <1>3, <1>4, <1>5, <1>6, <1>7, <1>8 DEF Advance

\* An expiry and a stop settle with a denial.
LEMMA StopsKeep ==
  ASSUME ApprovalAssumption, IInv, NEW s \in Sessions, Expire(s) \/ Stop(s)
  PROVE  IInv'
<1>1. CASE SettleOne(s, "expired") \/ SettleOne(s, "cancelled")
  <2>1. PICK verdict \in {"expired", "cancelled"} : SettleOne(s, verdict)
    BY <1>1
  <2>2. /\ Settle(Only(s, verdict)) /\ phase[s] # "idle" /\ verdict \in Decisions
        /\ UNCHANGED <<onDisk, mode, selecting, winner, eased>>
    BY <2>1 DEF SettleOne, Open, Decisions, modeVars, answerVars
  <2>3. winner \in [Sessions -> Answers \cup {"none"}]
    BY DEF IInv, TypesOK
  <2> QED BY <2>1, <2>2, <2>3, SettleOneKeeps
<1>2. CASE UNCHANGED <<logVars, modeVars, callVars, answerVars, eased>>
  BY <1>2, UntouchedKeeps DEF logVars, modeVars, callVars, answerVars
<1> QED BY <1>1, <1>2 DEF Expire, Stop

\* The answer that takes a question stands behind its decision.
LEMMA AnsweringKeeps ==
  ASSUME ApprovalAssumption, IInv, NEW s \in Sessions, Answering(s)
  PROVE  IInv'
<1>1. PICK answer \in Answers : PostAnswer(s, answer) \/ AnswerLands(s, answer)
  BY DEF Answering
<1>2. CASE AnswerLands(s, answer) /\ Open(s)
  <2>1. PICK verdict \in {"allow", "deny"} :
          /\ Settle(Only(s, verdict)) /\ (verdict = "allow" => answer # "deny")
    BY <1>2 DEF AnswerLands
  <2>2. /\ winner' = [winner EXCEPT ![s] = answer]
        /\ UNCHANGED <<onDisk, mode, selecting, eased>>
    BY <1>2 DEF AnswerLands, modeVars
  <2>3. phase[s] # "idle" /\ verdict \in Decisions
    BY <1>2 DEF Open, Decisions
  <2>4. /\ winner' \in [Sessions -> Answers \cup {"none"}] /\ winner'[s] = answer
        /\ \A t \in Sessions \ {s} : winner'[t] = winner[t]
    BY <2>2 DEF IInv, TypesOK
  <2>5. verdict = "allow" => winner'[s] \in {"allow", "session"}
    BY <2>1, <2>4 DEF Answers
  <2> QED BY <2>1, <2>2, <2>3, <2>4, <2>5, SettleOneKeeps
<1>3. CASE PostAnswer(s, answer) \/ ~Open(s)
  BY <1>1, <1>3, UntouchedKeeps
     DEF PostAnswer, AnswerLands, logVars, modeVars, callVars, answerVars
<1> QED BY <1>1, <1>2, <1>3

-----------------------------------------------------------------------------
(* The selection of a mode. *)

\* Roots are sessions.
LEMMA RootsAreSessions ==
  ASSUME ApprovalAssumption
  PROVE  Roots \subseteq Sessions /\ \A s \in Sessions : Root[s] \in Roots
BY DEF ApprovalAssumption, Roots

\* A selection that is stamped eases the calls it admits, and is recorded.
LEMMA SelectModeKeeps ==
  ASSUME ApprovalAssumption, IInv, NEW r \in Roots, NEW m \in Modes, SelectMode(r, m)
  PROVE  IInv'
<1> DEFINE new == [mode |-> m, at |-> Len(log'[r])]
<1>1. /\ log' = [log EXCEPT ![r] = Append(@, "mode")]
      /\ mode' = [mode EXCEPT ![r] = m]
      /\ selecting' = [selecting EXCEPT ![r] = Append(@, new)]
      /\ UNCHANGED <<onDisk, barrier, phase, decision, winner>>
  BY DEF SelectMode, callVars, answerVars
<1>2. eased' = [s \in Sessions |->
                  eased[s] \/ (Root[s] = r /\ phase[s] # "idle" /\ Admits(m, KindOf[s]))]
  BY DEF SelectMode
<1>3. r \in Sessions /\ log[r] \in Seq(Records) /\ Append(log[r], "mode") \in Seq(Records)
  BY RootsAreSessions DEF IInv, TypesOK, Records
<1>4. /\ log' \in [Sessions -> Seq(Records)] /\ log'[r] = Append(log[r], "mode")
      /\ \A s \in Sessions \ {r} : log'[s] = log[s]
  BY <1>1, <1>3 DEF IInv, TypesOK
<1>5. new \in Selection
  BY <1>3, <1>4 DEF Selection
<1>6. selecting[r] \in Seq(Selection)
  BY DEF IInv, TypesOK
<1> HIDE DEF new
<1>7. Append(selecting[r], new) \in Seq(Selection)
  BY <1>5, <1>6
<1>8. /\ selecting' \in [Roots -> Seq(Selection)]
      /\ selecting'[r] = Append(selecting[r], new)
      /\ \A q \in Roots \ {r} : selecting'[q] = selecting[q]
  BY <1>1, <1>7 DEF IInv, TypesOK
<1>9. mode' \in [Roots -> Modes]
  BY <1>1 DEF IInv, TypesOK
<1>10. TypesOK'
  BY <1>1, <1>4, <1>8, <1>9 DEF IInv, TypesOK
<1>11. FlagsOK'
  BY <1>2, Zenon DEF FlagsOK
<1>12. ASSUME NEW s \in Sessions
       PROVE  eased'[s] <=> eased[s] \/ (Root[s] = r /\ phase[s] # "idle" /\ Admits(m, KindOf[s]))
  BY <1>2, Zenon
<1>13. ASSUME NEW s \in Sessions PROVE Explained(s)' /\ Authorised(s)'
  <2>1. "mode" \in Records \ {"request"}
    BY DEF Records
  <2>2. Extends(s)
    <3>1. onDisk'[s] >= onDisk[s]
      BY <1>1 DEF IInv, TypesOK
    <3>2. CASE s = r
      BY <1>4, <2>1, <3>1, <3>2 DEF Extends
    <3>3. CASE s # r
      BY <1>4, <3>1, <3>3 DEF Extends
    <3> QED BY <3>2, <3>3
  <2>3. eased[s] => eased'[s]
    BY <1>12
  <2> QED BY <1>1, <1>10, <2>2, <2>3, StaysExplained, StaysAuthorised DEF IInv
<1>14. ASSUME NEW s \in Sessions PROVE Eases(s)'
  <2>1. Eases(s)
    BY DEF IInv
  <2>2. eased'[s] => ~ForceAsk(KindOf[s])
    BY <1>12, <2>1 DEF Eases, Admits
  <2>3. CASE Root[s] # r
    <3>1. selecting'[Root[s]] = selecting[Root[s]]
      BY <1>8, <2>3, RootsAreSessions
    <3>2. BeingSelected(Root[s], KindOf[s])' => BeingSelected(Root[s], KindOf[s])
      BY <3>1 DEF BeingSelected
    <3> QED BY <1>1, <1>12, <2>1, <2>2, <3>2 DEF Eases
  <2>4. CASE Root[s] = r
    <3>1. ASSUME BeingSelected(r, KindOf[s])'
          PROVE  BeingSelected(r, KindOf[s]) \/ Admits(m, KindOf[s])
      <4>1. PICK i \in DOMAIN selecting'[r] : Admits(selecting'[r][i].mode, KindOf[s])
        BY <3>1 DEF BeingSelected
      <4>2. CASE i \in DOMAIN selecting[r]
        <5>1. selecting'[r][i] = selecting[r][i]
          BY <1>6, <1>8, <4>2
        <5> QED BY <4>1, <4>2, <5>1 DEF BeingSelected
      <4>3. CASE i \notin DOMAIN selecting[r]
        <5>1. selecting'[r][i] = new
          BY <1>6, <1>8, <4>1, <4>3
        <5> QED BY <4>1, <5>1 DEF new
      <4> QED BY <4>2, <4>3
    <3> QED BY <1>1, <1>12, <2>1, <2>2, <2>4, <3>1 DEF Eases
  <2> QED BY <2>3, <2>4
<1> QED BY <1>10, <1>11, <1>13, <1>14 DEF IInv

\* A selection leaves the queue; what is still in it was in it.
LEMMA SelectionLeaves ==
  ASSUME ApprovalAssumption, IInv, NEW r \in Roots, selecting[r] # <<>>,
         selecting' = [selecting EXCEPT ![r] = Tail(@)]
  PROVE  /\ selecting' \in [Roots -> Seq(Selection)]
         /\ \A s \in Sessions :
              BeingSelected(Root[s], KindOf[s])' => BeingSelected(Root[s], KindOf[s])
         /\ Head(selecting[r]) = selecting[r][1] /\ 1 \in DOMAIN selecting[r]
<1>1. selecting[r] \in Seq(Selection) /\ selecting \in [Roots -> Seq(Selection)]
  BY DEF IInv, TypesOK
<1>2. /\ Tail(selecting[r]) \in Seq(Selection)
      /\ \A i \in DOMAIN Tail(selecting[r]) :
           i + 1 \in DOMAIN selecting[r] /\ Tail(selecting[r])[i] = selecting[r][i + 1]
      /\ Head(selecting[r]) = selecting[r][1] /\ 1 \in DOMAIN selecting[r]
  BY <1>1
<1>3. /\ selecting' \in [Roots -> Seq(Selection)] /\ selecting'[r] = Tail(selecting[r])
      /\ \A q \in Roots \ {r} : selecting'[q] = selecting[q]
  BY <1>1, <1>2
<1>4. ASSUME NEW s \in Sessions, BeingSelected(Root[s], KindOf[s])'
      PROVE  BeingSelected(Root[s], KindOf[s])
  <2>1. PICK i \in DOMAIN selecting'[Root[s]] :
          Admits(selecting'[Root[s]][i].mode, KindOf[s])
    BY <1>4 DEF BeingSelected
  <2>2. Root[s] \in Roots
    BY RootsAreSessions
  <2>3. CASE Root[s] = r
    BY <1>2, <1>3, <2>1, <2>3 DEF BeingSelected
  <2>4. CASE Root[s] # r
    BY <1>3, <2>1, <2>2, <2>4 DEF BeingSelected
  <2> QED BY <2>3, <2>4
<1> QED BY <1>2, <1>3, <1>4

\* A selection that is stored releases only what it eased; one that fails
\* releases nothing.
LEMMA SelectionEndsKeeps ==
  ASSUME ApprovalAssumption, IInv, NEW r \in Roots, SelectionStored(r) \/ SelectionFails(r)
  PROVE  IInv'
<1>1. /\ selecting[r] # <<>> /\ selecting' = [selecting EXCEPT ![r] = Tail(@)]
      /\ UNCHANGED <<onDisk, mode, winner, eased>>
  BY DEF SelectionStored, SelectionFails, answerVars
<1>2. /\ selecting' \in [Roots -> Seq(Selection)]
      /\ \A s \in Sessions :
           BeingSelected(Root[s], KindOf[s])' => BeingSelected(Root[s], KindOf[s])
      /\ Head(selecting[r]) = selecting[r][1] /\ 1 \in DOMAIN selecting[r]
  BY <1>1, SelectionLeaves
<1>3. CASE SelectionStored(r)
  <2> DEFINE m == Head(selecting[r]).mode
             claimed == Affected(r, m)
             verdicts == [s \in claimed |-> Verdict(s, m)]
  <2>1. Settle(verdicts)
    BY <1>3 DEF SelectionStored
  <2>2. claimed \in SUBSET Sessions /\ \A s \in claimed : phase[s] = "asking" /\ Root[s] = r
    BY DEF Affected, Open
  <2>3. \A s \in claimed : Verdict(s, m) # "ask"
    BY DEF Affected
  <2>4. \A s \in Sessions : Verdict(s, m) = "allow" => Admits(m, KindOf[s])
    BY DEF Verdict
  <2>5. \A s \in Sessions : Verdict(s, m) \in Decisions \cup {"ask"}
    BY DEF Verdict, Decisions
  <2>6. \A s \in Sessions : Admits(m, KindOf[s]) => BeingSelected(r, KindOf[s])
    BY <1>2 DEF BeingSelected
  <2> HIDE DEF m, claimed
  <2>7. verdicts \in [claimed -> Decisions] /\ \A s \in claimed : verdicts[s] = Verdict(s, m)
    BY <2>2, <2>3, <2>5
  <2>8. ASSUME NEW s \in claimed, verdicts[s] = "allow" PROVE eased[s]
    <3>1. s \in Sessions /\ phase[s] # "idle" /\ Root[s] = r
      BY <2>2
    <3>2. BeingSelected(Root[s], KindOf[s])
      BY <2>4, <2>6, <2>7, <2>8, <3>1
    <3> QED BY <3>1, <3>2 DEF IInv, Eases
  <2> HIDE DEF verdicts
  <2>9. /\ \A s \in claimed : phase[s] # "idle"
        /\ winner' \in [Sessions -> Answers \cup {"none"}]
        /\ \A s \in Sessions \ claimed : winner'[s] = winner[s]
        /\ UNCHANGED <<onDisk, mode, eased>>
    BY <1>1, <2>2 DEF IInv, TypesOK
  <2> QED BY <1>2, <2>1, <2>2, <2>7, <2>8, <2>9, SettleKeeps
<1>4. CASE SelectionFails(r)
  <2>1. UNCHANGED <<log, onDisk, barrier, phase, decision, winner, mode, eased>>
    BY <1>1, <1>4 DEF SelectionFails, callVars
  <2>2. TypesOK' /\ FlagsOK'
    BY <1>2, <2>1 DEF IInv, TypesOK, FlagsOK
  <2>3. ASSUME NEW s \in Sessions PROVE Explained(s)' /\ Authorised(s)' /\ Eases(s)'
    <3>1. Apart(s)
      BY <2>1 DEF Apart
    <3>2. Eases(s)'
      BY <1>2, <2>1 DEF IInv, Eases
    <3> QED BY <2>2, <3>1, <3>2, ApartKeeps
  <2> QED BY <2>2, <2>3 DEF IInv
<1> QED BY <1>3, <1>4

-----------------------------------------------------------------------------
(* The theorems. *)

\* At first there is no record and no call.
LEMMA InitKeeps ==
  ASSUME ApprovalAssumption, Init
  PROVE  IInv
<1>1. TypesOK
  BY DEF Init, TypesOK, Phases, ApprovalAssumption
<1>2. FlagsOK
  BY DEF Init, FlagsOK
<1>3. ASSUME NEW s \in Sessions PROVE Explained(s) /\ Authorised(s) /\ Eases(s)
  BY DEF Init, Explained, Authorised, Eases, Asked, Let
<1> QED BY <1>1, <1>2, <1>3 DEF IInv

\* Every step keeps the inductive invariant.
LEMMA StepKeeps ==
  ASSUME ApprovalAssumption, IInv, [Next]_vars
  PROVE  IInv'
<1>1. CASE \E s \in Sessions : RecordStored(s)
  BY <1>1, RecordStoredKeeps
<1>2. CASE (\E s \in Sessions : StorageBreaks(s)) \/ UNCHANGED vars
  <2>1. UNCHANGED <<log, onDisk, barrier, phase, decision, winner, mode, selecting, eased>>
    BY <1>2 DEF StorageBreaks, vars, logVars, modeVars, callVars, answerVars
  <2> QED BY <2>1, UntouchedKeeps
<1>3. CASE \E s \in Sessions : Advance(s)
  BY <1>3, AdvanceKeeps
<1>4. CASE \E s \in Sessions : Expire(s) \/ Stop(s)
  BY <1>4, StopsKeep
<1>5. CASE \E s \in Sessions : Answering(s)
  BY <1>5, AnsweringKeeps
<1>6. CASE \E r \in Roots : Selecting(r)
  BY <1>6, SelectModeKeeps, SelectionEndsKeeps DEF Selecting
<1> QED BY <1>1, <1>2, <1>3, <1>4, <1>5, <1>6 DEF Next

\* The inductive invariant holds for any sessions, modes and kinds of calls.
THEOREM Invariance ==
  ASSUME ApprovalAssumption
  PROVE  Spec => []IInv
<1>1. Init => IInv
  BY InitKeeps
<1>2. IInv /\ [Next]_vars => IInv'
  BY StepKeeps
<1> QED BY <1>1, <1>2, PTL DEF Spec

\* ToolsService.gate starts the body of a call that raised a question only once
\* the "allow" is on disk, whichever of an answer, an expiry, a stop and a
\* change of mode came first and whatever failed to be written.
THEOREM EffectsAreOnRecord ==
  ASSUME ApprovalAssumption
  PROVE  Spec => []RunsOnRecord
<1>1. IInv => RunsOnRecord
  BY DEF IInv, RunsOnRecord, Explained, Asked, Allowed, Recorded, Stored
<1> QED BY <1>1, Invariance, PTL

\* A call runs because a person let it or because a mode in force, or being
\* selected, since it was prepared admits it.
THEOREM EffectsAreAuthorised ==
  ASSUME ApprovalAssumption
  PROVE  Spec => []RunsByAuthority
<1>1. IInv => RunsByAuthority
  BY DEF IInv, RunsByAuthority, Authorised, Let
<1> QED BY <1>1, Invariance, PTL

\* A call whose question is forced (a dangerous command, a path outside the
\* grants, a tool that requires interaction) runs only when a person allowed it:
\* no mode, no change of mode and no re-evaluation releases it.
THEOREM ForcedNeedsPerson ==
  ASSUME ApprovalAssumption
  PROVE  Spec => [](\A s \in Sessions :
                      phase[s] = "running" /\ ForceAsk(KindOf[s]) =>
                        winner[s] \in {"allow", "session"})
<1>1. IInv => \A s \in Sessions :
                phase[s] = "running" /\ ForceAsk(KindOf[s]) =>
                  winner[s] \in {"allow", "session"}
  BY DEF IInv, Authorised, Let, Eases
<1> QED BY <1>1, Invariance, PTL

=============================================================================
