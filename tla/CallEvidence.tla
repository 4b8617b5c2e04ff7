---------------------------- MODULE CallEvidence ----------------------------
(***************************************************************************)
(* What the evidence of tool calls promises, without files, journals or    *)
(* processes: a call is recorded before it is sent, its outcome is         *)
(* recorded once and never revised, and what is said of it is borne out by *)
(* the record.                                                             *)
(***************************************************************************)
CONSTANTS Calls, Outcomes

VARIABLES
  recorded,   \* of each call: "nothing", "intent" or its outcome
  sent,       \* the calls that may have reached a server
  told        \* what the model was told, or "none"

vars == <<recorded, sent, told>>

Init ==
  /\ recorded = [c \in Calls |-> "nothing"]
  /\ sent = {} /\ told = [c \in Calls |-> "none"]

Intend(c) ==
  recorded[c] = "nothing" /\ recorded' = [recorded EXCEPT ![c] = "intent"]

\* An answer takes a call that was sent; an outcome that denies sending, one
\* that was not.
Conclude(c, outcome) ==
  /\ recorded[c] = "intent" /\ recorded' = [recorded EXCEPT ![c] = outcome]
  /\ outcome \in {"success", "error"} => c \in sent
  /\ outcome = "withheld" => c \notin sent

\* Once; an answer only when it is on record, and for good.
Tell(c, what) ==
  /\ told[c] = "none" /\ what # "none" /\ told' = [told EXCEPT ![c] = what]
  /\ what \in {"success", "error"} => recorded'[c] = what
  /\ what \in {"notSent", "blocked", "withheld"} => c \notin sent

\* A call that is under way may have been given up by others: closed as
\* indeterminate, which stays true whether it is sent or not.
Send(c) ==
  /\ recorded[c] \in {"intent", "indeterminate"} /\ told[c] = "none" /\ sent' = sent \cup {c}
  /\ UNCHANGED <<recorded, told>>

\* One record may be made and one caller told in the same step, not necessarily
\* of the same call: who opens a journal closes the calls of a dead process.
Note ==
  /\ \/ UNCHANGED recorded
     \/ \E c \in Calls : Intend(c) \/ \E outcome \in Outcomes : Conclude(c, outcome)
  /\ \/ UNCHANGED told
     \/ \E c \in Calls : Tell(c, told'[c])
  /\ UNCHANGED sent

Next == Note \/ \E c \in Calls : Send(c)

Spec == Init /\ [][Next]_vars
=============================================================================
