----------------------------- MODULE DurableLog -----------------------------
(***************************************************************************)
(* What the session store promises, without files, chains or processes: a  *)
(* log of which a growing prefix is promised.  A restart cuts the log, but *)
(* never inside what was promised, and closes what the cut left open.      *)
(***************************************************************************)
EXTENDS EventLog

VARIABLES
  view,      \* the log as its callers see it
  promised   \* the prefix they may rely on

vars == <<view, promised>>

Init == view = <<>> /\ promised = <<>>

Say ==
  /\ Len(view') = Len(view) + 1 /\ IsPrefix(view, view')
  /\ UNCHANGED promised

Promise ==
  /\ \E n \in Len(promised) + 1 .. Len(view) : promised' = SubSeq(view, 1, n)
  /\ UNCHANGED view

Restart ==
  /\ \E n \in Len(promised) .. Len(view) : view' = Recovered(SubSeq(view, 1, n))
  /\ promised' \in {promised, view'}

Next == Say \/ Promise \/ Restart

Spec == Init /\ [][Next]_vars
=============================================================================
