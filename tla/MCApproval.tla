----------------------------- MODULE MCApproval -----------------------------
(***************************************************************************)
(* Instances of Approval: a conversation with a child agent.               *)
(***************************************************************************)
EXTENDS Approval, TLC

CONSTANTS s1, s2

\* s2 is a child of s1.
Family == (s1 :> s1) @@ (s2 :> s1)

OutsideFirst == (s1 :> "outside") @@ (s2 :> "plain")

Named(rule) == [exposes |-> TRUE, exact |-> rule, rest |-> "ask"]
Hiding == [exposes |-> FALSE, exact |-> "none", rest |-> "allow"]
ByWildcard(rule) == [exposes |-> TRUE, exact |-> "none", rest |-> rule]

Asking == ByWildcard("ask")

NamedAsk == Named("ask")

FewModes == {Named("allow"), Named("ask"), Named("deny")}
SomeModes == {Named("allow"), ByWildcard("ask"), Named("deny"), Hiding}
WildcardModes == {ByWildcard("ask"), ByWildcard("deny")}
=============================================================================
