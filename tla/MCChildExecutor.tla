--------------------------- MODULE MCChildExecutor ---------------------------
(***************************************************************************)
(* One root with a conversation turn and a delegation turn.  Two children  *)
(* are spawned by the first, one by the second.                            *)
(***************************************************************************)
EXTENDS ChildExecutor

CONSTANTS r1, chat, manual, a, b, m

TheRoots == {r1}
TheTurns == {chat, manual}
TheManual == {manual}
TheRootOf == [t \in TheTurns |-> r1]
TheChildren == {a, b, m}
TheTurnOf == [c \in TheChildren |-> IF c = m THEN manual ELSE chat]

=============================================================================
