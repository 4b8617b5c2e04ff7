---------------------------- MODULE Subsequences ----------------------------
(***************************************************************************)
(* The elements of a sequence at some of its positions, in their order: a  *)
(* filter, written by rank because tlapm knows nothing of SelectSeq.       *)
(***************************************************************************)
EXTENDS Integers, Sequences, FiniteSets

\* The k-th smallest of a finite set of numbers.
Nth(numbers, k) ==
  CHOOSE i \in numbers : Cardinality({j \in numbers : j <= i}) = k

Picked(seq, positions) ==
  [k \in 1..Cardinality(positions) |-> seq[Nth(positions, k)]]

Without(seq, gone) == Picked(seq, {i \in DOMAIN seq : seq[i] \notin gone})
=============================================================================
