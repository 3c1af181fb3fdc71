------------------------------- MODULE Selection -------------------------------
(***************************************************************************)
(* What is left of a sequence when some of its members are erased: the     *)
(* members at the given positions, in their order.  It is SelectSeq by     *)
(* positions and without recursion, so that proofs can expand it.          *)
(***************************************************************************)
EXTENDS Integers, Sequences, FiniteSets

\* The k-th of a set of positions.
Nth(I, k) == CHOOSE i \in I : Cardinality({j \in I : j <= i}) = k

Picked(s, I) == [k \in 1 .. Cardinality(I) |-> s[Nth(I, k)]]

=============================================================================
