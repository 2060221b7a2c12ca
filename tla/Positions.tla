------------------------------ MODULE Positions ------------------------------
(***************************************************************************)
(* What a filter keeps of a list: the elements of a sequence at a set of   *)
(* its positions, in order.  SelectSeq says the same with a condition; a   *)
(* set of positions is what proofs can reason about.                       *)
(***************************************************************************)
EXTENDS Naturals, Sequences, FiniteSets

\* How many of the positions in P come up to i, ...
Rank(P, i) == Cardinality({k \in P : k <= i})
\* ... which of them is the j-th, ...
Nth(P, j) == CHOOSE i \in P : Rank(P, i) = j
\* ... and what the sequence s has there.
KeptAt(s, P) == [j \in 1..Cardinality(P) |-> s[Nth(P, j)]]
=============================================================================
