------------------------------- MODULE Totals -------------------------------
(***************************************************************************)
(* Totals of natural numbers over finite sets and sequences, counted unit  *)
(* by unit: a total is the size of a set of pairs.                         *)
(***************************************************************************)
EXTENDS Integers, Sequences, FiniteSets

\* The units of S, where each x of it has amount[x] of them.
Units(amount, S) == UNION {{x} \X (1 .. amount[x]) : x \in S}

Total(amount, S) == Cardinality(Units(amount, S))

TotalOf(sequence) == Total(sequence, DOMAIN sequence)
=============================================================================
