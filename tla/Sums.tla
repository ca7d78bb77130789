---------------------------------- MODULE Sums ----------------------------------
(***************************************************************************)
(* The sum of natural numbers over a finite set, counted unit by unit, so  *)
(* that there is no recursion to reason about.                             *)
(***************************************************************************)
EXTENDS Integers, FiniteSets

\* The units of each member of S.
Units(f, S) == UNION {{x} \X (1..f[x]) : x \in S}

Total(f, S) == Cardinality(Units(f, S))
=================================================================================
