--------------------------------- MODULE Ranks ---------------------------------
(***************************************************************************)
(* The elements of a finite set in an order, and those elements of a       *)
(* sequence that are in a set: what the nodes answer to a filter and what  *)
(* the loops over it keep.  Each element stands at its rank, so that there *)
(* is no recursion to reason about.                                        *)
(***************************************************************************)
EXTENDS Integers, Sequences, FiniteSets

\* How many elements of S the relation R, a set of pairs, puts before x.
Rank(S, R, x) == Cardinality({y \in S : <<y, x>> \in R})

\* The elements of S as a sequence in the order R.
InOrder(S, R) == [i \in 1..Cardinality(S) |-> CHOOSE x \in S : Rank(S, R, x) = i - 1]

Increasing(S) == {p \in S \X S : p[1] < p[2]}

\* The positions of s that hold a member of S, and what they hold.
Positions(s, S) == {i \in DOMAIN s : s[i] \in S}

Those(s, S) ==
  LET kept == InOrder(Positions(s, S), Increasing(Positions(s, S)))
  IN  [i \in 1..Cardinality(Positions(s, S)) |-> s[kept[i]]]
================================================================================
