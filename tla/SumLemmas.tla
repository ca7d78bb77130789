-------------------------------- MODULE SumLemmas --------------------------------
(***************************************************************************)
(* What the proofs about funds need to know of sums: when one number       *)
(* changes, the sum changes by as much.                                    *)
(***************************************************************************)
EXTENDS Sums, FiniteSetTheorems, TLAPS

LEMMA UnitsSplit ==
  ASSUME NEW S, NEW f, NEW x \in S
  PROVE  /\ Units(f, S) = Units(f, S \ {x}) \cup ({x} \X (1..f[x]))
         /\ Units(f, S \ {x}) \cap ({x} \X (1..f[x])) = {}
<1>1. \A u : u \in Units(f, S) <=> \E y \in S : u \in {y} \X (1..f[y])
  BY DEF Units
<1>2. \A u : u \in Units(f, S \ {x}) <=> \E y \in S \ {x} : u \in {y} \X (1..f[y])
  BY DEF Units
<1>3. \A u, y : u \in {y} \X (1..f[y]) => u[1] = y
  OBVIOUS
<1>4. Units(f, S \ {x}) \cap ({x} \X (1..f[x])) = {}
  BY <1>2, <1>3
<1>5. \A u : u \in Units(f, S) <=> u \in Units(f, S \ {x}) \/ u \in {x} \X (1..f[x])
  BY <1>1, <1>2
<1>6. QED BY <1>4, <1>5

LEMMA UnitsFinite ==
  ASSUME NEW S, IsFiniteSet(S), NEW f, \A x \in S : f[x] \in Nat
  PROVE  IsFiniteSet(Units(f, S)) /\ Total(f, S) \in Nat
<1> DEFINE T == {{x} \X (1..f[x]) : x \in S}
           g == [x \in S |-> {x} \X (1..f[x])]
<1>1. \A x \in S : IsFiniteSet({x} \X (1..f[x]))
  <2> TAKE x \in S
  <2>1. 1 \in Int /\ f[x] \in Int
    OBVIOUS
  <2>2. IsFiniteSet(1..f[x])
    BY <2>1, FS_Interval
  <2>3. IsFiniteSet({x})
    BY FS_Singleton
  <2>4. QED BY <2>2, <2>3, FS_Product
<1>2. g \in Surjection(S, T)
  BY DEF Surjection
<1>3. IsFiniteSet(T) /\ \A t \in T : IsFiniteSet(t)
  BY <1>1, <1>2, FS_Surjection
<1>4. IsFiniteSet(UNION T)
  BY <1>3, FS_UNION
<1>5. QED BY <1>4, FS_CardinalityType DEF Units, Total

LEMMA TotalSplit ==
  ASSUME NEW S, IsFiniteSet(S), NEW f, \A y \in S : f[y] \in Nat, NEW x \in S
  PROVE  /\ Total(f, S) \in Nat /\ Total(f, S \ {x}) \in Nat /\ f[x] \in Nat
         /\ Total(f, S) = Total(f, S \ {x}) + f[x]
<1> DEFINE A == Units(f, S \ {x})
           B == {x} \X (1..f[x])
<1>1. IsFiniteSet(S \ {x}) /\ \A y \in S \ {x} : f[y] \in Nat
  BY FS_Difference
<1>2. IsFiniteSet(A) /\ Total(f, S \ {x}) \in Nat /\ Total(f, S) \in Nat
  BY <1>1, UnitsFinite
<1>3. IsFiniteSet({x}) /\ Cardinality({x}) = 1
  BY FS_Singleton
<1>4. f[x] \in Nat /\ IsFiniteSet(1..f[x]) /\ Cardinality(1..f[x]) = f[x]
  <2>1. f[x] \in Nat /\ 1 \in Int /\ f[x] \in Int
    OBVIOUS
  <2>2. IsFiniteSet(1..f[x]) /\ Cardinality(1..f[x]) = IF 1 > f[x] THEN 0 ELSE f[x] - 1 + 1
    BY <2>1, FS_Interval
  <2>3. QED BY <2>1, <2>2
<1>5. IsFiniteSet(B) /\ Cardinality(B) = f[x]
  <2>1. IsFiniteSet(B) /\ Cardinality(B) = Cardinality({x}) * Cardinality(1..f[x])
    BY <1>3, <1>4, FS_Product
  <2>2. QED BY <1>3, <1>4, <2>1
<1>6. Units(f, S) = A \cup B /\ A \cap B = {}
  BY UnitsSplit
<1> HIDE DEF A, B
<1>7. Cardinality(A \cup B) = Cardinality(A) + Cardinality(B) - Cardinality(A \cap B)
  BY <1>2, <1>5, FS_Union
<1>8. Cardinality(A \cap B) = 0
  BY <1>6, FS_EmptySet
<1>9. QED BY <1>2, <1>4, <1>5, <1>6, <1>7, <1>8 DEF Total, A

LEMMA TotalOfSame ==
  ASSUME NEW S, NEW f, NEW g, \A x \in S : f[x] = g[x]
  PROVE  Total(f, S) = Total(g, S)
<1>1. \A u : u \in Units(f, S) <=> u \in Units(g, S)
  BY DEF Units
<1>2. QED BY <1>1 DEF Total

\* One number changes.
LEMMA TotalChange ==
  ASSUME NEW S, IsFiniteSet(S), NEW f, NEW g, NEW x \in S,
         \A y \in S : f[y] \in Nat /\ g[y] \in Nat,
         \A y \in S \ {x} : f[y] = g[y]
  PROVE  /\ Total(f, S) \in Nat /\ Total(g, S) \in Nat
         /\ Total(g, S) = Total(f, S) + g[x] - f[x]
<1>1. Total(f, S \ {x}) = Total(g, S \ {x})
  BY TotalOfSame
<1>2. /\ Total(f, S) \in Nat /\ Total(f, S \ {x}) \in Nat /\ f[x] \in Nat
      /\ Total(f, S) = Total(f, S \ {x}) + f[x]
  BY TotalSplit
<1>3. /\ Total(g, S) \in Nat /\ Total(g, S \ {x}) \in Nat /\ g[x] \in Nat
      /\ Total(g, S) = Total(g, S \ {x}) + g[x]
  BY TotalSplit
<1>4. QED BY <1>1, <1>2, <1>3

LEMMA TotalOfZeros ==
  ASSUME NEW S, NEW f, \A x \in S : f[x] = 0
  PROVE  Total(f, S) = 0
<1>1. \A x \in S : {x} \X (1..f[x]) = {}
  OBVIOUS
<1>2. Units(f, S) = {}
  BY <1>1 DEF Units
<1>3. QED BY <1>2, FS_EmptySet DEF Total
==================================================================================
