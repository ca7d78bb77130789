------------------------------ MODULE OrderLemmas ------------------------------
(***************************************************************************)
(* What the proofs of the other modules need to know of orders.            *)
(*   - The threads of the bridge take documents in the order of their      *)
(*     insertion: the models say so with a CHOOSE of the least element,    *)
(*     and their proofs need that there is one.  That every set of natural *)
(*     numbers has a least element follows, without an induction over an   *)
(*     operator, from the well-foundedness of the strict subsets of Nat    *)
(*     that are finite.                                                    *)
(*   - InOrder lists every element of a finite set, and Those loses none   *)
(*     of a sequence's elements that it is to keep.                        *)
(***************************************************************************)
EXTENDS Ranks, SequenceTheorems, FiniteSetTheorems, TLAPS

\* A set of natural numbers that is not empty has a least element.
LEMMA LeastNatural ==
  ASSUME NEW S \in SUBSET Nat, S # {}
  PROVE  \E n \in S : \A m \in S : n <= m
<1> DEFINE Below == {0..n : n \in S}
           R == StrictSubsetOrdering(Nat)
<1>1. IsWellFoundedOn(R, FiniteSubsetsOf(Nat))
  BY FS_StrictSubsetOrderingWellFounded
<1>2. Below # {} /\ Below \subseteq FiniteSubsetsOf(Nat)
  <2>1. \A n \in S : 0..n \in SUBSET Nat /\ IsFiniteSet(0..n)
    BY FS_Interval
  <2>2. QED BY <2>1 DEF FiniteSubsetsOf
<1>3. PICK b \in Below : \A c \in Below : <<c, b>> \notin R
  BY <1>1, <1>2, WFMin
<1>4. PICK n \in S : b = 0..n
  OBVIOUS
<1>5. ASSUME NEW m \in S, m < n PROVE FALSE
  <2>1. 0..m \in Below
    OBVIOUS
  <2>2. 0..m \subseteq 0..n /\ n \in 0..n /\ n \notin 0..m
    BY <1>5
  <2>3. <<0..m, b>> \in R
    BY <1>4, <2>2 DEF StrictSubsetOrdering
  <2>4. QED BY <1>3, <2>1, <2>3
<1>6. QED BY <1>5

\* Of pairs whose first components are natural numbers, one is least in it.
LEMMA LeastPair ==
  ASSUME NEW A \in SUBSET Nat, NEW B, NEW S \in SUBSET (A \X B), S # {}
  PROVE  \E d \in S : \A e \in S : d[1] <= e[1]
<1> DEFINE Firsts == {d[1] : d \in S}
<1>1. Firsts \in SUBSET Nat /\ Firsts # {}
  OBVIOUS
<1>2. PICK n \in Firsts : \A m \in Firsts : n <= m
  BY <1>1, LeastNatural
<1>3. PICK d \in S : n = d[1]
  OBVIOUS
<1>4. QED BY <1>2, <1>3

-----------------------------------------------------------------------------
\* A strict order that is total on S.
TotalOn(S, R) ==
  /\ \A x \in S : <<x, x>> \notin R
  /\ \A x, y \in S : x = y \/ <<x, y>> \in R \/ <<y, x>> \in R
  /\ \A x, y, z \in S : <<x, y>> \in R /\ <<y, z>> \in R => <<x, z>> \in R

\* Every element of a finite set stands at one position of its listing.
LEMMA InOrderLists ==
  ASSUME NEW S, IsFiniteSet(S), NEW R, TotalOn(S, R)
  PROVE  /\ InOrder(S, R) \in [1..Cardinality(S) -> S]
         /\ \A x \in S : \E i \in 1..Cardinality(S) : InOrder(S, R)[i] = x
<1> DEFINE n == Cardinality(S)
           f == [x \in S |-> Rank(S, R, x) + 1]
<1>1. n \in Nat /\ IsFiniteSet(1..n) /\ Cardinality(1..n) = n
  BY FS_CardinalityType, FS_Interval
<1>2. ASSUME NEW x \in S
      PROVE  /\ IsFiniteSet({y \in S : <<y, x>> \in R})
             /\ Rank(S, R, x) \in 0..(n - 1)
  <2> DEFINE B == {y \in S : <<y, x>> \in R}
  <2>1. B \in SUBSET S /\ B # S
    BY DEF TotalOn
  <2>2. IsFiniteSet(B) /\ Cardinality(B) <= n /\ Cardinality(B) # n
    BY <2>1, FS_Subset
  <2>3. Cardinality(B) \in Nat
    BY <2>2, FS_CardinalityType
  <2>4. QED BY <1>1, <2>2, <2>3 DEF Rank
<1>2a. \A x \in S : Rank(S, R, x) \in Nat /\ Rank(S, R, x) < n
  <2> SUFFICES ASSUME NEW x \in S PROVE Rank(S, R, x) \in Nat /\ Rank(S, R, x) < n
    OBVIOUS
  <2>1. Rank(S, R, x) \in 0..(n - 1)
    BY <1>2
  <2>2. QED BY <1>1, <2>1
<1>2b. \A x \in S : Rank(S, R, x) + 1 \in 1..n /\ (Rank(S, R, x) + 1) - 1 = Rank(S, R, x)
  BY <1>1, <1>2a
<1>3. ASSUME NEW x \in S, NEW y \in S, <<x, y>> \in R
      PROVE  Rank(S, R, x) # Rank(S, R, y)
  <2> DEFINE B(z) == {w \in S : <<w, z>> \in R}
  <2>1. B(x) \in SUBSET B(y) /\ x \in B(y) /\ x \notin B(x)
    BY <1>3 DEF TotalOn
  <2>2. IsFiniteSet(B(y))
    BY <1>2
  <2>3. Cardinality(B(x)) # Cardinality(B(y))
    <3>1. Cardinality(B(y)) = Cardinality(B(x)) => B(y) = B(x)
      BY <2>1, <2>2, FS_Subset
    <3>2. QED BY <2>1, <3>1
  <2>4. QED BY <2>3 DEF Rank
<1>4. f \in Injection(S, 1..n)
  <2>1. f \in [S -> 1..n]
    BY <1>2b
  <2>2. ASSUME NEW x \in S, NEW y \in S, f[x] = f[y] PROVE x = y
    <3>1. Rank(S, R, x) = Rank(S, R, y)
      BY <1>2b, <2>2
    <3>2. QED BY <1>3, <3>1 DEF TotalOn
  <2>3. QED BY <2>1, <2>2 DEF Injection, IsInjective
<1>5. f \in Surjection(S, 1..n)
  BY <1>1, <1>4, FS_Injection
<1>6. \A i \in 1..n : \E x \in S : Rank(S, R, x) = i - 1
  <2> SUFFICES ASSUME NEW i \in 1..n PROVE \E x \in S : Rank(S, R, x) = i - 1
    OBVIOUS
  <2>1. PICK x \in S : f[x] = i
    BY <1>5 DEF Surjection
  <2>2. Rank(S, R, x) = i - 1
    BY <1>2b, <2>1
  <2>3. QED BY <2>2
<1>7. \A i \in 1..n : InOrder(S, R)[i] \in S /\ Rank(S, R, InOrder(S, R)[i]) = i - 1
  BY <1>6 DEF InOrder
<1>8. InOrder(S, R) \in [1..n -> S]
  BY <1>7 DEF InOrder
<1>9. ASSUME NEW x \in S PROVE \E i \in 1..n : InOrder(S, R)[i] = x
  <2> DEFINE i == Rank(S, R, x) + 1
             y == InOrder(S, R)[i]
  <2>1. i \in 1..n /\ i - 1 = Rank(S, R, x)
    BY <1>2b
  <2>2. y \in S /\ Rank(S, R, y) = Rank(S, R, x)
    BY <1>7, <2>1
  <2>3. y = x
    BY <1>3, <2>2 DEF TotalOn
  <2>4. QED BY <2>1, <2>3
<1>10. QED BY <1>8, <1>9

LEMMA IncreasingTotal ==
  ASSUME NEW S \in SUBSET Nat
  PROVE  TotalOn(S, Increasing(S))
BY DEF TotalOn, Increasing

\* What a loop keeps of a sequence: some of its elements, and all those in S.
LEMMA ThoseKeeps ==
  ASSUME NEW T, NEW s \in Seq(T), NEW S
  PROVE  /\ Those(s, S) \in Seq(T)
         /\ \A x : (\E i \in DOMAIN Those(s, S) : Those(s, S)[i] = x)
                     <=> x \in S /\ \E i \in DOMAIN s : s[i] = x
<1> DEFINE P == Positions(s, S)
           n == Cardinality(P)
           kept == InOrder(P, Increasing(P))
<1>1. Len(s) \in Nat /\ DOMAIN s = 1..Len(s) /\ \A i \in DOMAIN s : s[i] \in T
  BY LenProperties
<1>2. P \in SUBSET (1..Len(s)) /\ P \in SUBSET Nat
  BY <1>1 DEF Positions
<1>3. IsFiniteSet(P) /\ n \in Nat
  <2>1. IsFiniteSet(1..Len(s))
    BY <1>1, FS_Interval
  <2>2. IsFiniteSet(P)
    BY <1>2, <2>1, FS_Subset
  <2>3. QED BY <2>2, FS_CardinalityType
<1>4. /\ kept \in [1..n -> P]
      /\ \A i \in P : \E j \in 1..n : kept[j] = i
  BY <1>2, <1>3, IncreasingTotal, InOrderLists
<1>5. Those(s, S) = [i \in 1..n |-> s[kept[i]]]
  BY DEF Those
<1> HIDE DEF kept, n
<1>6. \A i \in 1..n : kept[i] \in DOMAIN s /\ s[kept[i]] \in S
  BY <1>4 DEF Positions
<1>7. Those(s, S) \in [1..n -> T]
  BY <1>1, <1>5, <1>6
<1>8. Those(s, S) \in Seq(T)
  BY <1>3, <1>7, SeqDef
<1>9. \A i \in DOMAIN s : s[i] \in S => \E j \in 1..n : kept[j] = i
  BY <1>4 DEF Positions
<1>10. \A x : (\E i \in DOMAIN Those(s, S) : Those(s, S)[i] = x)
                 <=> x \in S /\ \E i \in DOMAIN s : s[i] = x
  BY <1>5, <1>6, <1>9
<1>11. QED BY <1>8, <1>10
================================================================================
