------------------------------- MODULE Ranking -------------------------------
(***************************************************************************)
(* Facts about positions in a finite set with a total order, which is      *)
(* given as a set R of pairs.  The models arrange hashes and records by    *)
(* choosing, for every position i, the element with i - 1 predecessors.    *)
(***************************************************************************)
EXTENDS Integers, FiniteSets, FiniteSetTheorems, WellFoundedInduction, TLAPS

Below(S, R, x) == {y \in S : <<y, x>> \in R}

TotalOrder(S, R) ==
    /\ \A x \in S : <<x, x>> \notin R
    /\ \A x, y, z \in S : <<x, y>> \in R /\ <<y, z>> \in R => <<x, z>> \in R
    /\ \A x, y \in S : x = y \/ <<x, y>> \in R \/ <<y, x>> \in R

\* A later element has more predecessors.
LEMMA RankGrows ==
  ASSUME NEW S, IsFiniteSet(S), NEW R, TotalOrder(S, R), NEW x \in S, NEW y \in S, <<x, y>> \in R
  PROVE  Cardinality(Below(S, R, x)) < Cardinality(Below(S, R, y))
<1>1. Below(S, R, x) \in SUBSET S /\ Below(S, R, y) \in SUBSET S /\ x \notin Below(S, R, x)
  BY DEF Below, TotalOrder
<1>2. Below(S, R, x) \cup {x} \in SUBSET Below(S, R, y)
  BY DEF Below, TotalOrder
<1>3. /\ IsFiniteSet(Below(S, R, x)) /\ IsFiniteSet(Below(S, R, y))
      /\ Cardinality(Below(S, R, x)) \in Nat /\ Cardinality(Below(S, R, y)) \in Nat
  BY <1>1, FS_Subset, FS_CardinalityType
<1>4. Cardinality(Below(S, R, x) \cup {x}) = Cardinality(Below(S, R, x)) + 1
  BY <1>1, <1>3, FS_AddElement
<1>5. Cardinality(Below(S, R, x) \cup {x}) <= Cardinality(Below(S, R, y))
  BY <1>2, <1>3, FS_Subset
<1> QED  BY <1>3, <1>4, <1>5

\* An element has between none and all but one of the others below it.
LEMMA RankRange ==
  ASSUME NEW S, IsFiniteSet(S), NEW R, TotalOrder(S, R), NEW x \in S
  PROVE  Cardinality(Below(S, R, x)) \in 0..(Cardinality(S) - 1)
<1>1. Below(S, R, x) \in SUBSET (S \ {x})
  BY DEF Below, TotalOrder
<1>2. IsFiniteSet(S \ {x}) /\ Cardinality(S \ {x}) = Cardinality(S) - 1
  BY FS_RemoveElement
<1>3. /\ Cardinality(Below(S, R, x)) \in Nat /\ Cardinality(S) \in Nat
      /\ Cardinality(Below(S, R, x)) <= Cardinality(S \ {x})
  BY <1>1, <1>2, FS_Subset, FS_CardinalityType
<1> QED  BY <1>2, <1>3

\* No two elements have equally many below them.
LEMMA RankDiffers ==
  ASSUME NEW S, IsFiniteSet(S), NEW R, TotalOrder(S, R), NEW x \in S, NEW y \in S,
         Cardinality(Below(S, R, x)) = Cardinality(Below(S, R, y))
  PROVE  x = y
<1>1. Cardinality(Below(S, R, x)) \in Nat
  BY RankRange, FS_CardinalityType
<1>2. ~(<<x, y>> \in R) /\ ~(<<y, x>> \in R)
  BY <1>1, RankGrows
<1> QED  BY <1>2 DEF TotalOrder

\* Every position is taken.
LEMMA RankTaken ==
  ASSUME NEW S, IsFiniteSet(S), NEW R, TotalOrder(S, R), NEW i \in 0..(Cardinality(S) - 1)
  PROVE  \E x \in S : Cardinality(Below(S, R, x)) = i
<1> DEFINE T == 0..(Cardinality(S) - 1)
           rank == [x \in S |-> Cardinality(Below(S, R, x))]
<1>1. rank \in Injection(S, T)
  <2>1. \A x \in S : rank[x] \in T
    BY RankRange
  <2>2. \A x, y \in S : rank[x] = rank[y] => x = y
    BY RankDiffers
  <2> QED  BY <2>1, <2>2 DEF Injection, IsInjective
<1>2. IsFiniteSet(T) /\ Cardinality(T) = Cardinality(S)
  <2>1. Cardinality(S) \in Nat
    BY FS_CardinalityType
  <2> QED  BY <2>1, FS_Interval
<1>3. rank \in Surjection(S, T)
  BY <1>1, <1>2, FS_Injection
<1> QED  BY <1>3 DEF Surjection

\* The choice of the element at a position, and its position.
Position(S, R, x) == Cardinality(Below(S, R, x)) + 1
Ranked(S, R) == [i \in 1..Cardinality(S) |-> CHOOSE x \in S : Cardinality(Below(S, R, x)) = i - 1]

\* The ranking lists every element once, in order, at its position.
LEMMA RankedFacts ==
  ASSUME NEW S, IsFiniteSet(S), NEW R, TotalOrder(S, R)
  PROVE  /\ Ranked(S, R) \in [1..Cardinality(S) -> S]
         /\ \A i \in 1..Cardinality(S) : Cardinality(Below(S, R, Ranked(S, R)[i])) = i - 1
         /\ \A i, j \in 1..Cardinality(S) : i < j => <<Ranked(S, R)[i], Ranked(S, R)[j]>> \in R
         /\ \A x \in S : /\ Position(S, R, x) \in 1..Cardinality(S)
                         /\ Ranked(S, R)[Position(S, R, x)] = x
<1> DEFINE n == Cardinality(S)
<1>1. n \in Nat
  BY FS_CardinalityType
<1>2. ASSUME NEW i \in 1..n
      PROVE  Ranked(S, R)[i] \in S /\ Cardinality(Below(S, R, Ranked(S, R)[i])) = i - 1
  <2>1. i - 1 \in 0..(n - 1)
    BY <1>1
  <2>2. \E x \in S : Cardinality(Below(S, R, x)) = i - 1
    BY <2>1, RankTaken
  <2> QED  BY <2>2 DEF Ranked
<1>3. Ranked(S, R) \in [1..n -> S]
  BY <1>2 DEF Ranked
<1>4. ASSUME NEW i \in 1..n, NEW j \in 1..n, i < j
      PROVE  <<Ranked(S, R)[i], Ranked(S, R)[j]>> \in R
  <2> DEFINE x == Ranked(S, R)[i]
             y == Ranked(S, R)[j]
  <2>1. /\ x \in S /\ y \in S
        /\ Cardinality(Below(S, R, x)) = i - 1 /\ Cardinality(Below(S, R, y)) = j - 1
    BY <1>2
  <2> HIDE DEF x, y
  <2>2. x # y
    BY <1>1, <1>4, <2>1
  <2>3. ~(<<y, x>> \in R)
    <3> SUFFICES ASSUME <<y, x>> \in R PROVE FALSE
      OBVIOUS
    <3>1. Cardinality(Below(S, R, y)) < Cardinality(Below(S, R, x))
      BY <2>1, RankGrows
    <3> QED  BY <1>1, <1>4, <2>1, <3>1
  <2>4. <<x, y>> \in R
    BY <2>1, <2>2, <2>3 DEF TotalOrder
  <2> QED  BY <2>4 DEF x, y
<1>5. ASSUME NEW x \in S
      PROVE  Position(S, R, x) \in 1..n /\ Ranked(S, R)[Position(S, R, x)] = x
  <2>1. Cardinality(Below(S, R, x)) \in 0..(n - 1)
    BY RankRange
  <2>2. Position(S, R, x) \in 1..n /\ Position(S, R, x) - 1 = Cardinality(Below(S, R, x))
    BY <1>1, <2>1 DEF Position
  <2>3. Ranked(S, R)[Position(S, R, x)] \in S
        /\ Cardinality(Below(S, R, Ranked(S, R)[Position(S, R, x)])) = Cardinality(Below(S, R, x))
    BY <1>2, <2>2
  <2> QED  BY <2>2, <2>3, RankDiffers
<1> QED  BY <1>2, <1>3, <1>4, <1>5

\* There is one way to arrange the elements in their order.
LEMMA ArrangedOnce ==
  ASSUME NEW S, IsFiniteSet(S), NEW R, TotalOrder(S, R), NEW f \in [1..Cardinality(S) -> S],
         \A i, j \in 1..Cardinality(S) : i < j => <<f[i], f[j]>> \in R
  PROVE  f = Ranked(S, R)
<1> DEFINE n == Cardinality(S)
<1>1. n \in Nat
  BY FS_CardinalityType
<1>2. \A i, j \in 1..n : f[i] = f[j] => i = j
  <2> SUFFICES ASSUME NEW i \in 1..n, NEW j \in 1..n, f[i] = f[j] PROVE i = j
    OBVIOUS
  <2>1. ~(i < j) /\ ~(j < i)
    BY DEF TotalOrder
  <2> QED  BY <1>1, <2>1
<1>3. f \in Surjection(1..n, S)
  <2>1. f \in Injection(1..n, S)
    BY <1>2 DEF Injection, IsInjective
  <2>2. IsFiniteSet(1..n) /\ Cardinality(1..n) = n
    BY <1>1, FS_Interval
  <2> QED  BY <2>1, <2>2, FS_Injection
<1>4. ASSUME NEW i \in 1..n
      PROVE  Cardinality(Below(S, R, f[i])) = i - 1
  <2> DEFINE D == 1..(i - 1)
             g == [j \in D |-> f[j]]
  <2>1. D \in SUBSET (1..n) /\ IsFiniteSet(D) /\ Cardinality(D) = i - 1
    <3>1. i - 1 \in Nat /\ D \in SUBSET (1..n)
      BY <1>1
    <3>2. 1 \in Int /\ i - 1 \in Int
      BY <3>1
    <3>3. IsFiniteSet(D) /\ Cardinality(D) = IF 1 > i - 1 THEN 0 ELSE (i - 1) - 1 + 1
      BY <3>2, FS_Interval
    <3> QED  BY <3>1, <3>3
  <2>2. ASSUME NEW j \in D PROVE f[j] \in Below(S, R, f[i])
    <3>1. j \in 1..n /\ j < i
      BY <1>1
    <3> QED  BY <3>1 DEF Below
  <2>3. ASSUME NEW y \in Below(S, R, f[i]) PROVE \E j \in D : g[j] = y
    <3>1. y \in S /\ <<y, f[i]>> \in R
      BY DEF Below
    <3>2. PICK j \in 1..n : f[j] = y
      BY <1>3, <3>1 DEF Surjection
    <3>3. j # i /\ ~(i < j)
      BY <3>1, <3>2 DEF TotalOrder
    <3>4. j \in D
      BY <1>1, <3>3
    <3> QED  BY <3>2, <3>4
  <2>4. g \in Bijection(D, Below(S, R, f[i]))
    BY <1>2, <2>1, <2>2, <2>3 DEF Bijection, Injection, Surjection, IsInjective
  <2>5. ExistsBijection(D, Below(S, R, f[i]))
    BY <2>4 DEF ExistsBijection
  <2> QED  BY <2>1, <2>5, FS_Bijection
<1> HIDE DEF n
<1>5. /\ Ranked(S, R) \in [1..n -> S]
      /\ \A i \in 1..n : Cardinality(Below(S, R, Ranked(S, R)[i])) = i - 1
  BY RankedFacts DEF n
<1>6. \A i \in 1..n : f[i] = Ranked(S, R)[i]
  BY <1>4, <1>5, RankDiffers DEF n
<1>7. f \in [1..n -> S]
  BY DEF n
<1>8. Ranked(S, R) = [i \in 1..n |-> Ranked(S, R)[i]] /\ f = [i \in 1..n |-> f[i]]
  BY <1>5, <1>7
<1> QED  BY <1>6, <1>8

-----------------------------------------------------------------------------
(***************************************************************************)
(* A non-empty set of naturals has a least element: induction, for one     *)
(* property at a time.                                                     *)
(***************************************************************************)
LEMMA LeastOf ==
  ASSUME NEW S \in SUBSET Nat, S # {}
  PROVE  \E d \in S : \A e \in S : d <= e
<1> DEFINE Less == OpToRel(<, Nat)
<1>1. IsWellFoundedOn(Less, Nat)
  BY NatLessThanWellFounded
<1>2. \A x, y \in Nat : y < x => <<y, x>> \in Less
  BY DEF OpToRel
<1> HIDE DEF Less
<1>3. PICK d \in S : \A e \in S : ~(<<e, d>> \in Less)
  BY <1>1, WFMin
<1>4. \A e \in S : d <= e
  <2> SUFFICES ASSUME NEW e \in S PROVE d <= e
    OBVIOUS
  <2>1. d \in Nat /\ e \in Nat
    OBVIOUS
  <2>2. ~(e < d)
    BY <1>2, <1>3, <2>1
  <2> QED  BY <2>1, <2>2
<1> QED  BY <1>4

\* An image is no larger than its set, and as large if it is one to one.
LEMMA CardinalityOfImage ==
  ASSUME NEW S, IsFiniteSet(S), NEW f, DOMAIN f = S
  PROVE  /\ IsFiniteSet({f[x] : x \in S})
         /\ Cardinality({f[x] : x \in S}) <= Cardinality(S)
         /\ (\A x, y \in S : f[x] = f[y] => x = y)
              => Cardinality({f[x] : x \in S}) = Cardinality(S)
<1> DEFINE T == {f[x] : x \in S}
           g == [x \in S |-> f[x]]
<1>1. g \in Surjection(S, T)
  BY DEF Surjection
<1>2. (\A x, y \in S : f[x] = f[y] => x = y) => g \in Injection(S, T)
  BY DEF Injection, IsInjective
<1> QED  BY <1>1, <1>2, FS_Surjection
=============================================================================
