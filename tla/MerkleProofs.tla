---------------------------- MODULE MerkleProofs ----------------------------
(***************************************************************************)
(* Proofs about the Merkle trees, for every number of leaves: a root names *)
(* its leaves, and every membership proof verifies.                        *)
(***************************************************************************)
EXTENDS BatchMerkle, Ranking, SequenceTheorems

-----------------------------------------------------------------------------
(***************************************************************************)
(* Sequences of anything.                                                  *)
(***************************************************************************)
IsASequence(s) == s \in Seq({s[i] : i \in DOMAIN s})

\* A function on 1..n is a sequence, which Evaluated leaves as it is.
LEMMA FunctionIsSequence ==
  ASSUME NEW n \in Nat, NEW s, s = [i \in 1..n |-> s[i]]
  PROVE  IsASequence(s) /\ Len(s) = n /\ DOMAIN s = 1..n /\ Evaluated(s) = s
<1> DEFINE S == {s[i] : i \in DOMAIN s}
<1>1. DOMAIN s = 1..n
  OBVIOUS
<1>2. s \in [1..n -> S]
  BY <1>1
<1>3. s \in Seq(S)
  BY <1>2
<1>4. Len(s) = n
  BY <1>1, <1>3, LenProperties
<1>5. s \o <<>> = s
  BY <1>3, ConcatEmptySeq
<1> QED  BY <1>1, <1>3, <1>4, <1>5 DEF IsASequence, Evaluated

\* A sequence is a function on the positions up to its length.
LEMMA SequenceIsFunction ==
  ASSUME NEW s, IsASequence(s)
  PROVE  Len(s) \in Nat /\ DOMAIN s = 1..Len(s) /\ s = [i \in 1..Len(s) |-> s[i]]
BY LenProperties DEF IsASequence

-----------------------------------------------------------------------------
(***************************************************************************)
(* The levels of a tree.                                                   *)
(***************************************************************************)
\* What comes after a level.
NextLevel(level) == IF Len(level) = 1 THEN level ELSE Above(level)

\* The recursion of Level.
IsLevels(f, leaves, n) ==
    f = [k \in 0..n |-> IF k = 0 THEN leaves ELSE NextLevel(f[k - 1])]

\* The levels of a tree are a function on the natural numbers.
LEMMA LevelsExist ==
  ASSUME NEW leaves, NEW n \in Nat
  PROVE  \E f : IsLevels(f, leaves, n)
<1> DEFINE Bad == {k \in Nat : ~\E f : IsLevels(f, leaves, k)}
<1> SUFFICES Bad = {}
  OBVIOUS
<1> SUFFICES ASSUME Bad # {} PROVE FALSE
  OBVIOUS
<1>1. PICK d \in Bad : \A e \in Bad : d <= e
  BY LeastOf
<1>2. d # 0
  <2> SUFFICES ASSUME d = 0 PROVE FALSE
    OBVIOUS
  <2> DEFINE f == [k \in 0..0 |-> leaves]
  <2>1. IsLevels(f, leaves, 0)
    BY DEF IsLevels
  <2> QED  BY <2>1
<1>3. d - 1 \in Nat /\ d - 1 \notin Bad
  BY <1>1, <1>2
<1>4. PICK f : IsLevels(f, leaves, d - 1)
  BY <1>3
<1> DEFINE g == [k \in 0..d |-> IF k = d THEN NextLevel(f[d - 1]) ELSE f[k]]
<1>5. ASSUME NEW k \in 0..d
      PROVE  g[k] = IF k = 0 THEN leaves ELSE NextLevel(g[k - 1])
  <2>1. CASE k = d
    <3>1. g[k - 1] = f[d - 1]
      BY <1>2, <2>1
    <3> QED  BY <1>2, <2>1, <3>1
  <2>2. CASE k # d
    <3>1. k \in 0..(d - 1) /\ g[k] = f[k] /\ (k # 0 => g[k - 1] = f[k - 1])
      BY <2>2
    <3>2. f[k] = IF k = 0 THEN leaves ELSE NextLevel(f[k - 1])
      BY <1>4, <3>1 DEF IsLevels
    <3> QED  BY <3>1, <3>2
  <2> QED  BY <2>1, <2>2
<1>6. IsLevels(g, leaves, d)
  <2>1. g = [k \in 0..d |-> g[k]]
    OBVIOUS
  <2> HIDE DEF g
  <2> QED  BY <1>5, <2>1 DEF IsLevels
<1> QED  BY <1>1, <1>6

\* The first level holds the leaves, each other one the pairs of the one before.
LEMMA LevelDef ==
  ASSUME NEW leaves, Len(leaves) \in Nat
  PROVE  /\ Level(leaves)[0] = leaves
         /\ \A n \in 1..Len(leaves) : Level(leaves)[n] = NextLevel(Level(leaves)[n - 1])
<1> DEFINE f == CHOOSE f : IsLevels(f, leaves, Len(leaves))
<1>1. IsLevels(f, leaves, Len(leaves))
  BY LevelsExist
<1>2. Level(leaves) = f
  BY DEF Level, IsLevels, NextLevel
<1> HIDE DEF f
<1>3. /\ f[0] = leaves
      /\ \A n \in 1..Len(leaves) : f[n] = NextLevel(f[n - 1])
  BY <1>1 DEF IsLevels
<1> QED  BY <1>2, <1>3


\* Half as many nodes, rounded up, each made of two nodes below.
Pair(level, i) == <<level[2 * i - 1], level[IF 2 * i <= Len(level) THEN 2 * i ELSE Len(level)]>>

\* The level above: half as many nodes, each the pair of two (or one, twice).
LEMMA AboveFacts ==
  ASSUME NEW level, IsASequence(level), Len(level) >= 1
  PROVE  /\ IsASequence(Above(level))
         /\ Len(Above(level)) = (Len(level) + 1) \div 2
         /\ \A i \in 1..Len(Above(level)) : Above(level)[i] = Pair(level, i)
<1> DEFINE w == (Len(level) + 1) \div 2
           s == [i \in 1..w |-> Pair(level, i)]
<1>1. Len(level) \in Nat
  BY SequenceIsFunction
<1>2. w \in Nat
  BY <1>1
<1>3. s = [i \in 1..w |-> s[i]]
  OBVIOUS
<1>4. Above(level) = Evaluated(s)
  BY DEF Above, Pair
<1>5. \A i \in 1..w : s[i] = Pair(level, i)
  OBVIOUS
<1> HIDE DEF s
<1>6. IsASequence(s) /\ Len(s) = w /\ Evaluated(s) = s
  BY <1>2, <1>3, FunctionIsSequence
<1> QED  BY <1>4, <1>5, <1>6

\* Half of more than one, rounded up, is fewer, and not none.
LEMMA Halved ==
  ASSUME NEW n \in Nat, n >= 1, n # 1
  PROVE  (n + 1) \div 2 >= 1 /\ (n + 1) \div 2 < n
OBVIOUS

\* Levels shrink until a single node is left.
LEMMA NextLevelFacts ==
  ASSUME NEW level, IsASequence(level), Len(level) >= 1
  PROVE  /\ IsASequence(NextLevel(level)) /\ Len(NextLevel(level)) >= 1
         /\ Len(level) = 1 => Len(NextLevel(level)) = 1
         /\ Len(level) # 1 => /\ Len(NextLevel(level)) = (Len(level) + 1) \div 2
                              /\ Len(NextLevel(level)) < Len(level)
<1>1. Len(level) \in Nat
  BY SequenceIsFunction
<1>2. CASE Len(level) = 1
  BY <1>2 DEF NextLevel
<1>3. CASE Len(level) # 1
  <2>1. NextLevel(level) = Above(level)
    BY <1>3 DEF NextLevel
  <2>2. IsASequence(Above(level)) /\ Len(Above(level)) = (Len(level) + 1) \div 2
    BY AboveFacts
  <2>3. (Len(level) + 1) \div 2 >= 1 /\ (Len(level) + 1) \div 2 < Len(level)
    <3> DEFINE n == Len(level)
    <3>1. n \in Nat /\ n >= 1 /\ n # 1
      BY <1>1, <1>3
    <3> HIDE DEF n
    <3>2. (n + 1) \div 2 >= 1 /\ (n + 1) \div 2 < n
      BY <3>1, Halved
    <3> QED  BY <3>2 DEF n
  <2> QED  BY <1>3, <2>1, <2>2, <2>3
<1> QED  BY <1>2, <1>3

\* Every level is a sequence, and the last one a single node.
LevelOK(leaves, n) ==
    /\ IsASequence(Level(leaves)[n]) /\ Len(Level(leaves)[n]) >= 1
    /\ Len(Level(leaves)[n]) = 1 \/ Len(Level(leaves)[n]) <= Len(leaves) - n

\* Every level is a sequence, and is not empty if there are leaves.
LEMMA LevelFacts ==
  ASSUME NEW leaves, IsASequence(leaves), Len(leaves) >= 1
  PROVE  /\ \A n \in 0..Len(leaves) : LevelOK(leaves, n)
         /\ Len(Level(leaves)[Len(leaves)]) = 1
<1> DEFINE N == Len(leaves)
           Bad == {n \in 0..N : ~LevelOK(leaves, n)}
<1>1. N \in Nat
  BY SequenceIsFunction
<1>2. Level(leaves)[0] = leaves /\ \A n \in 1..N : Level(leaves)[n] = NextLevel(Level(leaves)[n - 1])
  BY <1>1, LevelDef
<1>3. Bad = {}
  <2> SUFFICES ASSUME Bad # {} PROVE FALSE
    OBVIOUS
  <2>1. PICK d \in Bad : \A e \in Bad : d <= e
    <3>1. Bad \in SUBSET Nat
      BY <1>1
    <3> HIDE DEF Bad
    <3> QED  BY <3>1, LeastOf
  <2>2. LevelOK(leaves, 0)
    BY <1>1, <1>2 DEF LevelOK
  <2>3. d \in 1..N /\ d - 1 \in 0..N
    BY <1>1, <2>2
  <2>4. LevelOK(leaves, d - 1)
    BY <1>1, <2>1, <2>3
  <2> DEFINE below == Level(leaves)[d - 1]
  <2>5. IsASequence(below) /\ Len(below) >= 1 /\ (Len(below) = 1 \/ Len(below) <= N - (d - 1))
    BY <2>4 DEF LevelOK
  <2>6. Level(leaves)[d] = NextLevel(below)
    BY <1>2, <2>3
  <2> HIDE DEF below
  <2>7. /\ IsASequence(NextLevel(below)) /\ Len(NextLevel(below)) >= 1
        /\ Len(below) = 1 => Len(NextLevel(below)) = 1
        /\ Len(below) # 1 => Len(NextLevel(below)) < Len(below)
    BY <2>5, NextLevelFacts
  <2>8. Len(below) \in Nat /\ Len(NextLevel(below)) \in Nat
    BY <2>5, <2>7, SequenceIsFunction
  <2>9. Len(NextLevel(below)) = 1 \/ Len(NextLevel(below)) <= N - d
    BY <1>1, <2>3, <2>5, <2>7, <2>8
  <2>10. LevelOK(leaves, d)
    BY <2>6, <2>7, <2>9 DEF LevelOK
  <2> QED  BY <2>1, <2>10
<1>4. LevelOK(leaves, N)
  BY <1>1, <1>3
<1>5. Len(Level(leaves)[N]) \in Nat
  BY <1>4, SequenceIsFunction DEF LevelOK
<1>6. Len(Level(leaves)[N]) = 1
  BY <1>1, <1>4, <1>5 DEF LevelOK
<1> QED  BY <1>3, <1>6

-----------------------------------------------------------------------------
(***************************************************************************)
(* A root names its leaves.                                                *)
(***************************************************************************)
LEMMA AboveInjective ==
  ASSUME NEW a, IsASequence(a), NEW b, IsASequence(b),
         Len(a) = Len(b), Len(a) >= 1, Above(a) = Above(b)
  PROVE  a = b
<1>1. Len(a) \in Nat
  BY SequenceIsFunction
<1>2. ASSUME NEW i \in 1..Len(a)
      PROVE  a[i] = b[i]
  <2> DEFINE j == (i + 1) \div 2
  <2>1. j \in 1..((Len(a) + 1) \div 2) /\ (i = 2 * j - 1 \/ i = 2 * j)
    BY <1>1
  <2> HIDE DEF j
  <2>2. Pair(a, j) = Pair(b, j)
    BY <2>1, AboveFacts
  <2>3. a[2 * j - 1] = b[2 * j - 1] /\ (2 * j <= Len(a) => a[2 * j] = b[2 * j])
    BY <2>2 DEF Pair
  <2> QED  BY <2>1, <2>3
<1>3. a = [i \in 1..Len(a) |-> a[i]] /\ b = [i \in 1..Len(b) |-> b[i]]
  BY SequenceIsFunction
<1> QED  BY <1>2, <1>3

\* Two levels of one length with one level above them are equal.
LEMMA NextLevelInjective ==
  ASSUME NEW a, IsASequence(a), NEW b, IsASequence(b),
         Len(a) = Len(b), Len(a) >= 1, NextLevel(a) = NextLevel(b)
  PROVE  a = b
BY AboveInjective DEF NextLevel

\* Two trees with as many leaves and the same root have the same leaves.
LEMMA TreeInjective ==
  ASSUME NEW a, IsASequence(a), NEW b, IsASequence(b),
         Len(a) = Len(b), Len(a) >= 1, TreeRoot(a) = TreeRoot(b)
  PROVE  a = b
<1> DEFINE N == Len(a)
           Wide(n) == Len(Level(a)[n]) # Len(Level(b)[n])
           Unequal == {n \in 0..N : Wide(n)}
           Equal == {n \in 0..N : Level(a)[n] = Level(b)[n]}
<1>1. N \in Nat
  BY SequenceIsFunction
<1>2. /\ Level(a)[0] = a /\ \A n \in 1..N : Level(a)[n] = NextLevel(Level(a)[n - 1])
      /\ Level(b)[0] = b /\ \A n \in 1..N : Level(b)[n] = NextLevel(Level(b)[n - 1])
  BY <1>1, LevelDef
<1>3. /\ \A n \in 0..N : LevelOK(a, n) /\ LevelOK(b, n)
      /\ Len(Level(a)[N]) = 1 /\ Len(Level(b)[N]) = 1
  BY LevelFacts
<1>4. ASSUME NEW n \in 0..N
      PROVE  /\ IsASequence(Level(a)[n]) /\ Len(Level(a)[n]) >= 1
             /\ IsASequence(Level(b)[n]) /\ Len(Level(b)[n]) >= 1
  BY <1>3 DEF LevelOK
<1>5. Unequal = {}
  <2> SUFFICES ASSUME Unequal # {} PROVE FALSE
    OBVIOUS
  <2>1. PICK d \in Unequal : \A e \in Unequal : d <= e
    <3>1. Unequal \in SUBSET Nat
      BY <1>1
    <3> HIDE DEF Unequal
    <3> QED  BY <3>1, LeastOf
  <2>2. d # 0
    BY <1>2
  <2>3. d \in 1..N /\ d - 1 \in 0..N
    BY <1>1, <2>2
  <2>4. Len(Level(a)[d - 1]) = Len(Level(b)[d - 1])
    BY <1>1, <2>1, <2>3
  <2>5. Len(NextLevel(Level(a)[d - 1])) = Len(NextLevel(Level(b)[d - 1]))
    BY <1>4, <2>3, <2>4, NextLevelFacts
  <2>6. Len(Level(a)[d]) = Len(Level(b)[d])
    BY <1>2, <2>3, <2>5
  <2> QED  BY <2>1, <2>6
<1>6. N \in Equal
  <2> DEFINE p == Level(a)[N]
             q == Level(b)[N]
  <2>1. p[1] = q[1]
    BY DEF TreeRoot
  <2>2. /\ p = [i \in 1..Len(p) |-> p[i]] /\ q = [i \in 1..Len(q) |-> q[i]]
        /\ Len(p) = 1 /\ Len(q) = 1
    BY <1>1, <1>3, <1>4, SequenceIsFunction
  <2> HIDE DEF p, q
  <2>3. \A i \in 1..1 : p[i] = q[i]
    BY <2>1
  <2>4. p = q
    BY <2>2, <2>3
  <2> QED  BY <1>1, <2>4 DEF p, q
<1>7. PICK d \in Equal : \A e \in Equal : d <= e
  <2>1. Equal \in SUBSET Nat
    BY <1>1
  <2> HIDE DEF Equal
  <2> QED  BY <1>6, <2>1, LeastOf
<1>8. d = 0
  <2> SUFFICES ASSUME d # 0 PROVE FALSE
    OBVIOUS
  <2>1. d \in 1..N /\ d - 1 \in 0..N /\ d - 1 < d
    BY <1>1
  <2>2. NextLevel(Level(a)[d - 1]) = NextLevel(Level(b)[d - 1])
    BY <1>2, <2>1
  <2>3. Len(Level(a)[d - 1]) = Len(Level(b)[d - 1])
    BY <1>5, <2>1
  <2>4. Level(a)[d - 1] = Level(b)[d - 1]
    BY <1>4, <2>1, <2>2, <2>3, NextLevelInjective
  <2>5. d - 1 \in Equal
    BY <2>1, <2>4
  <2> QED  BY <1>7, <2>1, <2>5
<1> QED  BY <1>2, <1>8


-----------------------------------------------------------------------------
(***************************************************************************)
(* Membership proofs.                                                      *)
(***************************************************************************)
LEMMA DepthFacts ==
  ASSUME NEW leaves, IsASequence(leaves), Len(leaves) >= 1
  PROVE  /\ Depth(leaves) \in 0..Len(leaves)
         /\ Len(Level(leaves)[Depth(leaves)]) = 1
         /\ \A k \in 0..(Depth(leaves) - 1) : Len(Level(leaves)[k]) > 1
<1> DEFINE N == Len(leaves)
           Single == {n \in 0..N : Len(Level(leaves)[n]) = 1}
<1>1. N \in Nat
  BY SequenceIsFunction
<1>2. N \in Single
  BY <1>1, LevelFacts
<1>3. PICK d \in Single : \A e \in Single : d <= e
  <2>1. Single \in SUBSET Nat
    BY <1>1
  <2> HIDE DEF Single
  <2> QED  BY <1>2, <2>1, LeastOf
<1>4. ASSUME NEW k \in 0..(d - 1)
      PROVE  Len(Level(leaves)[k]) > 1
  <2>1. k \in 0..N /\ ~(d <= k)
    BY <1>1
  <2>2. k \notin Single
    BY <1>3, <2>1
  <2>3. LevelOK(leaves, k)
    BY <2>1, LevelFacts
  <2> DEFINE w == Len(Level(leaves)[k])
  <2>4. w \in Nat /\ w >= 1 /\ w # 1
    BY <2>1, <2>2, <2>3, SequenceIsFunction DEF LevelOK
  <2> HIDE DEF w
  <2>5. w > 1
    BY <2>4
  <2> QED  BY <2>5 DEF w
<1>5. d \in 0..N /\ Len(Level(leaves)[d]) = 1 /\ \A k \in 0..(d - 1) : Len(Level(leaves)[k]) > 1
  BY <1>3, <1>4
<1> QED  BY <1>5 DEF Depth

\* From the first single node on, the levels stay the same: it is the root.
LEMMA RootAtDepth ==
  ASSUME NEW leaves, IsASequence(leaves), Len(leaves) >= 1
  PROVE  Level(leaves)[Depth(leaves)][1] = TreeRoot(leaves)
<1> DEFINE N == Len(leaves)
           D == Depth(leaves)
           Other == {n \in D..N : Level(leaves)[n] # Level(leaves)[D]}
<1>1. N \in Nat /\ D \in 0..N /\ Len(Level(leaves)[D]) = 1
  BY SequenceIsFunction, DepthFacts
<1> HIDE DEF D
<1>2. Other = {}
  <2> SUFFICES ASSUME Other # {} PROVE FALSE
    OBVIOUS
  <2>1. PICK d \in Other : \A e \in Other : d <= e
    <3>1. Other \in SUBSET Nat
      BY <1>1
    <3> HIDE DEF Other
    <3> QED  BY <3>1, LeastOf
  <2>2. d # D
    OBVIOUS
  <2>3. d \in 1..N /\ d - 1 \in D..N /\ d - 1 < d
    BY <1>1, <2>2
  <2>4. Level(leaves)[d - 1] = Level(leaves)[D]
    BY <1>1, <2>1, <2>3
  <2>5. Level(leaves)[d] = NextLevel(Level(leaves)[d - 1])
    BY <1>1, <2>3, LevelDef
  <2>6. Level(leaves)[d] = Level(leaves)[D]
    BY <1>1, <2>4, <2>5 DEF NextLevel
  <2> QED  BY <2>1, <2>6
<1>3. Level(leaves)[N] = Level(leaves)[D]
  BY <1>1, <1>2
<1> QED  BY <1>3 DEF TreeRoot, D

\* The recursion of Cursors.
IsPath(f, index, n) == f = [k \in 0..n |-> IF k = 0 THEN index ELSE f[k - 1] \div 2]

\* The positions of a path are a function on the levels.
LEMMA PathExists ==
  ASSUME NEW index, NEW n \in Nat
  PROVE  \E f : IsPath(f, index, n)
<1> DEFINE Bad == {k \in Nat : ~\E f : IsPath(f, index, k)}
<1> SUFFICES ASSUME Bad # {} PROVE FALSE
  OBVIOUS
<1>1. PICK d \in Bad : \A e \in Bad : d <= e
  BY LeastOf
<1>2. d # 0
  <2> SUFFICES ASSUME d = 0 PROVE FALSE
    OBVIOUS
  <2> DEFINE f == [k \in 0..0 |-> index]
  <2>1. IsPath(f, index, 0)
    BY DEF IsPath
  <2> QED  BY <2>1
<1>3. d - 1 \in Nat /\ d - 1 \notin Bad
  BY <1>1, <1>2
<1>4. PICK f : IsPath(f, index, d - 1)
  BY <1>3
<1> DEFINE g == [k \in 0..d |-> IF k = d THEN f[d - 1] \div 2 ELSE f[k]]
<1>5. ASSUME NEW k \in 0..d
      PROVE  g[k] = IF k = 0 THEN index ELSE g[k - 1] \div 2
  <2>1. CASE k = d
    <3>1. g[k - 1] = f[d - 1]
      BY <1>2, <2>1
    <3> QED  BY <1>2, <2>1, <3>1
  <2>2. CASE k # d
    <3>1. k \in 0..(d - 1) /\ g[k] = f[k] /\ (k # 0 => g[k - 1] = f[k - 1])
      BY <2>2
    <3>2. f[k] = IF k = 0 THEN index ELSE f[k - 1] \div 2
      BY <1>4, <3>1 DEF IsPath
    <3> QED  BY <3>1, <3>2
  <2> QED  BY <2>1, <2>2
<1>6. IsPath(g, index, d)
  <2>1. g = [k \in 0..d |-> g[k]]
    OBVIOUS
  <2> HIDE DEF g
  <2> QED  BY <1>5, <2>1 DEF IsPath
<1> QED  BY <1>1, <1>6

\* cursor //= 2: the position on each level is half of the one below.
LEMMA CursorsDef ==
  ASSUME NEW index, NEW n \in Nat
  PROVE  /\ Cursors(index, n)[0] = index
         /\ \A k \in 1..n : Cursors(index, n)[k] = Cursors(index, n)[k - 1] \div 2
<1> DEFINE f == CHOOSE f : IsPath(f, index, n)
<1>1. IsPath(f, index, n)
  BY PathExists
<1>2. Cursors(index, n) = f
  BY DEF Cursors, IsPath
<1> HIDE DEF f
<1>3. /\ f[0] = index
      /\ \A k \in 1..n : f[k] = f[k - 1] \div 2
  BY <1>1 DEF IsPath
<1> QED  BY <1>2, <1>3

\* The recursion of Climbed.
AtLeaf(proof) == [ok |-> TRUE, node |-> LeafHash(proof.context, proof.record),
                  cursor |-> proof.index, width |-> proof.count]
IsClimb(f, proof, n) ==
    f = [k \in 0..n |-> IF k = 0 THEN AtLeaf(proof) ELSE Climb(f[k - 1], proof.siblings[k])]

\* Climbing a proof is a function on its steps.
LEMMA ClimbExists ==
  ASSUME NEW proof, NEW n \in Nat
  PROVE  \E f : IsClimb(f, proof, n)
<1> DEFINE Bad == {k \in Nat : ~\E f : IsClimb(f, proof, k)}
<1> SUFFICES ASSUME Bad # {} PROVE FALSE
  OBVIOUS
<1>1. PICK d \in Bad : \A e \in Bad : d <= e
  BY LeastOf
<1>2. d # 0
  <2> SUFFICES ASSUME d = 0 PROVE FALSE
    OBVIOUS
  <2> DEFINE f == [k \in 0..0 |-> AtLeaf(proof)]
  <2>1. IsClimb(f, proof, 0)
    BY DEF IsClimb
  <2> QED  BY <2>1
<1>3. d - 1 \in Nat /\ d - 1 \notin Bad
  BY <1>1, <1>2
<1>4. PICK f : IsClimb(f, proof, d - 1)
  BY <1>3
<1> DEFINE g == [k \in 0..d |-> IF k = d THEN Climb(f[d - 1], proof.siblings[d]) ELSE f[k]]
<1>5. ASSUME NEW k \in 0..d
      PROVE  g[k] = IF k = 0 THEN AtLeaf(proof) ELSE Climb(g[k - 1], proof.siblings[k])
  <2>1. CASE k = d
    <3>1. g[k - 1] = f[d - 1]
      BY <1>2, <2>1
    <3> QED  BY <1>2, <2>1, <3>1
  <2>2. CASE k # d
    <3>1. k \in 0..(d - 1) /\ g[k] = f[k] /\ (k # 0 => g[k - 1] = f[k - 1])
      BY <2>2
    <3>2. f[k] = IF k = 0 THEN AtLeaf(proof) ELSE Climb(f[k - 1], proof.siblings[k])
      BY <1>4, <3>1 DEF IsClimb
    <3> QED  BY <3>1, <3>2
  <2> QED  BY <2>1, <2>2
<1>6. IsClimb(g, proof, d)
  <2>1. g = [k \in 0..d |-> g[k]]
    OBVIOUS
  <2> HIDE DEF g
  <2> QED  BY <1>5, <2>1 DEF IsClimb
<1> QED  BY <1>1, <1>6

\* Each step hashes the sibling on its side.
LEMMA ClimbedDef ==
  ASSUME NEW proof, Len(proof.siblings) \in Nat
  PROVE  \E f : /\ f[0] = AtLeaf(proof)
                /\ \A k \in 1..Len(proof.siblings) : f[k] = Climb(f[k - 1], proof.siblings[k])
                /\ Climbed(proof) = f[Len(proof.siblings)]
<1> DEFINE n == Len(proof.siblings)
           f == CHOOSE f : IsClimb(f, proof, n)
<1>1. IsClimb(f, proof, n)
  BY ClimbExists
<1>2. Climbed(proof) = f[n]
  BY DEF Climbed, IsClimb, AtLeaf
<1>4. n \in Nat
  OBVIOUS
<1> HIDE DEF f, n
<1>3. /\ f[0] = AtLeaf(proof)
      /\ \A k \in 1..n : f[k] = Climb(f[k - 1], proof.siblings[k])
  BY <1>1, <1>4 DEF IsClimb
<1> QED  BY <1>2, <1>3 DEF n


\* One turn of the verifier follows one step of the tree.
OnPath(at, level, cursor) ==
    /\ at.ok = TRUE /\ at.cursor = cursor /\ at.width = Len(level)
    /\ cursor \in 0..(Len(level) - 1) /\ at.node = level[cursor + 1]

\* A node and its sibling, by even and odd positions.
LEMMA PathArithmetic ==
  ASSUME NEW w \in Nat, w > 1, NEW cursor \in 0..(w - 1)
  PROVE  /\ cursor \div 2 \in 0..((w + 1) \div 2 - 1)
         /\ cursor % 2 = 1 => /\ 2 * (cursor \div 2 + 1) - 1 = cursor
                              /\ 2 * (cursor \div 2 + 1) = cursor + 1
                              /\ cursor + 1 <= w
         /\ cursor % 2 # 1 => /\ cursor % 2 = 0
                              /\ 2 * (cursor \div 2 + 1) - 1 = cursor + 1
                              /\ 2 * (cursor \div 2 + 1) = cursor + 2
                              /\ cursor + 1 < w <=> cursor + 2 <= w
                              /\ ~(cursor + 1 < w) => cursor + 1 = w
<1> DEFINE q == cursor \div 2
           r == cursor % 2
<1>1. cursor \in Nat /\ cursor < w
  OBVIOUS
<1>2. q \in Nat /\ r \in 0..1 /\ cursor = 2 * q + r
  BY <1>1
<1> HIDE DEF q, r
<1>3. q <= (w + 1) \div 2 - 1
  BY <1>1, <1>2
<1>4. q \in 0..((w + 1) \div 2 - 1)
  BY <1>2, <1>3
<1>5. r = 1 => 2 * (q + 1) - 1 = cursor /\ 2 * (q + 1) = cursor + 1 /\ cursor + 1 <= w
  BY <1>1, <1>2
<1>6. r # 1 => /\ r = 0
               /\ 2 * (q + 1) - 1 = cursor + 1
               /\ 2 * (q + 1) = cursor + 2
               /\ cursor + 1 < w <=> cursor + 2 <= w
               /\ ~(cursor + 1 < w) => cursor + 1 = w
  BY <1>1, <1>2
<1> QED  BY <1>4, <1>5, <1>6 DEF q, r

\* Climbing a generated proof visits the nodes of the path.
LEMMA ClimbFollows ==
  ASSUME NEW level, IsASequence(level), Len(level) > 1, NEW cursor, NEW at, OnPath(at, level, cursor),
         NEW leaves
  PROVE  OnPath(Climb(at, Sibling(level, cursor, leaves)), Above(level), cursor \div 2)
<1> DEFINE w == Len(level)
           up == cursor \div 2
           sibling == Sibling(level, cursor, leaves)
           next == Climb(at, sibling)
<1>1. w \in Nat /\ w > 1 /\ cursor \in 0..(w - 1)
  BY SequenceIsFunction DEF OnPath
<1>2. at.ok = TRUE /\ at.cursor = cursor /\ at.width = w /\ at.node = level[cursor + 1]
  BY DEF OnPath
<1>3. Len(Above(level)) = (w + 1) \div 2
      /\ \A i \in 1..((w + 1) \div 2) : Above(level)[i] = Pair(level, i)
  BY <1>1, AboveFacts
<1> HIDE DEF w
<1>4. up \in 0..((w + 1) \div 2 - 1)
  BY <1>1, PathArithmetic
<1>5. up + 1 \in 1..((w + 1) \div 2)
  BY <1>1, <1>4
<1>6. Above(level)[up + 1] = Pair(level, up + 1)
  BY <1>3, <1>5
<1>7. Pair(level, up + 1) =
        <<level[2 * (up + 1) - 1], level[IF 2 * (up + 1) <= w THEN 2 * (up + 1) ELSE w]>>
  BY DEF Pair, w
<1>8. next.cursor = up /\ next.width = (w + 1) \div 2
  BY <1>2 DEF Climb
<1>9. CASE cursor % 2 = 1
  <2>1. sibling.hash = level[cursor] /\ sibling.side = "left" /\ sibling.odd = FALSE
    BY <1>9 DEF Sibling
  <2>2. 2 * (up + 1) - 1 = cursor /\ 2 * (up + 1) = cursor + 1 /\ cursor + 1 <= w
    BY <1>1, <1>9, PathArithmetic
  <2> HIDE DEF up, sibling
  <2>5. ~(at.cursor % 2 = 0)
    BY <1>2, <1>9
  <2>3. next.ok = TRUE /\ next.node = <<level[cursor], level[cursor + 1]>>
    BY <1>2, <2>1, <2>5 DEF Climb
  <2>4. Pair(level, up + 1) = <<level[cursor], level[cursor + 1]>>
    BY <1>7, <2>2
  <2> QED  BY <1>3, <1>4, <1>6, <1>8, <2>3, <2>4 DEF OnPath, up, sibling
<1>10. CASE cursor % 2 # 1
  <2> DEFINE paired == cursor + 1 < w
  <2>1. /\ sibling.hash = level[IF paired THEN cursor + 2 ELSE cursor + 1]
        /\ sibling.side = "right" /\ sibling.odd = ~paired
    BY <1>10 DEF Sibling, w
  <2>2. /\ cursor % 2 = 0 /\ 2 * (up + 1) - 1 = cursor + 1 /\ 2 * (up + 1) = cursor + 2
        /\ cursor + 1 < w <=> cursor + 2 <= w
        /\ ~(cursor + 1 < w) => cursor + 1 = w
    BY <1>1, <1>10, PathArithmetic
  <2> HIDE DEF up, sibling
  <2>3. CASE paired
    <3>1. ~(cursor + 1 >= w)
      BY <1>1, <2>3
    <3>2. next.ok = TRUE /\ next.node = <<level[cursor + 1], level[cursor + 2]>>
      BY <1>2, <2>1, <2>3, <3>1 DEF Climb
    <3>3. Pair(level, up + 1) = <<level[cursor + 1], level[cursor + 2]>>
      BY <1>7, <2>2, <2>3
    <3> QED  BY <1>3, <1>4, <1>6, <1>8, <3>2, <3>3 DEF OnPath, up, sibling
  <2>4. CASE ~paired
    <3>1. cursor + 1 >= w /\ cursor + 1 = w
      BY <1>1, <2>2, <2>4
    <3>2. next.ok = TRUE /\ next.node = <<level[cursor + 1], level[cursor + 1]>>
      BY <1>2, <2>1, <2>2, <2>4, <3>1 DEF Climb
    <3>3. Pair(level, up + 1) = <<level[cursor + 1], level[cursor + 1]>>
      BY <1>7, <2>2, <2>4, <3>1
    <3> QED  BY <1>3, <1>4, <1>6, <1>8, <3>2, <3>3 DEF OnPath, up, sibling
  <2> QED  BY <2>3, <2>4
<1> QED  BY <1>9, <1>10

\* The proof of any leaf leads to the root, whatever the number of leaves.
LEMMA ProofClimbs ==
  ASSUME NEW c, IsASequence(c.leaves), NEW index \in 0..(Len(c.leaves) - 1),
         c.leaves[index + 1] = LeafHash(c.context, c.records[index + 1])
  PROVE  Climbed(Proof(c, index)).ok /\ Climbed(Proof(c, index)).node = TreeRoot(c.leaves)
<1> DEFINE leaves == c.leaves
           N == Len(leaves)
           D == Depth(leaves)
           path == Cursors(index, D)
           p == Proof(c, index)
<1>1. N \in Nat
  BY SequenceIsFunction
<1>2. N >= 1
  BY <1>1
<1>3. /\ D \in 0..N /\ Len(Level(leaves)[D]) = 1
      /\ \A k \in 0..(D - 1) : Len(Level(leaves)[k]) > 1
  BY <1>2, DepthFacts
<1>4. D \in Nat
  BY <1>1, <1>3
<1>5. path[0] = index /\ \A k \in 1..D : path[k] = path[k - 1] \div 2
  BY <1>4, CursorsDef
<1>6. /\ p.context = c.context /\ p.count = N /\ p.index = index /\ p.record = c.records[index + 1]
      /\ p.siblings = [n \in 1..D |-> Sibling(Level(leaves)[n - 1], path[n - 1], N)]
  BY DEF Proof
<1> HIDE DEF p, path
<1>7. Len(p.siblings) = D /\ \A n \in 1..D : p.siblings[n] = Sibling(Level(leaves)[n - 1], path[n - 1], N)
  <2>1. p.siblings = [n \in 1..D |-> p.siblings[n]]
    BY <1>6
  <2> QED  BY <1>4, <1>6, <2>1, FunctionIsSequence
<1>8. PICK f : /\ f[0] = AtLeaf(p)
               /\ \A k \in 1..D : f[k] = Climb(f[k - 1], p.siblings[k])
               /\ Climbed(p) = f[D]
  BY <1>4, <1>7, ClimbedDef
<1> DEFINE Off == {n \in 0..D : ~OnPath(f[n], Level(leaves)[n], path[n])}
<1>9. Level(leaves)[0] = leaves /\ \A n \in 1..N : Level(leaves)[n] = NextLevel(Level(leaves)[n - 1])
  BY <1>1, LevelDef
<1>10. Off = {}
  <2> SUFFICES ASSUME Off # {} PROVE FALSE
    OBVIOUS
  <2>1. PICK d \in Off : \A e \in Off : d <= e
    <3>1. Off \in SUBSET Nat
      BY <1>4
    <3> HIDE DEF Off
    <3> QED  BY <3>1, LeastOf
  <2>2. d # 0
    <3> SUFFICES ASSUME d = 0 PROVE FALSE
      OBVIOUS
    <3>1. f[0].ok = TRUE /\ f[0].cursor = index /\ f[0].width = N
          /\ f[0].node = LeafHash(c.context, c.records[index + 1])
      BY <1>6, <1>8 DEF AtLeaf
    <3>2. OnPath(f[0], Level(leaves)[0], path[0])
      BY <1>5, <1>9, <3>1 DEF OnPath
    <3> QED  BY <2>1, <3>2
  <2>3. d \in 1..D /\ d - 1 \in 0..(D - 1) /\ d \in 1..N /\ d - 1 \in 0..N
    BY <1>1, <1>3, <2>2
  <2> DEFINE below == Level(leaves)[d - 1]
  <2>4. OnPath(f[d - 1], below, path[d - 1])
    BY <1>4, <2>1, <2>3
  <2>5. IsASequence(below) /\ Len(below) > 1
    BY <1>2, <1>3, <2>3, LevelFacts DEF LevelOK
  <2>6. Level(leaves)[d] = Above(below)
    <3>1. Level(leaves)[d] = NextLevel(Level(leaves)[d - 1])
      BY <1>9, <2>3
    <3> DEFINE w == Len(below)
    <3>3. w \in Nat /\ w > 1
      BY <2>5, SequenceIsFunction
    <3> HIDE DEF w
    <3>4. w # 1
      BY <3>3
    <3>2. Len(below) # 1
      BY <3>4 DEF w
    <3> QED  BY <3>1, <3>2 DEF NextLevel
  <2>7. f[d] = Climb(f[d - 1], Sibling(below, path[d - 1], N)) /\ path[d] = path[d - 1] \div 2
    BY <1>5, <1>7, <1>8, <2>3
  <2> HIDE DEF below
  <2>8. OnPath(f[d], Level(leaves)[d], path[d])
    BY <2>4, <2>5, <2>6, <2>7, ClimbFollows
  <2> QED  BY <2>1, <2>8
<1>11. OnPath(f[D], Level(leaves)[D], path[D])
  BY <1>4, <1>10
<1>12. f[D].ok = TRUE /\ f[D].node = Level(leaves)[D][1]
  BY <1>3, <1>11 DEF OnPath
<1>13. Level(leaves)[D][1] = TreeRoot(leaves)
  BY <1>2, RootAtDepth
<1> QED  BY <1>8, <1>12, <1>13 DEF p


\* The hash of a leaf is that of no inner node.
LEMMA LeavesAreNoPairs == \A x, r, a, b : LeafHash(x, r) # <<a, b>>
<1>1. \A x, r, a, b : Len(LeafHash(x, r)) = 4 /\ Len(<<a, b>>) = 2
  BY DEF LeafHash
<1> QED  BY <1>1

\* The hashes of a level.
Nodes(level) == {level[i] : i \in 1..Len(level)}

\* A node that was climbed to lies on a level only if the node it was climbed
\* from lies on the level below.
LEMMA ClimbedFromBelow ==
  ASSUME NEW level, IsASequence(level), Len(level) > 1, NEW at, NEW sibling,
         Climb(at, sibling).node \in Nodes(Above(level))
  PROVE  at.node \in Nodes(level)
<1> DEFINE w == Len(level)
           x == at.node
           h == sibling.hash
<1>1. w \in Nat /\ w > 1
  BY SequenceIsFunction
<1> HIDE DEF w
<1>2. Len(level) >= 1
  BY <1>1 DEF w
<1>3. /\ Len(Above(level)) = (w + 1) \div 2
      /\ \A i \in 1..Len(Above(level)) : Above(level)[i] = Pair(level, i)
  BY <1>2, AboveFacts DEF w
<1>4. PICK i \in 1..((w + 1) \div 2) : Climb(at, sibling).node = Pair(level, i)
  BY <1>3 DEF Nodes
<1>5. Climb(at, sibling).node = <<h, x>> \/ Climb(at, sibling).node = <<x, h>>
  BY DEF Climb
<1> HIDE DEF x, h
<1> DEFINE j == IF 2 * i <= w THEN 2 * i ELSE w
<1>6. Pair(level, i) = <<level[2 * i - 1], level[j]>>
  BY DEF Pair, w
<1>7. 2 * i - 1 \in 1..w /\ j \in 1..w
  BY <1>1
<1> HIDE DEF j
<1>8. x = level[2 * i - 1] \/ x = level[j]
  BY <1>4, <1>5, <1>6
<1> QED  BY <1>7, <1>8 DEF Nodes, w, x

\* What a path of any length reaches from a leaf hash is the root of a tree
\* of leaf hashes only if the path starts at one of them.
LEMMA OnlyLeavesReachTheRoot ==
  ASSUME NEW leaves, IsASequence(leaves), Len(leaves) >= 1,
         \A i \in 1..Len(leaves) : \E x, r : leaves[i] = LeafHash(x, r),
         NEW p, Len(p.siblings) \in Nat, Climbed(p).node = TreeRoot(leaves)
  PROVE  LeafHash(p.context, p.record) \in Nodes(leaves)
<1> DEFINE N == Len(leaves)
           D == Depth(leaves)
           m == Len(p.siblings)
           both == IF m < D THEN m ELSE D
<1>1. N \in Nat /\ m \in Nat /\ Level(leaves)[0] = leaves
      /\ \A n \in 1..N : Level(leaves)[n] = NextLevel(Level(leaves)[n - 1])
  BY SequenceIsFunction, LevelDef
<1>2. /\ D \in 0..N /\ Len(Level(leaves)[D]) = 1
      /\ \A k \in 0..(D - 1) : Len(Level(leaves)[k]) > 1
  BY DepthFacts
<1>3. PICK f : /\ f[0] = AtLeaf(p)
               /\ \A k \in 1..m : f[k] = Climb(f[k - 1], p.siblings[k])
               /\ Climbed(p) = f[m]
  BY <1>1, ClimbedDef
<1>4. Climbed(p).node = Level(leaves)[D][1]
  BY RootAtDepth
<1>5. \A n \in 0..N : IsASequence(Level(leaves)[n])
  BY LevelFacts DEF LevelOK
<1> HIDE DEF N, D, m
<1> DEFINE Off == {j \in 0..both : f[m - j].node \notin Nodes(Level(leaves)[D - j])}
<1>6. both \in Nat /\ both <= m /\ both <= D /\ D \in Nat
  BY <1>1, <1>2
<1>7. Off = {}
  <2> SUFFICES ASSUME Off # {} PROVE FALSE
    OBVIOUS
  <2>1. PICK d \in Off : \A e \in Off : d <= e
    <3>1. Off \in SUBSET Nat
      BY <1>6
    <3> HIDE DEF Off
    <3> QED  BY <3>1, LeastOf
  <2>2. d # 0
    <3>1. f[m].node \in Nodes(Level(leaves)[D])
      BY <1>2, <1>3, <1>4 DEF Nodes
    <3>2. m - 0 = m /\ D - 0 = D
      BY <1>1, <1>6
    <3> QED  BY <2>1, <3>1, <3>2
  <2>3. d - 1 \in 0..both /\ d - 1 < d
    BY <1>6, <2>1, <2>2
  <2> DEFINE k == m - d + 1
             below == Level(leaves)[D - d]
  <2>4. /\ k \in 1..m /\ k = m - (d - 1) /\ k - 1 = m - d
        /\ D - d \in 0..(D - 1) /\ D - d \in 0..N
        /\ D - (d - 1) \in 1..N /\ D - (d - 1) - 1 = D - d
    BY <1>1, <1>2, <1>6, <2>1, <2>2
  <2>5. f[k].node \in Nodes(Level(leaves)[D - (d - 1)])
    BY <2>1, <2>3, <2>4
  <2>6. f[k] = Climb(f[k - 1], p.siblings[k])
    BY <1>3, <2>4
  <2>7. IsASequence(below) /\ Len(below) > 1
    BY <1>2, <1>5, <2>4
  <2>8. Level(leaves)[D - (d - 1)] = Above(below)
    <3>1. Level(leaves)[D - (d - 1)] = NextLevel(below)
      BY <1>1, <2>4
    <3> HIDE DEF below
    <3>2. Len(below) # 1
      <4> DEFINE w == Len(below)
      <4>1. w \in Nat /\ w > 1
        BY <2>7, SequenceIsFunction
      <4> HIDE DEF w
      <4>2. w # 1
        BY <4>1
      <4> QED  BY <4>2 DEF w
    <3> QED  BY <3>1, <3>2 DEF NextLevel
  <2> HIDE DEF below, k
  <2>9. f[k - 1].node \in Nodes(below)
    BY <2>5, <2>6, <2>7, <2>8, ClimbedFromBelow
  <2> QED  BY <2>1, <2>4, <2>9 DEF below
<1>8. f[m - both].node \in Nodes(Level(leaves)[D - both])
  BY <1>6, <1>7
<1>9. ASSUME NEW k \in 1..m
      PROVE  \E x, y : f[k].node = <<x, y>>
  <2>1. f[k] = Climb(f[k - 1], p.siblings[k])
    BY <1>3
  <2> QED  BY <2>1 DEF Climb
<1>10. f[0].node = LeafHash(p.context, p.record)
  BY <1>3 DEF AtLeaf
<1>11. CASE m = D
  <2>1. m - both = 0 /\ D - both = 0
    BY <1>1, <1>11
  <2> QED  BY <1>1, <1>8, <1>10, <2>1
<1>12. CASE m < D
  <2> DEFINE below == Level(leaves)[D - m - 1]
  <2>1. m - both = 0 /\ D - both = D - m /\ D - m - 1 \in 0..(D - 1) /\ D - m \in 1..N /\ D - m - 1 \in 0..N
    BY <1>1, <1>2, <1>6, <1>12
  <2>2. Level(leaves)[D - m] = NextLevel(below) /\ IsASequence(below) /\ Len(below) > 1
    BY <1>1, <1>2, <1>5, <2>1
  <2>3. f[0].node \in Nodes(Level(leaves)[D - m])
    BY <1>8, <2>1
  <2> HIDE DEF below
  <2> DEFINE w == Len(below)
  <2>4. w \in Nat /\ w > 1
    BY <2>2, SequenceIsFunction
  <2> HIDE DEF w
  <2>5. w # 1 /\ w >= 1
    BY <2>4
  <2>6. NextLevel(below) = Above(below)
    BY <2>5 DEF w, NextLevel
  <2>7. \A i \in 1..Len(Above(below)) : Above(below)[i] = Pair(below, i)
    BY <2>2, <2>5, AboveFacts DEF w
  <2>8. PICK x, y : f[0].node = <<x, y>>
    BY <2>2, <2>3, <2>6, <2>7 DEF Nodes, Pair
  <2> QED  BY <1>10, <2>8, LeavesAreNoPairs
<1>13. CASE m > D
  <2>1. m - both \in 1..m /\ D - both = 0
    BY <1>1, <1>6, <1>13
  <2>2. PICK i \in 1..Len(leaves) : f[m - both].node = leaves[i]
    BY <1>1, <1>8, <2>1 DEF Nodes
  <2>3. PICK x, r : leaves[i] = LeafHash(x, r)
    OBVIOUS
  <2>4. PICK a, b : f[m - both].node = <<a, b>>
    BY <1>9, <2>1
  <2>5. LeafHash(x, r) = <<a, b>>
    BY <2>2, <2>3, <2>4
  <2> QED  BY <2>5, LeavesAreNoPairs
<1> QED  BY <1>1, <1>6, <1>11, <1>12, <1>13

-----------------------------------------------------------------------------
(***************************************************************************)
(* Commitments.                                                            *)
(***************************************************************************)
\* What a batch commits to: records of distinct sessions.
IsRecord(r) == /\ r = [session |-> r.session, start |-> r.start, hash |-> r.hash]
               /\ r.session \in Int /\ r.start \in Int

RecordSet(S) ==
    /\ IsFiniteSet(S)
    /\ \A r \in S : IsRecord(r)
    /\ \A r, q \in S : r.session = q.session => r = q

EarlierPairs(S) == {rq \in S \X S : Earlier(rq[1], rq[2])}

\* Distinct sessions are totally ordered by their starts and names.
LEMMA EarlierTotal ==
  ASSUME NEW S, RecordSet(S)
  PROVE  TotalOrder(S, EarlierPairs(S))
<1> DEFINE R == EarlierPairs(S)
<1>1. \A r, q \in S : <<r, q>> \in R <=> Earlier(r, q)
  BY DEF EarlierPairs
<1>2. \A r \in S : r.session \in Int /\ r.start \in Int
  BY DEF RecordSet, IsRecord
<1>3. \A r \in S : ~Earlier(r, r)
  BY <1>2 DEF Earlier
<1>4. \A r, q, t \in S : Earlier(r, q) /\ Earlier(q, t) => Earlier(r, t)
  BY <1>2 DEF Earlier
<1>5. \A r, q \in S : r = q \/ Earlier(r, q) \/ Earlier(q, r)
  BY <1>2 DEF Earlier, RecordSet
<1> HIDE DEF R
<1> QED  BY <1>1, <1>3, <1>4, <1>5 DEF TotalOrder, R

\* The records by their normalized order, each at one place.
LEMMA EarlierArranged ==
  ASSUME NEW S, RecordSet(S)
  PROVE  /\ Arranged(S, Earlier) = Ranked(S, EarlierPairs(S))
         /\ IsASequence(Ranked(S, EarlierPairs(S)))
         /\ Len(Ranked(S, EarlierPairs(S))) = Cardinality(S)
         /\ Cardinality(S) \in Nat
<1> DEFINE R == EarlierPairs(S)
           n == Cardinality(S)
           c(i) == CHOOSE x \in S : Cardinality({y \in S : Earlier(y, x)}) = i - 1
           d(i) == CHOOSE x \in S : Cardinality(Below(S, R, x)) = i - 1
           f == [i \in 1..n |-> c(i)]
<1>1. n \in Nat
  BY FS_CardinalityType DEF RecordSet
<1>2. \A x \in S : Below(S, R, x) = {y \in S : Earlier(y, x)}
  BY DEF Below, EarlierPairs
<1>3. \A i \in 1..n : c(i) = d(i)
  BY <1>2
<1>4. Arranged(S, Earlier) = Evaluated(f)
  BY DEF Arranged
<1>5. Ranked(S, R) = [i \in 1..n |-> d(i)]
  BY DEF Ranked
<1> HIDE DEF c, d, R, n
<1>6. f = Ranked(S, R)
  BY <1>3, <1>5
<1>7. f = [i \in 1..n |-> f[i]]
  OBVIOUS
<1> HIDE DEF f
<1>8. IsASequence(f) /\ Len(f) = n /\ Evaluated(f) = f
  BY <1>1, <1>7, FunctionIsSequence
<1> QED  BY <1>1, <1>4, <1>6, <1>8 DEF R, n

\* A commitment holds every record once, in order, and hashes each.
LEMMA CommitmentFacts ==
  ASSUME NEW S, RecordSet(S), NEW context
  PROVE  LET c == Commitment(S, context)
         IN  /\ Cardinality(S) \in Nat
             /\ c.context = context
             /\ c.records = Ranked(S, EarlierPairs(S))
             /\ c.records \in [1..Cardinality(S) -> S]
             /\ IsASequence(c.records) /\ Len(c.records) = Cardinality(S)
             /\ \A r \in S : \E i \in 1..Cardinality(S) : c.records[i] = r
             /\ IsASequence(c.leaves) /\ Len(c.leaves) = Cardinality(S)
             /\ \A i \in 1..Cardinality(S) : c.leaves[i] = LeafHash(context, c.records[i])
             /\ c.tree = TreeRoot(c.leaves)
             /\ c.root = RootHash(context, Cardinality(S), c.tree)
<1> DEFINE n == Cardinality(S)
           ordered == Arranged(S, Earlier)
           f == [i \in DOMAIN ordered |-> LeafHash(context, ordered[i])]
           c == Commitment(S, context)
<1>1. n \in Nat /\ ordered = Ranked(S, EarlierPairs(S)) /\ IsASequence(ordered) /\ Len(ordered) = n
  BY EarlierArranged
<1>2. IsFiniteSet(S) /\ TotalOrder(S, EarlierPairs(S))
  BY EarlierTotal DEF RecordSet
<1>3. ordered \in [1..n -> S]
  BY <1>1, <1>2, RankedFacts
<1>4. \A r \in S : \E i \in 1..n : ordered[i] = r
  BY <1>1, <1>2, RankedFacts
<1>5. /\ c.context = context /\ c.records = ordered /\ c.leaves = Evaluated(f)
      /\ c.tree = TreeRoot(Evaluated(f))
      /\ c.root = RootHash(context, Len(Evaluated(f)), TreeRoot(Evaluated(f)))
  BY DEF Commitment
<1> HIDE DEF ordered, c
<1>6. f = [i \in 1..n |-> f[i]] /\ \A i \in 1..n : f[i] = LeafHash(context, ordered[i])
  BY <1>3
<1> HIDE DEF f
<1>7. IsASequence(f) /\ Len(f) = n /\ Evaluated(f) = f
  BY <1>1, <1>6, FunctionIsSequence
<1> QED  BY <1>1, <1>3, <1>4, <1>5, <1>6, <1>7 DEF c

\* A batch root names its context and its records.
LEMMA CommitmentInjective ==
  ASSUME NEW S, RecordSet(S), S # {}, NEW T, RecordSet(T), NEW x, NEW y,
         Commitment(S, x).root = Commitment(T, y).root
  PROVE  x = y /\ S = T
<1> DEFINE n == Cardinality(S)
           c == Commitment(S, x)
           e == Commitment(T, y)
<1>1. /\ n \in Nat
      /\ c.records \in [1..n -> S]
      /\ \A r \in S : \E i \in 1..n : c.records[i] = r
      /\ IsASequence(c.leaves) /\ Len(c.leaves) = n
      /\ \A i \in 1..n : c.leaves[i] = LeafHash(x, c.records[i])
      /\ c.tree = TreeRoot(c.leaves) /\ c.root = RootHash(x, n, c.tree)
  BY CommitmentFacts
<1>2. /\ e.records \in [1..Cardinality(T) -> T]
      /\ \A r \in T : \E i \in 1..Cardinality(T) : e.records[i] = r
      /\ IsASequence(e.leaves) /\ Len(e.leaves) = Cardinality(T)
      /\ \A i \in 1..Cardinality(T) : e.leaves[i] = LeafHash(y, e.records[i])
      /\ e.tree = TreeRoot(e.leaves) /\ e.root = RootHash(y, Cardinality(T), e.tree)
  BY CommitmentFacts
<1>3. c.root = e.root
  OBVIOUS
<1>4. n >= 1
  <2>1. n # 0
    BY FS_EmptySet DEF RecordSet
  <2> HIDE DEF n
  <2> QED  BY <1>1, <2>1
<1> HIDE DEF c, e, n
<1>5. x = y /\ n = Cardinality(T) /\ c.tree = e.tree
  BY <1>1, <1>2, <1>3 DEF RootHash
<1>6. c.leaves = e.leaves
  <2>1. Len(c.leaves) = Len(e.leaves) /\ Len(c.leaves) >= 1
    BY <1>1, <1>2, <1>4, <1>5
  <2>2. TreeRoot(c.leaves) = TreeRoot(e.leaves)
    BY <1>1, <1>2, <1>5
  <2> QED  BY <1>1, <1>2, <2>1, <2>2, TreeInjective
<1>7. ASSUME NEW i \in 1..n
      PROVE  c.records[i] = e.records[i]
  <2>1. LeafHash(x, c.records[i]) = LeafHash(y, e.records[i])
    BY <1>1, <1>2, <1>5, <1>6
  <2>2. c.records[i] \in S /\ e.records[i] \in T
    BY <1>1, <1>2, <1>5
  <2>3. IsRecord(c.records[i]) /\ IsRecord(e.records[i])
    BY <2>2 DEF RecordSet
  <2>4. /\ c.records[i].session = e.records[i].session
        /\ c.records[i].start = e.records[i].start
        /\ c.records[i].hash = e.records[i].hash
    BY <2>1 DEF LeafHash
  <2> QED  BY <2>3, <2>4 DEF IsRecord
<1>8. \A r \in S : r \in T
  BY <1>1, <1>2, <1>5, <1>7
<1>9. \A r \in T : r \in S
  BY <1>1, <1>2, <1>5, <1>7
<1> QED  BY <1>5, <1>8, <1>9

\* The proof of every member of a batch verifies.
LEMMA MembersAreProven ==
  ASSUME NEW S, RecordSet(S), NEW context, ValidContext(context),
         NEW k \in DOMAIN Commitment(S, context).leaves
  PROVE  LET c == Commitment(S, context)
         IN  ProofVerifies(Proof(c, k - 1), c.root)
<1> DEFINE n == Cardinality(S)
           c == Commitment(S, context)
           p == Proof(c, k - 1)
<1>1. /\ n \in Nat
      /\ c.context = context
      /\ IsASequence(c.leaves) /\ Len(c.leaves) = n
      /\ \A i \in 1..n : c.leaves[i] = LeafHash(context, c.records[i])
      /\ c.tree = TreeRoot(c.leaves) /\ c.root = RootHash(context, n, c.tree)
  BY CommitmentFacts
<1>2. k \in DOMAIN c.leaves
  OBVIOUS
<1> HIDE DEF c, n
<1>3. k \in 1..n /\ k - 1 \in 0..(n - 1) /\ (k - 1) + 1 = k
  BY <1>1, <1>2, SequenceIsFunction
<1>4. /\ p.context = c.context /\ p.count = n /\ p.index = k - 1 /\ p.record = c.records[k]
      /\ p.leaf = c.leaves[k]
  BY <1>1, <1>3 DEF Proof
<1>5. c.leaves[(k - 1) + 1] = LeafHash(c.context, c.records[(k - 1) + 1])
  BY <1>1, <1>3
<1>6. Climbed(p).ok /\ Climbed(p).node = TreeRoot(c.leaves)
  BY <1>1, <1>3, <1>5, ProofClimbs
<1> HIDE DEF p
<1>7. ProofVerifies(p, c.root)
  BY <1>1, <1>3, <1>4, <1>6 DEF ProofVerifies
<1> QED  BY <1>7 DEF c, p

\* Whatever path and position a proof claims, it verifies against the root
\* of a batch only for a record of the batch.
LEMMA OnlyMembersAreProven ==
  ASSUME NEW S, RecordSet(S), S # {}, NEW context,
         NEW p, Len(p.siblings) \in Nat, IsRecord(p.record),
         ProofVerifies(p, Commitment(S, context).root)
  PROVE  p.record \in S
<1> DEFINE n == Cardinality(S)
           c == Commitment(S, context)
<1>1. /\ n \in Nat
      /\ c.records \in [1..n -> S]
      /\ IsASequence(c.leaves) /\ Len(c.leaves) = n
      /\ \A i \in 1..n : c.leaves[i] = LeafHash(context, c.records[i])
      /\ c.tree = TreeRoot(c.leaves) /\ c.root = RootHash(context, n, c.tree)
  BY CommitmentFacts
<1>2. n >= 1
  <2>1. n # 0
    BY FS_EmptySet DEF RecordSet
  <2> HIDE DEF n
  <2> QED  BY <1>1, <2>1
<1>3. RootHash(p.context, p.count, Climbed(p).node) = c.root
  BY DEF ProofVerifies
<1> HIDE DEF n, c
<1>4. p.context = context /\ Climbed(p).node = TreeRoot(c.leaves)
  BY <1>1, <1>3 DEF RootHash
<1>5. Len(c.leaves) >= 1 /\ \A i \in 1..Len(c.leaves) : \E x, r : c.leaves[i] = LeafHash(x, r)
  BY <1>1, <1>2
<1>6. LeafHash(p.context, p.record) \in Nodes(c.leaves)
  BY <1>1, <1>4, <1>5, OnlyLeavesReachTheRoot
<1>7. PICK i \in 1..n : LeafHash(context, p.record) = LeafHash(context, c.records[i])
  BY <1>1, <1>4, <1>6 DEF Nodes
<1> DEFINE r == p.record
           q == c.records[i]
<1>8. q \in S /\ IsRecord(q) /\ IsRecord(r)
  BY <1>1 DEF RecordSet
<1>9. LeafHash(context, r) = LeafHash(context, q)
  BY <1>7
<1> HIDE DEF r, q
<1>10. r.session = q.session /\ r.start = q.start /\ r.hash = q.hash
  BY <1>9 DEF LeafHash
<1>11. r = q
  BY <1>8, <1>10 DEF IsRecord
<1> QED  BY <1>8, <1>11 DEF r

-----------------------------------------------------------------------------
(***************************************************************************)
(* Roots of meter streams.                                                 *)
(***************************************************************************)
\* A tuple of hashes is no empty text.
LEMMA TuplesAreNotEmpty ==
  \A x, y, z : <<x>> # <<>> /\ <<x, y>> # <<>> /\ <<x, y, z>> # <<>>
<1>1. \A x, y, z : Len(<<x>>) = 1 /\ Len(<<x, y>>) = 2 /\ Len(<<x, y, z>>) = 3 /\ Len(<<>>) = 0
  OBVIOUS
<1> QED  BY <1>1

\* No node of a tree is empty, if no leaf is.
NoneEmpty(level) == \A i \in 1..Len(level) : level[i] # <<>>

\* The root of leaves that are not empty is not empty.
LEMMA RootIsNotEmpty ==
  ASSUME NEW leaves, IsASequence(leaves), Len(leaves) >= 1, NoneEmpty(leaves)
  PROVE  TreeRoot(leaves) # <<>>
<1> DEFINE N == Len(leaves)
           Bad == {n \in 0..N : ~NoneEmpty(Level(leaves)[n])}
<1>1. N \in Nat
  BY SequenceIsFunction
<1>2. Level(leaves)[0] = leaves /\ \A n \in 1..N : Level(leaves)[n] = NextLevel(Level(leaves)[n - 1])
  BY <1>1, LevelDef
<1>3. (\A n \in 0..N : LevelOK(leaves, n)) /\ Len(Level(leaves)[N]) = 1
  BY LevelFacts
<1>4. Bad = {}
  <2> SUFFICES ASSUME Bad # {} PROVE FALSE
    OBVIOUS
  <2>1. PICK d \in Bad : \A e \in Bad : d <= e
    <3>1. Bad \in SUBSET Nat
      BY <1>1
    <3> HIDE DEF Bad
    <3> QED  BY <3>1, LeastOf
  <2>2. d \in 1..N /\ d - 1 \in 0..N
    BY <1>1, <1>2
  <2> DEFINE below == Level(leaves)[d - 1]
  <2>3. NoneEmpty(below) /\ Level(leaves)[d] = NextLevel(below) /\ ~NoneEmpty(NextLevel(below))
    BY <1>1, <1>2, <2>1, <2>2
  <2>4. IsASequence(below) /\ Len(below) >= 1
    BY <1>3, <2>2 DEF LevelOK
  <2> HIDE DEF below
  <2>5. NextLevel(below) = Above(below)
    BY <2>3 DEF NextLevel
  <2>6. \A i \in 1..Len(Above(below)) : Above(below)[i] = Pair(below, i)
    BY <2>4, AboveFacts
  <2>7. NoneEmpty(Above(below))
    BY <2>6, TuplesAreNotEmpty DEF NoneEmpty, Pair
  <2> QED  BY <2>3, <2>5, <2>7
<1>5. NoneEmpty(Level(leaves)[N])
  BY <1>1, <1>4
<1> QED  BY <1>3, <1>5 DEF TreeRoot, NoneEmpty
=============================================================================
