---------------------------- MODULE PayloadProofs ----------------------------
(***************************************************************************)
(* A cube that is written as a hash is read back from it, and through the  *)
(* buffers of client and worker it arrives: for any moves that a client    *)
(* makes, any size of the buffers and whatever they held before.           *)
(***************************************************************************)
EXTENDS Payload, FiniteSetTheorems, SequenceTheorems, WellFoundedInduction, TLAPS

-----------------------------------------------------------------------------
(* Moves make cubes.                                                       *)

(* A set of numbers has a smallest one. *)
LEMMA Smallest ==
  ASSUME NEW T \in SUBSET Nat, T # {}
  PROVE  \E n \in T : \A m \in T : n <= m
<1>1. PICK n \in T : \A m \in T : ~ (<<m, n>> \in OpToRel(<, Nat))
  BY NatLessThanWellFounded, WFMin
<1>2. \A m \in T : ~ (m < n)
  BY <1>1 DEF OpToRel
<1> QED BY <1>2

LEMMA MaxIsInSet ==
  ASSUME NEW n \in Nat, NEW S \in SUBSET (1 .. n), S # {}
  PROVE  Max(S) \in S
<1> DEFINE T == {k \in Nat : \A x \in S : x <= k}
<1>1. n \in T
  OBVIOUS
<1>2. PICK k \in T : \A m \in T : k <= m
  BY <1>1, Smallest
<1>3. k \in S
  <2>1. SUFFICES ASSUME k \notin S PROVE FALSE
    OBVIOUS
  <2>2. PICK x \in S : x \in 1 .. n /\ x <= k
    BY <1>2
  <2>3. k - 1 \in T
    BY <1>2, <2>1, <2>2
  <2> QED BY <1>2, <2>3
<1>4. \A y \in S : k >= y
  BY <1>2
<1> QED BY <1>3, <1>4 DEF Max

LEMMA MultUnreflected ==
  ASSUME NEW p \in UnreflectedPermutations, NEW m \in Moves
  PROVE  mult(p, CanonicalPermutation[m]) \in UnreflectedPermutations
<1> DEFINE q == CanonicalPermutation[m]
<1>1. q \in UnreflectedPermutations
  BY MovesDoNotReflect
<1> HIDE DEF q
<1> USE <1>1 DEF UnreflectedPermutations
<1>2. [i \in CornerCubies |-> p.corner[q.corner[i]]] \in [CornerCubies -> CornerCubies]
  OBVIOUS
<1>3. [i \in CornerCubies |-> orientation_sum[p.twist[q.corner[i]]][q.twist[i]]]
        \in [CornerCubies -> 0 .. 2]
  BY MovesDoNotReflect
<1>4. [i \in EdgeCubies |-> p.edge[q.edge[i]]] \in [EdgeCubies -> EdgeCubies]
  OBVIOUS
<1>5. [i \in EdgeCubies |-> (p.flip[q.edge[i]] + q.flip[i]) % 2] \in [EdgeCubies -> {0, 1}]
  <2>1. \A a, b \in {0, 1} : (a + b) % 2 \in {0, 1}
    OBVIOUS
  <2> QED BY <2>1
<1>6. mult(p, q) \in UnreflectedPermutations
  BY <1>2, <1>3, <1>4, <1>5 DEF mult, Permutation
<1> QED BY <1>6 DEF q

(* The function that folds some moves. *)
FoldOf(p, s, g, S) ==
  IF S = {} THEN p ELSE mult(g[S \ {Max(S)}], CanonicalPermutation[s[Max(S)]])

Folds(p, s, g) == g = [S \in SUBSET DOMAIN s |-> FoldOf(p, s, g, S)]

LEMMA ApplyFolds ==
  ASSUME NEW p, NEW s \in Seq(Moves)
  PROVE  apply(p, s) = (CHOOSE g : Folds(p, s, g))[DOMAIN s]
BY DEF apply, FoldLeft, MapThenFoldSet, Folds, FoldOf

LEMMA WithoutMax ==
  ASSUME NEW s \in Seq(Moves), NEW S \in SUBSET DOMAIN s, S # {}
  PROVE  /\ Max(S) \in DOMAIN s /\ s[Max(S)] \in Moves
         /\ S \ {Max(S)} \in SUBSET DOMAIN s
         /\ Cardinality(S) \in Nat
         /\ Cardinality(S \ {Max(S)}) = Cardinality(S) - 1
         /\ Cardinality(S \ {Max(S)}) \in Nat
<1>1. DOMAIN s = 1 .. Len(s) /\ Len(s) \in Nat
  OBVIOUS
<1>2. Max(S) \in S
  BY <1>1, MaxIsInSet
<1>3. IsFiniteSet(S)
  <2>1. IsFiniteSet(DOMAIN s)
    BY <1>1, FS_Interval
  <2> QED BY <2>1, FS_Subset
<1>4. /\ Cardinality(S) \in Nat /\ Cardinality(S \ {Max(S)}) = Cardinality(S) - 1
      /\ IsFiniteSet(S \ {Max(S)})
  BY <1>2, <1>3, FS_CardinalityType, FS_RemoveElement
<1> QED BY <1>2, <1>4, FS_CardinalityType

LEMMA SomethingFolds ==
  ASSUME NEW p, NEW s \in Seq(Moves)
  PROVE  \E g : Folds(p, s, g)
<1> DEFINE Upto(n, g) == \A S \in SUBSET DOMAIN s : Cardinality(S) <= n => g[S] = FoldOf(p, s, g, S)
           T == {n \in Nat : ~ \E g : Upto(n, g)}
<1>1. T = {}
  <2>1. SUFFICES ASSUME T # {} PROVE FALSE
    OBVIOUS
  <2>2. PICK n \in T : \A m \in T : n <= m
    BY <2>1, Smallest
  <2>3. \E g : n # 0 => Upto(n - 1, g)
    BY <2>2
  <2>4. PICK g : n # 0 => Upto(n - 1, g)
    BY <2>3
  <2> DEFINE h == [S \in SUBSET DOMAIN s |-> FoldOf(p, s, g, S)]
  <2>5. ASSUME NEW S \in SUBSET DOMAIN s, Cardinality(S) <= n PROVE h[S] = FoldOf(p, s, h, S)
    <3>1. CASE S = {}
      BY <3>1 DEF FoldOf
    <3>2. CASE S # {}
      <4> DEFINE R == S \ {Max(S)}
      <4>1. R \in SUBSET DOMAIN s /\ Cardinality(R) <= n - 1 /\ n # 0
        <5>1. /\ R \in SUBSET DOMAIN s /\ Cardinality(S) \in Nat
              /\ Cardinality(R) = Cardinality(S) - 1 /\ Cardinality(R) \in Nat
          BY <3>2, WithoutMax
        <5> HIDE DEF R
        <5> QED BY <2>5, <5>1
      <4>2. g[R] = FoldOf(p, s, g, R)
        BY <2>4, <4>1
      <4>3. h[R] = g[R]
        BY <4>1, <4>2
      <4> QED BY <3>2, <4>3 DEF FoldOf
    <3> QED BY <3>1, <3>2
  <2>6. Upto(n, h)
    BY <2>5
  <2> QED BY <2>2, <2>6
<1>2. Cardinality(DOMAIN s) \in Nat /\ \A S \in SUBSET DOMAIN s : Cardinality(S) <= Cardinality(DOMAIN s)
  <2>1. DOMAIN s = 1 .. Len(s) /\ Len(s) \in Nat
    OBVIOUS
  <2>2. IsFiniteSet(DOMAIN s)
    BY <2>1, FS_Interval
  <2> QED BY <2>2, FS_CardinalityType, FS_Subset
<1>3. PICK g : Upto(Cardinality(DOMAIN s), g)
  BY <1>1, <1>2
<1> DEFINE h == [S \in SUBSET DOMAIN s |-> g[S]]
<1>4. \A S \in SUBSET DOMAIN s : g[S] = FoldOf(p, s, g, S)
  BY <1>2, <1>3
<1>5. ASSUME NEW S \in SUBSET DOMAIN s PROVE h[S] = FoldOf(p, s, h, S)
  <2>1. CASE S = {}
    BY <1>4, <2>1 DEF FoldOf
  <2>2. CASE S # {}
    BY <1>4, <2>2, WithoutMax DEF FoldOf
  <2> QED BY <2>1, <2>2
<1>6. Folds(p, s, h)
  BY <1>5 DEF Folds
<1> QED BY <1>6

(* What the code does move by move. *)
LEMMA ApplySteps ==
  ASSUME NEW p \in UnreflectedPermutations, NEW s \in Seq(Moves)
  PROVE  \E f \in [0 .. Len(s) -> UnreflectedPermutations] :
           /\ f[0] = p
           /\ \A k \in 1 .. Len(s) : f[k] = mult(f[k - 1], CanonicalPermutation[s[k]])
           /\ apply(p, s) = f[Len(s)]
<1> DEFINE g == CHOOSE h : Folds(p, s, h)
<1>1. Folds(p, s, g) /\ apply(p, s) = g[DOMAIN s]
  BY ApplyFolds, SomethingFolds
<1> HIDE DEF g
<1>2. DOMAIN s = 1 .. Len(s) /\ Len(s) \in Nat /\ \A k \in 1 .. Len(s) : s[k] \in Moves
  OBVIOUS
<1>3. \A S \in SUBSET (1 .. Len(s)) : g[S] = FoldOf(p, s, g, S)
  BY <1>1, <1>2 DEF Folds
<1> DEFINE f == [k \in 0 .. Len(s) |-> g[1 .. k]]
<1>4. f[0] = p
  <2>1. 1 .. 0 = {} /\ 0 \in 0 .. Len(s)
    BY <1>2
  <2>2. g[{}] = p
    BY <1>3 DEF FoldOf
  <2> QED BY <2>1, <2>2
<1>5. ASSUME NEW k \in 1 .. Len(s) PROVE f[k] = mult(f[k - 1], CanonicalPermutation[s[k]])
  <2>1. 1 .. k \in SUBSET (1 .. Len(s)) /\ 1 .. k # {} /\ k - 1 \in 0 .. Len(s) /\ k \in 0 .. Len(s)
    <3>1. k \in Nat /\ 1 <= k /\ k <= Len(s)
      BY <1>2
    <3>2. k \in 1 .. k
      BY <3>1
    <3>3. \A j \in 1 .. k : j \in 1 .. Len(s)
      BY <1>2, <3>1
    <3>4. k - 1 \in 0 .. Len(s) /\ k \in 0 .. Len(s)
      BY <1>2, <3>1
    <3> QED BY <3>2, <3>3, <3>4
  <2>2. Max(1 .. k) = k
    <3>1. k \in 1 .. k /\ \A y \in 1 .. k : k >= y
      BY <1>2
    <3>2. \A x \in 1 .. k : (\A y \in 1 .. k : x >= y) => x = k
      BY <1>2
    <3> QED BY <3>1, <3>2 DEF Max
  <2>3. (1 .. k) \ {k} = 1 .. (k - 1)
    BY <1>2
  <2>4. g[1 .. k] = mult(g[1 .. (k - 1)], CanonicalPermutation[s[k]])
    BY <1>3, <2>1, <2>2, <2>3 DEF FoldOf
  <2> QED BY <2>1, <2>4
<1>6. ASSUME NEW k \in 0 .. Len(s) PROVE f[k] \in UnreflectedPermutations
  <2> DEFINE T == {n \in Nat : n <= Len(s) /\ f[n] \notin UnreflectedPermutations}
  <2>1. SUFFICES ASSUME T # {} PROVE FALSE
    <3>1. k \in Nat /\ k <= Len(s)
      BY <1>2
    <3> HIDE DEF f
    <3> QED BY <3>1
  <2>2. PICK n \in T : \A m \in T : n <= m
    BY <2>1, Smallest
  <2>3. n # 0
    BY <1>4, <2>2
  <2>4. n \in 1 .. Len(s) /\ n - 1 \in Nat /\ n - 1 \notin T /\ n - 1 <= Len(s)
    BY <1>2, <2>2, <2>3
  <2>5. f[n - 1] \in UnreflectedPermutations
    BY <2>4
  <2>6. s[n] \in Moves
    BY <1>2, <2>4
  <2>7. f[n] = mult(f[n - 1], CanonicalPermutation[s[n]])
    BY <1>5, <2>4
  <2> HIDE DEF f
  <2>8. f[n] \in UnreflectedPermutations
    BY <2>5, <2>6, <2>7, MultUnreflected
  <2> QED BY <2>2, <2>8
<1>7. apply(p, s) = f[Len(s)]
  BY <1>1, <1>2
<1>8. f \in [0 .. Len(s) -> UnreflectedPermutations]
  BY <1>6
<1> HIDE DEF f
<1> QED BY <1>4, <1>5, <1>7, <1>8

LEMMA IdentityType == identity \in UnreflectedPermutations
BY DEF identity, Permutation, UnreflectedPermutations

LEMMA MovesMakeCubes ==
  ASSUME NEW s \in Seq(Moves)
  PROVE  cube_of(s) \in UnreflectedPermutations
BY ApplySteps, IdentityType DEF cube_of

LEMMA TakenBack ==
  ASSUME NEW p \in UnreflectedPermutations, NEW m \in Moves
  PROVE  mult(mult(p, CanonicalPermutation[m]), CanonicalPermutation[Opposite(m)]) = p
<1> DEFINE a == CanonicalPermutation[m]
           b == CanonicalPermutation[Opposite(m)]
<1>1. a \in UnreflectedPermutations /\ b \in UnreflectedPermutations /\ mult(a, b) = identity
  BY MovesAreTakenBack, MovesDoNotReflect
<1> HIDE DEF a, b
<1> USE <1>1 DEF UnreflectedPermutations
<1>2. \A i \in CornerCubies :
        /\ b.corner[i] \in CornerCubies /\ a.corner[b.corner[i]] = i
        /\ orientation_sum[a.twist[b.corner[i]]][b.twist[i]] = 0
  BY DEF mult, identity, Permutation
<1>3. \A i \in EdgeCubies :
        /\ b.edge[i] \in EdgeCubies /\ a.edge[b.edge[i]] = i
        /\ (a.flip[b.edge[i]] + b.flip[i]) % 2 = 0
  BY DEF mult, identity, Permutation
<1> DEFINE q == mult(p, a)
<1>4. /\ q.corner = [i \in CornerCubies |-> p.corner[a.corner[i]]]
      /\ q.twist = [i \in CornerCubies |-> orientation_sum[p.twist[a.corner[i]]][a.twist[i]]]
      /\ q.edge = [i \in EdgeCubies |-> p.edge[a.edge[i]]]
      /\ q.flip = [i \in EdgeCubies |-> (p.flip[a.edge[i]] + a.flip[i]) % 2]
  BY DEF mult, Permutation
<1> HIDE DEF q
<1>5. \A j \in CornerCubies : /\ q.corner[j] = p.corner[a.corner[j]]
                              /\ q.twist[j] = orientation_sum[p.twist[a.corner[j]]][a.twist[j]]
  BY <1>4
<1>6. \A j \in EdgeCubies : q.edge[j] = p.edge[a.edge[j]]
                             /\ q.flip[j] = (p.flip[a.edge[j]] + a.flip[j]) % 2
  BY <1>4
<1>7. [i \in CornerCubies |-> q.corner[b.corner[i]]] = p.corner
  <2>1. \A i \in CornerCubies : q.corner[b.corner[i]] = p.corner[i]
    BY <1>2, <1>5
  <2> QED BY <2>1
<1>8. [i \in CornerCubies |-> orientation_sum[q.twist[b.corner[i]]][b.twist[i]]] = p.twist
  <2> SUFFICES ASSUME NEW i \in CornerCubies
               PROVE  orientation_sum[q.twist[b.corner[i]]][b.twist[i]] = p.twist[i]
    OBVIOUS
  <2>1. q.twist[b.corner[i]] = orientation_sum[p.twist[i]][a.twist[b.corner[i]]]
    BY <1>2, <1>5
  <2>2. p.twist[i] \in 0 .. 2 /\ a.twist[b.corner[i]] \in 0 .. 2 /\ b.twist[i] \in 0 .. 2
    BY <1>2
  <2>3. (a.twist[b.corner[i]] + b.twist[i]) % 3 = 0
    BY <1>2, <2>2, MovesDoNotReflect
  <2>4. \A x, y, z \in 0 .. 2 :
          (y + z) % 3 = 0 => (x + y) % 3 \in 0 .. 2 /\ (((x + y) % 3) + z) % 3 = x
    OBVIOUS
  <2>5. PICK x, y, z : x = p.twist[i] /\ y = a.twist[b.corner[i]] /\ z = b.twist[i]
    OBVIOUS
  <2>6. x \in 0 .. 2 /\ y \in 0 .. 2 /\ z \in 0 .. 2 /\ (y + z) % 3 = 0
    BY <2>2, <2>3, <2>5
  <2>7. (x + y) % 3 \in 0 .. 2 /\ (((x + y) % 3) + z) % 3 = x
    BY <2>4, <2>6
  <2>8. orientation_sum[x][y] = (x + y) % 3
    BY <2>6, MovesDoNotReflect
  <2>9. orientation_sum[(x + y) % 3][z] = (((x + y) % 3) + z) % 3
    BY <2>6, <2>7, MovesDoNotReflect
  <2>10. orientation_sum[orientation_sum[x][y]][z] = x
    BY <2>7, <2>8, <2>9
  <2> QED BY <2>1, <2>5, <2>10
<1>9. [i \in EdgeCubies |-> q.edge[b.edge[i]]] = p.edge
  <2>1. \A i \in EdgeCubies : q.edge[b.edge[i]] = p.edge[i]
    BY <1>3, <1>6
  <2> QED BY <2>1
<1>10. [i \in EdgeCubies |-> (q.flip[b.edge[i]] + b.flip[i]) % 2] = p.flip
  <2> SUFFICES ASSUME NEW i \in EdgeCubies
               PROVE  (q.flip[b.edge[i]] + b.flip[i]) % 2 = p.flip[i]
    OBVIOUS
  <2>1. q.flip[b.edge[i]] = (p.flip[i] + a.flip[b.edge[i]]) % 2
    BY <1>3, <1>6
  <2>2. p.flip[i] \in {0, 1} /\ a.flip[b.edge[i]] \in {0, 1} /\ b.flip[i] \in {0, 1}
    BY <1>3
  <2>3. \A x, y, z \in {0, 1} : (y + z) % 2 = 0 => (((x + y) % 2) + z) % 2 = x
    OBVIOUS
  <2> QED BY <1>3, <2>1, <2>2, <2>3
<1>11. mult(q, b) = Permutation(p.corner, p.twist, p.edge, p.flip)
  BY <1>7, <1>8, <1>9, <1>10 DEF mult
<1>12. mult(q, b) = p
  BY <1>11 DEF Permutation
<1> QED BY <1>12 DEF q, a, b

(* Taking back the moves of a cube, the last one first, solves it. *)
LEMMA SolvesIsASolution ==
  ASSUME NEW s \in Seq(Moves)
  PROVE  Solves(s) \in Seq(Moves) /\ apply(cube_of(s), Solves(s)) = identity
<1> DEFINE n == Len(s)
           t == Solves(s)
<1>1. n \in Nat /\ DOMAIN s = 1 .. n /\ \A k \in 1 .. n : s[k] \in Moves
  OBVIOUS
<1>2. ASSUME NEW k \in 1 .. n
      PROVE  n + 1 - k \in 1 .. n /\ t[k] = Opposite(s[n + 1 - k]) /\ t[k] \in Moves
  BY <1>1, MovesAreTakenBack DEF Solves
<1>3. t \in [1 .. n -> Moves]
  BY <1>1, <1>2 DEF Solves
<1>4. t \in Seq(Moves) /\ Len(t) = n
  BY <1>1, <1>3
<1> HIDE DEF t, n
<1>5. PICK f \in [0 .. n -> UnreflectedPermutations] :
        /\ f[0] = identity
        /\ \A k \in 1 .. n : f[k] = mult(f[k - 1], CanonicalPermutation[s[k]])
        /\ cube_of(s) = f[n]
  BY ApplySteps, IdentityType DEF n, cube_of
<1>6. cube_of(s) \in UnreflectedPermutations
  BY MovesMakeCubes
<1>7. PICK g \in [0 .. n -> UnreflectedPermutations] :
        /\ g[0] = cube_of(s)
        /\ \A k \in 1 .. n : g[k] = mult(g[k - 1], CanonicalPermutation[t[k]])
        /\ apply(cube_of(s), t) = g[n]
  BY <1>4, <1>6, ApplySteps
<1> DEFINE T == {k \in Nat : k <= n /\ g[k] # f[n - k]}
<1>8. T = {}
  <2>1. SUFFICES ASSUME T # {} PROVE FALSE
    OBVIOUS
  <2>2. PICK k \in T : \A m \in T : k <= m
    BY <2>1, Smallest
  <2>3. k # 0
    BY <1>1, <1>5, <1>7, <2>2
  <2>4. k \in 1 .. n /\ k - 1 \in Nat /\ k - 1 <= n /\ k - 1 \notin T
    BY <1>1, <2>2, <2>3
  <2>5. g[k - 1] = f[n - (k - 1)] /\ n - (k - 1) = n + 1 - k
    BY <1>1, <2>4
  <2> DEFINE j == n + 1 - k
  <2>6. j \in 1 .. n /\ j - 1 \in 0 .. n /\ j - 1 = n - k /\ s[j] \in Moves /\ t[k] = Opposite(s[j])
    BY <1>1, <1>2, <2>4 DEF t, n
  <2> HIDE DEF j
  <2>7. f[j] = mult(f[j - 1], CanonicalPermutation[s[j]]) /\ f[j - 1] \in UnreflectedPermutations
    BY <1>5, <2>6
  <2>8. g[k] = mult(f[j], CanonicalPermutation[Opposite(s[j])])
    BY <1>7, <2>4, <2>5, <2>6 DEF j
  <2>9. g[k] = f[n - k]
    BY <2>6, <2>7, <2>8, TakenBack
  <2> QED BY <2>2, <2>9
<1>9. g[n] = f[0]
  <2>1. n \in Nat /\ n <= n /\ n - n = 0
    BY <1>1
  <2> QED BY <1>8, <2>1
<1> QED BY <1>4, <1>5, <1>7, <1>9 DEF t

-----------------------------------------------------------------------------
(* Moves are read back from their names.                                   *)

Letter == {"U", "R", "F", "D", "L", "B", "2", "i", " "}

Piece(m) == Append(CanonicalPermutationName[m], " ")

LEMMA Appended ==
  ASSUME NEW S, NEW s \in Seq(S), NEW e \in S
  PROVE  /\ Append(s, e) \in Seq(S) /\ Len(Append(s, e)) = Len(s) + 1
         /\ \A i \in 1 .. Len(s) : Append(s, e)[i] = s[i]
         /\ Append(s, e)[Len(s) + 1] = e
BY AppendProperties

LEMMA PieceIs ==
  ASSUME NEW m \in Moves
  PROVE  /\ Piece(m) \in Seq(Letter)
         /\ Piece(m)[1] \in {"U", "R", "F", "D", "L", "B"} /\ FaceOf(Piece(m)[1]) = m % 6
         /\ \/ m \div 6 = 0 /\ Len(Piece(m)) = 2 /\ Piece(m)[2] = " "
            \/ m \div 6 = 1 /\ Len(Piece(m)) = 3 /\ Piece(m)[2] = "2" /\ Piece(m)[3] = " "
            \/ m \div 6 = 2 /\ Len(Piece(m)) = 3 /\ Piece(m)[2] = "i" /\ Piece(m)[3] = " "
<1>1. m \div 6 = 0 \/ m \div 6 = 1 \/ m \div 6 = 2
  BY DEF Moves
<1>2. PICK name : name = CanonicalPermutationName[m]
  OBVIOUS
<1>3. /\ name \in Seq({"U", "R", "F", "D", "L", "B", "2", "i"})
      /\ name[1] \in {"U", "R", "F", "D", "L", "B"} /\ FaceOf(name[1]) = m % 6
      /\ m \div 6 = 0 => Len(name) = 1
      /\ m \div 6 = 1 => Len(name) = 2 /\ name[2] = "2"
      /\ m \div 6 = 2 => Len(name) = 2 /\ name[2] = "i"
  BY <1>2, NamesAreRead
<1>4. PICK space : space = " "
  OBVIOUS
<1>5. space \in Letter
  BY <1>4 DEF Letter
<1>6. name \in Seq(Letter)
  <2>1. {"U", "R", "F", "D", "L", "B", "2", "i"} \subseteq Letter
    BY DEF Letter
  <2> QED BY <1>3, <2>1, SeqMonotonic
<1>7. Append(name, space) \in Seq(Letter)
  BY <1>5, <1>6, Appended
<1>8. Len(Append(name, space)) = Len(name) + 1
  BY <1>5, <1>6, Appended
<1>9. \A i \in 1 .. Len(name) : Append(name, space)[i] = name[i]
  BY <1>5, <1>6, Appended
<1>10. Append(name, space)[Len(name) + 1] = space
  BY <1>5, <1>6, Appended
<1>11. Piece(m) = Append(name, space)
  BY <1>2, <1>4 DEF Piece
<1>12. Piece(m) \in Seq(Letter)
  BY <1>7, <1>11
<1>13. ASSUME Len(name) = 1
       PROVE  Len(Piece(m)) = 2 /\ Piece(m)[1] = name[1] /\ Piece(m)[2] = " "
  <2>1. Len(Piece(m)) = 2
    BY <1>8, <1>11, <1>13
  <2>2. Piece(m)[1] = name[1]
    BY <1>9, <1>11, <1>13
  <2>3. Piece(m)[2] = space
    <3>1. Piece(m)[Len(name) + 1] = space
      BY <1>10, <1>11
    <3>2. Len(name) + 1 = 2
      BY <1>13
    <3> QED BY <3>1, <3>2
  <2> QED BY <1>4, <2>1, <2>2, <2>3
<1>14. ASSUME Len(name) = 2
       PROVE  /\ Len(Piece(m)) = 3 /\ Piece(m)[1] = name[1]
              /\ Piece(m)[2] = name[2] /\ Piece(m)[3] = " "
  <2>1. Len(Piece(m)) = 3
    BY <1>8, <1>11, <1>14
  <2>2. Piece(m)[1] = name[1] /\ Piece(m)[2] = name[2]
    BY <1>9, <1>11, <1>14
  <2>3. Piece(m)[3] = space
    <3>1. Piece(m)[Len(name) + 1] = space
      BY <1>10, <1>11
    <3>2. Len(name) + 1 = 3
      BY <1>14
    <3> QED BY <3>1, <3>2
  <2> QED BY <1>4, <2>1, <2>2, <2>3
<1>15. Len(name) = 1 \/ Len(name) = 2
  BY <1>1, <1>3
<1>16. Piece(m)[1] = name[1]
  BY <1>13, <1>14, <1>15
<1>17. CASE m \div 6 = 0
  BY <1>3, <1>12, <1>13, <1>16, <1>17
<1>18. CASE m \div 6 = 1
  BY <1>3, <1>12, <1>14, <1>16, <1>18
<1>19. CASE m \div 6 = 2
  BY <1>3, <1>12, <1>14, <1>16, <1>19
<1> QED BY <1>1, <1>17, <1>18, <1>19

(* The function by which FlattenSeq is defined. *)
FlatOf(pieces, g, i) == IF i = 1 THEN pieces[i] ELSE g[i - 1] \o pieces[i]

Flattens(pieces, g) == g = [i \in 1 .. Len(pieces) |-> FlatOf(pieces, g, i)]

LEMMA SomethingFlattens ==
  ASSUME NEW pieces, Len(pieces) \in Nat
  PROVE  \E g : Flattens(pieces, g)
<1> DEFINE D == 1 .. Len(pieces)
           Upto(n, g) == \A i \in D : i <= n => g[i] = FlatOf(pieces, g, i)
           T == {n \in Nat : ~ \E g : Upto(n, g)}
<1>1. T = {}
  <2>1. SUFFICES ASSUME T # {} PROVE FALSE
    OBVIOUS
  <2>2. PICK n \in T : \A m \in T : n <= m
    BY <2>1, Smallest
  <2>3. \E g : n # 0 => Upto(n - 1, g)
    BY <2>2
  <2>4. PICK g : n # 0 => Upto(n - 1, g)
    BY <2>3
  <2> DEFINE h == [i \in D |-> FlatOf(pieces, g, i)]
  <2>5. ASSUME NEW i \in D, i <= n PROVE h[i] = FlatOf(pieces, h, i)
    <3>1. CASE i = 1
      BY <3>1 DEF FlatOf
    <3>2. CASE i # 1
      <4>1. i - 1 \in D /\ i - 1 <= n - 1 /\ n # 0
        BY <2>5, <3>2
      <4>2. h[i - 1] = g[i - 1]
        BY <2>4, <4>1
      <4> QED BY <3>2, <4>2 DEF FlatOf
    <3> QED BY <3>1, <3>2
  <2>6. Upto(n, h)
    BY <2>5
  <2> QED BY <2>2, <2>6
<1>2. PICK g : Upto(Len(pieces), g)
  BY <1>1
<1> DEFINE h == [i \in D |-> g[i]]
<1>3. \A i \in D : g[i] = FlatOf(pieces, g, i)
  BY <1>2
<1>4. ASSUME NEW i \in D PROVE h[i] = FlatOf(pieces, h, i)
  <2>1. i # 1 => i - 1 \in D
    OBVIOUS
  <2> QED BY <1>3, <2>1 DEF FlatOf
<1>5. Flattens(pieces, h)
  BY <1>4 DEF Flattens
<1> QED BY <1>5

(* The text grows by a name at a time. *)
LEMMA NamesSteps ==
  ASSUME NEW x \in Seq(Moves)
  PROVE  \E f \in [0 .. Len(x) -> Seq(Letter)] :
           /\ f[0] = <<>>
           /\ \A k \in 1 .. Len(x) : f[k] = f[k - 1] \o Piece(x[k])
           /\ move_names(x) = f[Len(x)]
<1> DEFINE n == Len(x)
           pieces == [i \in 1 .. n |-> Piece(x[i])]
<1>1. n \in Nat /\ \A k \in 1 .. n : x[k] \in Moves
  OBVIOUS
<1>2. Len(pieces) = n
  <2>1. pieces \in [1 .. n -> {Piece(x[i]) : i \in 1 .. n}]
    OBVIOUS
  <2>2. pieces \in Seq({Piece(x[i]) : i \in 1 .. n})
    BY <1>1, <2>1
  <2> QED BY <1>1, <2>1, <2>2
<1>3. move_names(x) = FlattenSeq(pieces)
  BY DEF move_names, Piece
<1> DEFINE g == CHOOSE h : Flattens(pieces, h)
<1>4. n # 0 => move_names(x) = g[n]
  <2>1. FlattenSeq(pieces) = IF Len(pieces) = 0 THEN pieces ELSE g[Len(pieces)]
    BY DEF FlattenSeq, Flattens, FlatOf
  <2> HIDE DEF g, pieces
  <2> QED BY <1>2, <1>3, <2>1
<1>5. n = 0 => move_names(x) = <<>>
  <2>1. n = 0 => FlattenSeq(pieces) = pieces
    <3> HIDE DEF pieces
    <3> QED BY <1>2 DEF FlattenSeq
  <2> QED BY <1>3, <2>1
<1>6. Flattens(pieces, g)
  BY <1>1, <1>2, SomethingFlattens
<1> HIDE DEF g
<1>7. \A i \in 1 .. n : g[i] = FlatOf(pieces, g, i)
  BY <1>2, <1>6 DEF Flattens
<1> DEFINE f == [k \in 0 .. n |-> IF k = 0 THEN <<>> ELSE g[k]]
<1>8. f[0] = <<>>
  BY <1>1
<1>9. ASSUME NEW k \in 1 .. n PROVE f[k] = f[k - 1] \o Piece(x[k])
  <2>1. k \in 0 .. n /\ k - 1 \in 0 .. n /\ k # 0 /\ f[k] = g[k] /\ pieces[k] = Piece(x[k])
    BY <1>1
  <2>2. CASE k = 1
    <3>1. f[k] = Piece(x[k]) /\ f[k - 1] = <<>>
      BY <1>7, <2>1, <2>2 DEF FlatOf
    <3>2. Piece(x[k]) \in Seq(Letter)
      BY <1>1, PieceIs
    <3> HIDE DEF f
    <3> QED BY <3>1, <3>2
  <2>3. CASE k # 1
    <3>1. f[k - 1] = g[k - 1]
      BY <2>1, <2>3
    <3>2. g[k] = g[k - 1] \o pieces[k]
      BY <1>7, <2>3 DEF FlatOf
    <3> HIDE DEF f, pieces
    <3> QED BY <2>1, <3>1, <3>2
  <2> QED BY <2>2, <2>3
<1> DEFINE T == {k \in Nat : k <= n /\ f[k] \notin Seq(Letter)}
<1>10. T = {}
  <2>1. SUFFICES ASSUME T # {} PROVE FALSE
    OBVIOUS
  <2>2. PICK k \in T : \A m \in T : k <= m
    BY <2>1, Smallest
  <2>3. k # 0
    BY <1>8, <2>2
  <2>4. k \in 1 .. n /\ k - 1 \in Nat /\ k - 1 <= n /\ k - 1 \notin T
    BY <1>1, <2>2, <2>3
  <2> HIDE DEF f
  <2>5. PICK before : before = f[k - 1]
    OBVIOUS
  <2>6. PICK piece : piece = Piece(x[k])
    OBVIOUS
  <2>7. before \in Seq(Letter)
    BY <2>4, <2>5
  <2>8. piece \in Seq(Letter)
    BY <1>1, <2>4, <2>6, PieceIs
  <2>9. before \o piece \in Seq(Letter)
    BY <2>7, <2>8, ConcatProperties
  <2>10. f[k] \in Seq(Letter)
    BY <1>9, <2>4, <2>5, <2>6, <2>9
  <2> QED BY <2>2, <2>10
<1>11. f \in [0 .. n -> Seq(Letter)]
  <2>1. \A k \in 0 .. n : f[k] \in Seq(Letter)
    <3> HIDE DEF f
    <3> QED BY <1>1, <1>10
  <2> QED BY <2>1
<1>12. move_names(x) = f[n]
  BY <1>1, <1>4, <1>5
<1> HIDE DEF f
<1> QED BY <1>8, <1>9, <1>11, <1>12

Extends(s, t) == Len(s) <= Len(t) /\ \A i \in 1 .. Len(s) : t[i] = s[i]

LEMMA ConcatExtends ==
  ASSUME NEW S, NEW s \in Seq(S), NEW t \in Seq(S)
  PROVE  /\ Extends(s, s \o t)
         /\ Len(s \o t) = Len(s) + Len(t)
         /\ \A j \in 1 .. Len(t) : (s \o t)[Len(s) + j] = t[j]
<1>1. Len(s) \in Nat /\ Len(t) \in Nat
  OBVIOUS
<1>2. Len(s \o t) = Len(s) + Len(t)
  BY ConcatProperties
<1>3. \A i \in 1 .. Len(s) + Len(t) : (s \o t)[i] = IF i <= Len(s) THEN s[i] ELSE t[i - Len(s)]
  BY ConcatProperties
<1>4. \A i \in 1 .. Len(s) : i \in 1 .. Len(s) + Len(t) /\ i <= Len(s)
  BY <1>1
<1>5. \A j \in 1 .. Len(t) : /\ Len(s) + j \in 1 .. Len(s) + Len(t)
                             /\ ~ (Len(s) + j <= Len(s)) /\ (Len(s) + j) - Len(s) = j
  BY <1>1
<1>6. \A j \in 1 .. Len(t) : (s \o t)[Len(s) + j] = t[j]
  BY <1>3, <1>5
<1>7. \A i \in 1 .. Len(s) : (s \o t)[i] = s[i]
  BY <1>3, <1>4
<1> QED BY <1>1, <1>2, <1>6, <1>7 DEF Extends

NameAt(text, a, m) ==
  /\ a + Len(Piece(m)) <= Len(text)
  /\ \A j \in 1 .. Len(Piece(m)) : text[a + j] = Piece(m)[j]

(* Where the names stand in the text. *)
StandAt(x, text, e) ==
  /\ e \in [0 .. Len(x) -> Nat] /\ e[0] = 0 /\ e[Len(x)] = Len(text)
  /\ \A k \in 1 .. Len(x) :
       e[k] = e[k - 1] + Len(Piece(x[k])) /\ NameAt(text, e[k - 1], x[k])

LEMMA NamesStand ==
  ASSUME NEW x \in Seq(Moves)
  PROVE  move_names(x) \in Seq(Letter) /\ \E e : StandAt(x, move_names(x), e)
<1> DEFINE n == Len(x)
<1>1. n \in Nat /\ \A k \in 1 .. n : x[k] \in Moves
  OBVIOUS
<1>2. PICK f \in [0 .. n -> Seq(Letter)] :
        /\ f[0] = <<>>
        /\ \A k \in 1 .. n : f[k] = f[k - 1] \o Piece(x[k])
        /\ move_names(x) = f[n]
  BY NamesSteps
<1> HIDE DEF n
<1>3. \A k \in 0 .. n : Len(f[k]) \in Nat
  <2> SUFFICES ASSUME NEW k \in 0 .. n PROVE Len(f[k]) \in Nat
    OBVIOUS
  <2>1. PICK t : t = f[k]
    OBVIOUS
  <2>2. t \in Seq(Letter)
    BY <2>1
  <2> QED BY <2>1, <2>2
<1>4. ASSUME NEW k \in 1 .. n
      PROVE  /\ Extends(f[k - 1], f[k])
             /\ Len(f[k]) = Len(f[k - 1]) + Len(Piece(x[k]))
             /\ \A j \in 1 .. Len(Piece(x[k])) : f[k][Len(f[k - 1]) + j] = Piece(x[k])[j]
  <2>1. PICK before : before = f[k - 1]
    OBVIOUS
  <2>2. PICK piece : piece = Piece(x[k])
    OBVIOUS
  <2>3. k - 1 \in 0 .. n
    BY <1>1
  <2>4. before \in Seq(Letter)
    BY <2>1, <2>3
  <2>5. piece \in Seq(Letter)
    BY <1>1, <2>2, PieceIs
  <2>6. /\ Extends(before, before \o piece)
        /\ Len(before \o piece) = Len(before) + Len(piece)
        /\ \A j \in 1 .. Len(piece) : (before \o piece)[Len(before) + j] = piece[j]
    BY <2>4, <2>5, ConcatExtends
  <2>7. f[k] = before \o piece
    BY <1>2, <2>1, <2>2
  <2> QED BY <2>1, <2>2, <2>6, <2>7
<1> DEFINE T == {m \in Nat : m <= n /\ \E k \in 0 .. m : ~ Extends(f[k], f[m])}
<1>5. T = {}
  <2>1. SUFFICES ASSUME T # {} PROVE FALSE
    OBVIOUS
  <2>2. PICK m \in T : \A l \in T : m <= l
    BY <2>1, Smallest
  <2>3. PICK k \in 0 .. m : ~ Extends(f[k], f[m])
    BY <2>2
  <2>4. k # m
    <3>1. Extends(f[m], f[m])
      BY <1>1, <1>3, <2>2 DEF Extends
    <3> QED BY <2>3, <3>1
  <2>5. m \in 1 .. n /\ m - 1 \in Nat /\ m - 1 <= n /\ k \in 0 .. m - 1 /\ m - 1 \notin T
        /\ m - 1 \in 0 .. n /\ k \in 0 .. n /\ m \in 0 .. n
    BY <1>1, <2>2, <2>3, <2>4
  <2>6. Extends(f[k], f[m - 1]) /\ Extends(f[m - 1], f[m])
    BY <1>4, <2>5
  <2>7. Len(f[k]) \in Nat /\ Len(f[m - 1]) \in Nat /\ Len(f[m]) \in Nat
    BY <1>3, <2>5
  <2>8. Extends(f[k], f[m])
    <3>1. Len(f[k]) <= Len(f[m])
      BY <2>6, <2>7 DEF Extends
    <3>2. \A i \in 1 .. Len(f[k]) : i \in 1 .. Len(f[m - 1])
      BY <2>6, <2>7 DEF Extends
    <3> QED BY <2>6, <3>1, <3>2 DEF Extends
  <2> QED BY <2>3, <2>8
<1>6. ASSUME NEW k \in 0 .. n PROVE Extends(f[k], f[n])
  <2>1. n \in Nat /\ n <= n
    BY <1>1
  <2>2. n \notin T
    <3> HIDE DEF T
    <3> QED BY <1>5
  <2> QED BY <2>1, <2>2
<1> DEFINE e == [k \in 0 .. n |-> Len(f[k])]
<1>7. e \in [0 .. n -> Nat]
  BY <1>3
<1>8. e[0] = 0 /\ e[n] = Len(f[n])
  <2>1. 0 \in 0 .. n /\ n \in 0 .. n /\ Len(<<>>) = 0
    BY <1>1
  <2> QED BY <1>2, <2>1
<1>9. ASSUME NEW k \in 1 .. n
      PROVE  e[k] = e[k - 1] + Len(Piece(x[k])) /\ NameAt(f[n], e[k - 1], x[k])
  <2>1. k - 1 \in 0 .. n /\ k \in 0 .. n
    BY <1>1
  <2>2. e[k] = Len(f[k]) /\ e[k - 1] = Len(f[k - 1])
    BY <2>1
  <2>3. Extends(f[k], f[n])
    BY <1>6, <2>1
  <2>4. Len(Piece(x[k])) \in Nat
    <3>1. PICK piece : piece = Piece(x[k])
      OBVIOUS
    <3>2. piece \in Seq(Letter)
      BY <1>1, <3>1, PieceIs
    <3> QED BY <3>1, <3>2
  <2>5. e[k] = e[k - 1] + Len(Piece(x[k])) /\ e[k] <= Len(f[n])
    BY <1>4, <2>2, <2>3 DEF Extends
  <2>6. ASSUME NEW j \in 1 .. Len(Piece(x[k]))
        PROVE  f[n][e[k - 1] + j] = Piece(x[k])[j]
    <3>1. e[k - 1] \in Nat /\ e[k] \in Nat
      BY <1>7, <2>1
    <3>2. e[k - 1] + j \in 1 .. Len(f[k])
      BY <2>2, <2>4, <2>5, <3>1
    <3>3. f[n][e[k - 1] + j] = f[k][e[k - 1] + j]
      BY <2>3, <3>2 DEF Extends
    <3> QED BY <1>4, <2>2, <3>3
  <2> QED BY <2>5, <2>6 DEF NameAt
<1>10. n \in 0 .. n
  BY <1>1
<1>11. move_names(x) \in Seq(Letter)
  BY <1>2, <1>10
<1> HIDE DEF e
<1>12. StandAt(x, move_names(x), e)
  BY <1>2, <1>7, <1>8, <1>9 DEF StandAt, n
<1> QED BY <1>11, <1>12

(* The function by which the parser is defined. *)
Suffix(text, i) ==
  IF i = Len(text) THEN 0
  ELSE CASE text[i + 1] = "i" -> 12 [] text[i + 1] = "2" -> 6 [] OTHER -> 0

ReadOf(text, R, i) ==
  IF i > Len(text) THEN <<>>
  ELSE CASE text[i] = ";" -> <<>>
         [] text[i] = " " -> R[i + 1]
         [] OTHER -> <<FaceOf(text[i]) + Suffix(text, i)>>
                       \o R[i + IF Suffix(text, i) = 0 THEN 1 ELSE 2]

Reads(text, R) == R = [i \in 1 .. Len(text) + 1 |-> ReadOf(text, R, i)]

LEMMA ParserIs ==
  ASSUME NEW text
  PROVE  parse_moves(text, 1) = (CHOOSE R : Reads(text, R))[1]
BY DEF parse_moves, Reads, ReadOf, Suffix


LEMMA SomethingReads ==
  ASSUME NEW text, Len(text) \in Nat
  PROVE  \E R : Reads(text, R)
<1> DEFINE n == Len(text)
           D == 1 .. n + 1
           Downto(m, R) == \A i \in D : i > m => R[i] = ReadOf(text, R, i)
           Far(d) == \E R : Downto(n + 1 - d, R)
           T == {d \in Nat : d <= n + 1 /\ ~ Far(d)}
<1>1. ASSUME NEW i \in D, i <= n
      PROVE  /\ i + 1 \in D /\ i + (IF Suffix(text, i) = 0 THEN 1 ELSE 2) \in D
             /\ i + (IF Suffix(text, i) = 0 THEN 1 ELSE 2) > i
  <2>1. i = n => Suffix(text, i) = 0
    BY DEF Suffix
  <2> HIDE DEF n
  <2>2. n \in Nat
    BY DEF n
  <2> QED BY <1>1, <2>1, <2>2
<1>2. ASSUME NEW i \in D, NEW R, NEW Q, \A j \in D : j > i => R[j] = Q[j]
      PROVE  ReadOf(text, R, i) = ReadOf(text, Q, i)
  <2>1. CASE i > n
    BY <2>1 DEF ReadOf
  <2>2. CASE i <= n
    <3>1. R[i + 1] = Q[i + 1]
      BY <1>1, <1>2, <2>2
    <3>2. R[i + IF Suffix(text, i) = 0 THEN 1 ELSE 2] = Q[i + IF Suffix(text, i) = 0 THEN 1 ELSE 2]
      BY <1>1, <1>2, <2>2
    <3> QED BY <3>1, <3>2 DEF ReadOf
  <2> QED BY <2>1, <2>2
<1> HIDE DEF n
<1>3. n \in Nat
  BY DEF n
<1>4. T = {}
  <2>1. SUFFICES ASSUME T # {} PROVE FALSE
    OBVIOUS
  <2>2. PICK d \in T : \A m \in T : d <= m
    BY <2>1, Smallest
  <2>3. d \in Nat /\ d <= n + 1 /\ ~ Far(d)
    BY <2>2
  <2>4. Far(0)
    BY <1>3
  <2>5. d # 0
    BY <2>3, <2>4
  <2>6. Far(d - 1)
    <3>1. d - 1 \in Nat /\ d - 1 <= n + 1 /\ ~ (d <= d - 1)
      BY <1>3, <2>3, <2>5
    <3>2. d - 1 \notin T
      <4> HIDE DEF T
      <4> QED BY <2>2, <3>1
    <3> HIDE DEF Far
    <3> QED BY <3>1, <3>2
  <2>7. PICK R : Downto(n + 1 - (d - 1), R)
    BY <2>6
  <2> DEFINE Q == [i \in D |-> ReadOf(text, R, i)]
  <2>8. ASSUME NEW i \in D, i > n + 1 - d PROVE Q[i] = ReadOf(text, Q, i)
    <3>1. \A j \in D : j > i => R[j] = ReadOf(text, R, j)
      BY <1>3, <2>3, <2>7, <2>8
    <3>2. \A j \in D : j > i => R[j] = Q[j]
      BY <3>1
    <3>3. Q[i] = ReadOf(text, R, i)
      OBVIOUS
    <3> HIDE DEF Q
    <3> QED BY <1>2, <3>2, <3>3
  <2> HIDE DEF Q
  <2>9. Far(d)
    BY <2>8
  <2> QED BY <2>3, <2>9
<1>5. PICK R : Downto(0, R)
  <2>1. n + 1 \in Nat /\ n + 1 <= n + 1 /\ n + 1 - (n + 1) = 0
    BY <1>3
  <2>2. n + 1 \notin T
    <3> HIDE DEF T
    <3> QED BY <1>4
  <2>3. Far(n + 1)
    <3> HIDE DEF Far
    <3> QED BY <2>1, <2>2
  <2>4. PICK R : Downto(n + 1 - (n + 1), R)
    BY <2>3
  <2>5. Downto(0, R)
    <3> HIDE DEF Downto
    <3> QED BY <2>1, <2>4
  <2> QED BY <2>5
<1> DEFINE Q == [i \in D |-> R[i]]
<1>6. ASSUME NEW i \in D PROVE Q[i] = ReadOf(text, Q, i)
  <2>1. R[i] = ReadOf(text, R, i)
    BY <1>3, <1>5
  <2>2. \A j \in D : j > i => R[j] = Q[j]
    OBVIOUS
  <2>3. Q[i] = R[i]
    OBVIOUS
  <2> HIDE DEF Q
  <2> QED BY <1>2, <2>1, <2>2, <2>3
<1>7. Reads(text, Q)
  <2>1. Q = [i \in D |-> ReadOf(text, Q, i)]
    BY <1>6
  <2> QED BY <2>1 DEF Reads, n
<1> QED BY <1>7

(* What is read from a name and the space behind it. *)
ReadsOn(R, a, m) == R[a + 1] = <<m>> \o R[a + Len(Piece(m)) + 1]

LEMMA NameIsRead ==
  ASSUME NEW text, Len(text) \in Nat, NEW R, Reads(text, R), NEW m \in Moves,
         NEW a \in Nat, NameAt(text, a, m)
  PROVE  ReadsOn(R, a, m)
<1> DEFINE n == Len(text)
<1>1. \A i \in 1 .. n + 1 : R[i] = ReadOf(text, R, i)
  BY DEF Reads
<1>2. m \in 0 .. 17
  BY DEF Moves
<1>3. /\ Piece(m)[1] \in {"U", "R", "F", "D", "L", "B"} /\ FaceOf(Piece(m)[1]) = m % 6
      /\ \/ m \div 6 = 0 /\ Len(Piece(m)) = 2 /\ Piece(m)[2] = " "
         \/ m \div 6 = 1 /\ Len(Piece(m)) = 3 /\ Piece(m)[2] = "2" /\ Piece(m)[3] = " "
         \/ m \div 6 = 2 /\ Len(Piece(m)) = 3 /\ Piece(m)[2] = "i" /\ Piece(m)[3] = " "
  BY PieceIs
<1> DEFINE l == Len(Piece(m))
<1>4. l = 2 \/ l = 3
  BY <1>3
<1>5. text[a + 1] = Piece(m)[1] /\ text[a + 2] = Piece(m)[2] /\ text[a + l] = Piece(m)[l]
  BY <1>4 DEF NameAt
<1> HIDE DEF l
<1>6. a + l <= n /\ n \in Nat
  BY DEF l, NameAt
<1> HIDE DEF n
<1>7. a + 1 \in 1 .. n + 1 /\ a + 1 < n /\ a + l \in 1 .. n + 1 /\ ~ (a + 1 > n) /\ ~ (a + l > n)
  BY <1>4, <1>6
<1>8. Piece(m)[l] = " "
  BY <1>3 DEF l
<1>9. R[a + l] = R[a + l + 1]
  <2>1. text[a + l] = " " /\ text[a + l] # ";"
    BY <1>5, <1>8
  <2> QED BY <1>1, <1>7, <2>1 DEF ReadOf, n
<1>10. text[a + 1] # ";" /\ text[a + 1] # " "
  BY <1>3, <1>5
<1>11. R[a + 1] = <<FaceOf(text[a + 1]) + Suffix(text, a + 1)>>
                    \o R[(a + 1) + IF Suffix(text, a + 1) = 0 THEN 1 ELSE 2]
  BY <1>1, <1>7, <1>10 DEF ReadOf, n
<1>12. /\ a + 1 # Len(text)
       /\ Suffix(text, a + 1) = CASE text[a + 2] = "i" -> 12 [] text[a + 2] = "2" -> 6 [] OTHER -> 0
  <2>1. a + 1 # Len(text)
    BY <1>6, <1>7 DEF n
  <2>2. (a + 1) + 1 = a + 2
    OBVIOUS
  <2> QED BY <2>1, <2>2 DEF Suffix
<1>13. FaceOf(text[a + 1]) = m % 6
  BY <1>3, <1>5
<1>14. PICK q : q = m \div 6
  OBVIOUS
<1>15. \/ q = 0 /\ l = 2 /\ text[a + 2] = " "
       \/ q = 1 /\ l = 3 /\ text[a + 2] = "2"
       \/ q = 2 /\ l = 3 /\ text[a + 2] = "i"
  BY <1>3, <1>5, <1>14 DEF l
<1>16. PICK suffix : suffix = Suffix(text, a + 1)
  OBVIOUS
<1>17. suffix = 6 * q /\ (IF suffix = 0 THEN 1 ELSE 2) = l - 1
  <2>1. CASE q = 0 /\ l = 2 /\ text[a + 2] = " "
    <3>1. suffix = 0
      BY <1>12, <1>16, <2>1
    <3>2. q = 0
      BY <2>1
    <3>3. l = 2
      BY <2>1
    <3> QED BY <3>1, <3>2, <3>3
  <2>2. CASE q = 1 /\ l = 3 /\ text[a + 2] = "2"
    <3>1. suffix = 6
      BY <1>12, <1>16, <2>2
    <3>2. q = 1
      BY <2>2
    <3>3. l = 3
      BY <2>2
    <3> QED BY <3>1, <3>2, <3>3
  <2>3. CASE q = 2 /\ l = 3 /\ text[a + 2] = "i"
    <3>1. suffix = 12
      BY <1>12, <1>16, <2>3
    <3>2. q = 2
      BY <2>3
    <3>3. l = 3
      BY <2>3
    <3> QED BY <3>1, <3>2, <3>3
  <2> QED BY <1>15, <2>1, <2>2, <2>3
<1>18. FaceOf(text[a + 1]) + suffix = m
  BY <1>2, <1>13, <1>14, <1>17
<1>19. (a + 1) + (l - 1) = a + l
  BY <1>4
<1>20. R[a + 1] = <<m>> \o R[a + l]
  <2>1. R[a + 1] = <<FaceOf(text[a + 1]) + suffix>> \o R[(a + 1) + IF suffix = 0 THEN 1 ELSE 2]
    BY <1>11, <1>16
  <2>2. R[a + 1] = <<m>> \o R[(a + 1) + (l - 1)]
    BY <1>18, <1>17, <2>1
  <2> QED BY <1>19, <2>2
<1> QED BY <1>9, <1>20 DEF l, ReadsOn

(* What was written as moves is read as the same moves. *)
LEMMA MovesAreRead ==
  ASSUME NEW x \in Seq(Moves)
  PROVE  parse_moves(move_names(x), 1) = x
<1> DEFINE n == Len(x)
           text == move_names(x)
<1>1. n \in Nat /\ x = [i \in 1 .. n |-> x[i]] /\ \A k \in 1 .. n : x[k] \in Moves
  OBVIOUS
<1>2. Len(text) \in Nat
  BY NamesStand
<1>3. PICK e : StandAt(x, text, e)
  BY NamesStand
<1> HIDE DEF text
<1> DEFINE R == CHOOSE Q : Reads(text, Q)
<1>4. Reads(text, R) /\ parse_moves(text, 1) = R[1]
  BY <1>2, ParserIs, SomethingReads
<1> HIDE DEF R
<1> DEFINE Rest(k) == [i \in 1 .. n - k |-> x[k + i]]
           T == {d \in Nat : d <= n /\ R[e[n - d] + 1] # Rest(n - d)}
<1>5. e \in [0 .. n -> Nat] /\ e[0] = 0 /\ e[n] = Len(text)
  BY <1>3 DEF StandAt
<1> HIDE DEF n
<1>6. R[e[n] + 1] = Rest(n)
  <2>1. Len(text) + 1 \in 1 .. Len(text) + 1 /\ Len(text) + 1 > Len(text)
    BY <1>2
  <2>2. R[Len(text) + 1] = <<>>
    BY <1>4, <2>1 DEF Reads, ReadOf
  <2>3. 1 .. n - n = {}
    BY <1>1
  <2>4. Rest(n) = <<>>
    BY <2>3
  <2> QED BY <1>5, <2>2, <2>4
<1>7. T = {}
  <2>1. SUFFICES ASSUME T # {} PROVE FALSE
    OBVIOUS
  <2>2. PICK d \in T : \A m \in T : d <= m
    BY <2>1, Smallest
  <2>3. d # 0
    <3>1. d \in Nat /\ d <= n /\ R[e[n - d] + 1] # Rest(n - d)
      BY <2>2
    <3>2. n - 0 = n
      BY <1>1
    <3> HIDE DEF Rest
    <3> QED BY <1>6, <3>1, <3>2
  <2> DEFINE k == n - d + 1
  <2>4. /\ k \in 1 .. n /\ k - 1 = n - d /\ d - 1 \in Nat /\ d - 1 <= n
        /\ n - (d - 1) = k /\ k - 1 \in 0 .. n /\ k \in 0 .. n
    <3>1. d \in Nat /\ d <= n
      BY <2>2
    <3> QED BY <1>1, <2>3, <3>1
  <2>5. d - 1 \notin T
    <3>1. d \in Nat
      BY <2>2
    <3>2. \A m \in T : d <= m
      BY <2>2
    <3> HIDE DEF T
    <3> QED BY <2>4, <3>1, <3>2
  <2> HIDE DEF k
  <2>6. R[e[k] + 1] = Rest(k)
    <3>1. R[e[n - (d - 1)] + 1] = Rest(n - (d - 1))
      BY <2>4, <2>5
    <3> HIDE DEF Rest
    <3> QED BY <2>4, <3>1
  <2>7. e[k] = e[k - 1] + Len(Piece(x[k])) /\ NameAt(text, e[k - 1], x[k])
    BY <1>3, <2>4 DEF StandAt, n
  <2>8. x[k] \in Moves /\ e[k - 1] \in Nat
    BY <1>1, <1>5, <2>4
  <2>9. R[e[k - 1] + 1] = <<x[k]>> \o R[e[k - 1] + Len(Piece(x[k])) + 1]
    <3>1. PICK a : a = e[k - 1]
      OBVIOUS
    <3>2. PICK m : m = x[k]
      OBVIOUS
    <3>3. a \in Nat
      BY <2>8, <3>1
    <3>4. m \in Moves
      BY <2>8, <3>2
    <3>5. NameAt(text, a, m)
      BY <2>7, <3>1, <3>2
    <3>6. Reads(text, R)
      BY <1>4
    <3>7. ReadsOn(R, a, m)
      BY <1>2, <3>3, <3>4, <3>5, <3>6, NameIsRead
    <3> QED BY <3>1, <3>2, <3>7 DEF ReadsOn
  <2>10. R[e[k - 1] + 1] = <<x[k]>> \o Rest(k)
    BY <2>6, <2>7, <2>9
  <2>11. <<x[k]>> \o Rest(k) = Rest(k - 1)
    <3>1. n \in Nat /\ k \in 1 .. n
      BY <1>1, <2>4
    <3>2. Rest(k) \in [1 .. n - k -> Moves]
      BY <1>1, <3>1
    <3>3. PICK r : r = Rest(k)
      OBVIOUS
    <3>4. r \in Seq(Moves) /\ Len(r) = n - k
      <4>1. n - k \in Nat
        BY <3>1
      <4>2. r \in [1 .. n - k -> Moves]
        BY <3>2, <3>3
      <4> QED BY <4>1, <4>2
    <3>5. PICK y : y = x[k]
      OBVIOUS
    <3>6. <<y>> \in Seq(Moves) /\ Len(<<y>>) = 1 /\ <<y>>[1] = y
      BY <2>8, <3>5
    <3>7. <<y>> \o r \in Seq(Moves)
      BY <3>4, <3>6, ConcatProperties
    <3>8. Len(<<y>> \o r) = 1 + (n - k)
      BY <3>4, <3>6, ConcatProperties
    <3>9. \A i \in 1 .. 1 + (n - k) : (<<y>> \o r)[i] = IF i <= 1 THEN <<y>>[i] ELSE r[i - 1]
      BY <3>4, <3>6, ConcatProperties
    <3>10. ASSUME NEW i \in 1 .. n - (k - 1)
           PROVE  (<<y>> \o r)[i] = x[k - 1 + i]
      <4>1. i \in 1 .. 1 + (n - k)
        BY <3>1
      <4>2. CASE i = 1
        <5>1. (<<y>> \o r)[i] = y /\ k - 1 + i = k
          BY <3>1, <3>6, <3>9, <4>1, <4>2
        <5> QED BY <3>5, <5>1
      <4>3. CASE i # 1
        <5>1. i - 1 \in 1 .. n - k /\ k + (i - 1) = k - 1 + i /\ ~ (i <= 1)
          BY <3>1, <4>3
        <5>2. r[i - 1] = x[k + (i - 1)]
          BY <3>3, <5>1
        <5> QED BY <3>9, <4>1, <5>1, <5>2
      <4> QED BY <4>2, <4>3
    <3>11. DOMAIN (<<y>> \o r) = 1 .. n - (k - 1)
      BY <3>1, <3>7, <3>8
    <3>12. <<y>> \o r = [i \in 1 .. n - (k - 1) |-> (<<y>> \o r)[i]]
      <4>1. PICK s : s = <<y>> \o r
        OBVIOUS
      <4>2. s \in Seq(Moves) /\ DOMAIN s = 1 .. n - (k - 1)
        BY <3>7, <3>11, <4>1
      <4>3. s = [i \in 1 .. n - (k - 1) |-> s[i]]
        BY <4>2
      <4> QED BY <4>1, <4>3
    <3>13. <<y>> \o r = Rest(k - 1)
      BY <3>10, <3>12
    <3> QED BY <3>3, <3>5, <3>13
  <2> QED BY <2>2, <2>4, <2>10, <2>11
<1>8. R[1] = Rest(0)
  <2>1. n \in Nat /\ n <= n /\ n - n = 0
    BY <1>1
  <2>2. n \notin T
    <3> HIDE DEF T
    <3> QED BY <1>7
  <2>3. R[e[0] + 1] = Rest(0)
    <3> HIDE DEF Rest
    <3> QED BY <2>1, <2>2
  <2> QED BY <1>5, <2>3
<1>9. Rest(0) = x
  <2>1. n - 0 = n /\ \A i \in 1 .. n : 0 + i = i
    BY <1>1
  <2> QED BY <1>1, <2>1
<1> QED BY <1>4, <1>8, <1>9 DEF text

-----------------------------------------------------------------------------
(* A hash is read back.                                                    *)

LEMMA HashLength ==
  ASSUME NEW p
  PROVE  /\ DOMAIN Hash(p) = 1 .. 54
         /\ Hash(p) = [i \in 1 .. 54 |-> Hash(p)[i]]
         /\ Len(Hash(p)) = 54
<1>1. DOMAIN Hash(p) = 1 .. 54 /\ Hash(p) = [i \in 1 .. 54 |-> Hash(p)[i]]
  BY DEF Hash
<1>2. Hash(p) \in Seq({Hash(p)[i] : i \in 1 .. 54})
  BY <1>1
<1> QED BY <1>1, <1>2

LEMMA HashAt ==
  ASSUME NEW p, NEW f \in 0 .. 53, NEW cubie, NEW rotation
  PROVE  /\ hashindex2cubieface[f] = C(cubie, rotation) =>
              Hash(p)[f + 1] = CornerFacelet(p, cubie, rotation)
         /\ hashindex2cubieface[f] = E(cubie, rotation) =>
              Hash(p)[f + 1] = EdgeFacelet(p, cubie, rotation)
         /\ hashindex2cubieface[f] = Z(cubie) => Hash(p)[f + 1] = face_color[cubie]
<1> DEFINE face == hashindex2cubieface[f]
<1>1. f + 1 \in 1 .. 54 /\ (f + 1) - 1 = f
  OBVIOUS
<1>2. Hash(p)[f + 1] = FaceletColor(p, face)
  BY <1>1 DEF Hash
<1> HIDE DEF face
<1>3. ASSUME face = C(cubie, rotation) PROVE Hash(p)[f + 1] = CornerFacelet(p, cubie, rotation)
  <2>1. face.kind = "corner" /\ face.cubie = cubie /\ face.rotation = rotation
    BY <1>3 DEF C, cubie_face
  <2> QED BY <1>2, <2>1 DEF FaceletColor
<1>4. ASSUME face = E(cubie, rotation) PROVE Hash(p)[f + 1] = EdgeFacelet(p, cubie, rotation)
  <2>1. face.kind = "edge" /\ face.cubie = cubie /\ face.rotation = rotation
    BY <1>4 DEF E, cubie_face
  <2> QED BY <1>2, <2>1 DEF FaceletColor
<1>5. ASSUME face = Z(cubie) PROVE Hash(p)[f + 1] = face_color[cubie]
  <2>1. face.kind = "center" /\ face.cubie = cubie
    BY <1>5 DEF Z, cubie_face
  <2> QED BY <1>2, <2>1 DEF FaceletColor
<1> QED BY <1>3, <1>4, <1>5 DEF face

(* What corners, edges and centres show. *)
LEMMA CornersShow ==
  ASSUME NEW p \in UnreflectedPermutations, NEW i \in CornerCubies
  PROVE  Colors(Hash(p), corner_facelets[i]) =
           [k \in 1 .. 3 |-> anchor_corners[p.corner[i]][(k + 2 - p.twist[i]) % 3]]
<1> SUFFICES ASSUME NEW k \in 1 .. 3
             PROVE  Hash(p)[corner_facelets[i][k] + 1] =
                      anchor_corners[p.corner[i]][(k + 2 - p.twist[i]) % 3]
  BY FaceletsAgree DEF Colors
<1>1. corner_facelets[i][k] \in 0 .. 53 /\ hashindex2cubieface[corner_facelets[i][k]] = C(i, k - 1)
  BY FaceletsAgree
<1>2. Hash(p)[corner_facelets[i][k] + 1] = CornerFacelet(p, i, k - 1)
  BY <1>1, HashAt
<1>3. p.twist[i] \in 0 .. 2
  BY DEF UnreflectedPermutations
<1>4. p.twist[i] % 3 = p.twist[i] /\ ((k - 1) + 3 - p.twist[i]) % 3 = (k + 2 - p.twist[i]) % 3
  BY <1>3
<1> QED BY <1>2, <1>3, <1>4 DEF CornerFacelet

LEMMA EdgesShow ==
  ASSUME NEW p \in UnreflectedPermutations, NEW i \in EdgeCubies
  PROVE  Colors(Hash(p), edge_facelets[i]) =
           [k \in 1 .. 2 |-> anchor_edges[p.edge[i]][(k - 1 + p.flip[i]) % 2]]
<1> SUFFICES ASSUME NEW k \in 1 .. 2
             PROVE  Hash(p)[edge_facelets[i][k] + 1] =
                      anchor_edges[p.edge[i]][(k - 1 + p.flip[i]) % 2]
  BY FaceletsAgree DEF Colors
<1>1. edge_facelets[i][k] \in 0 .. 53 /\ hashindex2cubieface[edge_facelets[i][k]] = E(i, k - 1)
  BY FaceletsAgree
<1>2. Hash(p)[edge_facelets[i][k] + 1] = EdgeFacelet(p, i, k - 1)
  BY <1>1, HashAt
<1> QED BY <1>2 DEF EdgeFacelet

LEMMA CentersShow ==
  ASSUME NEW p
  PROVE  centers(Hash(p)) = FaceColors
<1> SUFFICES ASSUME NEW face \in {FaceName[a] : a \in Axes}
             PROVE  LET a == CHOOSE a \in Axes : FaceName[a] = face
                    IN  Hash(p)[center_facelets[a] + 1] = face_color[a]
  BY DEF centers, FaceColors
<1> DEFINE a == CHOOSE a \in Axes : FaceName[a] = face
<1>1. a \in Axes
  OBVIOUS
<1> HIDE DEF a
<1>2. center_facelets[a] \in 0 .. 53 /\ hashindex2cubieface[center_facelets[a]] = Z(a)
  BY <1>1, FaceletsAgree
<1>3. Hash(p)[center_facelets[a] + 1] = face_color[a]
  BY <1>2, HashAt
<1> QED BY <1>3 DEF a

(* Every corner is recognised, ... *)
LEMMA CornersAreRead ==
  ASSUME NEW p \in UnreflectedPermutations, NEW i \in CornerCubies
  PROVE  LET colors == Colors(Hash(p), corner_facelets[i])
             name == CornerName(centers(Hash(p)), colors)
             anchor == centers(Hash(p))[CornerCubieName[p.corner[i]][1]]
         IN  /\ name = CornerCubieName[p.corner[i]]
             /\ CornerNamed(name) = p.corner[i]
             /\ has(colors, anchor)
             /\ indexOf(colors, anchor) - 1 = p.twist[i]
<1>1. p.corner[i] \in CornerCubies /\ p.twist[i] \in 0 .. 2
  BY DEF UnreflectedPermutations
<1> DEFINE colors == [k \in 1 .. 3 |-> anchor_corners[p.corner[i]][(k + 2 - p.twist[i]) % 3]]
           anchor == FaceColors[CornerCubieName[p.corner[i]][1]]
<1>2. /\ CornerName(FaceColors, colors) = CornerCubieName[p.corner[i]]
      /\ CornerNamed(CornerCubieName[p.corner[i]]) = p.corner[i]
      /\ has(colors, anchor) /\ indexOf(colors, anchor) = p.twist[i] + 1
  BY <1>1, CornersAreRecognized
<1>3. Colors(Hash(p), corner_facelets[i]) = colors /\ centers(Hash(p)) = FaceColors
  BY CornersShow, CentersShow
<1> HIDE DEF colors
<1> QED BY <1>1, <1>2, <1>3

(* ... and so is every edge. *)
LEMMA EdgesAreRead ==
  ASSUME NEW p \in UnreflectedPermutations, NEW i \in EdgeCubies
  PROVE  LET colors == Colors(Hash(p), edge_facelets[i])
             name == EdgeName(centers(Hash(p)), colors)
             anchor == centers(Hash(p))[EdgeAnchor(name)]
         IN  /\ name = EdgeCubieName[p.edge[i]]
             /\ EdgeNamed(name) = p.edge[i]
             /\ (IF colors[1] = anchor THEN 0 ELSE 1) = p.flip[i]
<1>1. p.edge[i] \in EdgeCubies /\ p.flip[i] \in {0, 1}
  BY DEF UnreflectedPermutations
<1> DEFINE colors == [k \in 1 .. 2 |-> anchor_edges[p.edge[i]][(k - 1 + p.flip[i]) % 2]]
<1>2. /\ EdgeName(FaceColors, colors) = EdgeCubieName[p.edge[i]]
      /\ EdgeNamed(EdgeCubieName[p.edge[i]]) = p.edge[i]
      /\ colors[1] = FaceColors[EdgeAnchor(EdgeCubieName[p.edge[i]])] <=> p.flip[i] = 0
  BY <1>1, EdgesAreRecognized
<1>3. Colors(Hash(p), edge_facelets[i]) = colors /\ centers(Hash(p)) = FaceColors
  BY EdgesShow, CentersShow
<1> HIDE DEF colors
<1> QED BY <1>1, <1>2, <1>3

(* A cube is what is read from its hash, for every cube whose corners are  *)
(* not reflected, whether moves can make it or not: Hash2Permutation, with *)
(* tables of its own, is the inverse of Hash (hash.cpp:215 and 329).       *)
THEOREM HashIsReadBack ==
  ASSUME NEW p \in UnreflectedPermutations
  PROVE  IsHash(Hash(p)) /\ Hash2Permutation(Hash(p)) = p
<1>1. IsHash(Hash(p))
  <2>1. Len(Hash(p)) = 54
    BY HashLength
  <2>2. ASSUME NEW i \in CornerCubies
        PROVE  LET colors == Colors(Hash(p), corner_facelets[i])
               IN  has(colors, centers(Hash(p))[CornerName(centers(Hash(p)), colors)[1]])
    BY CornersAreRead
  <2>3. ASSUME NEW i \in EdgeCubies
        PROVE  EdgeName(centers(Hash(p)), Colors(Hash(p), edge_facelets[i])) \in
                 {EdgeCubieName[e] : e \in EdgeCubies}
    <3>1. p.edge[i] \in EdgeCubies
      BY DEF UnreflectedPermutations
    <3> QED BY <3>1, EdgesAreRead
  <2> QED BY <2>1, <2>2, <2>3 DEF IsHash
<1>2. Hash2Permutation(Hash(p)).corner = p.corner
  BY CornersAreRead DEF Hash2Permutation, Permutation, UnreflectedPermutations
<1>3. Hash2Permutation(Hash(p)).twist = p.twist
  BY CornersAreRead DEF Hash2Permutation, Permutation, UnreflectedPermutations
<1>4. Hash2Permutation(Hash(p)).edge = p.edge
  BY EdgesAreRead DEF Hash2Permutation, Permutation, UnreflectedPermutations
<1>5. Hash2Permutation(Hash(p)).flip = p.flip
  BY EdgesAreRead DEF Hash2Permutation, Permutation, UnreflectedPermutations
<1>6. Hash2Permutation(Hash(p)) = p
  BY <1>2, <1>3, <1>4, <1>5 DEF Hash2Permutation, Permutation, UnreflectedPermutations
<1> QED BY <1>1, <1>6

(* Nobody looks behind the 54 colours. *)
LEMMA StartIsReadBack ==
  ASSUME NEW p \in UnreflectedPermutations,
         NEW text, Len(text) >= 54, \A f \in 0 .. 53 : text[f + 1] = Hash(p)[f + 1]
  PROVE  IsHash(text) /\ Hash2Permutation(text) = p
<1>1. ASSUME NEW i \in CornerCubies
      PROVE  Colors(text, corner_facelets[i]) = Colors(Hash(p), corner_facelets[i])
  BY FaceletsAgree DEF Colors
<1>2. ASSUME NEW i \in EdgeCubies
      PROVE  Colors(text, edge_facelets[i]) = Colors(Hash(p), edge_facelets[i])
  BY FaceletsAgree DEF Colors
<1>3. centers(text) = centers(Hash(p))
  <2> DEFINE At(face) == center_facelets[CHOOSE a \in Axes : FaceName[a] = face] + 1
  <2>1. ASSUME NEW face \in {FaceName[a] : a \in Axes}
        PROVE  text[At(face)] = Hash(p)[At(face)]
    <3> DEFINE a == CHOOSE a \in Axes : FaceName[a] = face
    <3>1. a \in Axes
      OBVIOUS
    <3>2. At(face) = center_facelets[a] + 1
      OBVIOUS
    <3> HIDE DEF a, At
    <3>3. center_facelets[a] \in 0 .. 53
      BY <3>1, FaceletsAgree
    <3> QED BY <3>2, <3>3
  <2>2. \A h : centers(h) = [face \in {FaceName[a] : a \in Axes} |-> h[At(face)]]
    BY DEF centers
  <2> HIDE DEF At
  <2> QED BY <2>1, <2>2
<1>4. IsHash(text)
  BY <1>1, <1>2, <1>3, HashIsReadBack DEF IsHash
<1>5. Hash2Permutation(text) = Hash2Permutation(Hash(p))
  BY <1>1, <1>2, <1>3 DEF Hash2Permutation
<1> QED BY <1>4, <1>5, HashIsReadBack

-----------------------------------------------------------------------------
(* A text in a buffer.                                                     *)

Bytes == 0 .. MAX_PAYLOAD_SIZE - 1

IsText(text) ==
  /\ Len(text) \in Nat /\ Len(text) < MAX_PAYLOAD_SIZE
  /\ text = [i \in 1 .. Len(text) |-> text[i]]
  /\ \A i \in 1 .. Len(text) : text[i] # NUL

Holds(buffer, text) ==
  /\ DOMAIN buffer = Bytes
  /\ \A i \in 0 .. Len(text) - 1 : buffer[i] = text[i + 1]
  /\ buffer[Len(text)] = NUL

LEMMA SizeIs == MAX_PAYLOAD_SIZE \in Nat /\ MAX_PAYLOAD_SIZE > 54
BY PayloadSizes

LEMMA WriteHolds ==
  ASSUME NEW text, IsText(text), NEW buffer, DOMAIN buffer = Bytes
  PROVE  Holds(Write(buffer, text), text)
<1>1. Len(text) \in Nat /\ Len(text) < MAX_PAYLOAD_SIZE
  BY DEF IsText
<1>2. \A i \in 0 .. Len(text) - 1 : i \in Bytes /\ i < Len(text)
  BY <1>1, SizeIs DEF Bytes
<1>3. Len(text) \in Bytes /\ ~ (Len(text) < Len(text))
  BY <1>1, SizeIs DEF Bytes
<1> QED BY <1>2, <1>3 DEF Holds, Write

(* The scan for the NUL ends behind the text. *)
LEMMA TextIsRead ==
  ASSUME NEW text, IsText(text), NEW buffer, Holds(buffer, text)
  PROVE  Terminated(buffer) /\ Text(buffer) = text
<1> DEFINE l == Len(text)
<1>1. l \in Nat /\ l < MAX_PAYLOAD_SIZE
  BY DEF IsText
<1>2. \A i \in 0 .. l - 1 : i + 1 \in 1 .. l
  BY <1>1
<1>3. \A i \in 0 .. l - 1 : buffer[i] # NUL
  BY <1>2 DEF IsText, Holds
<1>4. buffer[l] = NUL /\ DOMAIN buffer = Bytes
  BY DEF Holds
<1>5. \A i \in 1 .. l : i - 1 \in 0 .. l - 1 /\ (i - 1) + 1 = i
  BY <1>1
<1>6. \A i \in 1 .. l : buffer[i - 1] = text[i]
  BY <1>5 DEF Holds
<1>7. text = [i \in 1 .. l |-> text[i]]
  BY DEF IsText
<1> HIDE DEF l
<1>8. Terminated(buffer)
  BY <1>1, <1>4, SizeIs DEF Terminated, Bytes
<1> DEFINE Ends(n) == /\ n = MAX_PAYLOAD_SIZE \/ buffer[n] = NUL
                      /\ \A i \in 0 .. n - 1 : buffer[i] # NUL
           end == CHOOSE n \in 0 .. MAX_PAYLOAD_SIZE : Ends(n)
<1>9. l \in 0 .. MAX_PAYLOAD_SIZE /\ Ends(l)
  BY <1>1, <1>3, <1>4, SizeIs
<1>10. ASSUME NEW n \in 0 .. MAX_PAYLOAD_SIZE, Ends(n) PROVE n = l
  <2>1. n < l => n \in 0 .. l - 1 /\ n # MAX_PAYLOAD_SIZE
    BY <1>1, SizeIs
  <2>2. n > l => l \in 0 .. n - 1
    BY <1>1, SizeIs
  <2>3. ~ (n < l) /\ ~ (n > l)
    BY <1>3, <1>4, <1>10, <2>1, <2>2
  <2> QED BY <1>1, <2>3, SizeIs
<1>11. end = l
  BY <1>9, <1>10
<1>12. Text(buffer) = [i \in 1 .. end |-> buffer[i - 1]]
  BY DEF Text
<1> HIDE DEF end
<1>13. Text(buffer) = text
  BY <1>6, <1>7, <1>11, <1>12
<1> QED BY <1>8, <1>13

(* No colour is a NUL. *)
LEMMA HashHasNoNul ==
  ASSUME NEW p \in UnreflectedPermutations, NEW f \in 0 .. 53
  PROVE  Hash(p)[f + 1] # NUL
<1>1. NUL \notin Color
  BY DEF NUL, Color
<1>2. CASE \E i \in CornerCubies, k \in 0 .. 2 : hashindex2cubieface[f] = C(i, k)
  <2>1. PICK i \in CornerCubies, k \in 0 .. 2 : hashindex2cubieface[f] = C(i, k)
    BY <1>2
  <2>2. Hash(p)[f + 1] = CornerFacelet(p, i, k)
    BY <2>1, HashAt
  <2>3. p.corner[i] \in CornerCubies /\ p.twist[i] \in 0 .. 2
    BY DEF UnreflectedPermutations
  <2>4. p.twist[i] < 3 /\ (k + 3 - (p.twist[i] % 3)) % 3 \in 0 .. 2
    BY <2>3
  <2>5. CornerFacelet(p, i, k) = anchor_corners[p.corner[i]][(k + 3 - (p.twist[i] % 3)) % 3]
    BY <2>4 DEF CornerFacelet
  <2> QED BY <1>1, <2>2, <2>3, <2>4, <2>5, CubiesAreColored
<1>3. CASE \E i \in EdgeCubies, k \in 0 .. 1 : hashindex2cubieface[f] = E(i, k)
  <2>1. PICK i \in EdgeCubies, k \in 0 .. 1 : hashindex2cubieface[f] = E(i, k)
    BY <1>3
  <2>2. Hash(p)[f + 1] = EdgeFacelet(p, i, k)
    BY <2>1, HashAt
  <2>3. p.edge[i] \in EdgeCubies /\ p.flip[i] \in {0, 1}
    BY DEF UnreflectedPermutations
  <2>4. (k + p.flip[i]) % 2 \in 0 .. 1
    BY <2>3
  <2>5. EdgeFacelet(p, i, k) = anchor_edges[p.edge[i]][(k + p.flip[i]) % 2]
    BY DEF EdgeFacelet
  <2> QED BY <1>1, <2>2, <2>3, <2>4, <2>5, CubiesAreColored
<1>4. CASE \E a \in Axes : hashindex2cubieface[f] = Z(a)
  <2>1. PICK a \in Axes : hashindex2cubieface[f] = Z(a)
    BY <1>4
  <2>2. Hash(p)[f + 1] = face_color[a]
    BY <2>1, HashAt
  <2> QED BY <1>1, <2>2, CubiesAreColored
<1> QED BY <1>2, <1>3, <1>4, FaceletsAreOfCubies

LEMMA FunctionIsSeq ==
  ASSUME NEW n \in Nat, NEW S, NEW f \in [1 .. n -> S]
  PROVE  Len(f) = n
<1>1. f \in Seq(S)
  BY SeqDef
<1> QED BY <1>1

(* What the scan reads ends where there is a NUL, or with the buffer. *)
LEMMA TextEnds ==
  ASSUME NEW buffer, DOMAIN buffer = Bytes
  PROVE  \E n \in 0 .. MAX_PAYLOAD_SIZE :
           /\ n = MAX_PAYLOAD_SIZE \/ buffer[n] = NUL
           /\ Text(buffer) = [i \in 1 .. n |-> buffer[i - 1]]
<1> DEFINE Stops(n) == n = MAX_PAYLOAD_SIZE \/ buffer[n] = NUL
           Ends(n) == Stops(n) /\ \A i \in 0 .. n - 1 : buffer[i] # NUL
           end == CHOOSE n \in 0 .. MAX_PAYLOAD_SIZE : Ends(n)
           S == {n \in 0 .. MAX_PAYLOAD_SIZE : Stops(n)}
<1>1. S \in SUBSET Nat /\ MAX_PAYLOAD_SIZE \in S
  BY SizeIs
<1>2. PICK n \in S : \A i \in S : n <= i
  BY <1>1, Smallest
<1>3. \A i \in 0 .. n - 1 : i \in 0 .. MAX_PAYLOAD_SIZE /\ ~ (n <= i)
  BY <1>2, SizeIs
<1>4. n \in 0 .. MAX_PAYLOAD_SIZE /\ Ends(n)
  BY <1>2, <1>3
<1>5. end \in 0 .. MAX_PAYLOAD_SIZE /\ Ends(end)
  BY <1>4
<1>6. Text(buffer) = [i \in 1 .. end |-> buffer[i - 1]]
  BY DEF Text
<1> HIDE DEF end
<1> QED BY <1>5, <1>6

(* A buffer that starts with a hash is read as its cube. *)
LEMMA StartIsRead ==
  ASSUME NEW p \in UnreflectedPermutations, NEW buffer, DOMAIN buffer = Bytes,
         \A f \in 0 .. 53 : buffer[f] = Hash(p)[f + 1]
  PROVE  IsHash(Text(buffer)) /\ Hash2Permutation(Text(buffer)) = p
<1>1. PICK n \in 0 .. MAX_PAYLOAD_SIZE :
        /\ n = MAX_PAYLOAD_SIZE \/ buffer[n] = NUL
        /\ Text(buffer) = [i \in 1 .. n |-> buffer[i - 1]]
  BY TextEnds
<1>2. n \in Nat /\ n >= 54
  <2>1. n \in Nat
    BY SizeIs
  <2>2. ASSUME n < 54 PROVE FALSE
    <3>1. n \in 0 .. 53 /\ n # MAX_PAYLOAD_SIZE
      BY <2>1, <2>2, SizeIs
    <3>2. buffer[n] = NUL /\ buffer[n] = Hash(p)[n + 1]
      BY <1>1, <3>1
    <3> QED BY <3>1, <3>2, HashHasNoNul
  <2> QED BY <2>1, <2>2
<1> DEFINE text == Text(buffer)
<1>3. Len(text) = n
  <2> DEFINE S == {buffer[i - 1] : i \in 1 .. n}
  <2> HIDE DEF text
  <2>1. text = [i \in 1 .. n |-> buffer[i - 1]]
    BY <1>1 DEF text
  <2>2. \A i \in 1 .. n : buffer[i - 1] \in S
    OBVIOUS
  <2> HIDE DEF S
  <2>3. text \in [1 .. n -> S]
    BY <2>1, <2>2
  <2> QED BY <1>2, <2>3, FunctionIsSeq
<1>4. ASSUME NEW f \in 0 .. 53 PROVE text[f + 1] = Hash(p)[f + 1]
  <2>1. f + 1 \in 1 .. n /\ (f + 1) - 1 = f
    BY <1>2, SizeIs
  <2> QED BY <1>1, <2>1
<1> HIDE DEF text
<1>5. IsHash(text) /\ Hash2Permutation(text) = p
  BY <1>2, <1>3, <1>4, StartIsReadBack
<1> QED BY <1>5 DEF text

LEMMA HashIsText ==
  ASSUME NEW p \in UnreflectedPermutations
  PROVE  IsText(Hash(p))
<1>1. Len(Hash(p)) = 54 /\ Hash(p) = [i \in 1 .. 54 |-> Hash(p)[i]]
  BY HashLength
<1>2. ASSUME NEW i \in 1 .. 54 PROVE Hash(p)[i] # NUL
  <2>1. i - 1 \in 0 .. 53 /\ (i - 1) + 1 = i
    OBVIOUS
  <2>2. Hash(p)[(i - 1) + 1] # NUL
    BY <2>1, HashHasNoNul
  <2> QED BY <2>1, <2>2
<1> QED BY <1>1, <1>2, SizeIs DEF IsText

LEMMA NamesAreText ==
  ASSUME NEW x \in Seq(Moves), Len(move_names(x)) < MAX_PAYLOAD_SIZE
  PROVE  IsText(move_names(x))
<1>1. PICK text : text = move_names(x)
  OBVIOUS
<1>2. text \in Seq(Letter)
  BY <1>1, NamesStand
<1>3. Len(text) \in Nat /\ text = [i \in 1 .. Len(text) |-> text[i]]
  BY <1>2
<1>4. \A i \in 1 .. Len(text) : text[i] \in Letter
  BY <1>2
<1>5. NUL \notin Letter
  BY DEF NUL, Letter
<1>6. \A i \in 1 .. Len(text) : text[i] # NUL
  BY <1>4, <1>5
<1>7. Len(text) < MAX_PAYLOAD_SIZE
  BY <1>1
<1>8. IsText(text)
  BY <1>3, <1>6, <1>7 DEF IsText
<1> QED BY <1>1, <1>8

-----------------------------------------------------------------------------
(* Through both buffers.                                                   *)

(* While a request is on its way the last buffer that it reached holds the *)
(* hash of the client's cube, or at least its colours if they arrived, and *)
(* then the worker's buffer holds the moves that it answers.  They may     *)
(* solve another scramble than the client's, but one that makes the same   *)
(* cube.                                                                   *)
IInv ==
  /\ DOMAIN sent = Bytes /\ DOMAIN received = Bytes
  /\ scramble \in Scrambles
  /\ pc = "connected" => Holds(sent, Hash(cube_of(scramble)))
  /\ pc = "received" /\ arrived >= 54 =>
       \A f \in 0 .. 53 : received[f] = Hash(cube_of(scramble))[f + 1]
  /\ pc = "received" /\ Whole => Holds(received, Hash(cube_of(scramble)))
  /\ pc = "solved" => \E s \in Scrambles :
       /\ solution = Solves(s)
       /\ Holds(received, move_names(Solves(s)))
       /\ Whole => cube_of(scramble) = cube_of(s)
  /\ CubeArrives
  /\ MovesArrive

LEMMA InitInv == Init => IInv
BY DEF Init, Fresh, Bytes, IInv, CubeArrives, MovesArrive

LEMMA StepInv == IInv /\ [Next]_vars => IInv'
<1> SUFFICES ASSUME IInv, [Next]_vars PROVE IInv'
  OBVIOUS
<1>1. ASSUME NEW buffer, DOMAIN buffer = Bytes, NEW s \in Scrambles, Encode(buffer, s)
      PROVE  IInv'
  <2>1. IsText(Hash(cube_of(s)))
    BY HashIsText, MovesMakeCubes, ScramblesAreMoves
  <2>2. Holds(sent', Hash(cube_of(scramble'))) /\ scramble' \in Scrambles
    BY <1>1, <2>1, WriteHolds DEF Encode
  <2>3. DOMAIN sent' = Bytes /\ DOMAIN received' = Bytes /\ pc' = "connected"
    BY <1>1, <2>2 DEF Encode, Holds, IInv
  <2> QED BY <2>2, <2>3 DEF IInv, CubeArrives, MovesArrive
<1>2. CASE Again
  BY <1>1, <1>2 DEF Again, IInv
<1>3. CASE Another
  BY <1>1, <1>3 DEF Another, Fresh, Bytes
<1>4. ASSUME NEW n \in 0 .. MAX_PAYLOAD_SIZE, pc = "connected", Arrive(n)
      PROVE  IInv'
  <2>1. /\ DOMAIN sent' = Bytes /\ DOMAIN received' = Bytes /\ scramble' = scramble
        /\ scramble \in Scrambles /\ pc' = "received" /\ arrived' = n
    BY <1>4 DEF Arrive, IInv
  <2>2. ASSUME n = MAX_PAYLOAD_SIZE PROVE Holds(received', Hash(cube_of(scramble')))
    <3> DEFINE h == Hash(cube_of(scramble))
    <3>1. Holds(sent, h) /\ Len(h) = 54
      BY <1>4, HashLength DEF IInv
    <3> HIDE DEF h
    <3>2. \A i \in Bytes : i < n /\ received'[i] = sent[i]
      BY <1>4, <2>2, SizeIs DEF Arrive, IInv, Bytes
    <3>3. 54 \in Bytes /\ \A i \in 0 .. 54 - 1 : i \in Bytes
      BY SizeIs DEF Bytes
    <3>4. Holds(received', h)
      BY <2>1, <3>1, <3>2, <3>3 DEF Holds
    <3> QED BY <2>1, <3>4 DEF h
  <2>3. ASSUME n >= 54, NEW f \in 0 .. 53
        PROVE  received'[f] = Hash(cube_of(scramble'))[f + 1]
    <3> DEFINE h == Hash(cube_of(scramble))
    <3>1. Holds(sent, h) /\ Len(h) = 54
      BY <1>4, HashLength DEF IInv
    <3> HIDE DEF h
    <3>2. f \in Bytes /\ f < n /\ f \in 0 .. 54 - 1
      BY <2>3, SizeIs DEF Bytes
    <3>3. received'[f] = h[f + 1]
      BY <1>4, <3>1, <3>2 DEF Arrive, IInv, Holds
    <3> QED BY <2>1, <3>3 DEF h
  <2> QED BY <2>1, <2>2, <2>3 DEF Whole, IInv, CubeArrives, MovesArrive
<1>5. CASE Send
  BY <1>4, <1>5, SizeIs DEF Send
<1>6. CASE Die
  <2>1. \A n \in Cuts : n \in 0 .. MAX_PAYLOAD_SIZE
    BY PayloadSizes
  <2> QED BY <1>4, <1>6, <2>1 DEF Die
<1>7. CASE Decode
  <2>1. ASSUME arrived >= 54
        PROVE  IsHash(Text(received)) /\ Hash2Permutation(Text(received)) = cube_of(scramble)
    <3> DEFINE p == cube_of(scramble)
    <3>1. /\ p \in UnreflectedPermutations /\ DOMAIN received = Bytes
          /\ \A f \in 0 .. 53 : received[f] = Hash(p)[f + 1]
      BY <1>7, <2>1, MovesMakeCubes, ScramblesAreMoves DEF Decode, IInv
    <3> HIDE DEF p
    <3>2. IsHash(Text(received)) /\ Hash2Permutation(Text(received)) = p
      BY <3>1, StartIsRead
    <3> QED BY <3>2 DEF p
  <2>2. arrived >= 54 /\ pc' = "solving" => cube' = cube_of(scramble')
    BY <1>7, <2>1 DEF Decode
  <2>3. ASSUME Whole PROVE pc' = "solving"
    <3> DEFINE p == cube_of(scramble)
    <3>1. Holds(received, Hash(p)) /\ p \in UnreflectedPermutations
      BY <1>7, <2>3, MovesMakeCubes, ScramblesAreMoves DEF Decode, IInv
    <3>2. Terminated(received)
      BY <3>1, HashIsText, TextIsRead
    <3>3. IsHash(Text(received))
      BY <2>1, <2>3, SizeIs DEF Whole
    <3> QED BY <1>7, <3>2, <3>3 DEF Decode
  <2>4. pc' \in {"solving", "ended"}
    BY <1>7 DEF Decode
  <2> QED BY <1>7, <2>2, <2>3, <2>4 DEF Decode, Whole, IInv, CubeArrives, MovesArrive
<1>8. CASE Solve
  <2>1. PICK s \in Scrambles : /\ cube = cube_of(s) \/ \A t \in Scrambles : cube # cube_of(t)
                               /\ solution' = Solves(s)
                               /\ received' = Write(received, move_names(Solves(s)))
    BY <1>8 DEF Solve
  <2>2. IsText(move_names(Solves(s)))
    BY NamesAreText, SolvesIsASolution, ScramblesAreMoves, SolutionsFit
  <2>3. Holds(received', move_names(Solves(s)))
    BY <2>1, <2>2, WriteHolds DEF IInv
  <2>4. Whole' => cube_of(scramble') = cube_of(s)
    BY <1>8, <2>1, SizeIs DEF Solve, Whole, IInv, CubeArrives
  <2>5. DOMAIN received' = Bytes
    BY <2>3 DEF Holds
  <2> QED BY <1>8, <2>1, <2>3, <2>4, <2>5 DEF Solve, IInv, CubeArrives, MovesArrive
<1>9. CASE Receive
  <2>1. PICK s \in Scrambles : /\ solution = Solves(s)
                               /\ Holds(received, move_names(Solves(s)))
                               /\ cube_of(scramble) = cube_of(s)
    BY <1>9 DEF Receive, IInv
  <2>2. /\ Solves(s) \in Seq(Moves) /\ apply(cube_of(s), Solves(s)) = identity
        /\ IsText(move_names(Solves(s)))
    BY NamesAreText, SolvesIsASolution, ScramblesAreMoves, SolutionsFit
  <2>3. Text(received) = move_names(Solves(s))
    BY <2>1, <2>2, TextIsRead
  <2>4. moves' = Solves(s)
    BY <1>9, <2>2, <2>3, MovesAreRead DEF Receive
  <2>5. MovesArrive'
    BY <1>9, <2>1, <2>2, <2>4 DEF Receive, MovesArrive
  <2> QED BY <1>9, <2>5 DEF Receive, IInv, CubeArrives
<1>10. CASE Close
  BY <1>10 DEF Close, IInv, CubeArrives, MovesArrive
<1>11. CASE Lose
  BY <1>11 DEF Lose, Fresh, Bytes, IInv, CubeArrives, MovesArrive
<1>12. CASE UNCHANGED vars
  BY <1>12 DEF vars, Whole, IInv, CubeArrives, MovesArrive
<1> QED
  BY <1>2, <1>3, <1>5, <1>6, <1>7, <1>8, <1>9, <1>10, <1>11, <1>12 DEF Next

(* Whatever the buffers of client and worker held before, a request of     *)
(* which the colours arrive is solved as the cube that the client's moves  *)
(* make, and one that arrives whole never ends the server: for any moves,  *)
(* any bytes after which clients die and any size of the buffers in which  *)
(* a hash and its NUL fit (client.cpp:146-168, server.cpp:103-125).        *)
THEOREM CubesArrive == Spec => []CubeArrives
<1>1. IInv => CubeArrives
  BY DEF IInv
<1> QED BY <1>1, InitInv, StepInv, PTL DEF Spec

(* The client reads exactly the moves that the solver found, and they      *)
(* solve its cube: for any moves, as long as their names fit in a buffer   *)
(* (client.cpp:28-67 and 170-184, server.cpp:126-135).                     *)
THEOREM AnswersArrive == Spec => []MovesArrive
<1>1. IInv => MovesArrive
  BY DEF IInv
<1> QED BY <1>1, InitInv, StepInv, PTL DEF Spec
=============================================================================
