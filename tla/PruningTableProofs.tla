------------------------- MODULE PruningTableProofs -------------------------
(***************************************************************************)
(* Proofs about the pruning table: what build() leaves in it are the true  *)
(* distances, and whoever asks a table that was loaded is told the true    *)
(* distance, for every puzzle that has the coordinates, moves and          *)
(* symmetries that SymCoordinates assumes.                                 *)
(***************************************************************************)
EXTENDS PruningTable, PruningValuesProofs, FiniteSetTheorems, SequenceTheorems

-----------------------------------------------------------------------------
(* Positions, moves and symmetries. *)

LEMMA Smallest ==
  ASSUME NEW T \in SUBSET Nat, T # {}
  PROVE  \E n \in T : \A m \in T : n <= m
<1>1. PICK n \in T : \A m \in T : ~ (<<m, n>> \in OpToRel(<, Nat))
  BY NatLessThanWellFounded, WFMin
<1>2. \A m \in T : ~ (m < n)
  BY <1>1 DEF OpToRel
<1> QED BY <1>2

LEMMA PositionType ==
  /\ \A r \in Raws, e \in Edges, c \in Corners :
       /\ Position(r, e, c) \in Positions
       /\ Position(r, e, c).ud = r /\ Position(r, e, c).edge = e /\ Position(r, e, c).corner = c
  /\ \A p \in Positions :
       /\ p.ud \in Raws /\ p.edge \in Edges /\ p.corner \in Corners
       /\ p = Position(p.ud, p.edge, p.corner)
BY DEF Position, Positions

LEMMA Zeros == 0 \in Raws /\ 0 \in Edges /\ 0 \in Corners /\ 0 \in Symmetries
BY ThereAreCoordinates DEF Raws, Edges, Corners, Symmetries

LEMMA SolvedType == Solved \in Positions
BY Zeros, PositionType DEF Solved

LEMMA MoveType ==
  ASSUME NEW p \in Positions, NEW m \in AllMoves
  PROVE  Multiply(p, m) \in Positions
BY MovesMoveCoordinates

LEMMA ConjugateType ==
  ASSUME NEW p \in Positions, NEW s \in Symmetries
  PROVE  SymmetryConjugate(p, s) \in Positions
BY SymmetriesMapCoordinates

LEMMA InverseSymmetry ==
  ASSUME NEW s \in Symmetries
  PROVE  /\ InverseSymmetryIndex[s] \in Symmetries
         /\ SymmetryProduct(s, InverseSymmetryIndex[s]) = IdentitySymmetry
         /\ SymmetryProduct(InverseSymmetryIndex[s], s) = IdentitySymmetry
         /\ InverseSymmetryIndex[InverseSymmetryIndex[s]] = s
<1> HIDE DEF IdentitySymmetry
<1>1. ASSUME NEW x \in Symmetries, NEW t \in Symmetries,
             SymmetryProduct(x, t) = IdentitySymmetry, SymmetryProduct(t, x) = IdentitySymmetry,
             NEW u \in Symmetries, SymmetryProduct(x, u) = IdentitySymmetry
      PROVE  u = t
  <2>1. SymmetryProduct(SymmetryProduct(t, x), u) = SymmetryProduct(t, SymmetryProduct(x, t))
    BY <1>1, SymmetriesAreAGroup
  <2>2. SymmetryProduct(t, SymmetryProduct(x, t)) = SymmetryProduct(SymmetryProduct(t, x), t)
    BY <1>1, SymmetriesAreAGroup
  <2> QED BY <1>1, <2>1, <2>2, SymmetriesAreAGroup
<1>2. ASSUME NEW x \in Symmetries, NEW t \in Symmetries,
             SymmetryProduct(x, t) = IdentitySymmetry, SymmetryProduct(t, x) = IdentitySymmetry
      PROVE  InverseSymmetryIndex[x] = t
  BY <1>1, <1>2 DEF InverseSymmetryIndex
<1>3. PICK t \in Symmetries : /\ SymmetryProduct(s, t) = IdentitySymmetry
                              /\ SymmetryProduct(t, s) = IdentitySymmetry
  BY SymmetriesAreAGroup
<1>4. InverseSymmetryIndex[s] = t /\ InverseSymmetryIndex[t] = s
  BY <1>2, <1>3
<1> QED BY <1>3, <1>4

(* To look through a symmetry and back changes nothing. *)
LEMMA ThereAndBack ==
  ASSUME NEW p \in Positions, NEW s \in Symmetries
  PROVE  /\ SymmetryConjugate(SymmetryConjugate(p, s), InverseSymmetryIndex[s]) = p
         /\ SymmetryConjugate(SymmetryConjugate(p, InverseSymmetryIndex[s]), s) = p
BY InverseSymmetry, SymmetriesActOnPositions

(* A move as seen through a symmetry and back is that move. *)
LEMMA MoveThereAndBack ==
  ASSUME NEW q \in Positions, NEW m \in AllMoves, NEW s \in Symmetries
  PROVE  Multiply(q, MoveConjugate(MoveConjugate(m, InverseSymmetryIndex[s]), s)) = Multiply(q, m)
<1> DEFINE i == InverseSymmetryIndex[s]
           n == MoveConjugate(m, i)
           p == SymmetryConjugate(q, i)
<1>1. i \in Symmetries /\ n \in AllMoves /\ p \in Positions /\ Multiply(p, n) \in Positions
  BY InverseSymmetry, SymmetriesMapMoves, ConjugateType, MoveType
<1>2. q = SymmetryConjugate(p, s)
  BY ThereAndBack
<1>3. Multiply(q, MoveConjugate(n, s)) = SymmetryConjugate(Multiply(p, n), s)
  BY <1>1, <1>2, SymmetriesMapMoves
<1>4. Multiply(p, n) = SymmetryConjugate(Multiply(q, m), i)
  BY <1>1, SymmetriesMapMoves
<1>5. SymmetryConjugate(SymmetryConjugate(Multiply(q, m), i), s) = Multiply(q, m)
  BY MoveType, ThereAndBack
<1> QED BY <1>3, <1>4, <1>5

-----------------------------------------------------------------------------
(* Distances. *)

(* Ball is the function that its definition describes: there is one such   *)
(* function on 0 .. n for each n, and they agree.                          *)
LEMMA BallDef ==
  /\ Ball[0] = {Solved}
  /\ \A n \in Nat : Ball[n + 1] = OneMoveMore(Ball[n])
<1> DEFINE Rule(g, k) == g[k] = IF k = 0 THEN {Solved} ELSE OneMoveMore(g[k - 1])
           UpTo(n) == {g \in [0 .. n -> SUBSET Positions] : \A k \in 0 .. n : Rule(g, k)}
<1> HIDE DEF Rule, UpTo
<1>1. \A n \in Nat : UpTo(n) # {}
  <2> DEFINE T == {n \in Nat : UpTo(n) = {}}
  <2>1. SUFFICES ASSUME T # {} PROVE FALSE
    OBVIOUS
  <2>2. PICK n \in T : \A m \in T : n <= m
    BY <2>1, Smallest
  <2>3. CASE n = 0
    <3>1. [k \in 0 .. 0 |-> {Solved}] \in UpTo(0)
      BY SolvedType DEF UpTo, Rule
    <3> QED BY <2>3, <3>1
  <2>4. CASE n # 0
    <3>1. n - 1 \in Nat /\ n - 1 \notin T
      BY <2>2, <2>4
    <3>2. PICK g : g \in UpTo(n - 1)
      BY <3>1
    <3> DEFINE h == [k \in 0 .. n |-> IF k < n THEN g[k] ELSE OneMoveMore(g[n - 1])]
    <3>3. /\ g \in [0 .. n - 1 -> SUBSET Positions]
          /\ g[n - 1] \in SUBSET Positions
      BY <3>1, <3>2 DEF UpTo
    <3>4. OneMoveMore(g[n - 1]) \in SUBSET Positions
      BY <3>3, MoveType DEF OneMoveMore
    <3>5. h \in [0 .. n -> SUBSET Positions]
      BY <3>3, <3>4
    <3>6. ASSUME NEW k \in 0 .. n PROVE Rule(h, k)
      <4>1. CASE k < n
        <5>1. k \in 0 .. n - 1 /\ Rule(g, k) /\ h[k] = g[k]
          BY <3>1, <3>2, <4>1 DEF UpTo
        <5>2. k # 0 => h[k - 1] = g[k - 1]
          BY <3>1, <4>1
        <5> QED BY <5>1, <5>2 DEF Rule
      <4>2. CASE k = n
        BY <2>4, <3>1, <4>2 DEF Rule
      <4> QED BY <4>1, <4>2
    <3>7. h \in UpTo(n)
      BY <3>5, <3>6 DEF UpTo
    <3> QED BY <2>2, <3>7
  <2> QED BY <2>3, <2>4
<1>2. ASSUME NEW m \in Nat, NEW n \in Nat, m <= n, NEW g \in UpTo(m), NEW h \in UpTo(n)
      PROVE  \A k \in 0 .. m : g[k] = h[k]
  <2> DEFINE T == {k \in Nat : k <= m /\ g[k] # h[k]}
  <2>1. SUFFICES ASSUME T # {} PROVE FALSE
    OBVIOUS
  <2>2. PICK k \in T : \A j \in T : k <= j
    BY <2>1, Smallest
  <2>3. k \in 0 .. m /\ k \in 0 .. n /\ Rule(g, k) /\ Rule(h, k)
    BY <1>2, <2>2 DEF UpTo
  <2>4. k # 0 => k - 1 \in Nat /\ k - 1 \notin T
    BY <2>2
  <2>5. k # 0 => g[k - 1] = h[k - 1]
    BY <2>2, <2>4
  <2> QED BY <2>2, <2>3, <2>5 DEF Rule
<1> DEFINE G(n) == CHOOSE g : g \in UpTo(n)
           F == [n \in Nat |-> G(n)[n]]
<1>3. \A n \in Nat : G(n) \in UpTo(n)
  BY <1>1
<1> HIDE DEF G
<1>4. F = [n \in Nat |-> IF n = 0 THEN {Solved} ELSE OneMoveMore(F[n - 1])]
  <2> SUFFICES ASSUME NEW n \in Nat
               PROVE  F[n] = IF n = 0 THEN {Solved} ELSE OneMoveMore(F[n - 1])
    OBVIOUS
  <2>1. F[n] = G(n)[n] /\ n \in 0 .. n
    OBVIOUS
  <2>2. Rule(G(n), n)
    BY <1>3, <2>1 DEF UpTo
  <2>3. ASSUME n # 0 PROVE G(n)[n - 1] = F[n - 1]
    <3>1. n - 1 \in Nat /\ n - 1 <= n /\ n - 1 \in 0 .. n - 1
      BY <2>3
    <3>2. F[n - 1] = G(n - 1)[n - 1]
      BY <3>1
    <3> QED BY <1>2, <1>3, <3>1, <3>2
  <2> QED BY <2>1, <2>2, <2>3 DEF Rule
<1> HIDE DEF F
<1>5. Ball = [n \in Nat |-> IF n = 0 THEN {Solved} ELSE OneMoveMore(Ball[n - 1])]
  BY <1>4 DEF Ball
<1>6. ASSUME NEW n \in Nat PROVE Ball[n + 1] = OneMoveMore(Ball[n])
  <2>1. n + 1 \in Nat /\ n + 1 # 0 /\ (n + 1) - 1 = n
    OBVIOUS
  <2> QED BY <1>5, <2>1
<1> QED BY <1>5, <1>6
LEMMA BallType ==
  ASSUME NEW n \in Nat
  PROVE  Ball[n] \subseteq Positions
<1> DEFINE T == {k \in Nat : ~ (Ball[k] \subseteq Positions)}
<1>1. SUFFICES ASSUME T # {} PROVE FALSE
  OBVIOUS
<1>2. PICK k \in T : \A j \in T : k <= j
  BY <1>1, Smallest
<1>3. k # 0
  BY <1>2, BallDef, SolvedType
<1>4. k - 1 \in Nat /\ k - 1 \notin T /\ (k - 1) + 1 = k
  BY <1>2, <1>3
<1>5. Ball[k - 1] \subseteq Positions /\ Ball[k] = OneMoveMore(Ball[k - 1])
  BY <1>4, BallDef
<1> QED BY <1>2, <1>5, MoveType DEF OneMoveMore

LEMMA BallGrows ==
  ASSUME NEW m \in Nat, NEW n \in Nat, m <= n
  PROVE  Ball[m] \subseteq Ball[n]
<1> DEFINE T == {k \in Nat : m <= k /\ ~ (Ball[m] \subseteq Ball[k])}
<1>1. SUFFICES ASSUME T # {} PROVE FALSE
  OBVIOUS
<1>2. PICK k \in T : \A j \in T : k <= j
  BY <1>1, Smallest
<1>3. k # m /\ m <= k
  BY <1>2
<1>4. k - 1 \in Nat /\ m <= k - 1 /\ k - 1 \notin T /\ (k - 1) + 1 = k
  BY <1>2, <1>3
<1>5. Ball[m] \subseteq Ball[k - 1] /\ Ball[k] = OneMoveMore(Ball[k - 1])
  BY <1>4, BallDef
<1> QED BY <1>2, <1>5 DEF OneMoveMore

(* The distance of a position is the number of the first ball it is in. *)
LEMMA DistanceIs ==
  ASSUME NEW p \in Positions
  PROVE  /\ Distances[p] \in Nat /\ Distances[p] <= FarthestDistance
         /\ \A n \in Nat : p \in Ball[n] <=> Distances[p] <= n
<1> DEFINE First(n) == p \in Balls[n] /\ (n = 0 \/ p \notin Balls[n - 1])
<1>1. FarthestDistance \in Nat
  BY SomeDistance DEF RelativePruningLength
<1>2. \A n \in 0 .. FarthestDistance : Balls[n] = Ball[n]
  BY DEF Balls
<1>3. p \in Ball[FarthestDistance]
  BY <1>1, <1>2, NoneIsFarther
<1> DEFINE T == {n \in Nat : p \in Ball[n]}
<1>4. PICK n \in T : \A k \in T : n <= k
  BY <1>1, <1>3, Smallest
<1>5. n \in 0 .. FarthestDistance
  BY <1>1, <1>3, <1>4
<1>6. First(n)
  <2>1. n # 0 => n - 1 \in Nat /\ n - 1 \notin T /\ n - 1 \in 0 .. FarthestDistance
    BY <1>1, <1>4, <1>5
  <2> QED BY <1>2, <1>4, <1>5, <2>1
<1>7. Distances[p] \in 0 .. FarthestDistance /\ First(Distances[p])
  <2>1. Distances[p] = CHOOSE k \in 0 .. FarthestDistance : First(k)
    BY DEF Distances
  <2> HIDE DEF First
  <2> QED BY <1>5, <1>6, <2>1
<1> DEFINE d == Distances[p]
<1>8. d \in Nat /\ d <= FarthestDistance /\ p \in Ball[d]
  BY <1>1, <1>2, <1>7
<1>9. ASSUME NEW k \in Nat, p \in Ball[k] PROVE d <= k
  <2>1. SUFFICES ASSUME k < d PROVE FALSE
    BY <1>8
  <2>2. d - 1 \in Nat /\ k <= d - 1 /\ d - 1 \in 0 .. FarthestDistance /\ d # 0
    BY <1>1, <1>8, <2>1
  <2>3. p \in Ball[d - 1]
    BY <1>9, <2>2, BallGrows
  <2> QED BY <1>2, <1>7, <2>2, <2>3
<1>10. ASSUME NEW k \in Nat, d <= k PROVE p \in Ball[k]
  BY <1>8, <1>10, BallGrows
<1> QED BY <1>8, <1>9, <1>10

LEMMA ZeroIsSolved ==
  ASSUME NEW p \in Positions
  PROVE  Distances[p] = 0 <=> p = Solved
<1>1. p \in Ball[0] <=> Distances[p] <= 0
  BY DistanceIs
<1> QED BY <1>1, DistanceIs, BallDef

(* A move changes the distance by at most one. *)
LEMMA MoveIsOneApart ==
  ASSUME NEW p \in Positions, NEW m \in AllMoves
  PROVE  OneApart(Distances[p], Distances[Multiply(p, m)])
<1>1. ASSUME NEW q \in Positions, NEW n \in AllMoves
      PROVE  Distances[Multiply(q, n)] <= Distances[q] + 1
  <2>1. Distances[q] \in Nat /\ q \in Ball[Distances[q]]
    BY DistanceIs
  <2>2. Multiply(q, n) \in Ball[Distances[q] + 1]
    <3>1. Ball[Distances[q] + 1] = OneMoveMore(Ball[Distances[q]])
      BY <2>1, BallDef
    <3> QED BY <2>1, <3>1 DEF OneMoveMore
  <2>3. Distances[q] + 1 \in Nat
    BY <2>1
  <2> QED BY <2>2, <2>3, DistanceIs, MoveType
<1>2. PICK n \in AllMoves : \A q \in Positions : Multiply(Multiply(q, m), n) = q
  BY MovesMoveCoordinates
<1>3. Distances[p] <= Distances[Multiply(p, m)] + 1
  BY <1>1, <1>2, MoveType
<1>4. Distances[p] \in Nat /\ Distances[Multiply(p, m)] \in Nat
  BY DistanceIs, MoveType
<1> QED BY <1>1, <1>3, <1>4 DEF OneApart

(* Whatever is not solved is one move away from what is one nearer. *)
LEMMA Predecessor ==
  ASSUME NEW q \in Positions, NEW d \in Nat, Distances[q] = d + 1
  PROVE  \E p \in Positions, m \in AllMoves : q = Multiply(p, m) /\ Distances[p] = d
<1>1. q \in Ball[d + 1] /\ q \notin Ball[d]
  BY DistanceIs
<1>2. PICK p \in Ball[d], m \in AllMoves : q = Multiply(p, m)
  BY <1>1, BallDef DEF OneMoveMore
<1>3. p \in Positions
  BY <1>2, BallType
<1>4. Distances[p] <= d /\ OneApart(Distances[p], Distances[q]) /\ Distances[p] \in Nat
  BY <1>2, <1>3, DistanceIs, MoveIsOneApart
<1>5. Distances[p] = d
  BY <1>4 DEF OneApart
<1> QED BY <1>2, <1>3, <1>5

(* A position and what a symmetry makes of it are equally far. *)
LEMMA ConjugateDistance ==
  ASSUME NEW p \in Positions, NEW s \in Symmetries
  PROVE  Distances[SymmetryConjugate(p, s)] = Distances[p]
<1> DEFINE T == {n \in Nat : \E q \in Ball[n], t \in Symmetries : SymmetryConjugate(q, t) \notin Ball[n]}
<1>1. T = {}
  <2>1. SUFFICES ASSUME T # {} PROVE FALSE
    OBVIOUS
  <2>2. PICK n \in T : \A k \in T : n <= k
    BY <2>1, Smallest
  <2>3. PICK q \in Ball[n], t \in Symmetries : SymmetryConjugate(q, t) \notin Ball[n]
    BY <2>2
  <2>4. n # 0
    BY <2>3, BallDef, SymmetriesActOnPositions
  <2>5. n - 1 \in Nat /\ n - 1 \notin T /\ (n - 1) + 1 = n
    BY <2>2, <2>4
  <2>6. Ball[n] = OneMoveMore(Ball[n - 1]) /\ Ball[n - 1] \subseteq Positions
    BY <2>5, BallDef, BallType
  <2>7. \A x \in Ball[n - 1] : SymmetryConjugate(x, t) \in Ball[n - 1]
    BY <2>5
  <2>8. PICK x \in Ball[n - 1], m \in AllMoves : q = Multiply(x, m)
    BY <2>3, <2>6, <2>7 DEF OneMoveMore
  <2>9. /\ SymmetryConjugate(q, t) = Multiply(SymmetryConjugate(x, t), MoveConjugate(m, t))
        /\ MoveConjugate(m, t) \in AllMoves
    BY <2>6, <2>8, SymmetriesMapMoves
  <2> QED BY <2>3, <2>6, <2>7, <2>8, <2>9 DEF OneMoveMore
<1>2. ASSUME NEW q \in Positions, NEW t \in Symmetries
      PROVE  Distances[SymmetryConjugate(q, t)] <= Distances[q]
  <2>1. Distances[q] \in Nat /\ q \in Ball[Distances[q]]
    BY DistanceIs
  <2>2. SymmetryConjugate(q, t) \in Ball[Distances[q]]
    BY <1>1, <2>1
  <2> QED BY <2>1, <2>2, DistanceIs, ConjugateType
<1> DEFINE c == SymmetryConjugate(p, s)
<1>3. c \in Positions /\ Distances[c] <= Distances[p]
  BY <1>2, ConjugateType
<1>4. Distances[p] <= Distances[c]
  BY <1>2, <1>3, ThereAndBack, InverseSymmetry
<1> QED BY <1>3, <1>4, DistanceIs

-----------------------------------------------------------------------------
(* Classes and sym coordinates. *)

LEMMA QuotientAndRemainder ==
  ASSUME NEW n \in Nat \ {0}, NEW k \in Nat
  PROVE  /\ k \div n \in Nat /\ k % n \in 0 .. n - 1
         /\ k = (k \div n) * n + (k % n)
OBVIOUS

LEMMA ProductGrows ==
  ASSUME NEW n \in Nat, NEW a \in Nat, NEW b \in Nat, a <= b
  PROVE  a * n \in Nat /\ b * n \in Nat /\ a * n <= b * n
<1>1. PICK d \in Nat : b = a + d
  BY b - a \in Nat
<1>2. (a + d) * n = a * n + d * n
  OBVIOUS
<1>3. a * n \in Nat /\ d * n \in Nat
  OBVIOUS
<1> QED BY <1>1, <1>2, <1>3

LEMMA Remainder ==
  ASSUME NEW n \in Nat \ {0}, NEW a \in Nat, NEW b \in Nat,
         NEW r \in 0 .. n - 1, NEW s \in 0 .. n - 1, a * n + r = b * n + s
  PROVE  a = b /\ r = s
<1>1. ASSUME NEW x \in Nat, NEW y \in Nat, NEW u \in 0 .. n - 1, NEW v \in 0 .. n - 1,
             x * n + u = y * n + v
      PROVE  ~ (x < y)
  <2>1. SUFFICES ASSUME x + 1 <= y PROVE FALSE
    OBVIOUS
  <2>2. (x + 1) * n <= y * n
    BY <2>1, ProductGrows, x + 1 \in Nat
  <2>3. (x + 1) * n = x * n + n
    OBVIOUS
  <2>4. x * n \in Nat /\ y * n \in Nat
    OBVIOUS
  <2> QED BY <1>1, <2>2, <2>3, <2>4
<1>2. a = b
  BY <1>1
<1>3. a * n \in Nat
  OBVIOUS
<1> QED BY <1>2, <1>3

(* A number below m * n is a pair. *)
LEMMA PairOfNumber ==
  ASSUME NEW n \in Nat \ {0}, NEW m \in Nat, NEW k \in 0 .. n * m - 1
  PROVE  k \div n \in 0 .. m - 1 /\ k % n \in 0 .. n - 1
<1>1. k \in Nat /\ k < m * n
  BY n * m \in Nat, n * m = m * n
<1> DEFINE q == k \div n
<1>2. q \in Nat /\ k % n \in 0 .. n - 1 /\ k = q * n + (k % n)
  BY <1>1, QuotientAndRemainder
<1> HIDE DEF q
<1>3. q < m
  <2>1. SUFFICES ASSUME m <= q PROVE FALSE
    BY <1>2
  <2>2. m * n <= q * n /\ q * n \in Nat /\ m * n \in Nat
    BY <1>2, <2>1, ProductGrows
  <2> QED BY <1>1, <1>2, <2>2
<1> QED BY <1>2, <1>3 DEF q

LEMMA NumberOfPair ==
  ASSUME NEW n \in Nat \ {0}, NEW m \in Nat, NEW a \in 0 .. m - 1, NEW r \in 0 .. n - 1
  PROVE  /\ a * n + r \in 0 .. n * m - 1
         /\ (a * n + r) \div n = a /\ (a * n + r) % n = r
<1>1. a + 1 \in Nat /\ a + 1 <= m /\ a \in Nat
  OBVIOUS
<1>2. (a + 1) * n <= m * n /\ (a + 1) * n = a * n + n /\ m * n = n * m
  BY <1>1, ProductGrows
<1>3. a * n \in Nat /\ m * n \in Nat
  OBVIOUS
<1> DEFINE k == a * n + r
<1>4. k \in Nat /\ k < m * n
  BY <1>2, <1>3
<1>5. k \div n \in Nat /\ k % n \in 0 .. n - 1 /\ k = (k \div n) * n + (k % n)
  BY <1>4, QuotientAndRemainder
<1>6. k = a * n + r
  OBVIOUS
<1> HIDE DEF k
<1>7. k \div n = a /\ k % n = r
  <2> DEFINE b == k \div n
             s == k % n
  <2>1. b \in Nat /\ s \in 0 .. n - 1 /\ k = b * n + s
    BY <1>5
  <2> HIDE DEF b, s
  <2>2. b = a /\ s = r
    BY <1>1, <1>6, <2>1, Remainder
  <2> QED BY <2>2 DEF b, s
<1> QED BY <1>2, <1>3, <1>4, <1>7 DEF k

(* Where a symmetry maps a raw coordinate. *)
Through(r, s) == SymmetryConjugate(UDSliceSortedCoordinateInverse(r), s).ud

LEMMA ThroughIs ==
  /\ \A p \in Positions, s \in Symmetries : SymmetryConjugate(p, s).ud = Through(p.ud, s)
  /\ \A r \in Raws, s \in Symmetries : Through(r, s) \in Raws
  /\ \A r \in Raws : Through(r, IdentitySymmetry) = r
  /\ \A r \in Raws, s, t \in Symmetries : Through(Through(r, t), s) = Through(r, SymmetryProduct(s, t))
  /\ \A s \in Symmetries : Through(0, s) = 0
<1> HIDE DEF IdentitySymmetry
<1>1. \A p \in Positions, s \in Symmetries : SymmetryConjugate(p, s).ud = Through(p.ud, s)
  BY SymmetriesMapCoordinates DEF Through
<1>2. ASSUME NEW r \in Raws
      PROVE  /\ UDSliceSortedCoordinateInverse(r) \in Positions
             /\ UDSliceSortedCoordinateInverse(r).ud = r
  BY Zeros, PositionType DEF UDSliceSortedCoordinateInverse
<1>3. \A r \in Raws, s \in Symmetries : Through(r, s) \in Raws
  BY <1>2, ConjugateType, PositionType DEF Through
<1>4. \A r \in Raws : Through(r, IdentitySymmetry) = r
  BY <1>2, SymmetriesActOnPositions DEF Through
<1>5. ASSUME NEW r \in Raws, NEW s \in Symmetries, NEW t \in Symmetries
      PROVE  Through(Through(r, t), s) = Through(r, SymmetryProduct(s, t))
  <2> DEFINE p == SymmetryConjugate(UDSliceSortedCoordinateInverse(r), t)
  <2>1. p \in Positions /\ p.ud = Through(r, t)
    BY <1>2, ConjugateType DEF Through
  <2>2. SymmetryConjugate(p, s) = SymmetryConjugate(UDSliceSortedCoordinateInverse(r), SymmetryProduct(s, t))
    BY <1>2, SymmetriesActOnPositions
  <2> QED BY <1>1, <2>1, <2>2 DEF Through
<1>6. \A s \in Symmetries : Through(0, s) = 0
  BY SymmetriesActOnPositions, Zeros, PositionType DEF Through, UDSliceSortedCoordinateInverse, Solved
<1> QED BY <1>1, <1>3, <1>4, <1>5, <1>6

LEMMA ThroughAndBack ==
  ASSUME NEW r \in Raws, NEW s \in Symmetries
  PROVE  /\ Through(Through(r, s), InverseSymmetryIndex[s]) = r
         /\ Through(Through(r, InverseSymmetryIndex[s]), s) = r
BY ThroughIs, InverseSymmetry

Rank(r) == Cardinality({q \in Representants : q < r})

LEMMA RepresentantsAreFinite ==
  /\ Representants \subseteq Raws /\ Representants \subseteq Nat
  /\ IsFiniteSet(Representants)
  /\ UDSliceSortedClassCount \in Nat /\ UDSliceSortedClassCount > 0
  /\ 0 \in Representants /\ 0 \in Classes
<1>1. Representants \subseteq Raws /\ Raws \subseteq Nat
  BY DEF Representants, Raws
<1>2. IsFiniteSet(Raws)
  BY FS_Interval, ThereAreCoordinates DEF Raws
<1>3. IsFiniteSet(Representants)
  BY <1>1, <1>2, FS_Subset
<1>4. 0 \in Representants
  BY ThroughIs, Zeros DEF Representants, Through
<1>5. UDSliceSortedClassCount \in Nat
  BY <1>3, FS_CardinalityType DEF UDSliceSortedClassCount
<1>6. UDSliceSortedClassCount # 0
  BY <1>3, <1>4, FS_EmptySet DEF UDSliceSortedClassCount
<1> QED BY <1>1, <1>3, <1>4, <1>5, <1>6 DEF Classes

LEMMA RankGrows ==
  ASSUME NEW r \in Representants
  PROVE  /\ Rank(r) \in Classes
         /\ \A q \in Representants : q < r => Rank(q) < Rank(r)
<1> DEFINE Below(x) == {q \in Representants : q < x}
<1>1. Representants \subseteq Nat /\ IsFiniteSet(Representants)
  BY RepresentantsAreFinite
<1>2. ASSUME NEW x \in Representants, NEW S \in SUBSET Representants, Below(x) \subseteq S, x \in S
      PROVE  Rank(x) \in Nat /\ Cardinality(S) \in Nat /\ Rank(x) < Cardinality(S)
  <2>1. IsFiniteSet(S)
    BY <1>1, FS_Subset
  <2>2. IsFiniteSet(Below(x)) /\ Cardinality(Below(x)) <= Cardinality(S)
    BY <1>2, <2>1, FS_Subset
  <2>3. x \notin Below(x)
    BY <1>1
  <2>4. Cardinality(Below(x)) # Cardinality(S)
    BY <1>2, <2>1, <2>3, FS_Subset
  <2>5. Cardinality(S) \in Nat /\ Cardinality(Below(x)) \in Nat
    BY <2>1, <2>2, FS_CardinalityType
  <2> QED BY <2>2, <2>4, <2>5 DEF Rank
<1>3. Rank(r) \in Nat /\ Rank(r) < UDSliceSortedClassCount /\ UDSliceSortedClassCount \in Nat
  BY <1>2 DEF UDSliceSortedClassCount
<1>4. ASSUME NEW q \in Representants, q < r PROVE Rank(q) < Rank(r)
  <2>1. Below(q) \subseteq Below(r) /\ q \in Below(r)
    <3>1. r \in Nat /\ q \in Nat /\ \A x \in Representants : x \in Nat
      BY <1>1
    <3>2. \A x \in Representants : x < q => x < r
      BY <1>4, <3>1
    <3> QED BY <1>4, <3>2
  <2>2. Rank(q) < Cardinality(Below(r))
    BY <1>2, <2>1
  <2> QED BY <2>2 DEF Rank
<1> QED BY <1>3, <1>4 DEF Classes

(* Classes are numbered one by one: every one has a representant, and      *)
(* every representant is that of one class.                                *)
LEMMA RepresentantIs ==
  /\ \A class \in Classes : Representant(class) \in Representants /\ Rank(Representant(class)) = class
  /\ \A r \in Representants : Rank(r) \in Classes /\ Representant(Rank(r)) = r
  /\ Representant(0) = 0
<1> DEFINE f == [r \in Representants |-> Rank(r)]
<1>1. \A q, r \in Representants : Rank(q) = Rank(r) => q = r
  <2>1. SUFFICES ASSUME NEW q \in Representants, NEW r \in Representants, Rank(q) = Rank(r)
                 PROVE  q = r
    OBVIOUS
  <2>2. Rank(q) \in Nat /\ q \in Nat /\ r \in Nat
    BY RankGrows, RepresentantsAreFinite DEF Classes
  <2>3. ~ (q < r) /\ ~ (r < q)
    BY <2>1, <2>2, RankGrows
  <2> QED BY <2>2, <2>3
<1>2. f \in Injection(Representants, Classes)
  BY <1>1, RankGrows, Zenon DEF Injection, IsInjective
<1>3. IsFiniteSet(Classes) /\ Cardinality(Classes) = Cardinality(Representants)
  BY FS_Interval, RepresentantsAreFinite DEF Classes, UDSliceSortedClassCount
<1>4. f \in Surjection(Representants, Classes)
  BY <1>2, <1>3, FS_Injection
<1>5. ASSUME NEW class \in Classes
      PROVE  Representant(class) \in Representants /\ Rank(Representant(class)) = class
  <2>1. \E r \in Representants : Rank(r) = class
    BY <1>4 DEF Surjection
  <2>2. Representant(class) = CHOOSE r \in Representants : Rank(r) = class
    BY DEF Representant, UDSliceSortedClass2Representant, Rank
  <2> QED BY <2>1, <2>2
<1>6. \A r \in Representants : Rank(r) \in Classes /\ Representant(Rank(r)) = r
  BY <1>1, <1>5, RankGrows
<1>7. Rank(0) = 0
  <2>1. \A q \in Representants : q \in Nat /\ ~ (q < 0)
    BY RepresentantsAreFinite
  <2>2. {q \in Representants : q < 0} = {}
    BY <2>1
  <2> QED BY <2>2, FS_EmptySet DEF Rank
<1> QED BY <1>5, <1>6, <1>7, RepresentantsAreFinite

(* No symmetry leads from one class to another. *)
LEMMA ClassesAreApart ==
  ASSUME NEW c \in Classes, NEW d \in Classes, NEW s \in Symmetries,
         Representant(d) = Through(Representant(c), s)
  PROVE  d = c
<1>1. ASSUME NEW q \in Representants, NEW t \in Symmetries
      PROVE  q <= Through(q, t) /\ q \in Raws /\ q \in Nat
  BY RepresentantsAreFinite DEF Representants, Through
<1> DEFINE q == Representant(c)
           r == Representant(d)
<1>2. q \in Representants /\ r \in Representants /\ Rank(q) = c /\ Rank(r) = d
  BY RepresentantIs
<1>3. q = Through(r, InverseSymmetryIndex[s])
  BY <1>1, <1>2, ThroughAndBack
<1>4. q <= r /\ r <= q /\ q \in Nat /\ r \in Nat
  BY <1>1, <1>2, <1>3, InverseSymmetry
<1> QED BY <1>2, <1>4

(* A sym coordinate is a class and a symmetry. *)
LEMMA SymCoordinateIs ==
  /\ \A sym \in SymUDSliceSortedCoordinates :
       /\ SymUDSliceSortedClass(sym) \in Classes /\ SymUDSliceSortedSymmetry(sym) \in Symmetries
       /\ sym = SymUDSliceSortedClass(sym) * SymmetryLength + SymUDSliceSortedSymmetry(sym)
       /\ UDSliceSortedSym2Raw[sym] \in Raws
       /\ UDSliceSortedSym2Raw[sym] =
            Through(Representant(SymUDSliceSortedClass(sym)), SymUDSliceSortedSymmetry(sym))
  /\ \A class \in Classes, s \in Symmetries :
       /\ class * SymmetryLength + s \in SymUDSliceSortedCoordinates
       /\ SymUDSliceSortedClass(class * SymmetryLength + s) = class
       /\ SymUDSliceSortedSymmetry(class * SymmetryLength + s) = s
       /\ UDSliceSortedSym2Raw[class * SymmetryLength + s] = Through(Representant(class), s)
<1>1. SymmetryLength \in Nat \ {0} /\ UDSliceSortedClassCount \in Nat
  BY ThereAreCoordinates, RepresentantsAreFinite
<1>2. ASSUME NEW sym \in SymUDSliceSortedCoordinates
      PROVE  /\ SymUDSliceSortedClass(sym) \in Classes /\ SymUDSliceSortedSymmetry(sym) \in Symmetries
             /\ sym = SymUDSliceSortedClass(sym) * SymmetryLength + SymUDSliceSortedSymmetry(sym)
  <2>1. sym \in 0 .. SymmetryLength * UDSliceSortedClassCount - 1
    BY DEF SymUDSliceSortedCoordinates, SymUDSliceSortedCoordinateLength
  <2>2. SymmetryLength * UDSliceSortedClassCount \in Nat
    BY <1>1
  <2>3. sym \in Nat
    BY <2>1, <2>2
  <2> QED
    BY <1>1, <2>1, <2>3, PairOfNumber, QuotientAndRemainder
    DEF SymUDSliceSortedClass, SymUDSliceSortedSymmetry, Classes, Symmetries
<1>3. ASSUME NEW class \in Classes, NEW s \in Symmetries
      PROVE  /\ class * SymmetryLength + s \in SymUDSliceSortedCoordinates
             /\ SymUDSliceSortedClass(class * SymmetryLength + s) = class
             /\ SymUDSliceSortedSymmetry(class * SymmetryLength + s) = s
  BY <1>1, NumberOfPair
  DEF SymUDSliceSortedClass, SymUDSliceSortedSymmetry, Classes, Symmetries,
      SymUDSliceSortedCoordinates, SymUDSliceSortedCoordinateLength
<1>4. ASSUME NEW sym \in SymUDSliceSortedCoordinates
      PROVE  /\ UDSliceSortedSym2Raw[sym] \in Raws
             /\ UDSliceSortedSym2Raw[sym] =
                  Through(Representant(SymUDSliceSortedClass(sym)), SymUDSliceSortedSymmetry(sym))
  <2>1. UDSliceSortedSym2Raw[sym] =
          Through(Representant(SymUDSliceSortedClass(sym)), SymUDSliceSortedSymmetry(sym))
    BY DEF UDSliceSortedSym2Raw, Through
  <2>2. Representant(SymUDSliceSortedClass(sym)) \in Raws
    BY <1>2, RepresentantIs, RepresentantsAreFinite
  <2> QED BY <1>2, <2>1, <2>2, ThroughIs
<1>5. ASSUME NEW class \in Classes, NEW s \in Symmetries
      PROVE  UDSliceSortedSym2Raw[class * SymmetryLength + s] = Through(Representant(class), s)
  <2> DEFINE sym == class * SymmetryLength + s
  <2>1. /\ sym \in SymUDSliceSortedCoordinates
        /\ SymUDSliceSortedClass(sym) = class /\ SymUDSliceSortedSymmetry(sym) = s
    BY <1>3
  <2> HIDE DEF sym
  <2>2. UDSliceSortedSym2Raw[sym] = Through(Representant(class), s)
    BY <1>4, <2>1
  <2> QED BY <2>2 DEF sym
<1> QED BY <1>2, <1>3, <1>4, <1>5

(* Every raw coordinate has a sym coordinate. *)
LEMMA RawHasSym ==
  ASSUME NEW r \in Raws
  PROVE  \E sym \in SymUDSliceSortedCoordinates : UDSliceSortedSym2Raw[sym] = r
<1> DEFINE Orbit == {Through(r, s) : s \in Symmetries}
<1>1. Orbit \subseteq Nat /\ Orbit # {}
  BY ThroughIs, Zeros DEF Raws
<1>2. PICK q \in Orbit : \A x \in Orbit : q <= x
  BY <1>1, Smallest
<1>3. PICK s \in Symmetries : q = Through(r, s)
  BY <1>2
<1>4. q \in Raws /\ q \in Nat
  BY <1>3, ThroughIs DEF Raws
<1>5. ASSUME NEW t \in Symmetries PROVE Through(q, t) >= q
  <2>1. Through(q, t) = Through(r, SymmetryProduct(t, s)) /\ SymmetryProduct(t, s) \in Symmetries
    BY <1>3, ThroughIs, SymmetriesAreAGroup
  <2>2. Through(q, t) \in Orbit
    BY <2>1
  <2> QED BY <1>1, <1>2, <1>4, <2>2
<1>6. q \in Representants
  BY <1>4, <1>5 DEF Representants, Through
<1>7. Rank(q) \in Classes /\ Representant(Rank(q)) = q
  BY <1>6, RepresentantIs
<1>8. Through(q, InverseSymmetryIndex[s]) = r
  BY <1>3, ThroughAndBack
<1> QED BY <1>7, <1>8, InverseSymmetry, SymCoordinateIs

LEMMA SymCoordinateOf ==
  ASSUME NEW p \in Positions
  PROVE  /\ SymUDSliceSortedCoordinate(p) \in SymUDSliceSortedCoordinates
         /\ UDSliceSortedSym2Raw[SymUDSliceSortedCoordinate(p)] = p.ud
<1> DEFINE S == UDSliceSortedRaw2Sym[p.ud]
<1>1. S = {sym \in SymUDSliceSortedCoordinates : UDSliceSortedSym2Raw[sym] = p.ud}
  BY PositionType DEF UDSliceSortedRaw2Sym
<1>2. S # {}
  BY <1>1, RawHasSym, PositionType
<1>3. SymUDSliceSortedCoordinates \subseteq Nat
  <2>1. SymmetryLength * UDSliceSortedClassCount \in Nat
    BY ThereAreCoordinates, RepresentantsAreFinite
  <2> QED BY <2>1 DEF SymUDSliceSortedCoordinates, SymUDSliceSortedCoordinateLength
<1>4. \E x \in S : \A y \in S : x <= y
  BY <1>1, <1>2, <1>3, Smallest
<1>5. SymUDSliceSortedCoordinate(p) \in S
  BY <1>4 DEF SymUDSliceSortedCoordinate, Min
<1> QED BY <1>1, <1>5

-----------------------------------------------------------------------------
(* Entries. *)

(* The position that an entry stands for, and the one of three coordinates. *)
PositionOf(e) == Position(Representant(e.class), e.edge, e.corner)
SymPosition(sym, edge, corner) == Position(UDSliceSortedSym2Raw[sym], edge, corner)

LEMMA EntryPosition ==
  /\ \A e \in Entries : /\ e.class \in Classes /\ e.edge \in Edges /\ e.corner \in Corners
                        /\ PositionOf(e) \in Positions
                        /\ TrueDistance(e) = Distances[PositionOf(e)]
                        /\ TrueDistance(e) \in Nat
  /\ \A e, f \in Entries : PositionOf(e) = PositionOf(f) => e = f
  /\ \A sym \in SymUDSliceSortedCoordinates, edge \in Edges, corner \in Corners :
       SymPosition(sym, edge, corner) \in Positions
<1>1. ASSUME NEW e \in Entries
      PROVE  /\ e.class \in Classes /\ e.edge \in Edges /\ e.corner \in Corners
             /\ PositionOf(e) \in Positions
             /\ TrueDistance(e) = Distances[PositionOf(e)]
             /\ TrueDistance(e) \in Nat
  <2>1. e.class \in Classes /\ e.edge \in Edges /\ e.corner \in Corners
    BY DEF Entries
  <2>2. Representant(e.class) \in Raws
    BY <2>1, RepresentantIs, RepresentantsAreFinite
  <2>3. PositionOf(e) \in Positions
    BY <2>1, <2>2, PositionType DEF PositionOf
  <2> QED BY <2>1, <2>3, DistanceIs DEF TrueDistance, PositionOf
<1>2. ASSUME NEW e \in Entries, NEW f \in Entries, PositionOf(e) = PositionOf(f)
      PROVE  e = f
  <2>1. Representant(e.class) = Representant(f.class) /\ e.edge = f.edge /\ e.corner = f.corner
    BY <1>2 DEF PositionOf, Position
  <2>2. e.class = f.class
    BY <1>1, <2>1, RepresentantIs
  <2> QED BY <2>1, <2>2 DEF Entries
<1>3. \A sym \in SymUDSliceSortedCoordinates, edge \in Edges, corner \in Corners :
        SymPosition(sym, edge, corner) \in Positions
  BY SymCoordinateIs, PositionType DEF SymPosition
<1> QED BY <1>1, <1>2, <1>3

(* reduce_to_representant looks at the position through the inverse of its *)
(* symmetry: what it finds in its tables is a conjugate of the position.   *)
LEMMA ReduceIs ==
  ASSUME NEW sym \in SymUDSliceSortedCoordinates, NEW edge \in Edges, NEW corner \in Corners
  PROVE  /\ reduce_to_representant(sym, edge, corner) \in Entries
         /\ PositionOf(reduce_to_representant(sym, edge, corner)) =
              SymmetryConjugate(SymPosition(sym, edge, corner),
                                InverseSymmetryIndex[SymUDSliceSortedSymmetry(sym)])
<1> DEFINE class == SymUDSliceSortedClass(sym)
           s == SymUDSliceSortedSymmetry(sym)
           i == InverseSymmetryIndex[s]
           p == SymPosition(sym, edge, corner)
           q == SymmetryConjugate(p, i)
           e == reduce_to_representant(sym, edge, corner)
<1>1. /\ class \in Classes /\ s \in Symmetries /\ i \in Symmetries
      /\ sym = class * SymmetryLength + s
      /\ UDSliceSortedSym2Raw[sym] = Through(Representant(class), s)
      /\ InverseSymmetryIndex[i] = s
  BY SymCoordinateIs, InverseSymmetry
<1>2. /\ p \in Positions /\ q \in Positions
      /\ p.ud = UDSliceSortedSym2Raw[sym] /\ p.edge = edge /\ p.corner = corner
  BY <1>1, EntryPosition, ConjugateType DEF SymPosition, Position
<1>3. q.ud = Representant(class)
  <2>1. q.ud = Through(Through(Representant(class), s), i)
    BY <1>1, <1>2, ThroughIs
  <2>2. Representant(class) \in Raws
    BY <1>1, RepresentantIs, RepresentantsAreFinite
  <2> QED BY <1>1, <2>1, <2>2, ThroughAndBack
<1>4. q.edge = EdgeOrientationConjugate[edge][class][i]
  <2>1. q.edge = SymmetryConjugate(UDSliceSortedEdgeOrientationInverse(UDSliceSortedSym2Raw[sym], edge), i).edge
    BY <1>1, <1>2, SymmetriesMapCoordinates
  <2>2. EdgeOrientationConjugate[edge][class][i] =
          SymmetryConjugate(UDSliceSortedEdgeOrientationInverse
            (UDSliceSortedSym2Raw[class * SymmetryLength + InverseSymmetryIndex[i]], edge), i).edge
    BY <1>1 DEF EdgeOrientationConjugate
  <2>3. UDSliceSortedSym2Raw[class * SymmetryLength + InverseSymmetryIndex[i]] = UDSliceSortedSym2Raw[sym]
    BY <1>1
  <2> QED BY <2>1, <2>2, <2>3
<1>5. q.corner = CornerOrientationConjugate[corner][i]
  BY <1>1, <1>2, SymmetriesMapCoordinates DEF CornerOrientationConjugate
<1>6. e = [class |-> class, edge |-> q.edge, corner |-> q.corner]
  BY <1>4, <1>5 DEF reduce_to_representant
<1>7. e \in Entries
  BY <1>1, <1>2, <1>6, PositionType DEF Entries
<1>8. PositionOf(e) = q
  BY <1>2, <1>3, <1>6, PositionType DEF PositionOf
<1> QED BY <1>7, <1>8

(* The equivalents of a position are the entries of all its conjugates.    *)
LEMMA EquivalentsAre ==
  ASSUME NEW sym \in SymUDSliceSortedCoordinates, NEW edge \in Edges, NEW corner \in Corners
  PROVE  /\ Equivalents(sym, edge, corner) \subseteq Entries
         /\ \A e \in Entries :
              e \in Equivalents(sym, edge, corner) <=>
                \E s \in Symmetries : PositionOf(e) = SymmetryConjugate(SymPosition(sym, edge, corner), s)
<1> DEFINE r == UDSliceSortedSym2Raw[sym]
           p == SymPosition(sym, edge, corner)
<1>1. /\ r \in Raws /\ p \in Positions /\ p.ud = r
      /\ UDSliceSortedRaw2Sym[r] = {x \in SymUDSliceSortedCoordinates : UDSliceSortedSym2Raw[x] = r}
  BY SymCoordinateIs, EntryPosition DEF UDSliceSortedRaw2Sym, SymPosition, Position
<1>2. ASSUME NEW x \in UDSliceSortedRaw2Sym[r]
      PROVE  /\ x \in SymUDSliceSortedCoordinates
             /\ SymUDSliceSortedSymmetry(x) \in Symmetries
             /\ InverseSymmetryIndex[SymUDSliceSortedSymmetry(x)] \in Symmetries
             /\ reduce_to_representant(x, edge, corner) \in Entries
             /\ PositionOf(reduce_to_representant(x, edge, corner)) =
                  SymmetryConjugate(p, InverseSymmetryIndex[SymUDSliceSortedSymmetry(x)])
  <2>1. x \in SymUDSliceSortedCoordinates /\ SymPosition(x, edge, corner) = p
    BY <1>1 DEF SymPosition
  <2> QED BY <2>1, ReduceIs, SymCoordinateIs, InverseSymmetry
<1>3. Equivalents(sym, edge, corner) \subseteq Entries
  BY <1>2 DEF Equivalents
<1>4. ASSUME NEW e \in Equivalents(sym, edge, corner)
      PROVE  \E s \in Symmetries : PositionOf(e) = SymmetryConjugate(p, s)
  BY <1>2, <1>4 DEF Equivalents
<1>5. ASSUME NEW e \in Entries, NEW s \in Symmetries, PositionOf(e) = SymmetryConjugate(p, s)
      PROVE  e \in Equivalents(sym, edge, corner)
  <2> DEFINE i == InverseSymmetryIndex[s]
             x == e.class * SymmetryLength + i
  <2>1. e.class \in Classes /\ i \in Symmetries /\ InverseSymmetryIndex[i] = s
    BY EntryPosition, InverseSymmetry
  <2>2. /\ x \in SymUDSliceSortedCoordinates /\ SymUDSliceSortedSymmetry(x) = i
        /\ UDSliceSortedSym2Raw[x] = Through(Representant(e.class), i)
    BY <2>1, SymCoordinateIs
  <2>3. Representant(e.class) = Through(r, s)
    <3>1. PositionOf(e).ud = Representant(e.class)
      BY DEF PositionOf, Position
    <3> QED BY <1>1, <1>5, <3>1, ThroughIs
  <2>4. UDSliceSortedSym2Raw[x] = r
    BY <1>1, <2>2, <2>3, ThroughAndBack
  <2> HIDE DEF x
  <2>5. x \in UDSliceSortedRaw2Sym[r]
    BY <1>1, <2>2, <2>4
  <2>6. PositionOf(reduce_to_representant(x, edge, corner)) = PositionOf(e)
    BY <1>2, <1>5, <2>1, <2>2, <2>5
  <2>7. e = reduce_to_representant(x, edge, corner)
    BY <1>2, <2>5, <2>6, EntryPosition
  <2> QED BY <2>5, <2>7 DEF Equivalents
<1> QED BY <1>3, <1>4, <1>5

(* The entry for a position, however it is reached. *)
LEMMA EntryOfPosition ==
  ASSUME NEW p \in Positions
  PROVE  \E e \in Entries, s \in Symmetries : PositionOf(e) = SymmetryConjugate(p, s)
<1> DEFINE sym == SymUDSliceSortedCoordinate(p)
<1>1. sym \in SymUDSliceSortedCoordinates /\ UDSliceSortedSym2Raw[sym] = p.ud
  BY SymCoordinateOf
<1>2. p.edge \in Edges /\ p.corner \in Corners /\ SymPosition(sym, p.edge, p.corner) = p
  BY <1>1, PositionType DEF SymPosition
<1> QED BY <1>1, <1>2, ReduceIs, SymCoordinateIs, InverseSymmetry

(* What an entry and its position share, its distance, does not depend on  *)
(* the symmetry it is found by.                                            *)
LEMMA ReducedDistance ==
  ASSUME NEW sym \in SymUDSliceSortedCoordinates, NEW edge \in Edges, NEW corner \in Corners
  PROVE  TrueDistance(reduce_to_representant(sym, edge, corner)) =
           Distances[SymPosition(sym, edge, corner)]
BY ReduceIs, EntryPosition, ConjugateDistance, SymCoordinateIs, InverseSymmetry

LEMMA SolvedEntryIs ==
  /\ SolvedEntry \in Entries
  /\ \A e \in Entries : TrueDistance(e) = 0 <=> e = SolvedEntry
  /\ Equivalents(0, 0, 0) = {SolvedEntry}
<1>1. SolvedEntry \in Entries
  BY Zeros, RepresentantsAreFinite DEF SolvedEntry, Entries
<1>2. PositionOf(SolvedEntry) = Solved
  BY RepresentantIs DEF PositionOf, SolvedEntry, Solved
<1>3. \A e \in Entries : TrueDistance(e) = 0 <=> e = SolvedEntry
  BY <1>1, <1>2, EntryPosition, ZeroIsSolved
<1>4. 0 \in SymUDSliceSortedCoordinates /\ SymPosition(0, 0, 0) = Solved
  <2>1. 0 = 0 * SymmetryLength + 0
    BY ThereAreCoordinates
  <2>2. 0 \in SymUDSliceSortedCoordinates /\ UDSliceSortedSym2Raw[0] = Through(Representant(0), 0)
    BY <2>1, SymCoordinateIs, Zeros, RepresentantsAreFinite
  <2>3. UDSliceSortedSym2Raw[0] = 0
    BY <2>2, RepresentantIs, ThroughIs, Zeros
  <2> QED BY <2>2, <2>3 DEF SymPosition, Solved
<1>5. /\ Equivalents(0, 0, 0) \subseteq Entries
      /\ \A e \in Entries :
           e \in Equivalents(0, 0, 0) <=> \E s \in Symmetries : PositionOf(e) = SymmetryConjugate(Solved, s)
  BY <1>4, EquivalentsAre, Zeros
<1>6. \A e \in Entries : e \in Equivalents(0, 0, 0) <=> PositionOf(e) = Solved
  BY <1>5, SymmetriesActOnPositions, Zeros
<1> QED BY <1>1, <1>2, <1>3, <1>5, <1>6, EntryPosition

(* The tables of moves, each for one coordinate, together make the move. *)
LEMMA EntryMove ==
  ASSUME NEW e \in Entries, NEW m \in AllMoves
  PROVE  /\ SymUDSliceSortedRepresentantMove[e.class][m] \in SymUDSliceSortedCoordinates
         /\ EdgeOrientationMove[e.edge][m] \in Edges
         /\ CornerOrientationMove[e.corner][m] \in Corners
         /\ SymPosition(SymUDSliceSortedRepresentantMove[e.class][m],
                        EdgeOrientationMove[e.edge][m],
                        CornerOrientationMove[e.corner][m]) = Multiply(PositionOf(e), m)
<1> DEFINE p == PositionOf(e)
           q == Multiply(p, m)
           v == Multiply(UDSliceSortedCoordinateInverse(Representant(e.class)), m)
<1>1. /\ e.class \in Classes /\ e.edge \in Edges /\ e.corner \in Corners
      /\ p \in Positions /\ q \in Positions
      /\ p.ud = Representant(e.class) /\ p.edge = e.edge /\ p.corner = e.corner
  BY EntryPosition, MoveType DEF PositionOf, Position
<1>2. v \in Positions /\ v.ud = q.ud
  <2>1. Representant(e.class) \in Raws
    BY <1>1, PositionType
  <2>2. UDSliceSortedCoordinateInverse(Representant(e.class)) \in Positions
    BY <2>1, PositionType, Zeros DEF UDSliceSortedCoordinateInverse
  <2>3. q.ud = Multiply(UDSliceSortedCoordinateInverse(p.ud), m).ud
    BY <1>1, MovesMoveCoordinates
  <2> QED BY <1>1, <2>2, <2>3, MoveType
<1>3. SymUDSliceSortedRepresentantMove[e.class][m] = SymUDSliceSortedCoordinate(v)
  BY <1>1 DEF SymUDSliceSortedRepresentantMove
<1>4. EdgeOrientationMove[e.edge][m] = q.edge /\ CornerOrientationMove[e.corner][m] = q.corner
  BY <1>1, MovesMoveCoordinates DEF EdgeOrientationMove, CornerOrientationMove
<1>5. q.edge \in Edges /\ q.corner \in Corners /\ q = Position(q.ud, q.edge, q.corner)
  BY <1>1, PositionType
<1> QED BY <1>2, <1>3, <1>4, <1>5, SymCoordinateOf DEF SymPosition

(* What build() fills from an entry: the entries of all that is one move   *)
(* away from its position.                                                 *)
LEMMA NeighboursAre ==
  ASSUME NEW f \in Entries
  PROVE  /\ Neighbours(f.class, f.edge, f.corner) \subseteq Entries
         /\ \A e \in Entries :
              e \in Neighbours(f.class, f.edge, f.corner) <=>
                \E m \in AllMoves, s \in Symmetries :
                  PositionOf(e) = SymmetryConjugate(Multiply(PositionOf(f), m), s)
<1> DEFINE N(m) == Equivalents(SymUDSliceSortedRepresentantMove[f.class][m],
                               EdgeOrientationMove[f.edge][m], CornerOrientationMove[f.corner][m])
<1>1. ASSUME NEW m \in AllMoves
      PROVE  /\ N(m) \subseteq Entries
             /\ \A e \in Entries : e \in N(m) <=>
                  \E s \in Symmetries : PositionOf(e) = SymmetryConjugate(Multiply(PositionOf(f), m), s)
  BY EntryMove, EquivalentsAre
<1>2. Neighbours(f.class, f.edge, f.corner) = UNION {N(m) : m \in AllMoves}
  BY DEF Neighbours
<1> HIDE DEF N
<1> QED BY <1>1, <1>2

LEMMA NeighboursAreOneApart ==
  ASSUME NEW f \in Entries, NEW e \in Neighbours(f.class, f.edge, f.corner)
  PROVE  e \in Entries /\ OneApart(TrueDistance(f), TrueDistance(e))
<1>1. e \in Entries
  BY NeighboursAre
<1>2. PICK m \in AllMoves, s \in Symmetries :
        PositionOf(e) = SymmetryConjugate(Multiply(PositionOf(f), m), s)
  BY <1>1, NeighboursAre
<1>3. Distances[PositionOf(e)] = Distances[Multiply(PositionOf(f), m)]
  BY <1>2, ConjugateDistance, EntryPosition, MoveType
<1>4. OneApart(Distances[PositionOf(f)], Distances[Multiply(PositionOf(f), m)])
  BY EntryPosition, MoveIsOneApart
<1> QED BY <1>1, <1>3, <1>4, EntryPosition

(* Whatever is not solved is filled from an entry that is one nearer. *)
LEMMA FilledFromNearer ==
  ASSUME NEW e \in Entries, NEW d \in Nat, TrueDistance(e) = d + 1
  PROVE  \E f \in Entries : /\ TrueDistance(f) = d
                            /\ e \in Neighbours(f.class, f.edge, f.corner)
<1> DEFINE q == PositionOf(e)
<1>1. q \in Positions /\ Distances[q] = d + 1
  BY EntryPosition
<1>2. PICK p \in Positions, m \in AllMoves : q = Multiply(p, m) /\ Distances[p] = d
  BY <1>1, Predecessor
<1>3. PICK f \in Entries, s \in Symmetries : PositionOf(f) = SymmetryConjugate(p, s)
  BY EntryOfPosition
<1>4. TrueDistance(f) = d
  BY <1>2, <1>3, EntryPosition, ConjugateDistance
<1>5. /\ SymmetryConjugate(q, s) = Multiply(PositionOf(f), MoveConjugate(m, s))
      /\ MoveConjugate(m, s) \in AllMoves
  BY <1>2, <1>3, SymmetriesMapMoves
<1>6. q = SymmetryConjugate(SymmetryConjugate(q, s), InverseSymmetryIndex[s])
  BY <1>1, ThereAndBack
<1>7. e \in Neighbours(f.class, f.edge, f.corner)
  BY <1>3, <1>5, <1>6, NeighboursAre, InverseSymmetry
<1> QED BY <1>4, <1>7

(* One symmetry at a time, the sym coordinate follows the cube. *)
LEMMA SymMoveIs ==
  ASSUME NEW sym \in SymUDSliceSortedCoordinates, NEW m \in AllMoves,
         NEW edge \in Edges, NEW corner \in Corners
  PROVE  /\ SymUDSliceSortedMove(sym, m) \in SymUDSliceSortedCoordinates
         /\ EdgeOrientationMove[edge][m] \in Edges
         /\ CornerOrientationMove[corner][m] \in Corners
         /\ SymPosition(SymUDSliceSortedMove(sym, m), EdgeOrientationMove[edge][m],
                        CornerOrientationMove[corner][m]) = Multiply(SymPosition(sym, edge, corner), m)
<1> DEFINE class == SymUDSliceSortedClass(sym)
           i == SymUDSliceSortedSymmetry(sym)
           n == MoveConjugate(m, InverseSymmetryIndex[i])
           next == SymUDSliceSortedRepresentantMove[class][n]
           c == SymUDSliceSortedClass(next)
           k == SymUDSliceSortedSymmetry(next)
           there == UDSliceSortedCoordinateInverse(Representant(class))
           p == SymPosition(sym, edge, corner)
           q == Multiply(p, m)
<1>1. /\ class \in Classes /\ i \in Symmetries /\ InverseSymmetryIndex[i] \in Symmetries
      /\ n \in AllMoves
      /\ UDSliceSortedSym2Raw[sym] = Through(Representant(class), i)
      /\ Representant(class) \in Raws
  BY SymCoordinateIs, InverseSymmetry, SymmetriesMapMoves, RepresentantIs, RepresentantsAreFinite
<1>2. there \in Positions /\ Multiply(there, n) \in Positions
  BY <1>1, PositionType, Zeros, MoveType DEF UDSliceSortedCoordinateInverse
<1>3. /\ next = SymUDSliceSortedCoordinate(Multiply(there, n))
      /\ next \in SymUDSliceSortedCoordinates
      /\ UDSliceSortedSym2Raw[next] = Multiply(there, n).ud
  BY <1>1, <1>2, SymCoordinateOf DEF SymUDSliceSortedRepresentantMove
<1>4. /\ c \in Classes /\ k \in Symmetries /\ SymmetryProduct(i, k) \in Symmetries
      /\ Through(Representant(c), k) = Multiply(there, n).ud
      /\ Representant(c) \in Raws
  BY <1>1, <1>3, SymCoordinateIs, SymmetriesAreAGroup, RepresentantIs, RepresentantsAreFinite
<1>5. /\ SymUDSliceSortedMove(sym, m) \in SymUDSliceSortedCoordinates
      /\ UDSliceSortedSym2Raw[SymUDSliceSortedMove(sym, m)] =
           Through(Representant(c), SymmetryProduct(i, k))
  BY <1>4, SymCoordinateIs DEF SymUDSliceSortedMove
<1>6. Through(Representant(c), SymmetryProduct(i, k)) = Through(Multiply(there, n).ud, i)
  BY <1>1, <1>4, ThroughIs
<1>7. Through(Multiply(there, n).ud, i) = SymmetryConjugate(Multiply(there, n), i).ud
  BY <1>1, <1>2, ThroughIs
<1> DEFINE seen == SymmetryConjugate(there, i)
<1>8. SymmetryConjugate(Multiply(there, n), i) = Multiply(seen, m)
  BY <1>1, <1>2, SymmetriesMapMoves, ConjugateType, MoveThereAndBack
<1>9. seen \in Positions /\ seen.ud = UDSliceSortedSym2Raw[sym]
  BY <1>1, <1>2, ConjugateType DEF Through
<1>10. /\ p \in Positions /\ p.ud = UDSliceSortedSym2Raw[sym] /\ p.edge = edge /\ p.corner = corner
       /\ q \in Positions
  BY EntryPosition, MoveType DEF SymPosition, Position
<1>11. Multiply(seen, m).ud = q.ud
  <2>1. \A x \in Positions : Multiply(x, m).ud = Multiply(UDSliceSortedCoordinateInverse(x.ud), m).ud
    BY MovesMoveCoordinates
  <2> HIDE DEF seen, p
  <2>2. /\ Multiply(seen, m).ud = Multiply(UDSliceSortedCoordinateInverse(seen.ud), m).ud
        /\ Multiply(p, m).ud = Multiply(UDSliceSortedCoordinateInverse(p.ud), m).ud
    BY <1>9, <1>10, <2>1
  <2>3. seen.ud = p.ud
    BY <1>9, <1>10
  <2> QED BY <2>2, <2>3
<1>12. EdgeOrientationMove[edge][m] = q.edge /\ CornerOrientationMove[corner][m] = q.corner
  BY <1>10, MovesMoveCoordinates DEF EdgeOrientationMove, CornerOrientationMove
<1>13. UDSliceSortedSym2Raw[SymUDSliceSortedMove(sym, m)] = q.ud
  BY <1>5, <1>6, <1>7, <1>8, <1>11
<1>14. q.edge \in Edges /\ q.corner \in Corners /\ q = Position(q.ud, q.edge, q.corner)
  BY <1>10, PositionType
<1> QED BY <1>5, <1>12, <1>13, <1>14 DEF SymPosition

-----------------------------------------------------------------------------
(* The table and the order of a pass. *)

TableType == [Classes -> [Corners -> [Edges -> 0 .. 3]]]

Filled(t) == {e \in Entries : get_entry(t, e) # Empty}

EntryAt(c) == [class |-> c[1], edge |-> c[2], corner |-> c[3]]

(* The pass has come to c and was at e before. *)
Passed(e, c) ==
  \/ e.class < c[1]
  \/ e.class = c[1] /\ e.edge < c[2]
  \/ e.class = c[1] /\ e.edge = c[2] /\ e.corner < c[3]

LEMMA GetType ==
  ASSUME NEW t \in TableType, NEW e \in Entries
  PROVE  get_entry(t, e) \in 0 .. 3
BY EntryPosition DEF TableType, get_entry, get

LEMMA AllocateIs ==
  allocate \in TableType /\ \A e \in Entries : get_entry(allocate, e) = Empty
BY EntryPosition DEF allocate, TableType, get_entry, get, Empty

(* set writes an empty entry as it is told, and leaves the others. *)
LEMMA SetIs ==
  ASSUME NEW t \in TableType, NEW S \in SUBSET Entries, NEW value \in 1 .. 3,
         \A e \in S : get_entry(t, e) = Empty
  PROVE  /\ set(t, S, value) \in TableType
         /\ \A e \in Entries :
              get_entry(set(t, S, value), e) = IF e \in S THEN value ELSE get_entry(t, e)
<1> DEFINE E(class, corner, edge) == [class |-> class, edge |-> edge, corner |-> corner]
           V(class, corner, edge) == IF E(class, corner, edge) \in S
                                       THEN BitOr(t[class][corner][edge], value)
                                       ELSE t[class][corner][edge]
<1>1. ASSUME NEW class \in Classes, NEW corner \in Corners, NEW edge \in Edges
      PROVE  /\ E(class, corner, edge) \in Entries
             /\ get_entry(t, E(class, corner, edge)) = t[class][corner][edge]
             /\ t[class][corner][edge] \in 0 .. 3
             /\ V(class, corner, edge) \in 0 .. 3
             /\ V(class, corner, edge) =
                  IF E(class, corner, edge) \in S THEN value ELSE t[class][corner][edge]
  <2>1. E(class, corner, edge) \in Entries
    BY DEF Entries
  <2>2. get_entry(t, E(class, corner, edge)) = t[class][corner][edge]
    BY DEF get_entry, get
  <2>3. t[class][corner][edge] \in 0 .. 3
    BY DEF TableType
  <2>4. E(class, corner, edge) \in S => t[class][corner][edge] = 0
    BY <2>2 DEF Empty
  <2> QED BY <2>1, <2>2, <2>3, <2>4 DEF BitOr
<1>2. set(t, S, value) =
        [class \in Classes |-> [corner \in Corners |-> [edge \in Edges |-> V(class, corner, edge)]]]
  BY DEF set
<1> HIDE DEF V
<1>3. set(t, S, value) \in TableType
  <2>1. \A class \in Classes, corner \in Corners :
          [edge \in Edges |-> V(class, corner, edge)] \in [Edges -> 0 .. 3]
    BY <1>1
  <2> DEFINE W(class, corner) == [edge \in Edges |-> V(class, corner, edge)]
  <2> HIDE DEF W
  <2>2. \A class \in Classes : [corner \in Corners |-> W(class, corner)] \in [Corners -> [Edges -> 0 .. 3]]
    BY <2>1 DEF W
  <2>3. [class \in Classes |-> [corner \in Corners |-> W(class, corner)]] \in TableType
    BY <2>2 DEF TableType
  <2> QED BY <1>2, <2>3 DEF W
<1>4. ASSUME NEW e \in Entries
      PROVE  get_entry(set(t, S, value), e) = IF e \in S THEN value ELSE get_entry(t, e)
  <2>1. e.class \in Classes /\ e.corner \in Corners /\ e.edge \in Edges
    BY EntryPosition
  <2>2. E(e.class, e.corner, e.edge) = e
    BY DEF Entries
  <2>3. get_entry(set(t, S, value), e) = V(e.class, e.corner, e.edge)
    BY <1>2, <2>1 DEF get_entry, get
  <2> QED BY <1>1, <2>1, <2>2, <2>3 DEF get_entry, get
<1> QED BY <1>3, <1>4

LEMMA EntriesAreFinite ==
  /\ IsFiniteSet(Entries) /\ Cardinality(Entries) = All
  /\ \A S \in SUBSET Entries : /\ IsFiniteSet(S) /\ Cardinality(S) \in 0 .. All
                               /\ Cardinality(S) = All => S = Entries
<1> DEFINE P == (Classes \X Corners) \X Edges
           f == [x \in P |-> [class |-> x[1][1], edge |-> x[2], corner |-> x[1][2]]]
<1>1. /\ IsFiniteSet(Classes) /\ Cardinality(Classes) = UDSliceSortedClassCount
      /\ IsFiniteSet(Corners) /\ Cardinality(Corners) = CornerOrientationCoordinateLength
      /\ IsFiniteSet(Edges) /\ Cardinality(Edges) = EdgeOrientationCoordinateLength
  <2>1. \A n \in Nat : IsFiniteSet(0 .. n - 1) /\ Cardinality(0 .. n - 1) = n
    <3> SUFFICES ASSUME NEW n \in Nat PROVE IsFiniteSet(0 .. n - 1) /\ Cardinality(0 .. n - 1) = n
      OBVIOUS
    <3>1. 0 \in Int /\ n - 1 \in Int
      OBVIOUS
    <3>2. IsFiniteSet(0 .. n - 1) /\ Cardinality(0 .. n - 1) = IF 0 > n - 1 THEN 0 ELSE (n - 1) - 0 + 1
      BY <3>1, FS_Interval
    <3> QED BY <3>2
  <2> QED BY <2>1, RepresentantsAreFinite, ThereAreCoordinates DEF Classes, Corners, Edges
<1>2. /\ IsFiniteSet(Classes \X Corners)
      /\ Cardinality(Classes \X Corners) = UDSliceSortedClassCount * CornerOrientationCoordinateLength
  BY <1>1, FS_Product
<1>3. IsFiniteSet(P) /\ Cardinality(P) = All
  BY <1>1, <1>2, FS_Product DEF All
<1>4. f \in [P -> Entries]
  BY DEF Entries
<1>5. \A x, y \in P : f[x] = f[y] => x = y
  OBVIOUS
<1>6. \A e \in Entries : \E x \in P : f[x] = e
  <2> SUFFICES ASSUME NEW e \in Entries PROVE \E x \in P : f[x] = e
    OBVIOUS
  <2>1. e.class \in Classes /\ e.edge \in Edges /\ e.corner \in Corners
    BY EntryPosition
  <2>2. <<<<e.class, e.corner>>, e.edge>> \in P
    BY <2>1
  <2>3. f[<<<<e.class, e.corner>>, e.edge>>] = e
    BY <2>2 DEF Entries
  <2> QED BY <2>2, <2>3
<1>7. f \in Bijection(P, Entries)
  <2> HIDE DEF f, P
  <2>1. IsInjective(f)
    BY <1>4, <1>5 DEF IsInjective
  <2>2. f \in Injection(P, Entries)
    BY <1>4, <2>1 DEF Injection
  <2>3. f \in Surjection(P, Entries)
    BY <1>4, <1>6, Zenon DEF Surjection
  <2> QED BY <2>2, <2>3 DEF Bijection
<1>8. IsFiniteSet(Entries) /\ Cardinality(Entries) = All
  <2>1. ExistsBijection(P, Entries)
    BY <1>7 DEF ExistsBijection
  <2> HIDE DEF P
  <2> QED BY <1>3, <2>1, FS_Bijection
<1>9. ASSUME NEW S \in SUBSET Entries
      PROVE  /\ IsFiniteSet(S) /\ Cardinality(S) \in 0 .. All
             /\ Cardinality(S) = All => S = Entries
  <2>1. IsFiniteSet(S) /\ Cardinality(S) <= All
    BY <1>8, FS_Subset
  <2>2. Cardinality(S) \in Nat /\ All \in Nat
    BY <1>8, <2>1, FS_CardinalityType
  <2>3. Cardinality(S) = All => S = Entries
    BY <1>8, FS_Subset
  <2> QED BY <2>1, <2>2, <2>3
<1> QED BY <1>8, <1>9

(* The loops of a pass come to every entry, the corners first. *)
LEMMA NextEntryIs ==
  ASSUME NEW c \in Classes \X Edges \X Corners
  PROVE  /\ c # <<>> /\ EntryAt(c) \in Entries
         /\ NextEntry(c) = <<>> \/ NextEntry(c) \in Classes \X Edges \X Corners
         /\ \A e \in Entries : NextEntry(c) = <<>> \/ Passed(e, NextEntry(c))
                                 => Passed(e, c) \/ e = EntryAt(c)
<1>1. c[1] \in Classes /\ c[2] \in Edges /\ c[3] \in Corners /\ c = <<c[1], c[2], c[3]>>
  OBVIOUS
<1>2. \A x, y, z : <<x, y, z>> # <<>>
  OBVIOUS
<1>3. EntryAt(c) \in Entries
  BY <1>1 DEF EntryAt, Entries
<1>4. NextEntry(c) = <<>> \/ NextEntry(c) \in Classes \X Edges \X Corners
  BY <1>1, Zeros, ThereAreCoordinates, RepresentantsAreFinite DEF NextEntry, Classes, Edges, Corners
<1>5. ASSUME NEW e \in Entries, NextEntry(c) = <<>> \/ Passed(e, NextEntry(c))
      PROVE  Passed(e, c) \/ e = EntryAt(c)
  <2>1. /\ e.class \in Nat /\ e.class <= UDSliceSortedClassCount - 1
        /\ e.edge \in Nat /\ e.edge <= EdgeOrientationCoordinateLength - 1
        /\ e.corner \in Nat /\ e.corner <= CornerOrientationCoordinateLength - 1
    BY EntryPosition DEF Classes, Edges, Corners
  <2>2. e.class = c[1] /\ e.edge = c[2] /\ e.corner = c[3] => e = EntryAt(c)
    BY DEF EntryAt, Entries
  <2>3. /\ c[1] \in Nat /\ c[1] <= UDSliceSortedClassCount - 1
        /\ c[2] \in Nat /\ c[2] <= EdgeOrientationCoordinateLength - 1
        /\ c[3] \in Nat /\ c[3] <= CornerOrientationCoordinateLength - 1
    BY <1>1 DEF Classes, Edges, Corners
  <2>4. /\ UDSliceSortedClassCount \in Nat /\ EdgeOrientationCoordinateLength \in Nat
        /\ CornerOrientationCoordinateLength \in Nat
    BY RepresentantsAreFinite, ThereAreCoordinates
  <2>5. CASE c[3] < CornerOrientationCoordinateLength - 1
    <3>1. NextEntry(c) = <<c[1], c[2], c[3] + 1>>
      BY <2>5 DEF NextEntry
    <3>2. Passed(e, <<c[1], c[2], c[3] + 1>>)
      BY <1>2, <1>5, <3>1
    <3> QED BY <2>1, <2>2, <2>3, <3>2 DEF Passed
  <2>6. CASE c[3] >= CornerOrientationCoordinateLength - 1 /\ c[2] < EdgeOrientationCoordinateLength - 1
    <3>1. NextEntry(c) = <<c[1], c[2] + 1, 0>>
      BY <2>3, <2>4, <2>6 DEF NextEntry
    <3>2. Passed(e, <<c[1], c[2] + 1, 0>>)
      BY <1>2, <1>5, <3>1
    <3> QED BY <2>1, <2>2, <2>3, <2>4, <2>6, <3>2 DEF Passed
  <2>7. CASE /\ c[3] >= CornerOrientationCoordinateLength - 1
             /\ c[2] >= EdgeOrientationCoordinateLength - 1
             /\ c[1] < UDSliceSortedClassCount - 1
    <3>1. NextEntry(c) = <<c[1] + 1, 0, 0>>
      BY <2>3, <2>4, <2>7 DEF NextEntry
    <3>2. Passed(e, <<c[1] + 1, 0, 0>>)
      BY <1>2, <1>5, <3>1
    <3> QED BY <2>1, <2>2, <2>3, <2>4, <2>7, <3>2 DEF Passed
  <2>8. CASE /\ c[3] >= CornerOrientationCoordinateLength - 1
             /\ c[2] >= EdgeOrientationCoordinateLength - 1
             /\ c[1] >= UDSliceSortedClassCount - 1
    BY <2>1, <2>2, <2>3, <2>4, <2>8 DEF Passed
  <2> QED BY <2>3, <2>4, <2>5, <2>6, <2>7, <2>8
<1> QED BY <1>1, <1>2, <1>3, <1>4, <1>5

LEMMA FillEmptyIs ==
  ASSUME table \in TableType, visited_count = Cardinality(Filled(table)),
         NEW S \in SUBSET Entries, NEW value \in 1 .. 3, FillEmpty(S, value)
  PROVE  /\ table' \in TableType
         /\ \A e \in Entries :
              get_entry(table', e) = IF e \in S /\ get_entry(table, e) = Empty
                                       THEN value ELSE get_entry(table, e)
         /\ visited_count' = Cardinality(Filled(table'))
<1> DEFINE new == {e \in S : get_entry(table, e) = Empty}
<1>1. new \in SUBSET Entries /\ \A e \in new : get_entry(table, e) = Empty
  OBVIOUS
<1>2. table' = set(table, new, value) /\ visited_count' = visited_count + Cardinality(new)
  BY DEF FillEmpty
<1>3. /\ table' \in TableType
      /\ \A e \in Entries :
           get_entry(table', e) = IF e \in new THEN value ELSE get_entry(table, e)
  BY <1>1, <1>2, SetIs
<1>4. Filled(table') = Filled(table) \cup new
  BY <1>1, <1>3 DEF Filled, Empty
<1>5. Filled(table) \cap new = {}
  BY DEF Filled
<1>6. IsFiniteSet(Filled(table)) /\ IsFiniteSet(new) /\ Filled(table) \in SUBSET Entries
  BY <1>1, EntriesAreFinite DEF Filled
<1>7. Cardinality(Filled(table')) = Cardinality(Filled(table)) + Cardinality(new)
  <2>1. /\ Cardinality(Filled(table)) \in Nat /\ Cardinality(new) \in Nat
        /\ Cardinality(Filled(table) \cap new) = 0
    BY <1>5, <1>6, FS_CardinalityType, FS_EmptySet
  <2>2. Cardinality(Filled(table) \cup new) =
          Cardinality(Filled(table)) + Cardinality(new) - Cardinality(Filled(table) \cap new)
    BY <1>6, FS_Union
  <2> QED BY <1>4, <2>1, <2>2
<1> QED BY <1>2, <1>3, <1>7

-----------------------------------------------------------------------------
(* The inductive invariant: first of building, saving and loading. *)

(* What the table has is right. *)
Exact == \A e \in Entries : get_entry(table, e) # Empty => get_entry(table, e) = EntryOf(TrueDistance(e))

(* A pass fills what is one farther than its distance, from what is at it; *)
(* all that is nearer was filled before.                                   *)
Filling ==
  /\ \A e \in Entries :
       /\ TrueDistance(e) <= real_current_depth => get_entry(table, e) # Empty
       /\ get_entry(table, e) # Empty => TrueDistance(e) <= real_current_depth + 1
       /\ get_entry(table, e) # Empty /\ cursor = <<>> => TrueDistance(e) <= real_current_depth
  /\ cursor # <<>> =>
       \A f \in Entries : TrueDistance(f) = real_current_depth /\ Passed(f, cursor) =>
         \A e \in Neighbours(f.class, f.edge, f.corner) : get_entry(table, e) # Empty

Saved ==
  \A class \in Classes, corner \in Corners :
    /\ RowIndex(class, corner) <= Len(file) => file[RowIndex(class, corner)] = table[class][corner]
    /\ RowIndex(class, corner) = Len(file) + 1 =>
         \A edge \in DOMAIN rest : rest[edge] = table[class][corner][edge]

Full == \A e \in Entries : get_entry(table, e) # Empty

BuildTypes ==
  /\ pc \in {"start", "build", "save", "dead", "loaded", "get_real", "known"}
  /\ table \in TableType
  /\ visited_count \in 0 .. All
  /\ real_current_depth \in Nat /\ current_depth = real_current_depth % 3
  /\ cursor = <<>> \/ cursor \in Classes \X Edges \X Corners
  /\ file \in Seq([Edges -> 0 .. 3]) /\ Len(file) <= RowCount
  /\ DOMAIN rest \subseteq Edges /\ \A edge \in DOMAIN rest : rest[edge] \in 0 .. 3

BuildInv ==
  /\ BuildTypes
  /\ Exact
  /\ pc \in {"start", "build", "save"} => visited_count = Cardinality(Filled(table))
  /\ pc = "start" => Filled(table) = {} /\ real_current_depth = 0 /\ cursor = <<>>
  /\ pc \in {"start", "build"} => file = <<>>
  /\ pc \in {"start", "build", "save"} => rest = <<>>
  /\ pc = "build" => Filling
  /\ pc \in {"save", "dead"} => Full /\ Saved
  /\ pc \in {"loaded", "get_real", "known"} /\ FileIsWhole => Full

(* Then of asking.  Of a file that was not whole get_real may have taken   *)
(* the first, missing, entry for a distance that 3 divides: then it says   *)
(* up to 2 more than the distance.                                         *)
CubePosition == SymPosition(cube.sym, cube.edge, cube.corner)

AskTypes ==
  /\ cube.sym \in SymUDSliceSortedCoordinates /\ cube.edge \in Edges /\ cube.corner \in Corners
  /\ at.entry \in Entries /\ at.mod3 \in 0 .. 2
  /\ depth \in Nat

Found == get_entry(table, at.entry)

Descending ==
  /\ at.mod3 = Found % 3
  /\ \E more \in 0 .. 2 :
       /\ depth + TrueDistance(at.entry) = Distances[CubePosition] + more
       /\ Found = Empty \/ FileIsWhole => more = 0

(* There is a row of RelativePruning for a distance that is 3 too large.   *)
ThreeToSpare == FarthestDistance + 3 < RelativePruningLength

Told ==
  /\ FileIsWhole => bound = Distances[CubePosition]
  /\ ThreeToSpare => \/ bound = None
                     \/ \E more \in 0 .. 3 : bound = Distances[CubePosition] + more

AskInv ==
  /\ AskTypes
  /\ pc # "known" => bound = None
  /\ pc = "get_real" => Descending
  /\ pc = "known" => Told

IInv == BuildInv /\ AskInv

-----------------------------------------------------------------------------
(* Building. *)

(* The values that build() writes: those of the distance of the pass and   *)
(* of the next one.                                                        *)
LEMMA DepthValues ==
  ASSUME NEW d \in Nat
  PROVE  /\ d % 3 \in 0 .. 2
         /\ MapEntry[d % 3] = EntryOf(d)
         /\ IncMod3[d % 3] = (d + 1) % 3
         /\ MapEntry[IncMod3[d % 3]] = EntryOf(d + 1)
         /\ EntryOf(d) \in 1 .. 3 /\ EntryOf(d) # Empty
<1>1. d % 3 \in 0 .. 2
  OBVIOUS
<1>2. IncMod3[d % 3] = ((d % 3) + 1) % 3
  BY <1>1 DEF IncMod3
<1>3. ((d % 3) + 1) % 3 = (d + 1) % 3
  OBVIOUS
<1>4. EntryOf(d) \in 1 .. 3
  BY EntryCases
<1>5. EntryOf(d) # Empty
  BY <1>4 DEF Empty
<1> QED BY <1>1, <1>2, <1>3, <1>4, <1>5 DEF EntryOf

LEMMA InitBuild == Init => BuildInv
<1> SUFFICES ASSUME Init PROVE BuildInv
  OBVIOUS
<1>1. table \in TableType /\ Filled(table) = {}
  BY AllocateIs DEF Init, Filled
<1>2. Cardinality(Filled(table)) = 0
  BY <1>1, FS_EmptySet
<1>3. Exact
  BY <1>1 DEF Exact, Filled
<1>4. All \in Nat /\ 0 \in 0 .. All
  <2>1. {} \in SUBSET Entries
    OBVIOUS
  <2> QED BY <2>1, EntriesAreFinite
<1>5. RowCount \in Nat
  BY RepresentantsAreFinite, ThereAreCoordinates DEF RowCount
<1>6. <<>> \in Seq([Edges -> 0 .. 3]) /\ Len(<<>>) = 0
  OBVIOUS
<1>7. 0 % 3 = 0
  OBVIOUS
<1>8. BuildTypes
  BY <1>1, <1>4, <1>5, <1>6, <1>7 DEF Init, BuildTypes
<1> QED BY <1>1, <1>2, <1>3, <1>8 DEF Init, BuildInv

(* After a step of building: what the invariant says of it. *)
LEMMA StillBuilding ==
  ASSUME BuildTypes, file = <<>>, rest = <<>>, pc' = "build", table' \in TableType,
         visited_count' = Cardinality(Filled(table')),
         real_current_depth' \in Nat, current_depth' = real_current_depth' % 3,
         cursor' = <<>> \/ cursor' \in Classes \X Edges \X Corners,
         file' = file, rest' = rest, Exact', Filling'
  PROVE  BuildInv'
<1>1. Filled(table') \in SUBSET Entries
  BY DEF Filled
<1>2. visited_count' \in 0 .. All
  BY <1>1, EntriesAreFinite
<1>3. BuildTypes'
  BY <1>2 DEF BuildTypes
<1> QED BY <1>3 DEF BuildInv

LEMMA FirstEntryBuild ==
  ASSUME BuildInv, FirstEntry
  PROVE  BuildInv'
<1>1. /\ BuildTypes /\ table \in TableType /\ visited_count = Cardinality(Filled(table))
      /\ Filled(table) = {} /\ real_current_depth = 0 /\ cursor = <<>> /\ file = <<>> /\ rest = <<>>
      /\ current_depth = 0
  BY DEF BuildInv, FirstEntry, BuildTypes
<1>2. \A e \in Entries : get_entry(table, e) = Empty
  BY <1>1 DEF Filled
<1>3. /\ MapEntry[0] \in 1 .. 3 /\ MapEntry[0] = EntryOf(0) /\ EntryOf(0) # Empty
      /\ {SolvedEntry} \in SUBSET Entries
      /\ FillEmpty({SolvedEntry}, MapEntry[0])
  <2>1. 0 % 3 = 0 /\ 0 \in Nat
    OBVIOUS
  <2> QED BY <2>1, DepthValues, SolvedEntryIs DEF FirstEntry
<1>4. /\ table' \in TableType /\ visited_count' = Cardinality(Filled(table'))
      /\ \A e \in Entries : get_entry(table', e) = IF e = SolvedEntry THEN EntryOf(0) ELSE Empty
  BY <1>1, <1>2, <1>3, FillEmptyIs
<1>5. UNCHANGED <<current_depth, real_current_depth, cursor, file, rest>> /\ pc' = "build"
  BY DEF FirstEntry
<1>6. Exact'
  BY <1>4, SolvedEntryIs DEF Exact
<1>7. \A e \in Entries : TrueDistance(e) \in Nat /\ (TrueDistance(e) = 0 <=> e = SolvedEntry)
  BY SolvedEntryIs, EntryPosition
<1>8. Filling'
  BY <1>1, <1>3, <1>4, <1>5, <1>7 DEF Filling
<1> QED BY <1>1, <1>4, <1>5, <1>6, <1>8, StillBuilding, DepthValues DEF BuildTypes

LEMMA StartPassBuild ==
  ASSUME BuildInv, StartPass
  PROVE  BuildInv'
<1>1. /\ BuildTypes /\ Exact /\ Filling /\ visited_count = Cardinality(Filled(table)) /\ file = <<>>
      /\ rest = <<>>
      /\ cursor = <<>> /\ cursor' = <<0, 0, 0>>
      /\ UNCHANGED <<pc, table, visited_count, current_depth, real_current_depth, file, rest>>
      /\ pc = "build"
  BY DEF BuildInv, StartPass
<1>2. cursor' \in Classes \X Edges \X Corners
  BY <1>1, Zeros, RepresentantsAreFinite
<1>3. \A e \in Entries : ~ Passed(e, <<0, 0, 0>>)
  BY EntryPosition DEF Passed, Classes, Edges, Corners
<1>4. Exact'
  BY <1>1 DEF Exact
<1>5. Filling'
  BY <1>1, <1>3 DEF Filling
<1> QED BY <1>1, <1>2, <1>4, <1>5, StillBuilding DEF BuildTypes

(* When as many entries are filled as there are, all are. *)
LEMMA EndBuildBuild ==
  ASSUME BuildInv, EndBuild
  PROVE  BuildInv'
<1>1. /\ BuildTypes /\ Exact /\ visited_count = Cardinality(Filled(table)) /\ file = <<>>
      /\ rest = <<>>
      /\ visited_count >= All /\ pc' = "save"
      /\ UNCHANGED <<table, visited_count, current_depth, real_current_depth, cursor, file, rest>>
  BY DEF BuildInv, EndBuild, building
<1>2. Filled(table) \in SUBSET Entries
  BY DEF Filled
<1>3. Cardinality(Filled(table)) = All
  BY <1>1, <1>2, EntriesAreFinite
<1>4. Filled(table) = Entries
  BY <1>2, <1>3, EntriesAreFinite
<1>5. Full
  BY <1>4 DEF Filled, Full
<1>6. \A class \in Classes, corner \in Corners : ~ (RowIndex(class, corner) <= Len(<<>>))
  BY NumberOfPair, RepresentantsAreFinite, ThereAreCoordinates DEF RowIndex, Classes, Corners
<1>7. Saved
  BY <1>1, <1>6 DEF Saved
<1>8. BuildTypes'
  BY <1>1 DEF BuildTypes
<1> QED BY <1>1, <1>5, <1>7, <1>8 DEF BuildInv, Exact, Full, Saved

(* The entry that the pass looks at is at the distance of the pass if it   *)
(* says so and is not one of an earlier distance, and only then.           *)
LEMMA AtDepth ==
  ASSUME BuildInv, pc = "build", cursor # <<>>
  PROVE  /\ EntryAt(cursor) \in Entries
         /\ AtCurrentDepth => TrueDistance(EntryAt(cursor)) <= real_current_depth
         /\ TrueDistance(EntryAt(cursor)) = real_current_depth => AtCurrentDepth
<1> DEFINE e == EntryAt(cursor)
<1>1. /\ cursor \in Classes \X Edges \X Corners /\ e \in Entries /\ TrueDistance(e) \in Nat
      /\ real_current_depth \in Nat /\ current_depth = real_current_depth % 3
      /\ Exact /\ Filling
  BY NextEntryIs, EntryPosition DEF BuildInv, BuildTypes
<1>2. AtCurrentDepth <=> get_entry(table, e) = EntryOf(real_current_depth)
  BY <1>1, DepthValues DEF AtCurrentDepth, get_entry, EntryAt
<1>3. TrueDistance(e) = real_current_depth => AtCurrentDepth
  BY <1>1, <1>2 DEF Exact, Filling
<1>4. ASSUME AtCurrentDepth PROVE TrueDistance(e) <= real_current_depth
  <2>1. get_entry(table, e) # Empty
    BY <1>1, <1>2, <1>4, DepthValues
  <2>2. EntryOf(TrueDistance(e)) = EntryOf(real_current_depth) /\ TrueDistance(e) <= real_current_depth + 1
    BY <1>1, <1>2, <1>4, <2>1 DEF Exact, Filling
  <2>3. TrueDistance(e) % 3 = real_current_depth % 3
    BY <1>1, <2>2, EntryCases
  <2>4. TrueDistance(e) # real_current_depth + 1
    BY <1>1, <2>3
  <2> QED BY <1>1, <2>2, <2>4
<1> QED BY <1>1, <1>3, <1>4

(* The pass goes on: nothing that was filled is lost, what is new is one   *)
(* farther than the pass, and all around the entry is filled.              *)
LEMMA AdvanceBuild ==
  ASSUME BuildInv, pc = "build", cursor # <<>>, Advance, pc' = "build", file' = file,
         rest' = rest,
         table' \in TableType, visited_count' = Cardinality(Filled(table')),
         \A e \in Entries :
           \/ get_entry(table', e) = get_entry(table, e)
           \/ /\ get_entry(table, e) = Empty
              /\ get_entry(table', e) = EntryOf(real_current_depth + 1)
              /\ TrueDistance(e) = real_current_depth + 1,
         TrueDistance(EntryAt(cursor)) = real_current_depth =>
           \A e \in Neighbours(cursor[1], cursor[2], cursor[3]) : get_entry(table', e) # Empty
  PROVE  BuildInv'
<1> DEFINE d == real_current_depth
<1>1. /\ BuildTypes /\ Exact /\ Filling /\ file = <<>> /\ rest = <<>>
      /\ cursor \in Classes \X Edges \X Corners
      /\ d \in Nat /\ current_depth = d % 3
  BY DEF BuildInv, BuildTypes
<1>2. d + 1 \in Nat /\ EntryOf(d + 1) # Empty
  BY <1>1, DepthValues
<1>3. Exact'
  BY <1>1 DEF Exact
<1>4. \A e \in Entries : /\ get_entry(table, e) # Empty => get_entry(table', e) # Empty
                         /\ get_entry(table', e) # Empty => TrueDistance(e) <= d + 1
                         /\ TrueDistance(e) <= d => get_entry(table', e) # Empty
                         /\ TrueDistance(e) \in Nat
  BY <1>1, <1>2, EntryPosition DEF Filling
<1>5. ASSUME NEW f \in Entries, TrueDistance(f) = d, Passed(f, cursor) \/ f = EntryAt(cursor),
             NEW e \in Neighbours(f.class, f.edge, f.corner)
      PROVE  e \in Entries /\ get_entry(table', e) # Empty
  <2>1. e \in Entries
    BY NeighboursAre
  <2>2. CASE Passed(f, cursor)
    BY <1>1, <1>4, <1>5, <2>1, <2>2 DEF Filling
  <2>3. CASE f = EntryAt(cursor)
    BY <1>5, <2>1, <2>3 DEF EntryAt
  <2> QED BY <1>5, <2>1, <2>2, <2>3
<1>6. /\ EntryAt(cursor) \in Entries
      /\ NextEntry(cursor) = <<>> \/ NextEntry(cursor) \in Classes \X Edges \X Corners
      /\ \A e \in Entries : NextEntry(cursor) = <<>> \/ Passed(e, NextEntry(cursor))
                              => Passed(e, cursor) \/ e = EntryAt(cursor)
  BY <1>1, NextEntryIs
<1>7. CASE NextEntry(cursor) = <<>>
  <2>1. cursor' = <<>> /\ real_current_depth' = d + 1 /\ current_depth' = (d + 1) % 3
    BY <1>1, <1>7, DepthValues DEF Advance
  <2>2. ASSUME NEW e \in Entries, TrueDistance(e) <= d + 1
        PROVE  get_entry(table', e) # Empty
    <3>1. CASE TrueDistance(e) <= d
      BY <1>4, <3>1
    <3>2. CASE TrueDistance(e) = d + 1
      <4>1. PICK f \in Entries : TrueDistance(f) = d /\ e \in Neighbours(f.class, f.edge, f.corner)
        BY <1>1, <3>2, FilledFromNearer
      <4> QED BY <1>5, <1>6, <1>7, <4>1
    <3> QED BY <1>1, <1>4, <2>2, <3>1, <3>2
  <2>3. Filling'
    BY <1>1, <1>4, <2>1, <2>2 DEF Filling
  <2> QED BY <1>1, <1>2, <1>3, <2>1, <2>3, StillBuilding
<1>8. CASE NextEntry(cursor) # <<>>
  <2>1. cursor' = NextEntry(cursor) /\ real_current_depth' = d /\ current_depth' = current_depth
    BY <1>8 DEF Advance
  <2>2. cursor' # <<>> /\ cursor' \in Classes \X Edges \X Corners
    BY <1>6, <1>8, <2>1
  <2>3. ASSUME NEW f \in Entries, TrueDistance(f) = d, Passed(f, cursor')
        PROVE  \A e \in Neighbours(f.class, f.edge, f.corner) : get_entry(table', e) # Empty
    BY <1>5, <1>6, <2>1, <2>3
  <2>4. Filling'
    BY <1>1, <1>4, <2>1, <2>2, <2>3 DEF Filling
  <2> QED BY <1>1, <1>3, <2>1, <2>2, <2>4, StillBuilding
<1> QED BY <1>7, <1>8

LEMMA VisitBuild ==
  ASSUME BuildInv, Visit
  PROVE  BuildInv'
<1> DEFINE d == real_current_depth
           f == EntryAt(cursor)
           N == Neighbours(cursor[1], cursor[2], cursor[3])
<1>1. /\ pc = "build" /\ cursor # <<>> /\ AtCurrentDepth /\ Advance /\ pc' = pc /\ file' = file
      /\ rest' = rest
      /\ table \in TableType /\ visited_count = Cardinality(Filled(table))
      /\ d \in Nat /\ current_depth = d % 3 /\ Filling
  BY DEF Visit, BuildInv, BuildTypes
<1>2. f \in Entries /\ TrueDistance(f) <= d /\ TrueDistance(f) \in Nat
  BY <1>1, AtDepth, EntryPosition
<1>3. N = Neighbours(f.class, f.edge, f.corner)
  BY DEF EntryAt
<1>4. \A e \in N : e \in Entries /\ TrueDistance(e) <= d + 1 /\ TrueDistance(e) \in Nat
  BY <1>1, <1>2, <1>3, NeighboursAreOneApart, EntryPosition DEF OneApart
<1>5. N \in SUBSET Entries /\ EntryOf(d + 1) \in 1 .. 3 /\ EntryOf(d + 1) # Empty
      /\ FillEmpty(N, EntryOf(d + 1))
  <2>1. d + 1 \in Nat
    BY <1>1
  <2>2. MapEntry[IncMod3[current_depth]] = EntryOf(d + 1)
    BY <1>1, DepthValues
  <2> QED BY <1>4, <2>1, <2>2, DepthValues DEF Visit
<1>6. /\ table' \in TableType /\ visited_count' = Cardinality(Filled(table'))
      /\ \A e \in Entries :
           get_entry(table', e) = IF e \in N /\ get_entry(table, e) = Empty
                                    THEN EntryOf(d + 1) ELSE get_entry(table, e)
  BY <1>1, <1>5, FillEmptyIs
<1>7. ASSUME NEW e \in N, get_entry(table, e) = Empty PROVE TrueDistance(e) = d + 1
  BY <1>1, <1>4, <1>7 DEF Filling
<1>8. \A e \in Entries :
        \/ get_entry(table', e) = get_entry(table, e)
        \/ /\ get_entry(table, e) = Empty
           /\ get_entry(table', e) = EntryOf(d + 1)
           /\ TrueDistance(e) = d + 1
  BY <1>6, <1>7
<1>9. \A e \in N : get_entry(table', e) # Empty
  BY <1>4, <1>5, <1>6
<1> QED BY <1>1, <1>6, <1>8, <1>9, AdvanceBuild

LEMMA SkipBuild ==
  ASSUME BuildInv, Skip
  PROVE  BuildInv'
<1>1. /\ pc = "build" /\ cursor # <<>> /\ ~ AtCurrentDepth /\ Advance
      /\ UNCHANGED <<pc, table, visited_count, file, rest>>
      /\ table \in TableType /\ visited_count = Cardinality(Filled(table))
  BY DEF Skip, BuildInv, BuildTypes
<1>2. TrueDistance(EntryAt(cursor)) # real_current_depth
  BY <1>1, AtDepth
<1> QED BY <1>1, <1>2, AdvanceBuild

-----------------------------------------------------------------------------
(* The file. *)

LEMMA RowIndexIs ==
  /\ RowCount \in Nat
  /\ \A class \in Classes, corner \in Corners : RowIndex(class, corner) \in 1 .. RowCount
  /\ \A c, d \in Classes, k, l \in Corners :
       RowIndex(c, k) = RowIndex(d, l) => c = d /\ k = l
<1> DEFINE n == CornerOrientationCoordinateLength
           m == UDSliceSortedClassCount
<1>1. n \in Nat \ {0} /\ m \in Nat
  BY ThereAreCoordinates, RepresentantsAreFinite
<1>2. m * n \in Nat /\ m * n = n * m /\ RowCount = m * n
  BY <1>1 DEF RowCount
<1>3. ASSUME NEW class \in Classes, NEW corner \in Corners
      PROVE  /\ class * n + corner \in 0 .. m * n - 1
             /\ (class * n + corner) \div n = class /\ (class * n + corner) % n = corner
  <2>1. class \in 0 .. m - 1 /\ corner \in 0 .. n - 1
    BY DEF Classes, Corners
  <2> HIDE DEF n, m
  <2> QED BY <1>1, <1>2, <2>1, NumberOfPair
<1>4. ASSUME NEW c \in Classes, NEW d \in Classes, NEW k \in Corners, NEW l \in Corners,
             RowIndex(c, k) = RowIndex(d, l)
      PROVE  c = d /\ k = l
  <2>1. c * n + k = d * n + l
    BY <1>2, <1>3, <1>4 DEF RowIndex
  <2> QED BY <1>3, <2>1
<1>5. ASSUME NEW class \in Classes, NEW corner \in Corners
      PROVE  RowIndex(class, corner) \in 1 .. RowCount
  BY <1>2, <1>3 DEF RowIndex
<1> QED BY <1>2, <1>4, <1>5

LEMMA SaveRowBuild ==
  ASSUME BuildInv, SaveRow
  PROVE  BuildInv'
<1>1. /\ BuildTypes /\ Exact /\ Full /\ Saved /\ visited_count = Cardinality(Filled(table))
      /\ pc = "save" /\ Len(file) < RowCount /\ rest = <<>>
      /\ UNCHANGED <<pc, table, visited_count, current_depth, real_current_depth, cursor, rest>>
  BY DEF BuildInv, SaveRow, building
<1>2. PICK class \in Classes, corner \in Corners :
        /\ RowIndex(class, corner) = Len(file) + 1
        /\ file' = Append(file, table[class][corner])
  BY DEF SaveRow
<1>3. /\ file \in Seq([Edges -> 0 .. 3]) /\ table[class][corner] \in [Edges -> 0 .. 3]
      /\ Len(file) \in Nat /\ RowCount \in Nat
  BY <1>1, RowIndexIs DEF BuildTypes, TableType
<1>4. /\ file' \in Seq([Edges -> 0 .. 3]) /\ Len(file') = Len(file) + 1
      /\ \A i \in 1 .. Len(file) : file'[i] = file[i]
      /\ file'[Len(file) + 1] = table[class][corner]
  BY <1>2, <1>3
<1>5. ASSUME NEW c \in Classes, NEW k \in Corners, RowIndex(c, k) <= Len(file')
      PROVE  file'[RowIndex(c, k)] = table[c][k]
  <2>1. CASE RowIndex(c, k) <= Len(file)
    BY <1>1, <1>3, <1>4, <2>1, RowIndexIs DEF Saved
  <2>2. CASE RowIndex(c, k) = Len(file) + 1
    BY <1>2, <1>4, <2>2, RowIndexIs
  <2> QED BY <1>3, <1>4, <1>5, <2>1, <2>2, RowIndexIs
<1>6. Saved'
  BY <1>1, <1>5 DEF Saved
<1>7. BuildTypes'
  BY <1>1, <1>3, <1>4 DEF BuildTypes
<1> QED BY <1>1, <1>6, <1>7 DEF BuildInv, Exact, Full

LEMMA DieBuild ==
  ASSUME BuildInv, Die
  PROVE  BuildInv'
<1>1. /\ BuildTypes /\ Exact /\ Full /\ Saved /\ pc' = "dead"
      /\ UNCHANGED <<table, visited_count, current_depth, real_current_depth, cursor, file>>
  BY DEF BuildInv, Die, building
<1>2. PICK class \in Classes, corner \in Corners, n \in CutAfter :
        /\ RowIndex(class, corner) = Len(file) + 1
        /\ rest' = [edge \in {e \in Edges : e < n} |-> table[class][corner][edge]]
  BY DEF Die
<1>3. /\ DOMAIN rest' \subseteq Edges
      /\ \A edge \in DOMAIN rest' : /\ rest'[edge] = table[class][corner][edge]
                                    /\ rest'[edge] \in 0 .. 3
  BY <1>1, <1>2 DEF BuildTypes, TableType
<1>4. Saved'
  BY <1>1, <1>2, <1>3, RowIndexIs DEF Saved
<1>5. BuildTypes'
  BY <1>1, <1>3 DEF BuildTypes
<1> QED BY <1>1, <1>4, <1>5 DEF BuildInv, Exact, Full

(* What is loaded is what was saved; what was not saved is empty. *)
LEMMA LoadBuild ==
  ASSUME BuildInv, load_from_file
  PROVE  BuildInv'
<1>1. /\ BuildTypes /\ Exact /\ Full /\ Saved /\ pc' = "loaded"
      /\ UNCHANGED <<visited_count, current_depth, real_current_depth, cursor, file, rest>>
  BY DEF BuildInv, load_from_file, building
<1>2. table' = [class \in Classes |-> [corner \in Corners |-> [edge \in Edges |->
                  Read(class, corner, edge)]]]
  BY DEF load_from_file
<1>3. ASSUME NEW class \in Classes, NEW corner \in Corners, NEW edge \in Edges
      PROVE  /\ Read(class, corner, edge) \in {table[class][corner][edge], Empty}
             /\ Read(class, corner, edge) \in 0 .. 3
             /\ RowIndex(class, corner) <= Len(file) =>
                  Read(class, corner, edge) = table[class][corner][edge]
  <2>1. table[class][corner][edge] \in 0 .. 3
    BY <1>1 DEF BuildTypes, TableType
  <2>2. allocate[class][corner][edge] = Empty /\ Empty \in 0 .. 3
    BY DEF allocate, Empty
  <2>3. Len(file) \in Nat /\ RowIndex(class, corner) \in Nat
    BY <1>1, RowIndexIs DEF BuildTypes
  <2>4. CASE RowIndex(class, corner) <= Len(file)
    BY <1>1, <2>1, <2>4 DEF Read, Saved
  <2>5. CASE ~ (RowIndex(class, corner) <= Len(file)) /\ RowIndex(class, corner) = Len(file) + 1
                                                    /\ edge \in DOMAIN rest
    BY <1>1, <2>1, <2>5 DEF Read, Saved
  <2>6. CASE /\ ~ (RowIndex(class, corner) <= Len(file))
             /\ ~ (RowIndex(class, corner) = Len(file) + 1 /\ edge \in DOMAIN rest)
    BY <2>2, <2>6 DEF Read
  <2> QED BY <2>4, <2>5, <2>6
<1>4. table' \in TableType
  BY <1>2, <1>3 DEF TableType
<1>5. ASSUME NEW e \in Entries
      PROVE  /\ get_entry(table', e) \in {get_entry(table, e), Empty}
             /\ RowIndex(e.class, e.corner) <= Len(file) =>
                  get_entry(table', e) = get_entry(table, e)
  <2>1. e.class \in Classes /\ e.corner \in Corners /\ e.edge \in Edges
    BY EntryPosition
  <2>2. get_entry(table', e) = Read(e.class, e.corner, e.edge)
    BY <1>2, <2>1 DEF get_entry, get
  <2> QED BY <1>3, <2>1, <2>2 DEF get_entry, get
<1>6. Exact'
  BY <1>1, <1>5 DEF Exact
<1>7. FileIsWhole' => Full'
  BY <1>1, <1>5, RowIndexIs, EntryPosition DEF FileIsWhole, Full
<1>8. BuildTypes'
  BY <1>1, <1>4 DEF BuildTypes
<1> QED BY <1>1, <1>6, <1>7, <1>8 DEF BuildInv

(* Asking changes nothing of all this. *)
LEMMA AskingBuild ==
  ASSUME BuildInv, UNCHANGED <<table, building, file, rest>>,
         \/ pc \in {"loaded", "get_real", "known"} /\ pc' \in {"get_real", "known"}
         \/ pc' = pc
  PROVE  BuildInv'
<1>1. UNCHANGED <<table, visited_count, current_depth, real_current_depth, cursor, file, rest>>
  BY DEF building
<1>2. BuildTypes'
  BY <1>1 DEF BuildInv, BuildTypes
<1>3. Exact'
  BY <1>1 DEF BuildInv, Exact
<1>4. CASE pc' = pc
  BY <1>1, <1>2, <1>3, <1>4 DEF BuildInv, Filling, Full, Saved, FileIsWhole
<1>5. CASE pc \in {"loaded", "get_real", "known"} /\ pc' \in {"get_real", "known"}
  BY <1>1, <1>2, <1>3, <1>5 DEF BuildInv, Full, FileIsWhole
<1> QED BY <1>4, <1>5

-----------------------------------------------------------------------------
(* Asking. *)

LEMMA InitAsk == Init => AskInv
<1> SUFFICES ASSUME Init PROVE AskInv
  OBVIOUS
<1>1. 0 \in SymUDSliceSortedCoordinates
  <2>1. 0 = 0 * SymmetryLength + 0
    BY ThereAreCoordinates
  <2> QED BY <2>1, SymCoordinateIs, Zeros, RepresentantsAreFinite
<1>2. AskTypes
  BY <1>1, SolvedEntryIs, Zeros DEF Init, AskTypes
<1> QED BY <1>2 DEF Init, AskInv

(* Until somebody asks. *)
LEMMA NobodyAsks ==
  ASSUME AskInv, UNCHANGED asking, pc # "known", pc' \notin {"get_real", "known"}
  PROVE  AskInv'
BY DEF AskInv, AskTypes, asking

LEMMA AskAsk ==
  ASSUME BuildInv, AskInv, NEW p \in Positions, Ask(p)
  PROVE  AskInv'
<1> DEFINE sym == SymUDSliceSortedCoordinate(p)
           e == reduce_to_representant(sym, p.edge, p.corner)
<1>1. /\ sym \in SymUDSliceSortedCoordinates /\ p.edge \in Edges /\ p.corner \in Corners
      /\ e \in Entries
      /\ TrueDistance(e) = Distances[SymPosition(sym, p.edge, p.corner)]
  BY SymCoordinateOf, PositionType, ReduceIs, ReducedDistance
<1>2. /\ cube' = [sym |-> sym, edge |-> p.edge, corner |-> p.corner]
      /\ at' = [entry |-> e, mod3 |-> get_entry(table, e) % 3]
      /\ depth' = 0 /\ pc' = "get_real" /\ pc = "loaded" /\ UNCHANGED <<table, file, rest, bound>>
  BY DEF Ask
<1> HIDE DEF e, sym
<1>3. get_entry(table, e) % 3 \in 0 .. 2
  <2>1. get_entry(table, e) \in 0 .. 3
    BY <1>1, GetType DEF BuildInv, BuildTypes
  <2> QED BY <2>1
<1>4. AskTypes'
  BY <1>1, <1>2, <1>3 DEF AskTypes
<1>5. CubePosition' = SymPosition(sym, p.edge, p.corner)
  BY <1>2 DEF CubePosition, SymPosition
<1>6. TrueDistance(e) \in Nat
  BY <1>1, EntryPosition
<1>7. depth' + TrueDistance(at'.entry) = Distances[CubePosition'] + 0
  BY <1>1, <1>2, <1>5, <1>6
<1>8. Descending'
  BY <1>2, <1>7 DEF Descending, Found
<1> QED BY <1>2, <1>4, <1>8 DEF AskInv

(* The entry that a move leads to, in get_real. *)
LEMMA EntryAfterIs ==
  ASSUME NEW e \in Entries, NEW m \in AllMoves
  PROVE  EntryAfter(e, m) \in Entries /\ OneApart(TrueDistance(e), TrueDistance(EntryAfter(e, m)))
<1>1. /\ EntryAfter(e, m) \in Entries
      /\ TrueDistance(EntryAfter(e, m)) = Distances[Multiply(PositionOf(e), m)]
  BY EntryMove, ReduceIs, ReducedDistance DEF EntryAfter
<1> QED BY <1>1, MoveIsOneApart, EntryPosition

LEMMA DescendAsk ==
  ASSUME BuildInv, AskInv, Descend
  PROVE  AskInv'
<1> DEFINE h == TrueDistance(at.entry)
<1>1. /\ pc = "get_real" /\ at.entry # SolvedEntry /\ depth' = depth + 1
      /\ UNCHANGED <<pc, table, file, rest, cube, bound>>
      /\ AskTypes /\ Descending /\ bound = None /\ Exact
      /\ table \in TableType /\ (FileIsWhole => Full)
  BY DEF Descend, BuildInv, BuildTypes, AskInv
<1>2. PICK m \in AllMoves :
        /\ get_entry(table, EntryAfter(at.entry, m)) = MapEntryDecMod3[at.mod3]
        /\ at' = [entry |-> EntryAfter(at.entry, m), mod3 |-> DecMod3[at.mod3]]
  BY DEF Descend
<1> DEFINE f == EntryAfter(at.entry, m)
           k == TrueDistance(f)
<1>3. /\ at.entry \in Entries /\ f \in Entries /\ OneApart(h, k)
      /\ h \in Nat /\ h # 0 /\ k \in Nat
      /\ depth \in Nat /\ at.mod3 \in 0 .. 2
  BY <1>1, EntryAfterIs, EntryPosition, SolvedEntryIs DEF AskTypes
<1>4. /\ MapEntryDecMod3[at.mod3] = MapEntry[DecMod3[at.mod3]]
      /\ DecMod3[at.mod3] \in 0 .. 2
      /\ MapEntry[DecMod3[at.mod3]] \in 1 .. 3
      /\ MapEntry[DecMod3[at.mod3]] % 3 = DecMod3[at.mod3]
  <2>1. /\ DecMod3[0] = 2 /\ DecMod3[1] = 0 /\ DecMod3[2] = 1
        /\ MapEntry[0] = 3 /\ MapEntry[1] = 1 /\ MapEntry[2] = 2
        /\ 3 % 3 = 0 /\ 1 % 3 = 1 /\ 2 % 3 = 2
    BY DEF DecMod3, MapEntry
  <2>2. at.mod3 = 0 \/ at.mod3 = 1 \/ at.mod3 = 2
    BY <1>3
  <2>3. MapEntryDecMod3[at.mod3] = MapEntry[DecMod3[at.mod3]]
    BY <1>3 DEF MapEntryDecMod3
  <2> QED BY <2>1, <2>2, <2>3
<1>5. /\ get_entry(table, f) # Empty
      /\ EntryOf(k) = MapEntryDecMod3[at.mod3]
      /\ Found' = get_entry(table, f) /\ at'.mod3 = Found' % 3
  BY <1>1, <1>2, <1>3, <1>4 DEF Exact, Empty, Found
<1>6. PICK more \in 0 .. 2 : /\ depth + h = Distances[CubePosition] + more
                             /\ Found = Empty \/ FileIsWhole => more = 0
  BY <1>1 DEF Descending
<1>7. Distances[CubePosition] \in Nat
  BY <1>1, EntryPosition, DistanceIs DEF AskTypes, CubePosition
<1>8. \E less \in 0 .. 2 : /\ depth + 1 + k = Distances[CubePosition] + less
                           /\ FileIsWhole => less = 0
  <2>1. CASE Found = Empty
    <3>1. at.mod3 = 0
      <4>1. 0 % 3 = 0
        OBVIOUS
      <4> QED BY <1>1, <2>1, <4>1 DEF Descending, Empty
    <3>2. ~ FileIsWhole
      BY <1>1, <1>3, <2>1 DEF Full, Found
    <3>3. depth + h = Distances[CubePosition]
      BY <1>6, <1>7, <2>1
    <3>4. k - h + 1 \in 0 .. 2
      BY <1>3 DEF OneApart
    <3>5. depth + 1 + k = Distances[CubePosition] + (k - h + 1)
      BY <1>3, <1>7, <3>3
    <3> QED BY <3>2, <3>4, <3>5
  <2>2. CASE Found # Empty
    <3>1. Found = EntryOf(h)
      BY <1>1, <1>3, <2>2 DEF Exact, Found
    <3>2. at.mod3 = h % 3
      BY <1>1, <1>3, <3>1, EntryCases DEF Descending
    <3>3. k = h - 1
      BY <1>3, <1>5, <3>2, DescentIsExact
    <3>4. depth + 1 + k = Distances[CubePosition] + more
      BY <1>3, <1>6, <1>7, <3>3
    <3> QED BY <1>6, <3>4
  <2> QED BY <2>1, <2>2
<1>9. CubePosition' = CubePosition /\ FileIsWhole' = FileIsWhole
  BY <1>1 DEF CubePosition, SymPosition, FileIsWhole
<1>10. Descending'
  <2>1. at'.entry = f /\ Found' # Empty
    BY <1>2, <1>5
  <2> QED BY <1>1, <1>5, <1>8, <1>9, <2>1 DEF Descending
<1>11. AskTypes'
  BY <1>1, <1>2, <1>3, <1>4 DEF AskTypes
<1> QED BY <1>1, <1>10, <1>11 DEF AskInv

LEMMA ReturnAsk ==
  ASSUME AskInv, Return
  PROVE  AskInv'
<1>1. /\ AskTypes /\ Descending /\ at.entry = SolvedEntry
      /\ pc' = "known" /\ bound' = depth /\ UNCHANGED <<file, rest, cube, at, depth>>
  BY DEF Return, AskInv
<1>2. TrueDistance(at.entry) = 0 /\ depth \in Nat
  BY <1>1, SolvedEntryIs DEF AskTypes
<1>3. Distances[CubePosition] \in Nat
  BY <1>1, EntryPosition, DistanceIs DEF AskTypes, CubePosition
<1>4. PICK more \in 0 .. 2 : /\ depth = Distances[CubePosition] + more
                             /\ FileIsWhole => more = 0
  BY <1>1, <1>2 DEF Descending
<1>5. CubePosition' = CubePosition /\ FileIsWhole' = FileIsWhole
  BY <1>1 DEF CubePosition, SymPosition, FileIsWhole
<1>6. Told'
  BY <1>1, <1>3, <1>4, <1>5 DEF Told
<1>7. AskTypes'
  BY <1>1 DEF AskTypes
<1> QED BY <1>1, <1>6, <1>7 DEF AskInv

(* From a bound that is up to 3 too large, the entry of the position after *)
(* a move leads to one that is right or 3 too large.                       *)
LEMMA RelativeIsNear ==
  ASSUME NEW d \in Nat, NEW k \in Nat, OneApart(d, k), NEW more \in 0 .. 3, d + more \in Rows
  PROVE  RelativePruning[d + more][EntryOf(k)] \in {k, k + 3}
<1>1. PICK j \in {k, k + 3} : OneApart(d + more, j)
  <2>1. d + more \in Int /\ k + 3 \in Nat
    OBVIOUS
  <2>2. OneApart(d + more, k) \/ OneApart(d + more, k + 3)
    BY DEF OneApart
  <2> QED BY <2>2
<1>2. j \in Nat /\ EntryOf(j) = EntryOf(k)
  <2>1. (k + 3) % 3 = k % 3
    OBVIOUS
  <2> QED BY <2>1 DEF EntryOf
<1>3. RelativePruning[d + more][EntryOf(j)] = j
  BY <1>1, <1>2, RelativeIsExact
<1> QED BY <1>2, <1>3

LEMMA TurnAsk ==
  ASSUME BuildInv, AskInv, NEW m \in AllMoves, Turn(m)
  PROVE  AskInv'
<1> DEFINE sym == SymUDSliceSortedMove(cube.sym, m)
           edge == EdgeOrientationMove[cube.edge][m]
           corner == CornerOrientationMove[cube.corner][m]
           e == reduce_to_representant(sym, edge, corner)
           d == Distances[CubePosition]
           k == TrueDistance(e)
<1>1. /\ pc = "known" /\ bound # None /\ AskTypes /\ Told /\ Exact
      /\ (FileIsWhole => Full)
      /\ UNCHANGED <<pc, table, file, rest, at, depth>>
  BY DEF Turn, BuildInv, AskInv
<1>2. /\ cube' = [sym |-> sym, edge |-> edge, corner |-> corner]
      /\ bound' = IF get_entry(table, e) = Empty THEN None ELSE RelativePruning[bound][get_entry(table, e)]
  BY DEF Turn, get_simpl
<1>3. /\ cube.sym \in SymUDSliceSortedCoordinates /\ cube.edge \in Edges /\ cube.corner \in Corners
      /\ CubePosition \in Positions
  BY <1>1, EntryPosition DEF AskTypes, CubePosition
<1>4. /\ sym \in SymUDSliceSortedCoordinates /\ edge \in Edges /\ corner \in Corners
      /\ SymPosition(sym, edge, corner) = Multiply(CubePosition, m)
  BY <1>3, SymMoveIs DEF CubePosition
<1>5. /\ e \in Entries /\ k = Distances[Multiply(CubePosition, m)] /\ k \in Nat
      /\ d \in Nat /\ d <= FarthestDistance /\ OneApart(d, k)
  BY <1>3, <1>4, ReduceIs, ReducedDistance, MoveIsOneApart, DistanceIs, EntryPosition
<1>6. CubePosition' = Multiply(CubePosition, m)
  BY <1>2, <1>4 DEF CubePosition, SymPosition
<1>7. FileIsWhole' = FileIsWhole
  BY <1>1 DEF FileIsWhole
<1>8. FarthestDistance \in 0 .. RelativePruningLength - 1 /\ RelativePruningLength = 20
  BY SomeDistance DEF RelativePruningLength
<1>9. FileIsWhole => bound' = k
  <2> SUFFICES ASSUME FileIsWhole PROVE bound' = k
    OBVIOUS
  <2>1. get_entry(table, e) = EntryOf(k) /\ EntryOf(k) # Empty /\ bound = d
    BY <1>1, <1>5, EntryIsNotEmpty DEF Full, Exact, Told
  <2>2. d \in Rows
    BY <1>5, <1>8 DEF Rows
  <2> QED BY <1>2, <1>5, <2>1, <2>2, RelativeIsExact
<1>10. ThreeToSpare => bound' = None \/ bound' \in {k, k + 3}
  <2> SUFFICES ASSUME ThreeToSpare, get_entry(table, e) # Empty PROVE bound' \in {k, k + 3}
    BY <1>2
  <2>1. PICK more \in 0 .. 3 : bound = d + more
    BY <1>1 DEF Told
  <2>2. d + more \in Rows
    BY <1>5, <1>8 DEF ThreeToSpare, Rows
  <2>3. get_entry(table, e) = EntryOf(k)
    BY <1>1, <1>5 DEF Exact
  <2> QED BY <1>2, <1>5, <2>1, <2>2, <2>3, RelativeIsNear
<1>11. Told'
  BY <1>5, <1>6, <1>7, <1>9, <1>10 DEF Told
<1>12. AskTypes'
  BY <1>1, <1>2, <1>4 DEF AskTypes
<1> QED BY <1>1, <1>11, <1>12 DEF AskInv

-----------------------------------------------------------------------------
(* The invariant. *)

LEMMA InitInv == Init => IInv
BY InitBuild, InitAsk DEF IInv

LEMMA StepInv == IInv /\ [Next]_vars => IInv'
<1> SUFFICES ASSUME BuildInv, AskInv, [Next]_vars PROVE BuildInv' /\ AskInv'
  BY DEF IInv
<1>1. CASE FirstEntry
  BY <1>1, FirstEntryBuild, NobodyAsks DEF FirstEntry
<1>2. CASE StartPass
  BY <1>2, StartPassBuild, NobodyAsks DEF StartPass
<1>3. CASE Visit
  BY <1>3, VisitBuild, NobodyAsks DEF Visit
<1>4. CASE Skip
  BY <1>4, SkipBuild, NobodyAsks DEF Skip
<1>5. CASE EndBuild
  BY <1>5, EndBuildBuild, NobodyAsks DEF EndBuild
<1>6. CASE SaveRow
  BY <1>6, SaveRowBuild, NobodyAsks DEF SaveRow
<1>7. CASE Die
  BY <1>7, DieBuild, NobodyAsks DEF Die
<1>8. CASE load_from_file
  BY <1>8, LoadBuild, NobodyAsks DEF load_from_file
<1>9. CASE \E p \in Positions : Ask(p)
  BY <1>9, AskingBuild, AskAsk DEF Ask
<1>10. CASE Descend
  BY <1>10, AskingBuild, DescendAsk DEF Descend
<1>11. CASE Return
  BY <1>11, AskingBuild, ReturnAsk DEF Return
<1>12. CASE \E m \in AllMoves : Turn(m)
  BY <1>12, AskingBuild, TurnAsk DEF Turn
<1>13. CASE UNCHANGED vars
  <2>1. UNCHANGED <<pc, table, building, file, rest, asking>>
    BY <1>13 DEF vars
  <2>2. UNCHANGED <<cube, at, depth, bound>>
    BY <2>1 DEF asking
  <2>3. AskInv'
    BY <2>1, <2>2 DEF AskInv, AskTypes, Descending, Found, Told, CubePosition, SymPosition, FileIsWhole
  <2> QED BY <2>1, <2>3, AskingBuild
<1> QED
  BY <1>1, <1>2, <1>3, <1>4, <1>5, <1>6, <1>7, <1>8, <1>9, <1>10, <1>11, <1>12, <1>13 DEF Next, Build

LEMMA Invariance == Spec => []IInv
BY InitInv, StepInv, PTL DEF Spec

(* The position asked for, as the properties and as the proofs name it. *)
LEMMA CubeIsThere ==
  ASSUME IInv
  PROVE  /\ DistanceOfCube = Distances[CubePosition]
         /\ DistanceOfCube \in Nat /\ DistanceOfCube <= FarthestDistance
<1>1. CubePosition \in Positions
  BY EntryPosition DEF IInv, AskInv, AskTypes, CubePosition
<1>2. DistanceOfCube = Distances[CubePosition]
  BY DEF DistanceOfCube, CubePosition, SymPosition
<1> QED BY <1>1, <1>2, DistanceIs

(* While build() fills the table whatever is in it is the true distance    *)
(* (two bits of it), and a pass that is over has left nothing that is as   *)
(* near empty (pruningtable.cpp:202-261); what is saved and loaded, all of *)
(* it or not, is what was built.                                           *)
THEOREM TableExact == Spec => []TableIsExact
<1>1. IInv => TableIsExact
  BY EntryPosition DEF IInv, BuildInv, BuildTypes, Exact, Filling, TableIsExact
<1> QED BY <1>1, Invariance, PTL

(* build() counts the entries that are filled, each once: it ends when all *)
(* are, and only then (pruningtable.cpp:202).                              *)
THEOREM CountExact == Spec => []CountIsExact
<1>1. IInv => CountIsExact
  BY DEF IInv, BuildInv, CountIsExact, Filled
<1> QED BY <1>1, Invariance, PTL

(* Whoever asks a table that was loaded of a whole file is told the true   *)
(* distance, at first and after every move (pruningtable.cpp:79-127,       *)
(* solve.cpp:247-260).                                                     *)
THEOREM BoundReal == Spec => []BoundIsReal
<1>1. IInv => BoundIsReal
  BY CubeIsThere DEF IInv, AskInv, Told, BoundIsReal
<1> QED BY <1>1, Invariance, PTL

(* Of a file that was not whole it is never too small, and too large by at *)
(* most 3: only the first round of get_real can go the wrong way, and      *)
(* RelativePruning then keeps what is wrong to a multiple of 3             *)
(* (pruningtable.cpp:89-127).  It must have rows for 3 more than the       *)
(* farthest distance.                                                      *)
THEOREM BoundNear == ThreeToSpare => (Spec => []BoundIsNear)
<1> SUFFICES ASSUME ThreeToSpare PROVE Spec => []BoundIsNear
  OBVIOUS
<1>1. IInv => BoundIsNear
  <2> SUFFICES ASSUME IInv, pc = "known", bound # None
               PROVE  bound - DistanceOfCube \in 0 .. 3
    BY DEF BoundIsNear
  <2>1. PICK more \in 0 .. 3 : bound = Distances[CubePosition] + more
    BY DEF IInv, AskInv, Told
  <2> QED BY <2>1, CubeIsThere
<1> QED BY <1>1, Invariance, PTL

(* Every variable has its type, the bound too, so that RelativePruning is  *)
(* never read where it has no row (pruningtable.cpp:120-127).              *)
THEOREM TypeCorrect == ThreeToSpare => (Spec => []TypeOK)
<1> SUFFICES ASSUME ThreeToSpare PROVE Spec => []TypeOK
  OBVIOUS
<1>1. IInv => TypeOK
  <2> SUFFICES ASSUME IInv PROVE TypeOK
    OBVIOUS
  <2>1. bound \in {None} \cup 0 .. RelativePruningLength - 1
    <3>1. CASE pc = "known" /\ bound # None
      <4>1. PICK more \in 0 .. 3 : bound = Distances[CubePosition] + more
        BY <3>1 DEF IInv, AskInv, Told
      <4> QED BY <4>1, CubeIsThere, SomeDistance DEF ThreeToSpare, RelativePruningLength
    <3>2. CASE pc # "known" \/ bound = None
      BY <3>2 DEF IInv, AskInv
    <3> QED BY <3>1, <3>2
  <2> QED BY <2>1 DEF IInv, BuildInv, AskInv, BuildTypes, AskTypes, TableType, TypeOK
<1> QED BY <1>1, Invariance, PTL
=============================================================================
