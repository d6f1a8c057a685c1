--------------------------- MODULE CubeSolverProofs ---------------------------
(***************************************************************************)
(* Proofs about the search: whatever it leaves out, it finds a shortest    *)
(* solution, for every set of cubes and every table of lower bounds that   *)
(* keeps to the rules of TableIsSound.                                     *)
(***************************************************************************)
EXTENDS CubeSolver, PruningValuesProofs, SequenceTheorems, WellFoundedInduction

(* A set of numbers has a smallest one. *)
LEMMA Smallest ==
  ASSUME NEW T \in SUBSET Nat, T # {}
  PROVE  \E n \in T : \A m \in T : n <= m
<1>1. PICK n \in T : \A m \in T : ~ (<<m, n>> \in OpToRel(<, Nat))
  BY NatLessThanWellFounded, WFMin
<1>2. \A m \in T : ~ (m < n)
  BY <1>1 DEF OpToRel
<1> QED BY <1>2

-----------------------------------------------------------------------------
(* The algebra of the cube: permutations compose associatively, and moving *)
(* a cube and looking at it through a symmetry commute.                    *)

LEMMA FieldsOfPermutation ==
  ASSUME NEW p \in AllPermutations
  PROVE  /\ p.corner \in [CornerCubies -> CornerCubies]
         /\ p.twist \in [CornerCubies -> Twists]
         /\ p.edge \in [EdgeCubies -> EdgeCubies]
         /\ p.flip \in [EdgeCubies -> {0, 1}]
         /\ p = Permutation(p.corner, p.twist, p.edge, p.flip)
BY DEF AllPermutations, Permutation

LEMMA TwistSum ==
  /\ \A a, b, c \in Twists :
       orientation_sum[orientation_sum[a][b]][c] = orientation_sum[a][orientation_sum[b][c]]
  /\ \A a \in Twists : orientation_sum[a][0] = a /\ orientation_sum[0][a] = a
<1>1. 0 \in Twists
  BY DEF Twists
<1> QED BY <1>1, TwistsAreAGroup

LEMMA FlipSum ==
  \A a, b, c \in {0, 1} : /\ (a + b) % 2 \in {0, 1}
                          /\ (((a + b) % 2) + c) % 2 = (a + ((b + c) % 2)) % 2
                          /\ (a + 0) % 2 = a /\ (0 + a) % 2 = a
OBVIOUS

LEMMA MultType ==
  ASSUME NEW p \in AllPermutations, NEW q \in AllPermutations
  PROVE  mult(p, q) \in AllPermutations
<1> USE FieldsOfPermutation
<1>1. [i \in CornerCubies |-> p.corner[q.corner[i]]] \in [CornerCubies -> CornerCubies]
  OBVIOUS
<1>2. [i \in CornerCubies |-> orientation_sum[p.twist[q.corner[i]]][q.twist[i]]]
        \in [CornerCubies -> Twists]
  BY TwistsAreAGroup
<1>3. [i \in EdgeCubies |-> p.edge[q.edge[i]]] \in [EdgeCubies -> EdgeCubies]
  OBVIOUS
<1>4. [i \in EdgeCubies |-> (p.flip[q.edge[i]] + q.flip[i]) % 2] \in [EdgeCubies -> {0, 1}]
  BY FlipSum
<1> QED BY <1>1, <1>2, <1>3, <1>4 DEF mult, Permutation, AllPermutations

(* Permutation::mult is associative. *)
LEMMA MultAssociates ==
  ASSUME NEW p \in AllPermutations, NEW q \in AllPermutations, NEW r \in AllPermutations
  PROVE  mult(mult(p, q), r) = mult(p, mult(q, r))
<1> USE FieldsOfPermutation
<1>1. [i \in CornerCubies |-> mult(p, q).corner[r.corner[i]]] =
      [i \in CornerCubies |-> p.corner[mult(q, r).corner[i]]]
  BY DEF mult, Permutation
<1>2. [i \in CornerCubies |-> orientation_sum[mult(p, q).twist[r.corner[i]]][r.twist[i]]] =
      [i \in CornerCubies |-> orientation_sum[p.twist[mult(q, r).corner[i]]][mult(q, r).twist[i]]]
  <2> SUFFICES ASSUME NEW i \in CornerCubies
               PROVE  orientation_sum[mult(p, q).twist[r.corner[i]]][r.twist[i]] =
                      orientation_sum[p.twist[mult(q, r).corner[i]]][mult(q, r).twist[i]]
    OBVIOUS
  <2> DEFINE j == r.corner[i]
             k == q.corner[j]
  <2>1. j \in CornerCubies /\ k \in CornerCubies
    OBVIOUS
  <2>2. mult(p, q).twist[j] = orientation_sum[p.twist[k]][q.twist[j]]
    BY <2>1 DEF mult, Permutation
  <2>3. mult(q, r).corner[i] = k /\ mult(q, r).twist[i] = orientation_sum[q.twist[j]][r.twist[i]]
    BY <2>1 DEF mult, Permutation
  <2>4. p.twist[k] \in Twists /\ q.twist[j] \in Twists /\ r.twist[i] \in Twists
    BY <2>1
  <2>5. orientation_sum[orientation_sum[p.twist[k]][q.twist[j]]][r.twist[i]] =
        orientation_sum[p.twist[k]][orientation_sum[q.twist[j]][r.twist[i]]]
    <3> HIDE DEF j, k
    <3> QED BY <2>4, TwistSum
  <2> QED BY <2>2, <2>3, <2>5
<1>3. [i \in EdgeCubies |-> mult(p, q).edge[r.edge[i]]] =
      [i \in EdgeCubies |-> p.edge[mult(q, r).edge[i]]]
  BY DEF mult, Permutation
<1>4. [i \in EdgeCubies |-> (mult(p, q).flip[r.edge[i]] + r.flip[i]) % 2] =
      [i \in EdgeCubies |-> (p.flip[mult(q, r).edge[i]] + mult(q, r).flip[i]) % 2]
  <2> SUFFICES ASSUME NEW i \in EdgeCubies
               PROVE  (mult(p, q).flip[r.edge[i]] + r.flip[i]) % 2 =
                      (p.flip[mult(q, r).edge[i]] + mult(q, r).flip[i]) % 2
    OBVIOUS
  <2> DEFINE j == r.edge[i]
             k == q.edge[j]
  <2>1. j \in EdgeCubies /\ k \in EdgeCubies
    OBVIOUS
  <2>2. mult(p, q).flip[j] = (p.flip[k] + q.flip[j]) % 2
    BY <2>1 DEF mult, Permutation
  <2>3. mult(q, r).edge[i] = k /\ mult(q, r).flip[i] = (q.flip[j] + r.flip[i]) % 2
    BY <2>1 DEF mult, Permutation
  <2>4. p.flip[k] \in {0, 1} /\ q.flip[j] \in {0, 1} /\ r.flip[i] \in {0, 1}
    BY <2>1
  <2>5. (((p.flip[k] + q.flip[j]) % 2) + r.flip[i]) % 2 =
        (p.flip[k] + ((q.flip[j] + r.flip[i]) % 2)) % 2
    <3> HIDE DEF j, k
    <3> QED BY <2>4, FlipSum
  <2>6. p.flip[mult(q, r).edge[i]] = p.flip[k]
    BY <2>3
  <2> HIDE DEF k
  <2>7. mult(p, q).flip[r.edge[i]] = (p.flip[k] + q.flip[j]) % 2
    BY <2>2
  <2> HIDE DEF j
  <2> QED BY <2>3, <2>5, <2>6, <2>7
<1>5. \A a, b : mult(a, b) =
        Permutation([i \in CornerCubies |-> a.corner[b.corner[i]]],
                    [i \in CornerCubies |-> orientation_sum[a.twist[b.corner[i]]][b.twist[i]]],
                    [i \in EdgeCubies |-> a.edge[b.edge[i]]],
                    [i \in EdgeCubies |-> (a.flip[b.edge[i]] + b.flip[i]) % 2])
  BY DEF mult
<1> QED BY <1>1, <1>2, <1>3, <1>4, <1>5

LEMMA IdentityType == identity \in AllPermutations
BY DEF identity, Permutation, AllPermutations, Twists

LEMMA MultIdentity ==
  ASSUME NEW p \in AllPermutations
  PROVE  mult(p, identity) = p /\ mult(identity, p) = p
<1> USE FieldsOfPermutation
<1>1. p = mult(p, identity)
  <2>1. p.corner = [i \in CornerCubies |-> p.corner[identity.corner[i]]]
    BY DEF identity, Permutation
  <2>2. p.twist = [i \in CornerCubies |->
                     orientation_sum[p.twist[identity.corner[i]]][identity.twist[i]]]
    BY TwistSum DEF identity, Permutation
  <2>3. p.edge = [i \in EdgeCubies |-> p.edge[identity.edge[i]]]
    BY DEF identity, Permutation
  <2>4. p.flip = [i \in EdgeCubies |-> (p.flip[identity.edge[i]] + identity.flip[i]) % 2]
    BY FlipSum DEF identity, Permutation
  <2> QED BY <2>1, <2>2, <2>3, <2>4 DEF mult
<1>2. p = mult(identity, p)
  <2>1. p.corner = [i \in CornerCubies |-> identity.corner[p.corner[i]]]
    BY DEF identity, Permutation
  <2>2. p.twist = [i \in CornerCubies |->
                     orientation_sum[identity.twist[p.corner[i]]][p.twist[i]]]
    <3>1. \A i \in CornerCubies : p.corner[i] \in CornerCubies /\ p.twist[i] \in Twists
      OBVIOUS
    <3>2. \A j \in CornerCubies : identity.twist[j] = 0
      BY DEF identity, Permutation
    <3>3. \A i \in CornerCubies : orientation_sum[identity.twist[p.corner[i]]][p.twist[i]] = p.twist[i]
      BY <3>1, <3>2, TwistSum
    <3> QED BY <3>3
  <2>3. p.edge = [i \in EdgeCubies |-> identity.edge[p.edge[i]]]
    BY DEF identity, Permutation
  <2>4. p.flip = [i \in EdgeCubies |-> (identity.flip[p.edge[i]] + p.flip[i]) % 2]
    BY FlipSum DEF identity, Permutation
  <2> QED BY <2>1, <2>2, <2>3, <2>4 DEF mult
<1> QED BY <1>1, <1>2

-----------------------------------------------------------------------------
(* A cube and its moves. *)

Turned(p, m) == mult(p, CanonicalPermutation[m])

LEMMA TurnedType ==
  ASSUME NEW p \in AllPermutations, NEW m \in Moves
  PROVE  Turned(p, m) \in AllPermutations
BY MultType, TablesHavePermutations DEF Turned

(* Another move takes back what a move did. *)
LEMMA Undo ==
  ASSUME NEW m \in Moves
  PROVE  \E n \in Moves : \A p \in AllPermutations : Turned(Turned(p, m), n) = p
<1>1. PICK n \in Moves : mult(CanonicalPermutation[m], CanonicalPermutation[n]) = identity
  BY MovesCanBeUndone
<1>2. ASSUME NEW p \in AllPermutations PROVE Turned(Turned(p, m), n) = p
  BY <1>1, MultAssociates, MultIdentity, TablesHavePermutations DEF Turned
<1> QED BY <1>2

-----------------------------------------------------------------------------
(* Through a symmetry. *)

LEMMA ConjugateType ==
  ASSUME NEW p \in AllPermutations, NEW s \in FullSymmetries
  PROVE  FullSymmetryConjugate(p, s) \in AllPermutations
BY MultType, TablesHavePermutations, SymmetriesHaveInverses DEF FullSymmetryConjugate

LEMMA ConjugateIdentity ==
  ASSUME NEW s \in FullSymmetries
  PROVE  FullSymmetryConjugate(identity, s) = identity
BY MultIdentity, TablesHavePermutations, SymmetriesHaveInverses DEF FullSymmetryConjugate

(* Looking through a symmetry is a homomorphism. *)
LEMMA ConjugateMult ==
  ASSUME NEW p \in AllPermutations, NEW q \in AllPermutations, NEW s \in FullSymmetries
  PROVE  FullSymmetryConjugate(mult(p, q), s) =
           mult(FullSymmetryConjugate(p, s), FullSymmetryConjugate(q, s))
<1> DEFINE S == FullSymmetry[s]
           T == FullSymmetry[FullInverseSymmetryIndex[s]]
<1>1. S \in AllPermutations /\ T \in AllPermutations /\ mult(T, S) = identity
  BY TablesHavePermutations, SymmetriesHaveInverses
<1>2. \A a : FullSymmetryConjugate(a, s) = mult(mult(S, a), T)
  BY DEF FullSymmetryConjugate
<1> HIDE DEF S, T
<1>3. /\ mult(S, p) \in AllPermutations /\ mult(S, q) \in AllPermutations
      /\ mult(mult(S, q), T) \in AllPermutations /\ mult(mult(S, p), T) \in AllPermutations
      /\ mult(q, T) \in AllPermutations /\ mult(p, q) \in AllPermutations
  BY <1>1, MultType
<1>4. mult(mult(mult(S, p), T), mult(mult(S, q), T)) = mult(mult(S, p), mult(T, mult(mult(S, q), T)))
  BY <1>1, <1>3, MultAssociates
<1>5. mult(mult(S, q), T) = mult(S, mult(q, T))
  BY <1>1, <1>3, MultAssociates
<1>6. mult(T, mult(S, mult(q, T))) = mult(mult(T, S), mult(q, T))
  BY <1>1, <1>3, MultAssociates
<1>7. mult(mult(T, S), mult(q, T)) = mult(q, T)
  BY <1>1, <1>3, MultIdentity
<1>8. mult(mult(S, p), mult(q, T)) = mult(mult(mult(S, p), q), T)
  BY <1>1, <1>3, MultAssociates
<1>9. mult(mult(S, p), q) = mult(S, mult(p, q))
  BY <1>1, MultAssociates
<1> QED BY <1>2, <1>4, <1>5, <1>6, <1>7, <1>8, <1>9

(* The move of a cube is, through a symmetry, the conjugated move of the   *)
(* conjugated cube, for all 48 symmetries (solve.cpp:217-218 and 309 rely  *)
(* on it; main.cpp:232-244 asserts it for one symmetry and one slice).     *)
THEOREM ConjugateTurned ==
  ASSUME NEW p \in AllPermutations, NEW m \in Moves, NEW s \in FullSymmetries
  PROVE  FullSymmetryConjugate(Turned(p, m), s) =
           Turned(FullSymmetryConjugate(p, s), FullCanonicalPermutationConjugate[m][s])
<1>1. CanonicalPermutation[FullCanonicalPermutationConjugate[m][s]] =
        FullSymmetryConjugate(CanonicalPermutation[m], s)
  BY MovesAreConjugated
<1> QED BY <1>1, ConjugateMult, TablesHavePermutations DEF Turned

-----------------------------------------------------------------------------
(* Balls: the cubes that some number of moves or fewer make.               *)

(* Ball is the function that its definition describes: there is one such   *)
(* function on 0 .. n for each n, and they agree.                          *)
LEMMA BallDef ==
  /\ Ball[0] = {identity}
  /\ \A n \in Nat : Ball[n + 1] = OneMoveMore(Ball[n])
<1> DEFINE Rule(g, k) == g[k] = IF k = 0 THEN {identity} ELSE OneMoveMore(g[k - 1])
           UpTo(n) == {g \in [0 .. n -> SUBSET AllPermutations] : \A k \in 0 .. n : Rule(g, k)}
<1> HIDE DEF Rule, UpTo
<1>1. \A n \in Nat : UpTo(n) # {}
  <2> DEFINE T == {n \in Nat : UpTo(n) = {}}
  <2>1. SUFFICES ASSUME T # {} PROVE FALSE
    OBVIOUS
  <2>2. PICK n \in T : \A m \in T : n <= m
    BY <2>1, Smallest
  <2>3. CASE n = 0
    <3>1. [k \in 0 .. 0 |-> {identity}] \in UpTo(0)
      BY IdentityType DEF UpTo, Rule
    <3> QED BY <2>3, <3>1
  <2>4. CASE n # 0
    <3>1. n - 1 \in Nat /\ n - 1 \notin T
      BY <2>2, <2>4
    <3>2. PICK g : g \in UpTo(n - 1)
      BY <3>1
    <3> DEFINE h == [k \in 0 .. n |-> IF k < n THEN g[k] ELSE OneMoveMore(g[n - 1])]
    <3>3. /\ g \in [0 .. n - 1 -> SUBSET AllPermutations]
          /\ g[n - 1] \in SUBSET AllPermutations
      BY <3>1, <3>2 DEF UpTo
    <3>4. OneMoveMore(g[n - 1]) \in SUBSET AllPermutations
      BY <3>3, MultType, TablesHavePermutations DEF OneMoveMore
    <3>5. h \in [0 .. n -> SUBSET AllPermutations]
      BY <3>3, <3>4
    <3>6. ASSUME NEW k \in 0 .. n PROVE Rule(h, k)
      <4>1. CASE k < n
        <5>1. k \in 0 .. n - 1 /\ Rule(g, k) /\ h[k] = g[k]
          BY <3>1, <3>2, <4>1 DEF UpTo
        <5>2. k # 0 => h[k - 1] = g[k - 1]
          BY <3>1, <4>1
        <5> QED BY <5>1, <5>2 DEF Rule
      <4>2. CASE k = n
        BY <2>4, <3>1, <4>2 DEF Rule
      <4> QED BY <4>1, <4>2
    <3>7. h \in UpTo(n)
      BY <3>5, <3>6 DEF UpTo
    <3> QED BY <2>2, <3>7
  <2> QED BY <2>3, <2>4
<1>2. ASSUME NEW m \in Nat, NEW n \in Nat, m <= n, NEW g \in UpTo(m), NEW h \in UpTo(n)
      PROVE  \A k \in 0 .. m : g[k] = h[k]
  <2> DEFINE T == {k \in Nat : k <= m /\ g[k] # h[k]}
  <2>1. SUFFICES ASSUME T # {} PROVE FALSE
    OBVIOUS
  <2>2. PICK k \in T : \A j \in T : k <= j
    BY <2>1, Smallest
  <2>3. k \in 0 .. m /\ k \in 0 .. n /\ Rule(g, k) /\ Rule(h, k)
    BY <1>2, <2>2 DEF UpTo
  <2>4. k # 0 => k - 1 \in Nat /\ k - 1 \notin T
    BY <2>2
  <2>5. k # 0 => g[k - 1] = h[k - 1]
    BY <2>2, <2>4
  <2> QED BY <2>2, <2>3, <2>5 DEF Rule
<1> DEFINE G(n) == CHOOSE g : g \in UpTo(n)
           F == [n \in Nat |-> G(n)[n]]
<1>3. \A n \in Nat : G(n) \in UpTo(n)
  BY <1>1
<1> HIDE DEF G
<1>4. F = [n \in Nat |-> IF n = 0 THEN {identity} ELSE OneMoveMore(F[n - 1])]
  <2> SUFFICES ASSUME NEW n \in Nat
               PROVE  F[n] = IF n = 0 THEN {identity} ELSE OneMoveMore(F[n - 1])
    OBVIOUS
  <2>1. F[n] = G(n)[n] /\ n \in 0 .. n
    OBVIOUS
  <2>2. Rule(G(n), n)
    BY <1>3, <2>1 DEF UpTo
  <2>3. ASSUME n # 0 PROVE G(n)[n - 1] = F[n - 1]
    <3>1. n - 1 \in Nat /\ n - 1 <= n /\ n - 1 \in 0 .. n - 1
      BY <2>3
    <3>2. F[n - 1] = G(n - 1)[n - 1]
      BY <3>1
    <3> QED BY <1>2, <1>3, <3>1, <3>2
  <2> QED BY <2>1, <2>2, <2>3 DEF Rule
<1> HIDE DEF F
<1>5. Ball = [n \in Nat |-> IF n = 0 THEN {identity} ELSE OneMoveMore(Ball[n - 1])]
  BY <1>4 DEF Ball
<1>6. ASSUME NEW n \in Nat PROVE Ball[n + 1] = OneMoveMore(Ball[n])
  <2>1. n + 1 \in Nat /\ n + 1 # 0 /\ (n + 1) - 1 = n
    OBVIOUS
  <2> QED BY <1>5, <2>1
<1> QED BY <1>5, <1>6

LEMMA BallType ==
  ASSUME NEW n \in Nat
  PROVE  Ball[n] \subseteq AllPermutations
<1> DEFINE T == {k \in Nat : ~ (Ball[k] \subseteq AllPermutations)}
<1>1. SUFFICES ASSUME T # {} PROVE FALSE
  OBVIOUS
<1>2. PICK k \in T : \A j \in T : k <= j
  BY <1>1, Smallest
<1>3. k # 0
  BY <1>2, BallDef, IdentityType
<1>4. k - 1 \in Nat /\ k - 1 \notin T /\ (k - 1) + 1 = k
  BY <1>2, <1>3
<1>5. Ball[k] = OneMoveMore(Ball[k - 1])
  BY <1>4, BallDef
<1> QED BY <1>2, <1>4, <1>5, MultType, TablesHavePermutations DEF OneMoveMore

(* From ball to ball by a move: ... *)
LEMMA BallMove ==
  ASSUME NEW n \in Nat, NEW p \in Ball[n]
  PROVE  p \in Ball[n + 1] /\ \A m \in Moves : Turned(p, m) \in Ball[n + 1]
BY BallDef DEF OneMoveMore, Turned

LEMMA BallBefore ==
  ASSUME NEW n \in Nat, NEW p \in Ball[n + 1]
  PROVE  p \in Ball[n] \/ \E q \in Ball[n] : \E m \in Moves : p = Turned(q, m)
BY BallDef DEF OneMoveMore, Turned

(* ... and back.                                                           *)
LEMMA BallUndo ==
  ASSUME NEW n \in Nat, NEW p \in AllPermutations, NEW m \in Moves, Turned(p, m) \in Ball[n]
  PROVE  p \in Ball[n + 1]
<1>1. PICK o \in Moves : \A q \in AllPermutations : Turned(Turned(q, m), o) = q
  BY Undo
<1> QED BY <1>1, BallMove

LEMMA BallStep ==
  ASSUME NEW n \in Nat, NEW p \in Ball[n + 1]
  PROVE  p \in Ball[n] \/ \E m \in Moves : Turned(p, m) \in Ball[n]
<1> SUFFICES ASSUME p \notin Ball[n] PROVE \E m \in Moves : Turned(p, m) \in Ball[n]
  OBVIOUS
<1>1. PICK q \in Ball[n], m \in Moves : p = Turned(q, m)
  BY BallBefore
<1>2. PICK o \in Moves : \A r \in AllPermutations : Turned(Turned(r, m), o) = r
  BY Undo
<1> QED BY <1>1, <1>2, BallType

LEMMA BallGrows ==
  ASSUME NEW m \in Nat, NEW n \in Nat, m <= n
  PROVE  Ball[m] \subseteq Ball[n]
<1> DEFINE T == {k \in Nat : m <= k /\ ~ (Ball[m] \subseteq Ball[k])}
<1>1. SUFFICES ASSUME T # {} PROVE FALSE
  OBVIOUS
<1>2. PICK k \in T : \A j \in T : k <= j
  BY <1>1, Smallest
<1>3. k # m
  BY <1>2
<1>4. k - 1 \in Nat /\ k - 1 \notin T /\ m <= k - 1 /\ (k - 1) + 1 = k
  BY <1>2, <1>3
<1>5. Ball[k - 1] \subseteq Ball[k]
  BY <1>4, BallMove
<1> QED BY <1>2, <1>4, <1>5

(* A ball looks the same through every symmetry. *)
LEMMA BallConjugate ==
  ASSUME NEW n \in Nat, NEW s \in FullSymmetries
  PROVE  \A p \in Ball[n] : FullSymmetryConjugate(p, s) \in Ball[n]
<1> DEFINE T == {k \in Nat : ~ \A p \in Ball[k] : FullSymmetryConjugate(p, s) \in Ball[k]}
<1>1. SUFFICES ASSUME T # {} PROVE FALSE
  OBVIOUS
<1>2. PICK k \in T : \A j \in T : k <= j
  BY <1>1, Smallest
<1>3. k # 0
  BY <1>2, BallDef, ConjugateIdentity
<1>4. k - 1 \in Nat /\ k - 1 \notin T /\ (k - 1) + 1 = k
  BY <1>2, <1>3
<1>5. ASSUME NEW p \in Ball[k] PROVE FullSymmetryConjugate(p, s) \in Ball[k]
  <2>1. CASE p \in Ball[k - 1]
    <3>1. FullSymmetryConjugate(p, s) \in Ball[k - 1]
      BY <1>4, <2>1
    <3> QED BY <1>4, <3>1, BallMove
  <2>2. ASSUME NEW q \in Ball[k - 1], NEW m \in Moves, p = Turned(q, m)
        PROVE  FullSymmetryConjugate(p, s) \in Ball[k]
    <3>1. q \in AllPermutations
      BY <1>4, BallType
    <3>2. FullSymmetryConjugate(p, s) =
            Turned(FullSymmetryConjugate(q, s), FullCanonicalPermutationConjugate[m][s])
      BY <2>2, <3>1, ConjugateTurned
    <3>3. FullSymmetryConjugate(q, s) \in Ball[k - 1]
      BY <1>4
    <3>4. FullCanonicalPermutationConjugate[m][s] \in Moves
      BY MovesAreConjugated
    <3>5. \A o \in Moves : Turned(FullSymmetryConjugate(q, s), o) \in Ball[(k - 1) + 1]
      BY <1>4, <3>3, BallMove
    <3> QED BY <1>4, <3>2, <3>4, <3>5
  <2>3. p \in Ball[(k - 1) + 1]
    BY <1>4
  <2> QED BY <1>4, <2>1, <2>2, <2>3, BallBefore
<1> QED BY <1>2, <1>5

-----------------------------------------------------------------------------
(* The length of a shortest solution, and the shortest solution that the   *)
(* search comes to first.                                                  *)

Reachable == UNION {Ball[n] : n \in Nat}

Away(p) == CHOOSE n \in Nat : p \in Ball[n] /\ \A k \in Nat : p \in Ball[k] => n <= k

LEMMA AwayDef ==
  ASSUME NEW p \in Reachable
  PROVE  /\ p \in AllPermutations
         /\ Away(p) \in Nat
         /\ \A n \in Nat : p \in Ball[n] <=> Away(p) <= n
<1> DEFINE T == {n \in Nat : p \in Ball[n]}
<1>1. PICK n \in T : \A k \in T : n <= k
  BY Smallest DEF Reachable
<1>2. n \in Nat /\ p \in Ball[n] /\ \A k \in Nat : p \in Ball[k] => n <= k
  BY <1>1
<1>3. /\ Away(p) \in Nat /\ p \in Ball[Away(p)]
      /\ \A k \in Nat : p \in Ball[k] => Away(p) <= k
  BY <1>2 DEF Away
<1> QED BY <1>3, BallGrows, BallType

LEMMA BallIsReachable ==
  ASSUME NEW n \in Nat, NEW p \in Ball[n]
  PROVE  p \in Reachable /\ Away(p) <= n
BY AwayDef DEF Reachable

LEMMA AwayZero ==
  ASSUME NEW p \in Reachable
  PROVE  Away(p) = 0 <=> p = identity
BY AwayDef, BallDef

(* A move changes the distance by one at most. *)
LEMMA AwayTurned ==
  ASSUME NEW p \in Reachable, NEW m \in Moves
  PROVE  /\ Turned(p, m) \in Reachable
         /\ Away(Turned(p, m)) <= Away(p) + 1
         /\ Away(p) <= Away(Turned(p, m)) + 1
<1>1. p \in Ball[Away(p)] /\ Away(p) \in Nat /\ p \in AllPermutations
  BY AwayDef
<1>2. Turned(p, m) \in Ball[Away(p) + 1]
  BY <1>1, BallMove
<1>3. Turned(p, m) \in Reachable /\ Away(Turned(p, m)) <= Away(p) + 1
  BY <1>1, <1>2, BallIsReachable
<1>4. Turned(p, m) \in Ball[Away(Turned(p, m))] /\ Away(Turned(p, m)) \in Nat
  BY <1>3, AwayDef
<1>5. p \in Ball[Away(Turned(p, m)) + 1]
  BY <1>1, <1>4, BallUndo
<1> QED BY <1>3, <1>4, <1>5, BallIsReachable

(* Some move leads closer. *)
LEMMA AwayCloser ==
  ASSUME NEW p \in Reachable, Away(p) # 0
  PROVE  \E m \in Moves : Away(Turned(p, m)) < Away(p)
<1> DEFINE n == Away(p) - 1
<1>1. n \in Nat /\ n + 1 = Away(p)
  BY AwayDef
<1>2. p \in Ball[n + 1] /\ p \notin Ball[n]
  BY <1>1, AwayDef
<1>3. PICK m \in Moves : Turned(p, m) \in Ball[n]
  BY <1>1, <1>2, BallStep
<1>4. Away(Turned(p, m)) <= n
  BY <1>1, <1>3, BallIsReachable
<1>5. Away(Turned(p, m)) \in Nat
  BY AwayDef, AwayTurned
<1> QED BY <1>1, <1>4, <1>5

LEMMA AwayConjugate ==
  ASSUME NEW p \in Reachable, NEW s \in FullSymmetries
  PROVE  /\ FullSymmetryConjugate(p, s) \in Reachable
         /\ Away(FullSymmetryConjugate(p, s)) <= Away(p)
<1>1. p \in Ball[Away(p)] /\ Away(p) \in Nat
  BY AwayDef
<1>2. FullSymmetryConjugate(p, s) \in Ball[Away(p)]
  BY <1>1, BallConjugate
<1> QED BY <1>1, <1>2, BallIsReachable

(* The moves in the order of the search. *)
LEMMA OrderOfMoves ==
  /\ \A m \in Moves :
       /\ m % 6 \in Axes /\ m \div 6 \in 0 .. 2 /\ m = (m % 6) + 6 * (m \div 6)
       /\ DiscoverOrder[m] = 3 * (m % 6) + (m \div 6)
       /\ DiscoverOrder[m] \in Nat
  /\ \A axis \in Axes, exponent \in 1 .. 3 :
       LET m == AxisExponent2Move(axis, exponent)
       IN  m \in Moves /\ m % 6 = axis /\ m \div 6 = exponent - 1
BY DEF Moves, Axes, DiscoverOrder, AxisExponent2Move

Closer(p) == {m \in Moves : Away(Turned(p, m)) < Away(p)}

(* Of the moves that lead closer, the one that is tried first. *)
Best(p) ==
  CHOOSE m \in Closer(p) : \A n \in Closer(p) : DiscoverOrder[m] <= DiscoverOrder[n]

LEMMA BestDef ==
  ASSUME NEW p \in Reachable, Away(p) # 0
  PROVE  /\ Best(p) \in Moves
         /\ Turned(p, Best(p)) \in Reachable
         /\ Away(Turned(p, Best(p))) = Away(p) - 1
         /\ \A n \in Moves : Away(Turned(p, n)) < Away(p) =>
              DiscoverOrder[Best(p)] <= DiscoverOrder[n]
<1> DEFINE T == {DiscoverOrder[m] : m \in Closer(p)}
<1>1. T \in SUBSET Nat /\ T # {}
  BY AwayCloser, OrderOfMoves DEF Closer
<1>2. PICK k \in T : \A n \in T : k <= n
  BY <1>1, Smallest
<1>3. PICK m \in Closer(p) : k = DiscoverOrder[m]
  BY <1>2
<1>4. \A n \in Closer(p) : DiscoverOrder[m] <= DiscoverOrder[n]
  BY <1>2, <1>3
<1>5. Best(p) \in Closer(p) /\ \A n \in Closer(p) : DiscoverOrder[Best(p)] <= DiscoverOrder[n]
  BY <1>4 DEF Best
<1>6. Best(p) \in Moves /\ Away(Turned(p, Best(p))) < Away(p)
  BY <1>5 DEF Closer
<1>7. /\ Turned(p, Best(p)) \in Reachable /\ Away(Turned(p, Best(p))) \in Nat /\ Away(p) \in Nat
      /\ Away(p) <= Away(Turned(p, Best(p))) + 1
  BY <1>6, AwayTurned, AwayDef
<1> QED BY <1>5, <1>6, <1>7 DEF Closer

(* A symmetry of the cube maps the best move to none that is tried before: *)
(* that one would lead closer too (solve.cpp:309-312 leaves moves out for  *)
(* which there is one).                                                    *)
LEMMA BestIsFirst ==
  ASSUME NEW p \in Reachable, Away(p) # 0, NEW s \in FullSymmetries,
         FullSymmetryConjugate(p, s) = p
  PROVE  s \notin GreaterBy[Best(p)]
<1> DEFINE m == Best(p)
           n == FullCanonicalPermutationConjugate[m][s]
<1>1. m \in Moves /\ n \in Moves /\ p \in AllPermutations
  BY BestDef, AwayDef, MovesAreConjugated
<1>2. Turned(p, n) = FullSymmetryConjugate(Turned(p, m), s)
  BY <1>1, ConjugateTurned
<1>3. Away(Turned(p, n)) <= Away(Turned(p, m))
  BY <1>1, <1>2, AwayTurned, AwayConjugate
<1>4. /\ Away(Turned(p, m)) = Away(p) - 1 /\ Away(p) \in Nat
      /\ Away(Turned(p, n)) \in Nat
  BY <1>1, BestDef, AwayTurned, AwayDef
<1>5. DiscoverOrder[m] <= DiscoverOrder[n]
  BY <1>1, <1>3, <1>4, BestDef
<1>6. DiscoverOrder[m] \in Nat /\ DiscoverOrder[n] \in Nat
  BY <1>1, OrderOfMoves
<1>7. m \in Moves => GreaterBy[m] =
        {t \in FullSymmetries :
           DiscoverOrder[FullCanonicalPermutationConjugate[m][t]] < DiscoverOrder[m]}
  BY DEF GreaterBy
<1>8. s \in GreaterBy[m] => DiscoverOrder[n] < DiscoverOrder[m]
  BY <1>1, <1>7
<1>9. s \notin GreaterBy[m]
  BY <1>5, <1>6, <1>8
<1> QED BY <1>9

(* Two best moves in a row are never on the same axis, as one move would   *)
(* do, or on opposite ones with the later axis first, as the other order   *)
(* would be tried first (solve.cpp:206-214 leaves out both).               *)
LEMMA BestGoesOn ==
  ASSUME NEW p \in Reachable, Away(p) # 0, Turned(p, Best(p)) # identity
  PROVE  LET q == Turned(p, Best(p))
         IN  Best(q) % 6 # Best(p) % 6 /\ (Best(q) % 6) + 3 # Best(p) % 6
<1> DEFINE m == Best(p)
           q == Turned(p, m)
           n == Best(q)
           r == Turned(q, n)
<1>1. /\ m \in Moves /\ q \in Reachable /\ Away(q) = Away(p) - 1 /\ Away(p) \in Nat
      /\ p \in AllPermutations /\ q \in AllPermutations /\ Away(q) # 0 /\ Away(q) \in Nat
  BY BestDef, AwayDef, AwayZero
<1>2. n \in Moves /\ r \in Reachable /\ Away(r) = Away(q) - 1
  BY <1>1, BestDef
<1>3. Away(r) \in Nat /\ Away(r) < Away(p) - 1
  BY <1>1, <1>2, AwayDef
<1>4. r = mult(p, mult(CanonicalPermutation[m], CanonicalPermutation[n]))
  BY <1>1, <1>2, MultAssociates, TablesHavePermutations DEF Turned
<1>5. CASE n % 6 = m % 6
  <2>1. \/ mult(CanonicalPermutation[m], CanonicalPermutation[n]) = identity
        \/ \E o \in Moves :
             mult(CanonicalPermutation[m], CanonicalPermutation[n]) = CanonicalPermutation[o]
    BY <1>1, <1>2, <1>5, TurnsOfAFace
  <2>2. r = p \/ \E o \in Moves : r = Turned(p, o)
    BY <1>1, <1>4, <2>1, MultIdentity DEF Turned
  <2>3. Away(p) <= Away(r) + 1
    BY <1>3, <2>2, <1>1, AwayTurned
  <2> QED BY <1>1, <1>3, <2>3
<1>6. CASE (n % 6) + 3 = m % 6
  <2>1. mult(CanonicalPermutation[m], CanonicalPermutation[n]) =
        mult(CanonicalPermutation[n], CanonicalPermutation[m])
    BY <1>1, <1>2, <1>6, OppositeFacesCommute
  <2>2. r = Turned(Turned(p, n), m)
    BY <1>1, <1>2, <1>4, <2>1, MultAssociates, TablesHavePermutations DEF Turned
  <2>3. Turned(p, n) \in Reachable /\ Away(Turned(p, n)) \in Nat
    BY <1>2, AwayTurned, AwayDef
  <2>4. Away(Turned(p, n)) <= Away(r) + 1
    BY <1>1, <2>2, <2>3, AwayTurned
  <2>5. DiscoverOrder[m] <= DiscoverOrder[n]
    BY <1>1, <1>2, <1>3, <2>3, <2>4, BestDef
  <2>6. m % 6 \in Axes /\ n % 6 \in Axes /\ m \div 6 \in 0 .. 2 /\ n \div 6 \in 0 .. 2
    BY <1>1, <1>2, OrderOfMoves
  <2>7. DiscoverOrder[m] = 3 * (m % 6) + (m \div 6) /\ DiscoverOrder[n] = 3 * (n % 6) + (n \div 6)
    BY <1>1, <1>2, OrderOfMoves
  <2> QED BY <1>6, <2>5, <2>6, <2>7 DEF Axes
<1> QED BY <1>5, <1>6

-----------------------------------------------------------------------------
(* The table.                                                              *)

(* What the search needs of a table: distances that fit in its rows and    *)
(* that a move changes by one at most, and that are 0 for the solved cube  *)
(* and after a turn of U or D, which move nothing that the UD coordinates  *)
(* tell.                                                                   *)
TableIsSound ==
  /\ \A p \in Reachable :
       /\ Distance(p) \in Rows
       /\ \A m \in Moves : OneApart(Distance(p), Distance(Turned(p, m)))
  /\ Distance(identity) = 0
  /\ \A m \in Moves : m % 3 = 0 => Distance(CanonicalPermutation[m]) = 0

(* A table that is exact, as build() makes it (pruningtable.cpp:164-263    *)
(* visits the coordinates by their distance from the solved ones): each    *)
(* cube has the length of a shortest sequence of moves to a cube with the  *)
(* same UD coordinates.                                                    *)
DistancesAreExact ==
  \A p \in Reachable :
    /\ Distance(p) \in Nat
    /\ \A n \in Nat :
         Distance(p) <= n <=> \E q \in Ball[n] : UDCoordinates(q) = UDCoordinates(p)

LEMMA UDTurned ==
  ASSUME NEW p \in AllPermutations, NEW m \in Moves
  PROVE  UDCoordinates(Turned(p, m)) = UDMove(UDCoordinates(p), m)
<1> DEFINE move == CanonicalPermutation[m]
           Slice(q) == [i \in EdgeCubies |-> IF q.edge[i] >= LF THEN q.edge[i] ELSE UF]
           q == Turned(p, m)
           u == UDMove(UDCoordinates(p), m)
<1>1. move \in AllPermutations
  BY TablesHavePermutations
<1>2. /\ move.edge \in [EdgeCubies -> EdgeCubies] /\ move.corner \in [CornerCubies -> CornerCubies]
  BY <1>1, FieldsOfPermutation
<1>3. /\ q.edge = [i \in EdgeCubies |-> p.edge[move.edge[i]]]
      /\ q.flip = [i \in EdgeCubies |-> (p.flip[move.edge[i]] + move.flip[i]) % 2]
      /\ q.twist = [i \in CornerCubies |-> orientation_sum[p.twist[move.corner[i]]][move.twist[i]]]
  BY DEF Turned, mult, Permutation
<1>4. u = <<[i \in EdgeCubies |-> Slice(p)[move.edge[i]]], q.flip, q.twist>>
  <2> DEFINE c == UDCoordinates(p)
  <2>1. c[1] = Slice(p) /\ c[2] = p.flip /\ c[3] = p.twist
    BY DEF UDCoordinates
  <2>2. u = UDMove(c, m)
    OBVIOUS
  <2> HIDE DEF c, u, Slice
  <2>3. UDMove(c, m) = <<[i \in EdgeCubies |-> c[1][move.edge[i]]],
                         [i \in EdgeCubies |-> (c[2][move.edge[i]] + move.flip[i]) % 2],
                         [i \in CornerCubies |->
                            orientation_sum[c[3][move.corner[i]]][move.twist[i]]]>>
    BY DEF UDMove
  <2> HIDE DEF q, move
  <2> QED BY <1>3, <2>1, <2>2, <2>3
<1>5. Slice(q) = [i \in EdgeCubies |-> Slice(p)[move.edge[i]]]
  <2> HIDE DEF q, move
  <2> QED BY <1>2, <1>3
<1>6. UDCoordinates(q) = <<Slice(q), q.flip, q.twist>>
  BY DEF UDCoordinates
<1> HIDE DEF q, u, Slice, move
<1>7. UDCoordinates(q) = u
  BY <1>4, <1>5, <1>6
<1> QED BY <1>7 DEF q, u

(* Such a table is sound, if its distances fit in the rows of              *)
(* RelativePruning (pruningtable.cpp:63-84).                               *)
THEOREM ExactDistancesAreSound ==
  ASSUME DistancesAreExact, \A p \in Reachable : Distance(p) < RelativePruningLength
  PROVE  TableIsSound
<1>1. \A p \in Reachable : Distance(p) \in Rows
  BY DEF DistancesAreExact, Rows, RelativePruningLength
<1>2. ASSUME NEW p \in Reachable, NEW m \in Moves
      PROVE  Distance(Turned(p, m)) <= Distance(p) + 1
  <2>1. Distance(p) \in Nat /\ Turned(p, m) \in Reachable /\ p \in AllPermutations
    BY AwayTurned, AwayDef DEF DistancesAreExact
  <2>2. PICK q \in Ball[Distance(p)] : UDCoordinates(q) = UDCoordinates(p)
    BY <2>1 DEF DistancesAreExact
  <2>3. Turned(q, m) \in Ball[Distance(p) + 1] /\ q \in AllPermutations
    BY <2>1, BallMove, BallType
  <2>4. UDCoordinates(Turned(q, m)) = UDCoordinates(Turned(p, m))
    BY <2>1, <2>2, <2>3, UDTurned
  <2>5. Distance(p) + 1 \in Nat
    BY <2>1
  <2> QED BY <2>1, <2>3, <2>4, <2>5 DEF DistancesAreExact
<1>3. ASSUME NEW p \in Reachable, NEW m \in Moves
      PROVE  OneApart(Distance(p), Distance(Turned(p, m)))
  <2>1. /\ Turned(p, m) \in Reachable /\ p \in AllPermutations
        /\ Distance(p) \in Nat /\ Distance(Turned(p, m)) \in Nat
    BY AwayTurned, AwayDef DEF DistancesAreExact
  <2>2. PICK o \in Moves : Turned(Turned(p, m), o) = p
    BY <2>1, Undo
  <2>3. Distance(p) <= Distance(Turned(p, m)) + 1
    BY <1>2, <2>1, <2>2
  <2>4. Distance(Turned(p, m)) <= Distance(p) + 1
    BY <1>2
  <2> QED BY <2>1, <2>3, <2>4 DEF OneApart
<1>4. identity \in Ball[0] /\ identity \in Reachable /\ identity \in AllPermutations
  BY BallDef, BallIsReachable, IdentityType
<1>5. Distance(identity) = 0
  BY <1>4 DEF DistancesAreExact
<1>6. ASSUME NEW m \in Moves, m % 3 = 0 PROVE Distance(CanonicalPermutation[m]) = 0
  <2>1. CanonicalPermutation[m] = Turned(identity, m)
    BY MultIdentity, TablesHavePermutations DEF Turned
  <2>2. CanonicalPermutation[m] \in Reachable
    BY <1>4, <2>1, AwayTurned
  <2>3. UDCoordinates(identity) = UDCoordinates(CanonicalPermutation[m])
    BY <1>6, UDTurnsAreFree
  <2>4. Distance(CanonicalPermutation[m]) <= 0
    BY <1>4, <2>2, <2>3 DEF DistancesAreExact
  <2> QED BY <2>2, <2>4 DEF DistancesAreExact
<1> QED BY <1>1, <1>3, <1>5, <1>6 DEF TableIsSound

LEMMA TableType ==
  ASSUME TableIsSound, NEW p \in Reachable
  PROVE  Distance(p) \in Nat /\ Distance(p) \in Rows
BY DEF TableIsSound, Rows, RelativePruningLength

(* The three axes: a cube and its two conjugates. *)
LEMMA AxisType ==
  ASSUME NEW p \in Reachable
  PROVE  FB(p) \in Reachable /\ LR(p) \in Reachable
BY AwayConjugate, AxesAreTurned DEF FB, LR

LEMMA AxisTurned ==
  ASSUME NEW p \in Reachable, NEW m \in Moves
  PROVE  /\ \E n \in Moves : FB(Turned(p, m)) = Turned(FB(p), n)
         /\ \E n \in Moves : LR(Turned(p, m)) = Turned(LR(p), n)
BY ConjugateTurned, AwayDef, AxesAreTurned, MovesAreConjugated DEF FB, LR

LEMMA BoundsAreOneApart ==
  ASSUME TableIsSound, NEW p \in Reachable, NEW m \in Moves
  PROVE  LET q == Turned(p, m)
         IN  /\ OneApart(Distance(p), Distance(q))
             /\ OneApart(Distance(FB(p)), Distance(FB(q)))
             /\ OneApart(Distance(LR(p)), Distance(LR(q)))
BY AxisType, AxisTurned DEF TableIsSound

(* Each bound is one. *)
LEMMA TableIsALowerBound ==
  ASSUME TableIsSound, NEW n \in Nat
  PROVE  \A p \in Ball[n] : Distance(p) <= n
<1> DEFINE T == {k \in Nat : ~ \A p \in Ball[k] : Distance(p) <= k}
<1>1. SUFFICES ASSUME T # {} PROVE FALSE
  OBVIOUS
<1>2. PICK k \in T : \A j \in T : k <= j
  BY <1>1, Smallest
<1>3. k # 0
  BY <1>2, BallDef DEF TableIsSound
<1>4. k - 1 \in Nat /\ k - 1 \notin T /\ (k - 1) + 1 = k
  BY <1>2, <1>3
<1>5. ASSUME NEW p \in Ball[k] PROVE Distance(p) <= k
  <2>1. p \in Reachable /\ Distance(p) \in Nat
    BY BallIsReachable, TableType
  <2>2. CASE p \in Ball[k - 1]
    BY <1>4, <2>1, <2>2
  <2>3. ASSUME NEW q \in Ball[k - 1], NEW m \in Moves, p = Turned(q, m)
        PROVE  Distance(p) <= k
    <3>1. Distance(q) <= k - 1 /\ q \in Reachable
      BY <1>4, BallIsReachable
    <3>2. Distance(q) \in Nat /\ OneApart(Distance(q), Distance(p))
      BY <2>3, <3>1, TableType, BoundsAreOneApart
    <3> QED BY <1>4, <2>1, <3>1, <3>2 DEF OneApart
  <2>4. p \in Ball[(k - 1) + 1]
    BY <1>4
  <2> QED BY <1>4, <2>2, <2>3, <2>4, BallBefore
<1> QED BY <1>2, <1>5

LEMMA BoundsAreBounds ==
  ASSUME TableIsSound, NEW n \in Nat, NEW p \in Ball[n]
  PROVE  Distance(p) <= n /\ Distance(FB(p)) <= n /\ Distance(LR(p)) <= n
BY TableIsALowerBound, BallConjugate, AxesAreTurned DEF FB, LR

(* One of the three is smaller still: the last move of a solution is on    *)
(* one of the axes, and does not change the bound of that axis.            *)
OneBoundIsLess(p, n) == Distance(p) < n \/ Distance(FB(p)) < n \/ Distance(LR(p)) < n

LEMMA LastMoveIsFree ==
  ASSUME TableIsSound, NEW m \in Moves
  PROVE  LET p == CanonicalPermutation[m]
         IN  Distance(p) = 0 \/ Distance(FB(p)) = 0 \/ Distance(LR(p)) = 0
<1>1. m % 3 \in 0 .. 2
  BY DEF Moves
<1>2. CASE m % 3 = 0
  BY <1>2 DEF TableIsSound
<1>3. CASE m % 3 = 2
  <2> DEFINE n == FullCanonicalPermutationConjugate[m][fb_transform]
  <2>1. n \in Moves /\ n % 3 = 0 /\ CanonicalPermutation[n] = FB(CanonicalPermutation[m])
    BY <1>3, AxesAreTurned, MovesAreConjugated DEF FB
  <2> QED BY <2>1 DEF TableIsSound
<1>4. CASE m % 3 = 1
  <2> DEFINE n == FullCanonicalPermutationConjugate[m][lr_transform]
  <2>1. n \in Moves /\ n % 3 = 0 /\ CanonicalPermutation[n] = LR(CanonicalPermutation[m])
    BY <1>4, AxesAreTurned, MovesAreConjugated DEF LR
  <2> QED BY <2>1 DEF TableIsSound
<1> QED BY <1>1, <1>2, <1>3, <1>4

LEMMA EqualBoundsAreLess ==
  ASSUME TableIsSound, NEW n \in Nat
  PROVE  \A p \in Ball[n + 1] : OneBoundIsLess(p, n + 1)
<1> DEFINE T == {k \in Nat : ~ \A p \in Ball[k + 1] : OneBoundIsLess(p, k + 1)}
<1>1. SUFFICES ASSUME T # {} PROVE FALSE
  OBVIOUS
<1>2. PICK k \in T : \A j \in T : k <= j
  BY <1>1, Smallest
<1>3. ASSUME NEW p \in Ball[k + 1] PROVE OneBoundIsLess(p, k + 1)
  <2>0. k \in Nat /\ k + 1 \in Nat
    BY <1>2
  <2>1. /\ p \in Reachable /\ FB(p) \in Reachable /\ LR(p) \in Reachable
        /\ Distance(p) \in Nat /\ Distance(FB(p)) \in Nat /\ Distance(LR(p)) \in Nat
    BY <2>0, BallIsReachable, AxisType, TableType
  <2>2. CASE p \in Ball[k]
    BY <2>0, <2>1, <2>2, BoundsAreBounds DEF OneBoundIsLess
  <2>3. ASSUME NEW q \in Ball[k], NEW m \in Moves, p = Turned(q, m)
        PROVE  OneBoundIsLess(p, k + 1)
    <3>1. CASE k = 0
      <4>1. q = identity /\ p = CanonicalPermutation[m]
        BY <2>3, <3>1, BallDef, MultIdentity, TablesHavePermutations DEF Turned
      <4> QED BY <3>1, <4>1, LastMoveIsFree DEF OneBoundIsLess
    <3>2. CASE k # 0
      <4>1. k - 1 \in Nat /\ k - 1 \notin T /\ (k - 1) + 1 = k
        BY <1>2, <3>2
      <4>2. OneBoundIsLess(q, k)
        BY <4>1
      <4>3. /\ q \in Reachable /\ FB(q) \in Reachable /\ LR(q) \in Reachable
            /\ Distance(q) \in Nat /\ Distance(FB(q)) \in Nat /\ Distance(LR(q)) \in Nat
        BY <2>0, BallIsReachable, AxisType, TableType
      <4>4. /\ OneApart(Distance(q), Distance(p))
            /\ OneApart(Distance(FB(q)), Distance(FB(p)))
            /\ OneApart(Distance(LR(q)), Distance(LR(p)))
        BY <2>3, <4>3, BoundsAreOneApart
      <4> QED BY <2>0, <2>1, <4>2, <4>3, <4>4 DEF OneApart, OneBoundIsLess
    <3> QED BY <3>1, <3>2
  <2> QED BY <2>0, <2>2, <2>3, BallBefore
<1> QED BY <1>2, <1>3

(* What the bounds of a cube that can still be solved in time allow.       *)
HasBoundsOf(s, p) ==
  s.ud = Distance(p) /\ s.fb = Distance(FB(p)) /\ s.lr = Distance(LR(p))

LEMMA BoundTypes ==
  ASSUME TableIsSound, NEW p \in Reachable
  PROVE  Distance(p) \in Nat /\ Distance(FB(p)) \in Nat /\ Distance(LR(p)) \in Nat
BY TableType, AxisType

(* A cube is not cut if it can be solved by the moves that are left, ...   *)
LEMMA InTimeIsNotCut ==
  ASSUME TableIsSound, NEW n \in Nat, NEW p \in Ball[n], NEW s, HasBoundsOf(s, p)
  PROVE  Prune(s, n) = "Nothing"
<1>1. Distance(p) \in Nat /\ Distance(FB(p)) \in Nat /\ Distance(LR(p)) \in Nat
  BY BallIsReachable, BoundTypes
<1>2. Distance(p) <= n /\ Distance(FB(p)) <= n /\ Distance(LR(p)) <= n
  BY BoundsAreBounds
<1>3. CASE n > 0 /\ AllEqual(s)
  <2>1. n - 1 \in Nat /\ (n - 1) + 1 = n
    BY <1>3
  <2>2. OneBoundIsLess(p, n)
    BY <2>1, EqualBoundsAreLess
  <2>3. s.ud < n
    BY <1>3, <2>2 DEF AllEqual, OneBoundIsLess, HasBoundsOf
  <2>4. s.ud \in Nat /\ ~ (s.ud > n) /\ ~ (s.ud > n - 1)
    BY <1>1, <2>3 DEF HasBoundsOf
  <2> QED BY <1>3, <2>4 DEF Prune
<1>4. CASE ~ (n > 0 /\ AllEqual(s))
  <2>1. ~ SomeBound(s, n) /\ ~ SomeBound(s, n + 1)
    BY <1>1, <1>2 DEF SomeBound, HasBoundsOf
  <2> QED BY <1>4, <2>1 DEF Prune
<1> QED BY <1>3, <1>4

(* ... nor is its axis if one more move would do.                          *)
LEMMA NearlyInTimeKeepsAxis ==
  ASSUME TableIsSound, NEW n \in Nat, NEW p \in Ball[n + 1], NEW s, HasBoundsOf(s, p)
  PROVE  Prune(s, n) # "Axis"
<1>0. n + 1 \in Nat
  OBVIOUS
<1>1. Distance(p) \in Nat /\ Distance(FB(p)) \in Nat /\ Distance(LR(p)) \in Nat
  BY <1>0, BallIsReachable, BoundTypes
<1>2. Distance(p) <= n + 1 /\ Distance(FB(p)) <= n + 1 /\ Distance(LR(p)) <= n + 1
  BY <1>0, BoundsAreBounds
<1>3. CASE n > 0 /\ AllEqual(s)
  <2>1. OneBoundIsLess(p, n + 1)
    BY EqualBoundsAreLess
  <2>2. s.ud \in Nat /\ ~ (s.ud > n)
    BY <1>1, <1>3, <2>1 DEF AllEqual, OneBoundIsLess, HasBoundsOf
  <2> QED BY <1>3, <2>2 DEF Prune
<1>4. CASE ~ (n > 0 /\ AllEqual(s))
  <2>1. ~ SomeBound(s, n + 1)
    BY <1>1, <1>2 DEF SomeBound, HasBoundsOf
  <2> QED BY <1>4, <2>1 DEF Prune
<1> QED BY <1>3, <1>4

-----------------------------------------------------------------------------
(* The inductive invariant.                                                *)

(* The search is about a cube that a scramble makes, looks for solutions   *)
(* that are not longer than the shortest ones, and knows what to do next.  *)
DepthInv ==
  /\ cube \in Ball[ScrambleLength]
  /\ pc # "idle" => cube # identity /\ boundary_depth < Away(cube)
  /\ pc = "search" => should_increase \in {"Axis", "Exponent"}

(* The stack is a path of moves from the cube, none of which should have   *)
(* been discarded, the one that is tried now included.                     *)
PathInv ==
  pc # "idle" =>
    /\ StackIsAPath
    /\ \A i \in 0 .. current : states[i].p \in Reachable
    /\ \A i \in 0 .. current - 1 : states[i].exponent # 0
    /\ should_increase = "Exponent" /\ current > 0 =>
         ~ has_discardable_neighbour_axis(Top.axis, states[current - 1])

(* At each level the symmetries fix the cube, and those of the first level *)
(* that are missing do not fix the path.                                   *)
SymmetryInv ==
  pc # "idle" =>
    \A i \in 0 .. current :
      /\ \A s \in states[i].equal_by_sequence : FullSymmetryConjugate(states[i].p, s) = states[i].p
      /\ \A s \in states[0].equal_by_sequence \ states[i].equal_by_sequence :
           \E j \in 0 .. i - 1 : s \notin EqualBy[MoveOf(states[j])]

(* At the depth of the shortest solutions, the search has not passed the   *)
(* best one: its path follows that one up to a level i, where the best     *)
(* move is still to come.                                                  *)
NotPassed(i) ==
  LET best == Best(states[i].p)
  IN  IF i = current /\ should_increase = "Axis"
        THEN states[i].axis < best % 6
        ELSE 3 * states[i].axis + states[i].exponent <= DiscoverOrder[best]

FollowsBest(i) ==
  /\ \A j \in 0 .. i - 1 : MoveOf(states[j]) = Best(states[j].p)
  /\ \A j \in 0 .. i : Away(states[j].p) = Away(cube) - j

BestIsAhead ==
  pc = "search" /\ boundary_depth + 1 = Away(cube) =>
    \E i \in 0 .. current : FollowsBest(i) /\ NotPassed(i)

(* What was found is a solution of the right length. *)
FoundInv ==
  pc = "found" =>
    /\ remaining_depth = 0
    /\ Top.exponent # 0
    /\ Turned(Top.p, MoveOf(Top)) = identity

SearchInv ==
  /\ TypeOK /\ DepthInv /\ PathInv /\ BoundsAreExact /\ SymmetryInv /\ BestIsAhead /\ FoundInv

-----------------------------------------------------------------------------
(* The rest of a round, Try.                                               *)

(* The top with the next move. *)
IsTopWith(from, axis, exponent) ==
  /\ from \in CubeStates
  /\ from.axis = axis /\ from.exponent = exponent /\ exponent # 0
  /\ from.p = Top.p /\ from.equal_by_sequence = Top.equal_by_sequence
  /\ from.ud = Top.ud /\ from.fb = Top.fb /\ from.lr = Top.lr

(* What Try does in all cases. *)
Outcome(from, depth) ==
  /\ states' \in [0 .. StatesLength - 1 -> CubeStates]
  /\ \A i \in 0 .. current - 1 : states'[i] = states[i]
  /\ states'[current] = from
  /\ \/ /\ current' = current /\ remaining_depth' = depth
        /\ pc' = "search" /\ should_increase' \in {"Axis", "Exponent"}
     \/ /\ current' = current /\ remaining_depth' = depth /\ depth = 0
        /\ pc' = "found" /\ should_increase' = "Nothing"
        /\ Turned(from.p, MoveOf(from)) = identity
     \/ /\ current' = current + 1 /\ depth > 0 /\ remaining_depth' = depth - 1
        /\ pc' = "search"
        /\ states'[current + 1].p = Turned(from.p, MoveOf(from))
        /\ HasBoundsOf(states'[current + 1], Turned(from.p, MoveOf(from)))
        /\ states'[current + 1].equal_by_sequence =
             from.equal_by_sequence \cap EqualBy[MoveOf(from)]
        /\ states'[current + 1].axis = U
        /\ IF has_discardable_neighbour_axis(U, from)
             THEN states'[current + 1].exponent = 1 /\ should_increase' = "Axis"
             ELSE states'[current + 1].exponent = 0 /\ should_increase' = "Exponent"

LEMMA SolvedIsIdentity ==
  ASSUME NEW p \in AllPermutations
  PROVE  is_solved(p) <=> p = identity
<1>1. is_solved(identity)
  BY DEF is_solved, identity, Permutation
<1>2. ASSUME is_solved(p) PROVE p = identity
  <2> USE FieldsOfPermutation
  <2>1. p.corner = [i \in CornerCubies |-> i] /\ p.twist = [i \in CornerCubies |-> 0]
    BY <1>2 DEF is_solved
  <2>2. p.edge = [i \in EdgeCubies |-> i] /\ p.flip = [i \in EdgeCubies |-> 0]
    BY <1>2 DEF is_solved
  <2> QED BY <2>1, <2>2 DEF identity
<1> QED BY <1>1, <1>2

(* The state after a move has the cube after the move and its bounds       *)
(* (solve.cpp:216-261).                                                    *)
LEMMA MoveKeepsBounds ==
  ASSUME TableIsSound, NEW r \in CubeStates, NEW from \in CubeStates,
         from.p \in Reachable, HasBoundsOf(from, from.p), NEW m \in Moves
  PROVE  LET next == execute_move(r, from, m)
         IN  /\ next \in CubeStates
             /\ next.p = Turned(from.p, m) /\ next.p \in Reachable
             /\ HasBoundsOf(next, next.p)
<1> DEFINE p == from.p
           q == Turned(p, m)
           next == execute_move(r, from, m)
<1>1. q \in Reachable /\ q = mult(p, CanonicalPermutation[m]) /\ q \in AllPermutations
  BY AwayTurned, AwayDef DEF Turned
<1>2. /\ FB(p) \in Reachable /\ LR(p) \in Reachable
      /\ FB(q) \in Reachable /\ LR(q) \in Reachable
  BY <1>1, AxisType
<1>3. /\ OneApart(Distance(p), Distance(q))
      /\ OneApart(Distance(FB(p)), Distance(FB(q)))
      /\ OneApart(Distance(LR(p)), Distance(LR(q)))
  BY BoundsAreOneApart
<1>4. /\ Distance(p) \in Rows /\ Distance(FB(p)) \in Rows /\ Distance(LR(p)) \in Rows
      /\ Distance(q) \in Nat /\ Distance(FB(q)) \in Nat /\ Distance(LR(q)) \in Nat
      /\ Distance(q) \in Rows /\ Distance(FB(q)) \in Rows /\ Distance(LR(q)) \in Rows
  BY <1>1, <1>2, TableType
<1>5. /\ RelativePruning[from.ud][EntryOf(Distance(q))] = Distance(q)
      /\ RelativePruning[from.fb][EntryOf(Distance(FB(q)))] = Distance(FB(q))
      /\ RelativePruning[from.lr][EntryOf(Distance(LR(q)))] = Distance(LR(q))
  BY <1>3, <1>4, RelativeIsExact DEF HasBoundsOf
<1>6. next = [r EXCEPT !.p = q, !.ud = Distance(q), !.fb = Distance(FB(q)), !.lr = Distance(LR(q))]
  BY <1>1, <1>5 DEF execute_move
<1>7. Rows \subseteq Values
  BY DEF Rows, Values
<1> HIDE DEF q, next
<1>8. next \in CubeStates /\ next.p = q
  BY <1>1, <1>4, <1>6, <1>7 DEF CubeStates
<1>9. next.ud = Distance(q) /\ next.fb = Distance(FB(q)) /\ next.lr = Distance(LR(q))
  BY <1>6 DEF CubeStates
<1>10. next \in CubeStates /\ next.p = Turned(from.p, m) /\ next.p \in Reachable /\ HasBoundsOf(next, next.p)
  BY <1>1, <1>8, <1>9 DEF HasBoundsOf, q
<1> QED BY <1>10 DEF next

(* The cases of Try, for the state `next' after the move. *)
Symmetric(from) == from.equal_by_sequence \cap GreaterBy[MoveOf(from)] # {}

Cut(from, next, depth) ==
  /\ ~ Symmetric(from) /\ Prune(next, depth) # "Nothing"
  /\ should_increase' = Prune(next, depth)
  /\ states' = [states EXCEPT ![current] = from, ![current + 1] = next]
  /\ pc' = pc /\ current' = current /\ remaining_depth' = depth

AtTheEnd(from, next, depth) ==
  /\ depth = 0
  /\ states' = [states EXCEPT ![current] = from, ![current + 1] = next]
  /\ should_increase' = IF is_solved(next.p) THEN "Nothing" ELSE "Exponent"
  /\ pc' = IF is_solved(next.p) THEN "found" ELSE pc
  /\ current' = current /\ remaining_depth' = depth

Deeper(from, next, depth) ==
  /\ depth > 0
  /\ states' = [states EXCEPT ![current] = from,
                              ![current + 1] = Enter(next, from, MoveOf(from))]
  /\ should_increase' = IF has_discardable_neighbour_axis(U, from) THEN "Axis" ELSE "Exponent"
  /\ current' = current + 1 /\ remaining_depth' = depth - 1 /\ pc' = pc

SameTop(from, depth) ==
  /\ Symmetric(from)
  /\ states' = [states EXCEPT ![current] = from]
  /\ should_increase' = "Exponent"
  /\ pc' = pc /\ current' = current /\ remaining_depth' = depth

LEMMA TryCases ==
  ASSUME TableIsSound, TypeOK, Top.p \in Reachable, HasBoundsOf(Top, Top.p),
         NEW axis \in Axes, NEW exponent \in 1 .. 3, NEW from, IsTopWith(from, axis, exponent),
         NEW depth \in Nat, Try(from, depth)
  PROVE  /\ MoveOf(from) \in Moves
         /\ \E next \in CubeStates :
              /\ next.p = Turned(from.p, MoveOf(from)) /\ next.p \in Reachable
              /\ HasBoundsOf(next, next.p)
              /\ \/ SameTop(from, depth) \/ Cut(from, next, depth)
                 \/ AtTheEnd(from, next, depth) \/ Deeper(from, next, depth)
<1> DEFINE m == MoveOf(from)
           next == execute_move(states[current + 1], from, m)
<1>1. m \in Moves
  BY OrderOfMoves DEF MoveOf, IsTopWith
<1>2. current + 1 \in 0 .. StatesLength - 1 /\ states[current + 1] \in CubeStates
  BY StackIsLongEnough DEF TypeOK
<1>3. from \in CubeStates /\ from.p \in Reachable /\ HasBoundsOf(from, from.p)
  BY DEF IsTopWith, HasBoundsOf
<1>4. /\ next \in CubeStates /\ next.p = Turned(from.p, m) /\ next.p \in Reachable
      /\ HasBoundsOf(next, next.p)
  BY <1>1, <1>2, <1>3, MoveKeepsBounds
<1>5. CASE Symmetric(from)
  <2>1. SameTop(from, depth)
    BY <1>5 DEF Try, SameTop, Symmetric
  <2> QED BY <1>1, <1>4, <2>1
<1>6. CASE ~ Symmetric(from)
  <2>1. Cut(from, next, depth) \/ AtTheEnd(from, next, depth) \/ Deeper(from, next, depth)
    BY <1>6 DEF Try, Cut, AtTheEnd, Deeper, Symmetric
  <2> QED BY <1>1, <1>4, <2>1
<1> QED BY <1>5, <1>6

LEMMA EnterType ==
  ASSUME NEW next \in CubeStates, NEW from \in CubeStates, NEW m \in Moves
  PROVE  LET top == Enter(next, from, m)
         IN  /\ top \in CubeStates
             /\ top.p = next.p /\ top.ud = next.ud /\ top.fb = next.fb /\ top.lr = next.lr
             /\ top.axis = U /\ top.equal_by_sequence = from.equal_by_sequence \cap EqualBy[m]
             /\ top.exponent = IF has_discardable_neighbour_axis(U, from) THEN 1 ELSE 0
<1> DEFINE e == IF has_discardable_neighbour_axis(U, from) THEN 1 ELSE 0
           equal == from.equal_by_sequence \cap EqualBy[m]
<1>1. e \in 0 .. 3 /\ U \in Axes
  BY DEF U, Axes
<1>2. equal \in SUBSET FullSymmetries
  BY DEF CubeStates
<1>3. Enter(next, from, m) = [next EXCEPT !.equal_by_sequence = equal, !.axis = U, !.exponent = e]
  BY DEF Enter
<1> HIDE DEF e, equal
<1>4. /\ Enter(next, from, m) \in CubeStates
      /\ Enter(next, from, m).p = next.p /\ Enter(next, from, m).ud = next.ud
      /\ Enter(next, from, m).fb = next.fb /\ Enter(next, from, m).lr = next.lr
      /\ Enter(next, from, m).axis = U /\ Enter(next, from, m).equal_by_sequence = equal
      /\ Enter(next, from, m).exponent = e
  BY <1>1, <1>2, <1>3 DEF CubeStates
<1> QED BY <1>4 DEF e, equal

LEMMA TryOutcome ==
  ASSUME TableIsSound, TypeOK, pc = "search", Top.p \in Reachable, HasBoundsOf(Top, Top.p),
         NEW axis \in Axes, NEW exponent \in 1 .. 3, NEW from, IsTopWith(from, axis, exponent),
         NEW depth \in Nat, Try(from, depth)
  PROVE  Outcome(from, depth)
<1> DEFINE m == MoveOf(from)
<1>1. m \in Moves
  BY TryCases
<1>2. PICK next \in CubeStates :
        /\ next.p = Turned(from.p, m) /\ next.p \in Reachable /\ HasBoundsOf(next, next.p)
        /\ \/ SameTop(from, depth) \/ Cut(from, next, depth)
           \/ AtTheEnd(from, next, depth) \/ Deeper(from, next, depth)
  BY TryCases
<1>3. /\ current \in 0 .. StatesLength - 1 /\ current + 1 \in 0 .. StatesLength - 1
      /\ current \in Nat /\ StatesLength \in Nat
      /\ states \in [0 .. StatesLength - 1 -> CubeStates] /\ from \in CubeStates
  BY StackIsLongEnough DEF TypeOK, IsTopWith
<1>4. ASSUME NEW s \in CubeStates,
             states' = [states EXCEPT ![current] = from, ![current + 1] = s]
      PROVE  /\ states' \in [0 .. StatesLength - 1 -> CubeStates]
             /\ \A i \in 0 .. current - 1 : states'[i] = states[i]
             /\ states'[current] = from /\ states'[current + 1] = s
  BY <1>3, <1>4
<1>5. CASE SameTop(from, depth)
  BY <1>3, <1>5 DEF SameTop, Outcome
<1>6. CASE Cut(from, next, depth)
  <2>1. Prune(next, depth) \in {"Axis", "Exponent", "Nothing"}
    BY DEF Prune
  <2> QED BY <1>2, <1>4, <1>6, <2>1 DEF Cut, Outcome
<1>7. CASE AtTheEnd(from, next, depth)
  <2>1. is_solved(next.p) <=> next.p = identity
    BY <1>2, SolvedIsIdentity, AwayDef
  <2> QED BY <1>2, <1>4, <1>7, <2>1 DEF AtTheEnd, Outcome
<1>8. CASE Deeper(from, next, depth)
  <2> DEFINE top == Enter(next, from, m)
  <2>1. /\ top \in CubeStates
        /\ top.p = next.p /\ top.ud = next.ud /\ top.fb = next.fb /\ top.lr = next.lr
        /\ top.axis = U /\ top.equal_by_sequence = from.equal_by_sequence \cap EqualBy[m]
        /\ top.exponent = IF has_discardable_neighbour_axis(U, from) THEN 1 ELSE 0
    BY <1>1, <1>3, EnterType
  <2>2. states' = [states EXCEPT ![current] = from, ![current + 1] = top]
    BY <1>8 DEF Deeper
  <2> HIDE DEF top
  <2>3. /\ states' \in [0 .. StatesLength - 1 -> CubeStates]
        /\ \A i \in 0 .. current - 1 : states'[i] = states[i]
        /\ states'[current] = from /\ states'[current + 1] = top
    BY <1>4, <2>1, <2>2
  <2>4. HasBoundsOf(top, next.p)
    BY <1>2, <2>1 DEF HasBoundsOf
  <2> QED BY <1>2, <1>8, <2>1, <2>3, <2>4 DEF Deeper, Outcome
<1> QED BY <1>2, <1>5, <1>6, <1>7, <1>8

(* The best move is not left out, ...                                      *)
LEMMA BestIsTried ==
  ASSUME TableIsSound, TypeOK, pc = "search", Top.p \in Reachable, HasBoundsOf(Top, Top.p),
         NEW axis \in Axes, NEW exponent \in 1 .. 3, NEW from, IsTopWith(from, axis, exponent),
         NEW depth \in Nat, Try(from, depth),
         \A s \in Top.equal_by_sequence : FullSymmetryConjugate(Top.p, s) = Top.p,
         Away(Top.p) = depth + 1, MoveOf(from) = Best(Top.p)
  PROVE  pc' = "found" \/ current' = current + 1
<1> DEFINE m == MoveOf(from)
<1>1. PICK next \in CubeStates :
        /\ next.p = Turned(from.p, m) /\ next.p \in Reachable /\ HasBoundsOf(next, next.p)
        /\ \/ SameTop(from, depth) \/ Cut(from, next, depth)
           \/ AtTheEnd(from, next, depth) \/ Deeper(from, next, depth)
  BY TryCases
<1>2. Away(next.p) = depth /\ Away(Top.p) # 0
  BY <1>1, BestDef DEF IsTopWith
<1>3. ~ Symmetric(from)
  <2>1. ASSUME NEW s \in from.equal_by_sequence PROVE s \notin GreaterBy[m]
    BY <1>2, BestIsFirst DEF IsTopWith, CubeStates
  <2> QED BY <2>1 DEF Symmetric
<1>4. Prune(next, depth) = "Nothing"
  BY <1>1, <1>2, AwayDef, InTimeIsNotCut
<1>5. CASE AtTheEnd(from, next, depth)
  <2>1. next.p = identity
    BY <1>1, <1>2, <1>5, AwayZero DEF AtTheEnd
  <2>2. is_solved(next.p)
    BY <2>1, SolvedIsIdentity, IdentityType
  <2> QED BY <1>5, <2>2 DEF AtTheEnd
<1> QED BY <1>1, <1>3, <1>4, <1>5 DEF SameTop, Cut, Deeper

(* ... and neither is its axis with another move of the same axis.         *)
LEMMA BestAxisIsKept ==
  ASSUME TableIsSound, TypeOK, pc = "search", Top.p \in Reachable, HasBoundsOf(Top, Top.p),
         NEW axis \in Axes, NEW exponent \in 1 .. 3, NEW from, IsTopWith(from, axis, exponent),
         NEW depth \in Nat, Try(from, depth),
         Away(Top.p) = depth + 1, MoveOf(from) # Best(Top.p),
         MoveOf(from) % 6 = Best(Top.p) % 6
  PROVE  current' = current + 1 \/ should_increase' # "Axis"
<1> DEFINE m == MoveOf(from)
           best == Best(Top.p)
<1>1. PICK next \in CubeStates :
        /\ next.p = Turned(from.p, m) /\ next.p \in Reachable /\ HasBoundsOf(next, next.p)
        /\ \/ SameTop(from, depth) \/ Cut(from, next, depth)
           \/ AtTheEnd(from, next, depth) \/ Deeper(from, next, depth)
  BY TryCases
<1>2. m \in Moves
  BY TryCases
<1>3. best \in Moves /\ Away(Turned(Top.p, best)) = depth /\ Turned(Top.p, best) \in Reachable
  BY BestDef
<1>4. PICK o \in Moves :
        mult(CanonicalPermutation[m], CanonicalPermutation[o]) = CanonicalPermutation[best]
  BY <1>2, <1>3, TurnsOfAFace
<1>5. Turned(Top.p, best) = Turned(next.p, o)
  BY <1>1, <1>2, <1>4, AwayDef, MultAssociates, TablesHavePermutations DEF Turned, IsTopWith
<1>6. Away(next.p) <= depth + 1
  BY <1>1, <1>3, <1>5, AwayTurned
<1>7. next.p \in Ball[depth + 1]
  BY <1>1, <1>6, AwayDef
<1>8. Prune(next, depth) # "Axis"
  BY <1>1, <1>7, NearlyInTimeKeepsAxis
<1> QED BY <1>1, <1>8 DEF SameTop, Cut, Deeper, AtTheEnd

-----------------------------------------------------------------------------
(* Try keeps the invariant.                                                *)

(* What the rounds have established when they come to Try. *)
Tries(from, axis, exponent, depth) ==
  /\ IsTopWith(from, axis, exponent) /\ Try(from, depth)
  /\ pc = "search"
  /\ boundary_depth' = current + depth /\ boundary_depth' < Away(cube)
  /\ cube' = cube /\ solution' = solution /\ solves' = solves
  /\ current > 0 => ~ has_discardable_neighbour_axis(axis, states[current - 1])
  /\ boundary_depth' + 1 = Away(cube) =>
       \E i \in 0 .. current :
         /\ FollowsBest(i)
         /\ LET best == Best(states[i].p)
            IN  IF i = current THEN 3 * axis + exponent <= DiscoverOrder[best] + 1
                ELSE 3 * states[i].axis + states[i].exponent <= DiscoverOrder[best]

LEMMA CubeInReach ==
  ASSUME SearchInv
  PROVE  cube \in Reachable /\ Away(cube) \in Nat /\ Away(cube) <= ScrambleLength
BY BallIsReachable, AwayDef, StackIsLongEnough DEF SearchInv, DepthInv

LEMMA TopIsSound ==
  ASSUME SearchInv, pc # "idle"
  PROVE  /\ current \in Nat /\ current = boundary_depth - remaining_depth
         /\ boundary_depth \in Nat /\ remaining_depth \in Nat
         /\ Top.p \in Reachable /\ HasBoundsOf(Top, Top.p)
         /\ Top \in CubeStates /\ Top.axis \in Axes /\ Top.exponent \in 0 .. 3
         /\ \A s \in Top.equal_by_sequence : FullSymmetryConjugate(Top.p, s) = Top.p
<1>1. current \in Nat /\ current \in 0 .. current /\ current \in 0 .. StatesLength - 1
  BY StackIsLongEnough DEF SearchInv, TypeOK
<1>2. Top \in CubeStates
  BY <1>1 DEF SearchInv, TypeOK, Top
<1>3. Top.p \in Reachable /\ current = boundary_depth - remaining_depth
  BY <1>1 DEF SearchInv, PathInv, StackIsAPath, Top
<1>4. HasBoundsOf(Top, Top.p)
  BY <1>1 DEF SearchInv, BoundsAreExact, OnStack, HasBoundsOf, Top
<1>5. \A s \in Top.equal_by_sequence : FullSymmetryConjugate(Top.p, s) = Top.p
  BY <1>1 DEF SearchInv, SymmetryInv, Top
<1>6. boundary_depth \in Nat /\ remaining_depth \in Nat
  BY DEF SearchInv, TypeOK
<1> QED BY <1>1, <1>2, <1>3, <1>4, <1>5, <1>6 DEF CubeStates

LEMMA TriesOutcome ==
  ASSUME TableIsSound, SearchInv, NEW axis \in Axes, NEW exponent \in 1 .. 3, NEW from,
         NEW depth \in Nat, Tries(from, axis, exponent, depth)
  PROVE  /\ Outcome(from, depth)
         /\ MoveOf(from) \in Moves /\ from \in CubeStates /\ IsTopWith(from, axis, exponent)
         /\ Turned(Top.p, MoveOf(from)) \in Reachable
         /\ current \in Nat /\ Away(cube) \in Nat /\ Away(cube) <= ScrambleLength
<1>1. Top.p \in Reachable /\ HasBoundsOf(Top, Top.p) /\ current \in Nat
  BY TopIsSound DEF Tries
<1>2. Outcome(from, depth) /\ MoveOf(from) \in Moves
  BY <1>1, TryOutcome, TryCases DEF Tries, SearchInv
<1> QED BY <1>1, <1>2, AwayTurned, CubeInReach DEF Tries, IsTopWith

LEMMA TryKeepsTypes ==
  ASSUME TableIsSound, SearchInv, NEW axis \in Axes, NEW exponent \in 1 .. 3, NEW from,
         NEW depth \in Nat, Tries(from, axis, exponent, depth)
  PROVE  TypeOK' /\ DepthInv' /\ FoundInv'
<1>1. /\ Outcome(from, depth)
      /\ current \in Nat /\ Away(cube) \in Nat /\ Away(cube) <= ScrambleLength
  BY TriesOutcome
<1>2. boundary_depth' \in Nat /\ boundary_depth' < ScrambleLength /\ current' <= boundary_depth'
  <2>1. boundary_depth' = current + depth /\ boundary_depth' < Away(cube)
    BY DEF Tries
  <2>2. current' = current \/ (current' = current + 1 /\ depth > 0)
    BY <1>1 DEF Outcome
  <2> QED BY <1>1, <2>1, <2>2, StackIsLongEnough
<1>3. TypeOK'
  <2>1. current' \in 0 .. StatesLength - 2
    BY <1>1, <1>2, StackIsLongEnough DEF Outcome
  <2>2. remaining_depth' \in 0 .. boundary_depth'
    BY <1>1, <1>2 DEF Outcome, Tries
  <2>3. pc' \in {"idle", "search", "found"} /\ should_increase' \in {"Axis", "Exponent", "Nothing"}
    BY <1>1 DEF Outcome
  <2>4. states' \in [0 .. StatesLength - 1 -> CubeStates]
    BY <1>1 DEF Outcome
  <2>5. solution' \in Seq(Moves) /\ solves' \in 0 .. Len(Scrambles)
    BY DEF Tries, SearchInv, TypeOK
  <2> QED BY <1>2, <2>1, <2>2, <2>3, <2>4, <2>5 DEF TypeOK
<1>4. DepthInv'
  BY <1>1 DEF Outcome, Tries, SearchInv, DepthInv
<1>5. FoundInv'
  <2> SUFFICES ASSUME pc' = "found"
               PROVE  remaining_depth' = 0 /\ Top'.exponent # 0 /\ Turned(Top'.p, MoveOf(Top')) = identity
    BY DEF FoundInv
  <2>1. Top' = from /\ remaining_depth' = 0 /\ Turned(from.p, MoveOf(from)) = identity
    BY <1>1 DEF Outcome, Top
  <2> QED BY <2>1 DEF Tries, IsTopWith
<1> QED BY <1>3, <1>4, <1>5

LEMMA TryKeepsPath ==
  ASSUME TableIsSound, SearchInv, NEW axis \in Axes, NEW exponent \in 1 .. 3, NEW from,
         NEW depth \in Nat, Tries(from, axis, exponent, depth)
  PROVE  PathInv' /\ BoundsAreExact'
<1>1. /\ Outcome(from, depth) /\ MoveOf(from) \in Moves /\ from \in CubeStates
      /\ IsTopWith(from, axis, exponent)
      /\ Turned(Top.p, MoveOf(from)) \in Reachable /\ current \in Nat
  BY TriesOutcome
<1>2. /\ states[0].p = cube
      /\ \A i \in 1 .. current : states[i].p = Turned(states[i - 1].p, MoveOf(states[i - 1]))
      /\ \A i \in 1 .. current - 1 : ~ has_discardable_neighbour_axis(states[i].axis, states[i - 1])
      /\ \A i \in 0 .. current : states[i].p \in Reachable /\ HasBoundsOf(states[i], states[i].p)
      /\ \A i \in 0 .. current - 1 : states[i].exponent # 0
  BY DEF SearchInv, PathInv, StackIsAPath, BoundsAreExact, OnStack, HasBoundsOf, Tries, Turned
<1>3. \A i \in 0 .. current - 1 : states'[i] = states[i]
  BY <1>1 DEF Outcome
<1>4. /\ states'[current] = from /\ from.p = states[current].p /\ from.axis = axis
      /\ from.exponent # 0 /\ HasBoundsOf(from, from.p)
  BY <1>1, <1>2 DEF Outcome, IsTopWith, Top, HasBoundsOf
<1>5. current' = current \/ current' = current + 1
  BY <1>1 DEF Outcome
<1>6. ASSUME current' = current + 1
      PROVE  /\ states'[current'].p = Turned(from.p, MoveOf(from))
             /\ states'[current'].p \in Reachable
             /\ HasBoundsOf(states'[current'], states'[current'].p)
  BY <1>1, <1>6 DEF Outcome, IsTopWith
<1>7. states'[0].p = cube'
  BY <1>1, <1>2, <1>3, <1>4 DEF Tries
<1>8. current' = boundary_depth' - remaining_depth'
  BY <1>1 DEF Outcome, Tries
<1>9. ASSUME NEW i \in 1 .. current'
      PROVE  states'[i].p = Turned(states'[i - 1].p, MoveOf(states'[i - 1]))
  <2>1. CASE i < current
    BY <1>1, <1>2, <1>3, <1>5, <2>1
  <2>2. CASE i = current
    <3>1. i - 1 \in 0 .. current - 1 /\ i \in 1 .. current
      BY <1>1, <2>2
    <3> QED BY <1>2, <1>3, <1>4, <2>2, <3>1
  <2>3. CASE i = current + 1
    <3>1. current' = current + 1 /\ i = current' /\ i - 1 = current
      BY <1>1, <1>5, <2>3
    <3> QED BY <1>4, <1>6, <3>1
  <2> QED BY <1>1, <1>5, <2>1, <2>2, <2>3
<1>10. ASSUME NEW i \in 1 .. current' - 1
       PROVE  ~ has_discardable_neighbour_axis(states'[i].axis, states'[i - 1])
  <2>1. CASE i < current
    BY <1>1, <1>2, <1>3, <1>5, <2>1
  <2>2. CASE i = current
    <3>1. i - 1 \in 0 .. current - 1 /\ current > 0
      BY <1>1, <2>2
    <3> QED BY <1>3, <1>4, <2>2, <3>1 DEF Tries
  <2> QED BY <1>1, <1>5, <2>1, <2>2
<1>11. ASSUME NEW i \in 0 .. current'
       PROVE  states'[i].p \in Reachable /\ HasBoundsOf(states'[i], states'[i].p)
  <2>1. CASE i < current
    BY <1>1, <1>2, <1>3, <1>5, <2>1
  <2>2. CASE i = current
    BY <1>1, <1>2, <1>4, <2>2
  <2>3. CASE i = current + 1
    BY <1>1, <1>5, <1>6, <2>3
  <2> QED BY <1>1, <1>5, <2>1, <2>2, <2>3
<1>12. ASSUME NEW i \in 0 .. current' - 1 PROVE states'[i].exponent # 0
  BY <1>1, <1>2, <1>3, <1>4, <1>5
<1>13. ASSUME should_increase' = "Exponent", current' > 0
       PROVE  ~ has_discardable_neighbour_axis(Top'.axis, states'[current' - 1])
  <2>1. CASE current' = current
    <3>1. current > 0 /\ states'[current - 1] = states[current - 1]
      BY <1>1, <1>3, <1>13, <2>1
    <3> QED BY <1>4, <2>1, <3>1 DEF Tries, Top
  <2>2. CASE current' = current + 1
    <3>1. Top'.axis = U /\ ~ has_discardable_neighbour_axis(U, from) /\ current' - 1 = current
      BY <1>1, <1>13, <2>2 DEF Outcome, Top
    <3> QED BY <1>4, <3>1
  <2> QED BY <1>5, <2>1, <2>2
<1>14. StackIsAPath'
  BY <1>7, <1>8, <1>9, <1>10 DEF StackIsAPath, Turned
<1>15. PathInv'
  BY <1>11, <1>12, <1>13, <1>14 DEF PathInv
<1>16. BoundsAreExact'
  BY <1>11 DEF BoundsAreExact, OnStack, HasBoundsOf
<1> QED BY <1>15, <1>16

LEMMA TryKeepsSymmetries ==
  ASSUME TableIsSound, SearchInv, NEW axis \in Axes, NEW exponent \in 1 .. 3, NEW from,
         NEW depth \in Nat, Tries(from, axis, exponent, depth)
  PROVE  SymmetryInv'
<1> DEFINE m == MoveOf(from)
           Fixes(s, q) == FullSymmetryConjugate(q, s) = q
<1>1. /\ Outcome(from, depth) /\ m \in Moves /\ from \in CubeStates
      /\ IsTopWith(from, axis, exponent) /\ current \in Nat
  BY TriesOutcome
<1>2. \A i \in 0 .. current :
        /\ \A s \in states[i].equal_by_sequence : Fixes(s, states[i].p)
        /\ \A s \in states[0].equal_by_sequence \ states[i].equal_by_sequence :
             \E j \in 0 .. i - 1 : s \notin EqualBy[MoveOf(states[j])]
  BY DEF SearchInv, SymmetryInv, Tries
<1>3. \A i \in 0 .. current - 1 : states'[i] = states[i]
  BY <1>1 DEF Outcome
<1>4. /\ states'[current] = from /\ from.p = states[current].p
      /\ from.equal_by_sequence = states[current].equal_by_sequence
  BY <1>1 DEF Outcome, IsTopWith, Top
<1>5. current' = current \/ current' = current + 1
  BY <1>1 DEF Outcome
<1>6. states'[0].equal_by_sequence = states[0].equal_by_sequence
  BY <1>1, <1>3, <1>4
<1>7. ASSUME NEW i \in 0 .. current
      PROVE  /\ \A s \in states'[i].equal_by_sequence : Fixes(s, states'[i].p)
             /\ \A s \in states'[0].equal_by_sequence \ states'[i].equal_by_sequence :
                  \E j \in 0 .. i - 1 : s \notin EqualBy[MoveOf(states'[j])]
  <2>1. states'[i].p = states[i].p /\ states'[i].equal_by_sequence = states[i].equal_by_sequence
    BY <1>1, <1>3, <1>4
  <2>2. \A j \in 0 .. i - 1 : states'[j] = states[j]
    BY <1>1, <1>3
  <2> QED BY <1>2, <1>6, <2>1, <2>2
<1>8. ASSUME current' = current + 1
      PROVE  /\ \A s \in Top'.equal_by_sequence : Fixes(s, Top'.p)
             /\ \A s \in states'[0].equal_by_sequence \ Top'.equal_by_sequence :
                  \E j \in 0 .. current : s \notin EqualBy[MoveOf(states'[j])]
  <2>1. /\ Top'.p = Turned(from.p, m)
        /\ Top'.equal_by_sequence = from.equal_by_sequence \cap EqualBy[m]
    BY <1>1, <1>8 DEF Outcome, Top
  <2>2. current \in 0 .. current /\ from.p \in AllPermutations
    BY <1>1, TopIsSound, AwayDef DEF Tries, IsTopWith
  <2>3. EqualBy[m] = {s \in FullSymmetries : FullCanonicalPermutationConjugate[m][s] = m}
    BY <1>1 DEF EqualBy
  <2>4. ASSUME NEW s \in Top'.equal_by_sequence PROVE Fixes(s, Top'.p)
    <3>1. s \in FullSymmetries /\ FullCanonicalPermutationConjugate[m][s] = m /\ Fixes(s, from.p)
      BY <1>2, <1>4, <2>1, <2>2, <2>3
    <3>2. FullSymmetryConjugate(Turned(from.p, m), s) = Turned(FullSymmetryConjugate(from.p, s), m)
      BY <1>1, <2>2, <3>1, ConjugateTurned
    <3> QED BY <2>1, <3>1, <3>2
  <2>5. ASSUME NEW s \in states'[0].equal_by_sequence \ Top'.equal_by_sequence
        PROVE  \E j \in 0 .. current : s \notin EqualBy[MoveOf(states'[j])]
    <3>1. CASE s \notin EqualBy[m]
      BY <1>4, <2>2, <3>1
    <3>2. CASE s \notin states'[current].equal_by_sequence
      <4>1. PICK j \in 0 .. current - 1 : s \notin EqualBy[MoveOf(states'[j])]
        BY <1>7, <2>2, <3>2
      <4>2. j \in 0 .. current
        BY <1>1
      <4> QED BY <4>1, <4>2
    <3> QED BY <1>4, <2>1, <3>1, <3>2
  <2> QED BY <2>4, <2>5
<1>9. ASSUME NEW i \in 0 .. current'
      PROVE  /\ \A s \in states'[i].equal_by_sequence : Fixes(s, states'[i].p)
             /\ \A s \in states'[0].equal_by_sequence \ states'[i].equal_by_sequence :
                  \E j \in 0 .. i - 1 : s \notin EqualBy[MoveOf(states'[j])]
  <2>1. CASE i \in 0 .. current
    BY <1>7, <2>1
  <2>2. CASE i = current + 1 /\ current' = current + 1
    <3>1. i - 1 = current /\ Top' = states'[i]
      BY <1>1, <2>2 DEF Top
    <3> QED BY <1>8, <2>2, <3>1
  <2> QED BY <1>1, <1>5, <2>1, <2>2
<1> QED BY <1>9 DEF SymmetryInv

LEMMA TryKeepsBest ==
  ASSUME TableIsSound, SearchInv, NEW axis \in Axes, NEW exponent \in 1 .. 3, NEW from,
         NEW depth \in Nat, Tries(from, axis, exponent, depth)
  PROVE  BestIsAhead'
<1> DEFINE m == MoveOf(from)
<1> SUFFICES ASSUME pc' = "search", boundary_depth' + 1 = Away(cube')
             PROVE  \E i \in 0 .. current' : FollowsBest(i)' /\ NotPassed(i)'
  BY DEF BestIsAhead
<1>1. /\ Outcome(from, depth) /\ m \in Moves /\ from \in CubeStates
      /\ IsTopWith(from, axis, exponent) /\ Try(from, depth)
      /\ current \in Nat /\ Away(cube) \in Nat
      /\ cube' = cube /\ boundary_depth' = current + depth
  BY TriesOutcome DEF Tries
<1>2. PICK i \in 0 .. current :
        /\ FollowsBest(i)
        /\ LET best == Best(states[i].p)
           IN  IF i = current THEN 3 * axis + exponent <= DiscoverOrder[best] + 1
               ELSE 3 * states[i].axis + states[i].exponent <= DiscoverOrder[best]
  BY <1>1 DEF Tries
<1>3. \A j \in 0 .. current - 1 : states'[j] = states[j]
  BY <1>1 DEF Outcome
<1>4. /\ states'[current] = from /\ from.p = states[current].p
      /\ from.axis = axis /\ from.exponent = exponent
  BY <1>1 DEF Outcome, IsTopWith, Top
<1>5. current' = current \/ current' = current + 1
  BY <1>1 DEF Outcome
<1>6. \A j \in 0 .. current : states'[j].p = states[j].p
  BY <1>1, <1>3, <1>4
<1>7. FollowsBest(i)'
  <2>1. \A j \in 0 .. i - 1 : states'[j] = states[j]
    BY <1>1, <1>3
  <2>2. \A j \in 0 .. i : states'[j].p = states[j].p
    BY <1>1, <1>6
  <2> QED BY <1>1, <1>2, <2>1, <2>2 DEF FollowsBest
<1>8. CASE i # current
  <2>1. i # current' /\ states'[i] = states[i] /\ i \in 0 .. current'
    BY <1>1, <1>3, <1>5, <1>8
  <2>2. NotPassed(i)'
    BY <1>2, <1>8, <2>1 DEF NotPassed
  <2> QED BY <1>7, <2>1, <2>2
<1>9. CASE i = current
  <2> DEFINE best == Best(Top.p)
  <2>1. Away(Top.p) = depth + 1
    <3>1. Away(states[current].p) = Away(cube) - current
      BY <1>1, <1>2, <1>9 DEF FollowsBest
    <3> QED BY <1>1, <3>1 DEF Top
  <2>2. /\ Top.p \in Reachable /\ HasBoundsOf(Top, Top.p) /\ pc = "search" /\ TypeOK
        /\ \A s \in Top.equal_by_sequence : FullSymmetryConjugate(Top.p, s) = Top.p
    BY TopIsSound DEF Tries, SearchInv
  <2>3. best \in Moves /\ Away(Turned(Top.p, best)) = depth /\ Turned(Top.p, best) \in Reachable
    BY <2>1, <2>2, BestDef
  <2>4. /\ m % 6 = axis /\ m \div 6 = exponent - 1 /\ m = (m % 6) + 6 * (m \div 6)
        /\ best % 6 \in Axes /\ best \div 6 \in 0 .. 2 /\ best = (best % 6) + 6 * (best \div 6)
        /\ DiscoverOrder[best] = 3 * (best % 6) + (best \div 6)
    BY <1>1, <1>4, <2>3, OrderOfMoves DEF MoveOf
  <2>5. 3 * axis + exponent <= DiscoverOrder[best] + 1
    BY <1>2, <1>9 DEF Top
  <2>6. CASE m = best
    <3>1. current' = current + 1
      <4>1. pc' # "found"
        OBVIOUS
      <4> QED BY <1>1, <2>1, <2>2, <2>6, <4>1, BestIsTried
    <3> DEFINE top == states'[current + 1]
    <3>2. /\ depth > 0 /\ top.p = Turned(Top.p, best) /\ top.axis = U
          /\ IF has_discardable_neighbour_axis(U, from)
               THEN top.exponent = 1 /\ should_increase' = "Axis"
               ELSE top.exponent = 0 /\ should_increase' = "Exponent"
      BY <1>1, <2>6, <3>1 DEF Outcome, IsTopWith
    <3>3. PICK k \in Nat : k = current'
      BY <1>1, <3>1
    <3>4. FollowsBest(k)'
      <4>1. MoveOf(from) = Best(from.p)
        BY <1>4, <2>6 DEF Top
      <4>2. Away(top.p) = Away(cube') - (current + 1)
        BY <1>1, <2>3, <3>2
      <4>3. ASSUME NEW j \in 0 .. k - 1 PROVE MoveOf(states'[j]) = Best(states'[j].p)
        <5>1. CASE j = current
          BY <1>4, <4>1, <5>1
        <5>2. CASE j # current
          <6>1. j \in 0 .. i - 1
            BY <1>1, <1>9, <3>1, <3>3, <5>2
          <6> QED BY <1>7, <6>1 DEF FollowsBest
        <5> QED BY <5>1, <5>2
      <4>4. ASSUME NEW j \in 0 .. k PROVE Away(states'[j].p) = Away(cube') - j
        <5>1. CASE j = current + 1
          BY <4>2, <5>1
        <5>2. CASE j # current + 1
          <6>1. j \in 0 .. i
            BY <1>1, <1>9, <3>1, <3>3, <5>2
          <6> QED BY <1>7, <6>1 DEF FollowsBest
        <5> QED BY <5>1, <5>2
      <4> QED BY <4>3, <4>4 DEF FollowsBest
    <3>5. NotPassed(k)'
      <4> DEFINE after == Best(top.p)
      <4>1. /\ top.p \in Reachable /\ Away(top.p) # 0 /\ top.p # identity
            /\ after \in Moves
        BY <2>3, <3>2, AwayZero, BestDef
      <4>2. after % 6 # best % 6 /\ (after % 6) + 3 # best % 6
        BY <2>1, <2>2, <3>2, <4>1, BestGoesOn
      <4>3. /\ after % 6 \in Axes /\ after \div 6 \in 0 .. 2
            /\ DiscoverOrder[after] = 3 * (after % 6) + (after \div 6)
        BY <4>1, OrderOfMoves
      <4>4. CASE has_discardable_neighbour_axis(U, from)
        <5>1. axis = 0 \/ 3 = axis
          BY <1>4, <4>4 DEF has_discardable_neighbour_axis, U
        <5>2. axis = best % 6
          BY <2>4, <2>6
        <5>3. \A a \in Axes : a # axis /\ a + 3 # axis => 0 < a
          BY <5>1 DEF Axes
        <5>4. 0 < after % 6
          BY <4>2, <4>3, <5>2, <5>3
        <5>5. should_increase' = "Axis" /\ top.axis = 0
          BY <3>2, <4>4 DEF U
        <5> QED BY <3>1, <3>3, <5>4, <5>5 DEF NotPassed
      <4>5. CASE ~ has_discardable_neighbour_axis(U, from)
        <5>1. should_increase' = "Exponent" /\ top.axis = 0 /\ top.exponent = 0
          BY <3>2, <4>5 DEF U
        <5>2. 0 <= DiscoverOrder[after]
          BY <4>1, OrderOfMoves
        <5>3. 3 * top.axis + top.exponent <= DiscoverOrder[after]
          BY <5>1, <5>2
        <5> QED BY <3>1, <3>3, <5>1, <5>3 DEF NotPassed
      <4> QED BY <4>4, <4>5
    <3> QED BY <3>3, <3>4, <3>5
  <2>7. CASE m # best
    <3>1. 3 * axis + exponent <= DiscoverOrder[best]
      <4> DEFINE a == best % 6
                 e == best \div 6
                 o == DiscoverOrder[best]
      <4>1. a \in Axes /\ e \in 0 .. 2 /\ best = a + 6 * e /\ o = 3 * a + e
        BY <2>4
      <4>2. m = axis + 6 * (exponent - 1) /\ 3 * axis + exponent <= o + 1
        BY <1>4, <2>5 DEF MoveOf, AxisExponent2Move
      <4> HIDE DEF a, e, o
      <4>3. a # axis \/ e # exponent - 1
        BY <2>7, <4>1, <4>2
      <4>4. 3 * axis + (exponent - 1) <= 3 * a + e
        BY <4>1, <4>2 DEF Axes
      <4>5. 3 * axis + exponent <= 3 * a + e
        BY <4>1, <4>3, <4>4 DEF Axes
      <4>6. 3 * axis + exponent <= o
        BY <4>1, <4>5
      <4> QED BY <4>6 DEF o
    <3>2. i \in 0 .. current' /\ states'[i] = from /\ Best(states'[i].p) = best
      BY <1>1, <1>4, <1>5, <1>9 DEF Top
    <3>3. ASSUME current' = current, should_increase' = "Axis" PROVE axis < best % 6
      <4>1. axis # best % 6
        <5>1. current' # current + 1
          BY <1>1, <3>3
        <5>2. ~ (MoveOf(from) % 6 = Best(Top.p) % 6)
          BY <1>1, <2>1, <2>2, <2>7, <3>3, <5>1, BestAxisIsKept
        <5> QED BY <2>4, <5>2
      <4> QED BY <2>4, <3>1, <4>1 DEF Axes
    <3> HIDE DEF best
    <3>4. NotPassed(i)'
      BY <1>4, <1>9, <3>1, <3>2, <3>3 DEF NotPassed
    <3> QED BY <1>7, <3>2, <3>4
  <2> QED BY <2>6, <2>7
<1> QED BY <1>8, <1>9

LEMMA TryKeepsInv ==
  ASSUME TableIsSound, SearchInv, NEW axis \in Axes, NEW exponent \in 1 .. 3, NEW from,
         NEW depth \in Nat, Tries(from, axis, exponent, depth)
  PROVE  SearchInv'
BY TryKeepsTypes, TryKeepsPath, TryKeepsSymmetries, TryKeepsBest DEF SearchInv

-----------------------------------------------------------------------------
(* The rounds, one by one: first those that come to Try.                   *)

LEMMA NextExponentKeepsInv ==
  ASSUME TableIsSound, SearchInv, NextExponent
  PROVE  SearchInv'
<1> DEFINE axis == Top.axis
           exponent == Top.exponent + 1
           from == [Top EXCEPT !.exponent = @ + 1]
<1>1. pc = "search" /\ should_increase = "Exponent" /\ Top.exponent < 3
  BY DEF NextExponent, Searching
<1>2. /\ current \in Nat /\ current = boundary_depth - remaining_depth
      /\ boundary_depth \in Nat /\ remaining_depth \in Nat
      /\ Top \in CubeStates /\ Top.axis \in Axes /\ Top.exponent \in 0 .. 3
  BY <1>1, TopIsSound
<1>3. exponent \in 1 .. 3 /\ axis \in Axes
  BY <1>1, <1>2
<1>4. IsTopWith(from, axis, exponent)
  BY <1>2, <1>3 DEF IsTopWith, CubeStates
<1>5. Try(from, remaining_depth) /\ boundary_depth' = boundary_depth
      /\ cube' = cube /\ solution' = solution /\ solves' = solves
  BY DEF NextExponent
<1>6. boundary_depth' = current + remaining_depth /\ boundary_depth' < Away(cube)
  BY <1>1, <1>2, <1>5 DEF SearchInv, DepthInv
<1>7. current > 0 => ~ has_discardable_neighbour_axis(axis, states[current - 1])
  BY <1>1 DEF SearchInv, PathInv
<1>8. ASSUME boundary_depth' + 1 = Away(cube)
      PROVE  \E i \in 0 .. current :
               /\ FollowsBest(i)
               /\ LET best == Best(states[i].p)
                  IN  IF i = current THEN 3 * axis + exponent <= DiscoverOrder[best] + 1
                      ELSE 3 * states[i].axis + states[i].exponent <= DiscoverOrder[best]
  <2>1. PICK i \in 0 .. current : FollowsBest(i) /\ NotPassed(i)
    BY <1>1, <1>5, <1>8 DEF SearchInv, BestIsAhead
  <2>2. 3 * states[i].axis + states[i].exponent <= DiscoverOrder[Best(states[i].p)]
    BY <1>1, <2>1 DEF NotPassed
  <2>3. ASSUME i = current PROVE 3 * axis + exponent <= DiscoverOrder[Best(states[i].p)] + 1
    <3>1. Away(Top.p) # 0 /\ Top.p \in Reachable
      BY <1>2, <1>5, <1>8, <2>1, <2>3, <1>6, <1>1, TopIsSound DEF FollowsBest, Top
    <3>2. DiscoverOrder[Best(Top.p)] \in Nat
      BY <3>1, BestDef, OrderOfMoves
    <3> QED BY <1>2, <2>2, <2>3, <3>2 DEF Top, Axes
  <2> QED BY <2>1, <2>2, <2>3
<1>9. Tries(from, axis, exponent, remaining_depth)
  BY <1>1, <1>4, <1>5, <1>6, <1>7, <1>8 DEF Tries
<1> QED BY <1>2, <1>3, <1>9, TryKeepsInv

LEMMA NextAxisKeepsInv ==
  ASSUME TableIsSound, SearchInv, NextAxis
  PROVE  SearchInv'
<1> DEFINE axis == Top.axis + 1
           from == [Top EXCEPT !.axis = @ + 1, !.exponent = 1]
<1>1. pc = "search" /\ should_increase = "Axis" /\ Top.axis < 5 /\ ~ Discardable(axis)
  BY DEF NextAxis, Searching, B
<1>2. /\ current \in Nat /\ current = boundary_depth - remaining_depth
      /\ boundary_depth \in Nat /\ remaining_depth \in Nat
      /\ Top \in CubeStates /\ Top.axis \in Axes /\ Top.exponent \in 0 .. 3
  BY <1>1, TopIsSound
<1>3. axis \in Axes /\ 1 \in 1 .. 3
  BY <1>1, <1>2 DEF Axes
<1>4. IsTopWith(from, axis, 1)
  <2>1. axis \in Axes /\ 1 \in 0 .. 3 /\ 1 # 0
    BY <1>3
  <2> QED BY <1>2, <2>1 DEF IsTopWith, CubeStates
<1>5. Try(from, remaining_depth) /\ boundary_depth' = boundary_depth
      /\ cube' = cube /\ solution' = solution /\ solves' = solves
  BY DEF NextAxis
<1>6. boundary_depth' = current + remaining_depth /\ boundary_depth' < Away(cube)
  BY <1>1, <1>2, <1>5 DEF SearchInv, DepthInv
<1>7. current > 0 => ~ has_discardable_neighbour_axis(axis, states[current - 1])
  BY <1>1, <1>2 DEF Discardable
<1>8. ASSUME boundary_depth' + 1 = Away(cube)
      PROVE  \E i \in 0 .. current :
               /\ FollowsBest(i)
               /\ LET best == Best(states[i].p)
                  IN  IF i = current THEN 3 * axis + 1 <= DiscoverOrder[best] + 1
                      ELSE 3 * states[i].axis + states[i].exponent <= DiscoverOrder[best]
  <2>1. PICK i \in 0 .. current : FollowsBest(i) /\ NotPassed(i)
    BY <1>1, <1>5, <1>8 DEF SearchInv, BestIsAhead
  <2>2. ASSUME i = current PROVE 3 * axis + 1 <= DiscoverOrder[Best(states[i].p)] + 1
    <3> DEFINE best == Best(Top.p)
    <3>1. Away(Top.p) # 0 /\ Top.p \in Reachable
      BY <1>2, <1>5, <1>8, <2>1, <2>2, <1>6, <1>1, TopIsSound DEF FollowsBest, Top
    <3>2. /\ best % 6 \in Axes /\ best \div 6 \in 0 .. 2
          /\ DiscoverOrder[best] = 3 * (best % 6) + (best \div 6)
      BY <3>1, BestDef, OrderOfMoves
    <3>3. Top.axis < best % 6
      BY <1>1, <2>1, <2>2 DEF NotPassed, Top
    <3>4. 3 * axis + 1 <= DiscoverOrder[best] + 1
      BY <1>2, <3>2, <3>3 DEF Axes
    <3> QED BY <2>2, <3>4 DEF Top
  <2> QED BY <1>1, <2>1, <2>2 DEF NotPassed
<1>9. Tries(from, axis, 1, remaining_depth)
  BY <1>1, <1>4, <1>5, <1>6, <1>7, <1>8 DEF Tries
<1> QED BY <1>2, <1>3, <1>9, TryKeepsInv

(* The depth grows only if the best move is not ahead: if no solution has  *)
(* the old one.                                                            *)
LEMMA DeepenKeepsInv ==
  ASSUME TableIsSound, SearchInv, Deepen
  PROVE  SearchInv'
<1> DEFINE from == [Top EXCEPT !.axis = U, !.exponent = 1]
           depth == remaining_depth + 1
<1>1. /\ pc = "search" /\ should_increase = "Axis" /\ Top.axis = 5
      /\ boundary_depth = remaining_depth
  BY DEF Deepen, Searching, B
<1>2. /\ current \in Nat /\ current = boundary_depth - remaining_depth
      /\ boundary_depth \in Nat /\ remaining_depth \in Nat
      /\ Top \in CubeStates /\ Top.axis \in Axes /\ Top.exponent \in 0 .. 3
      /\ Top.p \in Reachable
  BY <1>1, TopIsSound
<1>3. current = 0 /\ U \in Axes /\ 1 \in 1 .. 3 /\ depth \in Nat
  BY <1>1, <1>2 DEF U, Axes
<1>4. IsTopWith(from, U, 1)
  <2>1. U \in Axes /\ 1 \in 0 .. 3 /\ 1 # 0
    BY <1>3
  <2> QED BY <1>2, <2>1 DEF IsTopWith, CubeStates
<1>5. Try(from, depth) /\ boundary_depth' = boundary_depth + 1
      /\ cube' = cube /\ solution' = solution /\ solves' = solves
  BY DEF Deepen
<1>6. Away(cube) \in Nat /\ cube # identity /\ boundary_depth < Away(cube)
  BY <1>1, CubeInReach DEF SearchInv, DepthInv
<1>7. Top.p = cube
  BY <1>1, <1>3 DEF SearchInv, PathInv, StackIsAPath, Top
<1>8. Away(Top.p) # 0 /\ Best(Top.p) \in Moves
  BY <1>2, <1>6, <1>7, AwayZero, BestDef
<1>9. boundary_depth + 1 # Away(cube)
  <2> SUFFICES ASSUME boundary_depth + 1 = Away(cube) PROVE FALSE
    OBVIOUS
  <2>1. PICK i \in 0 .. current : FollowsBest(i) /\ NotPassed(i)
    BY <1>1 DEF SearchInv, BestIsAhead
  <2>2. i = current /\ Top = states[i]
    BY <1>3 DEF Top
  <2>3. Top.axis < Best(Top.p) % 6
    BY <1>1, <2>1, <2>2 DEF NotPassed
  <2>4. Best(Top.p) % 6 \in Axes
    BY <1>8, OrderOfMoves
  <2> QED BY <1>1, <2>3, <2>4 DEF Axes
<1>10. boundary_depth' = current + depth /\ boundary_depth' < Away(cube)
  BY <1>1, <1>2, <1>3, <1>5, <1>6, <1>9
<1>11. /\ FollowsBest(0)
       /\ 3 * U + 1 <= DiscoverOrder[Best(states[0].p)] + 1
  <2>1. Top = states[0]
    BY <1>3 DEF Top
  <2>2. DiscoverOrder[Best(states[0].p)] \in Nat
    BY <1>8, <2>1, OrderOfMoves
  <2>3. FollowsBest(0)
    BY <1>6, <1>7, <2>1 DEF FollowsBest
  <2> QED BY <2>2, <2>3 DEF U
<1>12. \E i \in 0 .. current :
         /\ FollowsBest(i)
         /\ LET best == Best(states[i].p)
            IN  IF i = current THEN 3 * U + 1 <= DiscoverOrder[best] + 1
                ELSE 3 * states[i].axis + states[i].exponent <= DiscoverOrder[best]
  BY <1>3, <1>11
<1>13. Tries(from, U, 1, depth)
  BY <1>1, <1>3, <1>4, <1>5, <1>10, <1>12 DEF Tries
<1> QED BY <1>3, <1>13, TryKeepsInv

(* Then those that do not. *)
LEMMA ExponentsExhaustedKeepsInv ==
  ASSUME TableIsSound, SearchInv, ExponentsExhausted
  PROVE  SearchInv'
<1>1. /\ pc = "search" /\ should_increase = "Exponent" /\ Top.exponent = 3
      /\ should_increase' = "Axis" /\ pc' = pc /\ cube' = cube /\ states' = states
      /\ current' = current /\ boundary_depth' = boundary_depth
      /\ remaining_depth' = remaining_depth /\ solution' = solution /\ solves' = solves
  BY DEF ExponentsExhausted, Searching
<1>2. TypeOK' /\ DepthInv' /\ FoundInv'
  BY <1>1 DEF SearchInv, TypeOK, DepthInv, FoundInv
<1>3. PathInv' /\ BoundsAreExact' /\ SymmetryInv'
  BY <1>1 DEF SearchInv, PathInv, StackIsAPath, BoundsAreExact, OnStack, SymmetryInv
<1>4. ASSUME boundary_depth + 1 = Away(cube)
      PROVE  \E i \in 0 .. current : FollowsBest(i)' /\ NotPassed(i)'
  <2>1. PICK i \in 0 .. current : FollowsBest(i) /\ NotPassed(i)
    BY <1>1, <1>4 DEF SearchInv, BestIsAhead
  <2>2. FollowsBest(i)'
    BY <1>1, <2>1 DEF FollowsBest
  <2>3. 3 * states[i].axis + states[i].exponent <= DiscoverOrder[Best(states[i].p)]
    BY <1>1, <2>1 DEF NotPassed
  <2>4. ASSUME i = current PROVE states[i].axis < Best(states[i].p) % 6
    <3> DEFINE best == Best(Top.p)
    <3>1. Top = states[i] /\ Top.p \in Reachable /\ Top.axis \in Axes
      BY <1>1, <2>4, TopIsSound DEF Top
    <3>2. Away(Top.p) # 0
      BY <1>1, <1>4, <2>1, <2>4, <3>1, TopIsSound DEF FollowsBest
    <3>3. /\ best % 6 \in Axes /\ best \div 6 \in 0 .. 2
          /\ DiscoverOrder[best] = 3 * (best % 6) + (best \div 6)
      BY <3>1, <3>2, BestDef, OrderOfMoves
    <3>4. 3 * Top.axis + 3 <= DiscoverOrder[best]
      BY <1>1, <2>3, <3>1
    <3>5. Top.axis < best % 6
      BY <3>1, <3>3, <3>4 DEF Axes
    <3> QED BY <3>1, <3>5
  <2>5. NotPassed(i)'
    BY <1>1, <2>3, <2>4 DEF NotPassed
  <2> QED BY <2>2, <2>5
<1>5. BestIsAhead'
  BY <1>1, <1>4 DEF BestIsAhead
<1> QED BY <1>2, <1>3, <1>5 DEF SearchInv

(* An axis that is skipped is not that of the best move. *)
LEMMA SkipAxisKeepsInv ==
  ASSUME TableIsSound, SearchInv, SkipAxis
  PROVE  SearchInv'
<1> DEFINE from == [Top EXCEPT !.axis = @ + 1, !.exponent = 1]
<1>1. /\ pc = "search" /\ should_increase = "Axis" /\ Top.axis < 5 /\ Discardable(Top.axis + 1)
      /\ should_increase' = should_increase /\ pc' = pc /\ cube' = cube
      /\ current' = current /\ boundary_depth' = boundary_depth
      /\ remaining_depth' = remaining_depth /\ solution' = solution /\ solves' = solves
  BY DEF SkipAxis, Searching, B
<1>2. /\ current \in Nat /\ current = boundary_depth - remaining_depth
      /\ boundary_depth \in Nat /\ remaining_depth \in Nat
      /\ Top \in CubeStates /\ Top.axis \in Axes /\ Top.p \in Reachable
  BY <1>1, TopIsSound
<1>3. current > 0 /\ current \in 0 .. StatesLength - 1 /\ StatesLength \in Nat
  BY <1>1, <1>2, StackIsLongEnough DEF Discardable, SearchInv, TypeOK
<1>4. /\ from \in CubeStates /\ from.axis = Top.axis + 1 /\ from.exponent = 1
      /\ from.p = Top.p /\ from.equal_by_sequence = Top.equal_by_sequence
      /\ from.ud = Top.ud /\ from.fb = Top.fb /\ from.lr = Top.lr
  <2>1. Top.axis + 1 \in Axes /\ 1 \in 0 .. 3
    BY <1>1, <1>2 DEF Axes
  <2> QED BY <1>2, <2>1 DEF CubeStates
<1>5. states \in [0 .. StatesLength - 1 -> CubeStates]
  BY DEF SearchInv, TypeOK
<1>6. states' = [states EXCEPT ![current] = from]
  BY <1>3, <1>5 DEF SkipAxis, Top
<1> HIDE DEF from
<1>7. /\ states' \in [0 .. StatesLength - 1 -> CubeStates]
      /\ states'[current] = from
      /\ \A i \in 0 .. current - 1 : states'[i] = states[i]
  BY <1>3, <1>4, <1>5, <1>6
<1>8. \A i \in 0 .. current :
        /\ states'[i].p = states[i].p /\ states'[i].equal_by_sequence = states[i].equal_by_sequence
        /\ states'[i].ud = states[i].ud /\ states'[i].fb = states[i].fb
        /\ states'[i].lr = states[i].lr
  BY <1>2, <1>4, <1>7 DEF Top
<1>9. TypeOK' /\ DepthInv' /\ FoundInv'
  BY <1>1, <1>7 DEF SearchInv, TypeOK, DepthInv, FoundInv
<1>10. BoundsAreExact'
  BY <1>1, <1>8 DEF SearchInv, BoundsAreExact, OnStack
<1>11. PathInv'
  <2>1. StackIsAPath
    BY <1>1 DEF SearchInv, PathInv
  <2>2. states'[0].p = cube' /\ current' = boundary_depth' - remaining_depth'
    BY <1>1, <1>2, <1>8, <2>1 DEF StackIsAPath
  <2>3. ASSUME NEW i \in 1 .. current'
        PROVE  states'[i].p = mult(states'[i - 1].p, CanonicalPermutation[MoveOf(states'[i - 1])])
    <3>1. i \in 1 .. current /\ i - 1 \in 0 .. current - 1 /\ i \in 0 .. current
      BY <1>1, <1>2
    <3> QED BY <1>1, <1>7, <1>8, <2>1, <3>1 DEF StackIsAPath
  <2>4. ASSUME NEW i \in 1 .. current' - 1
        PROVE  ~ has_discardable_neighbour_axis(states'[i].axis, states'[i - 1])
    <3>1. i \in 1 .. current - 1 /\ i - 1 \in 0 .. current - 1 /\ i \in 0 .. current - 1
      BY <1>1, <1>2
    <3> QED BY <1>1, <1>7, <2>1, <3>1 DEF StackIsAPath
  <2>5. StackIsAPath'
    BY <2>2, <2>3, <2>4 DEF StackIsAPath
  <2>6. \A i \in 0 .. current' : states'[i].p \in Reachable
    BY <1>1, <1>8 DEF SearchInv, PathInv
  <2>7. \A i \in 0 .. current' - 1 : states'[i].exponent # 0
    BY <1>1, <1>7 DEF SearchInv, PathInv
  <2> QED BY <1>1, <2>5, <2>6, <2>7 DEF PathInv
<1>12. SymmetryInv'
  <2>1. ASSUME NEW i \in 0 .. current'
        PROVE  /\ \A s \in states'[i].equal_by_sequence :
                    FullSymmetryConjugate(states'[i].p, s) = states'[i].p
               /\ \A s \in states'[0].equal_by_sequence \ states'[i].equal_by_sequence :
                    \E j \in 0 .. i - 1 : s \notin EqualBy[MoveOf(states'[j])]
    <3>1. i \in 0 .. current /\ 0 \in 0 .. current
      BY <1>1, <1>2
    <3>2. \A j \in 0 .. i - 1 : states'[j] = states[j]
      BY <1>2, <1>7, <3>1
    <3> QED BY <1>1, <1>8, <3>1, <3>2 DEF SearchInv, SymmetryInv
  <2> QED BY <2>1 DEF SymmetryInv
<1>13. ASSUME boundary_depth + 1 = Away(cube)
       PROVE  \E i \in 0 .. current : FollowsBest(i)' /\ NotPassed(i)'
  <2>1. PICK i \in 0 .. current : FollowsBest(i) /\ NotPassed(i)
    BY <1>1, <1>13 DEF SearchInv, BestIsAhead
  <2>2. (\A j \in 0 .. i - 1 : states'[j] = states[j]) /\ (\A j \in 0 .. i : j \in 0 .. current)
    BY <1>2, <1>7, <2>1
  <2>3. FollowsBest(i)'
    BY <1>1, <1>8, <2>1, <2>2 DEF FollowsBest
  <2>4. CASE i # current
    <3>1. states'[i] = states[i]
      BY <1>2, <1>7, <2>1, <2>4
    <3>2. NotPassed(i)'
      BY <1>1, <2>1, <2>4, <3>1 DEF NotPassed
    <3> QED BY <2>3, <3>2
  <2>5. CASE i = current
    <3> DEFINE before == states[current - 1]
               best == Best(Top.p)
    <3>1. current - 1 \in 0 .. current - 1 /\ current - 1 \in 0 .. StatesLength - 1
          /\ current \in 1 .. current /\ current \in 0 .. current
      BY <1>2, <1>3
    <3>2. /\ MoveOf(before) = Best(before.p) /\ Top.p = Turned(before.p, MoveOf(before))
          /\ before.p \in Reachable /\ before \in CubeStates /\ before.exponent # 0
      BY <1>1, <1>5, <2>1, <2>5, <3>1
      DEF FollowsBest, SearchInv, PathInv, StackIsAPath, Turned, Top
    <3>3. Away(Top.p) = Away(cube) - current /\ Away(before.p) = Away(cube) - (current - 1)
      BY <2>1, <2>5, <3>1 DEF FollowsBest, Top
    <3>4. Away(Top.p) # 0 /\ Away(before.p) # 0
      BY <1>2, <1>13, <3>3
    <3>5. Top.p # identity
      BY <1>2, <3>4, AwayZero
    <3>6. best % 6 # Best(before.p) % 6 /\ (best % 6) + 3 # Best(before.p) % 6
      BY <3>2, <3>4, <3>5, BestGoesOn
    <3>7. before.axis \in Axes /\ before.exponent \in 1 .. 3
      BY <3>2 DEF CubeStates
    <3>8. MoveOf(before) % 6 = before.axis
      BY <3>7, OrderOfMoves DEF MoveOf
    <3>9. best % 6 # before.axis /\ (best % 6) + 3 # before.axis
      BY <3>2, <3>6, <3>8
    <3>10. best % 6 # Top.axis + 1
      BY <1>1, <3>9 DEF Discardable, has_discardable_neighbour_axis
    <3>11. Top.axis < best % 6
      BY <1>1, <2>1, <2>5 DEF NotPassed, Top
    <3>12. best % 6 \in Axes
      BY <1>2, <3>4, BestDef, OrderOfMoves
    <3>13. Top.axis + 1 < best % 6
      BY <1>2, <3>10, <3>11, <3>12 DEF Axes
    <3>14. states'[i] = from /\ from.p = Top.p
      BY <1>4, <1>7, <2>5
    <3>15. NotPassed(i)'
      BY <1>1, <1>4, <2>5, <3>13, <3>14 DEF NotPassed
    <3> QED BY <2>3, <3>15
  <2> QED BY <2>4, <2>5
<1>14. BestIsAhead'
  BY <1>1, <1>13 DEF BestIsAhead
<1> QED BY <1>9, <1>10, <1>11, <1>12, <1>14 DEF SearchInv

LEMMA BacktrackKeepsInv ==
  ASSUME TableIsSound, SearchInv, Backtrack
  PROVE  SearchInv'
<1>1. /\ pc = "search" /\ should_increase = "Axis" /\ Top.axis = 5
      /\ boundary_depth # remaining_depth /\ current' = current - 1
      /\ remaining_depth' = remaining_depth + 1 /\ should_increase' = "Exponent"
      /\ pc' = pc /\ cube' = cube /\ states' = states /\ boundary_depth' = boundary_depth
      /\ solution' = solution /\ solves' = solves
  BY DEF Backtrack, Searching, B
<1>2. /\ current \in Nat /\ current = boundary_depth - remaining_depth
      /\ boundary_depth \in Nat /\ remaining_depth \in Nat
      /\ Top.axis \in Axes /\ Top.p \in Reachable
  BY <1>1, TopIsSound
<1>3. /\ current > 0 /\ current' \in Nat /\ current' \in 0 .. current /\ current' # current
      /\ current - 1 \in 0 .. current - 1
  <2>1. current \in 0 .. StatesLength - 2 /\ remaining_depth \in 0 .. boundary_depth
    BY DEF SearchInv, TypeOK
  <2> QED BY <1>1, <1>2, <2>1
<1>4. TypeOK' /\ DepthInv' /\ FoundInv'
  <2>1. current' \in 0 .. StatesLength - 2 /\ remaining_depth' \in 0 .. boundary_depth'
    BY <1>1, <1>2, <1>3, StackIsLongEnough DEF SearchInv, TypeOK
  <2> QED BY <1>1, <2>1 DEF SearchInv, TypeOK, DepthInv, FoundInv
<1>5. BoundsAreExact' /\ SymmetryInv'
  BY <1>1, <1>2, <1>3 DEF SearchInv, BoundsAreExact, OnStack, SymmetryInv
<1>6. PathInv'
  <2>1. StackIsAPath /\ \A i \in 0 .. current : states[i].p \in Reachable
    BY <1>1 DEF SearchInv, PathInv
  <2>2. StackIsAPath'
    BY <1>1, <1>2, <1>3, <2>1 DEF StackIsAPath
  <2>3. \A i \in 0 .. current' - 1 : states'[i].exponent # 0
    BY <1>1, <1>2, <1>3 DEF SearchInv, PathInv
  <2>4. ASSUME current' > 0
        PROVE  ~ has_discardable_neighbour_axis(Top'.axis, states'[current' - 1])
    <3>1. current - 1 \in 1 .. current - 1
      BY <1>1, <1>2, <2>4
    <3>2. ~ has_discardable_neighbour_axis(states[current - 1].axis, states[(current - 1) - 1])
      BY <1>1, <2>1, <3>1 DEF StackIsAPath
    <3> QED BY <1>1, <3>2 DEF Top
  <2> QED BY <1>1, <1>2, <1>3, <2>1, <2>2, <2>3, <2>4 DEF PathInv
<1>7. ASSUME boundary_depth + 1 = Away(cube)
      PROVE  \E i \in 0 .. current' : FollowsBest(i)' /\ NotPassed(i)'
  <2>1. PICK i \in 0 .. current : FollowsBest(i) /\ NotPassed(i)
    BY <1>1, <1>7 DEF SearchInv, BestIsAhead
  <2>2. i # current
    <3> SUFFICES ASSUME i = current PROVE FALSE
      OBVIOUS
    <3>1. Away(Top.p) # 0
      BY <1>2, <1>7, <2>1 DEF FollowsBest, Top
    <3>2. Best(Top.p) % 6 \in Axes
      BY <1>2, <3>1, BestDef, OrderOfMoves
    <3>3. Top.axis < Best(Top.p) % 6
      BY <1>1, <2>1 DEF NotPassed, Top
    <3> QED BY <1>1, <3>2, <3>3 DEF Axes
  <2>3. i \in 0 .. current'
    BY <1>1, <1>2, <2>2
  <2>4. FollowsBest(i)'
    BY <1>1, <2>1 DEF FollowsBest
  <2>5. NotPassed(i)'
    BY <1>1, <2>1, <2>2 DEF NotPassed
  <2> QED BY <2>3, <2>4, <2>5
<1>8. BestIsAhead'
  BY <1>1, <1>7 DEF BestIsAhead
<1> QED BY <1>4, <1>5, <1>6, <1>8 DEF SearchInv

-----------------------------------------------------------------------------
(* The ends of a search.                                                   *)

LEMMA ScrambleIsReachable ==
  ASSUME SearchInv, solves < Len(Scrambles), NEW c \in Scrambles[solves + 1]
  PROVE  /\ c \in Ball[ScrambleLength] /\ c \in Reachable /\ c \in AllPermutations
         /\ solves + 1 \in 0 .. Len(Scrambles)
<1>1. ScrambleLength \in Nat /\ ScrambleLength \in 0 .. ScrambleLength
  BY StackIsLongEnough
<1>2. Within[ScrambleLength] = Ball[ScrambleLength]
  BY <1>1 DEF Within
<1>3. Len(Scrambles) \in Nat
  BY ScramblesAreShort, LenProperties
<1>4. solves + 1 \in 1 .. Len(Scrambles)
  BY <1>3 DEF SearchInv, TypeOK
<1>5. Scrambles[solves + 1] \in SUBSET Ball[ScrambleLength]
  BY <1>2, <1>4, ScramblesAreShort, ElementOfSeq
<1> QED BY <1>1, <1>3, <1>4, <1>5, BallIsReachable, AwayDef

LEMMA FixedByType ==
  ASSUME NEW p
  PROVE  FixedBy(p) \subseteq FullSymmetries
BY DEF FixedBy

LEMMA SolveKeepsInv ==
  ASSUME TableIsSound, SearchInv, solves < Len(Scrambles), NEW c \in Scrambles[solves + 1],
         Solve(c)
  PROVE  SearchInv'
<1>1. /\ c \in Ball[ScrambleLength] /\ c \in Reachable /\ c \in AllPermutations
      /\ solves + 1 \in 0 .. Len(Scrambles)
  BY ScrambleIsReachable
<1>2. pc = "idle" /\ solves' = solves + 1 /\ cube' = c
  BY DEF Solve
<1>3. CASE c = identity
  <2>1. ASSUME solution' = <<>>,
               UNCHANGED <<pc, states, current, boundary_depth, remaining_depth, should_increase>>
        PROVE  SearchInv'
    <3>1. TypeOK' /\ DepthInv' /\ FoundInv'
      BY <1>1, <1>2, <2>1 DEF SearchInv, TypeOK, DepthInv, FoundInv
    <3>2. PathInv' /\ SymmetryInv' /\ BoundsAreExact' /\ BestIsAhead'
      BY <1>2, <2>1 DEF PathInv, SymmetryInv, BoundsAreExact, OnStack, BestIsAhead
    <3> QED BY <3>1, <3>2 DEF SearchInv
  <2> QED BY <1>3, <2>1 DEF Solve
<1>4. CASE c # identity
  <2> DEFINE top == [exponent |-> 0, axis |-> U, p |-> c, ud |-> Distance(c),
                     fb |-> Distance(FB(c)), lr |-> Distance(LR(c)),
                     equal_by_sequence |-> FixedBy(c)]
  <2>1. /\ boundary_depth' = 0 /\ remaining_depth' = 0 /\ current' = 0
        /\ states' = [states EXCEPT ![0] = top]
        /\ should_increase' = "Exponent" /\ pc' = "search" /\ solution' = solution
    BY <1>4 DEF Solve, reinitialize
  <2>2. top \in CubeStates
    <3>1. FB(c) \in Reachable /\ LR(c) \in Reachable
      BY <1>1, AxisType
    <3>2. Distance(c) \in Values /\ Distance(FB(c)) \in Values /\ Distance(LR(c)) \in Values
      BY <1>1, <3>1, TableType DEF Values, Rows
    <3>3. FixedBy(c) \in SUBSET FullSymmetries
      BY FixedByType
    <3> QED BY <1>1, <3>2, <3>3 DEF CubeStates, U, Axes
  <2>3. 0 \in 0 .. StatesLength - 1 /\ 0 \in 0 .. StatesLength - 2
    BY StackIsLongEnough
  <2>4. /\ top.p = c /\ top.axis = 0 /\ top.exponent = 0 /\ HasBoundsOf(top, c)
        /\ top.equal_by_sequence = FixedBy(c)
    BY DEF HasBoundsOf, U
  <2> HIDE DEF top
  <2>5. states' \in [0 .. StatesLength - 1 -> CubeStates] /\ states'[0] = top
    BY <2>1, <2>2, <2>3 DEF SearchInv, TypeOK
  <2>6. Away(c) \in Nat /\ Away(c) # 0
    BY <1>1, <1>4, AwayDef, AwayZero
  <2>7. TypeOK' /\ DepthInv' /\ FoundInv'
    BY <1>1, <1>2, <1>4, <2>1, <2>3, <2>5, <2>6 DEF SearchInv, TypeOK, DepthInv, FoundInv
  <2>8. PathInv'
    BY <1>1, <1>2, <2>1, <2>4, <2>5 DEF PathInv, StackIsAPath
  <2>9. BoundsAreExact'
    BY <2>1, <2>4, <2>5 DEF BoundsAreExact, OnStack, HasBoundsOf
  <2>10. SymmetryInv'
    BY <2>1, <2>4, <2>5 DEF SymmetryInv, FixedBy
  <2>11. BestIsAhead'
    <3>1. FollowsBest(0)'
      BY <1>2, <2>4, <2>5, <2>6 DEF FollowsBest
    <3>2. DiscoverOrder[Best(c)] \in Nat
      BY <1>1, <2>6, BestDef, OrderOfMoves
    <3>3. NotPassed(0)'
      BY <2>1, <2>4, <2>5, <3>2 DEF NotPassed
    <3> QED BY <2>1, <3>1, <3>3 DEF BestIsAhead
  <2> QED BY <2>7, <2>8, <2>9, <2>10, <2>11 DEF SearchInv
<1> QED BY <1>3, <1>4

(* Every state on the stack has a move when the search ends. *)
LEMMA FoundMoves ==
  ASSUME SearchInv, pc = "found", NEW i \in 0 .. current
  PROVE  MoveOf(states[i]) \in Moves
<1>1. i \in 0 .. StatesLength - 1 /\ current \in Nat
  BY StackIsLongEnough DEF SearchInv, TypeOK
<1>2. states[i] \in CubeStates
  BY <1>1 DEF SearchInv, TypeOK
<1>3. states[i].exponent # 0
  BY <1>1 DEF SearchInv, PathInv, FoundInv, Top
<1>4. states[i].axis \in Axes /\ states[i].exponent \in 1 .. 3
  BY <1>2, <1>3 DEF CubeStates
<1> QED BY <1>4, OrderOfMoves DEF MoveOf

LEMMA ReportKeepsInv ==
  ASSUME TableIsSound, SearchInv, Report
  PROVE  SearchInv'
<1>1. /\ pc = "found" /\ pc' = "idle"
      /\ solution' = [i \in 1 .. current + 1 |-> MoveOf(states[i - 1])]
      /\ cube' = cube /\ states' = states /\ current' = current
      /\ boundary_depth' = boundary_depth /\ remaining_depth' = remaining_depth
      /\ should_increase' = should_increase /\ solves' = solves
  BY DEF Report
<1>2. current \in Nat
  BY <1>1, TopIsSound
<1>3. solution' \in Seq(Moves)
  <2>1. ASSUME NEW i \in 1 .. current + 1 PROVE MoveOf(states[i - 1]) \in Moves
    BY <1>1, <1>2, FoundMoves
  <2>2. solution' \in [1 .. current + 1 -> Moves] /\ current + 1 \in Nat
    BY <1>1, <1>2, <2>1
  <2> QED BY <2>2, SeqDef
<1>4. TypeOK' /\ DepthInv' /\ FoundInv'
  BY <1>1, <1>3 DEF SearchInv, TypeOK, DepthInv, FoundInv
<1>5. PathInv' /\ SymmetryInv' /\ BoundsAreExact' /\ BestIsAhead'
  BY <1>1 DEF PathInv, SymmetryInv, BoundsAreExact, OnStack, BestIsAhead
<1> QED BY <1>4, <1>5 DEF SearchInv

LEMMA StutterKeepsInv ==
  ASSUME SearchInv, UNCHANGED vars
  PROVE  SearchInv'
<1>1. TypeOK' /\ DepthInv' /\ FoundInv' /\ PathInv'
  BY DEF vars, SearchInv, TypeOK, DepthInv, FoundInv, PathInv, StackIsAPath, Top
<1>2. SymmetryInv' /\ BoundsAreExact' /\ BestIsAhead'
  BY DEF vars, SearchInv, SymmetryInv, BoundsAreExact, OnStack, BestIsAhead, FollowsBest, NotPassed
<1> QED BY <1>1, <1>2 DEF SearchInv

LEMMA InitHasInv ==
  ASSUME Init
  PROVE  SearchInv
<1>1. TypeOK
  <2>1. Blank \in CubeStates
    BY DEF Blank, CubeStates, Values, NotSet, Axes
  <2>2. 0 \in 0 .. StatesLength - 2
    BY StackIsLongEnough
  <2>3. Len(Scrambles) \in Nat /\ solution \in Seq(Moves)
    BY ScramblesAreShort, LenProperties DEF Init
  <2> QED BY <2>1, <2>2, <2>3 DEF Init, TypeOK
<1>2. DepthInv /\ FoundInv
  <2>1. 0 \in Nat /\ ScrambleLength \in Nat /\ 0 <= ScrambleLength
    BY StackIsLongEnough
  <2>2. cube \in Ball[0]
    BY BallDef DEF Init
  <2>3. cube \in Ball[ScrambleLength]
    BY <2>1, <2>2, BallGrows
  <2> QED BY <2>3 DEF Init, DepthInv, FoundInv
<1>3. PathInv /\ SymmetryInv /\ BoundsAreExact /\ BestIsAhead
  BY DEF Init, PathInv, SymmetryInv, BoundsAreExact, OnStack, BestIsAhead
<1> QED BY <1>1, <1>2, <1>3 DEF SearchInv

-----------------------------------------------------------------------------
(* What the search returns.                                                *)

(* The last cube of a path of moves is what its moves make of the first.   *)
LEMMA AppliedAlong ==
  ASSUME NEW p, NEW moves \in Seq(Moves), NEW at,
         at[0] = p,
         \A n \in 1 .. Len(moves) : at[n] = mult(at[n - 1], CanonicalPermutation[moves[n]])
  PROVE  Applied(p, moves) = at[Len(moves)]
<1> DEFINE l == Len(moves)
           Rule(g) == g = [n \in 0 .. l |-> IF n = 0 THEN p
                                            ELSE mult(g[n - 1], CanonicalPermutation[moves[n]])]
           along == [n \in 0 .. l |-> at[n]]
           after == CHOOSE g : Rule(g)
<1>1. l \in Nat
  BY LenProperties
<1>2. Rule(along)
  <2> SUFFICES ASSUME NEW n \in 0 .. l
               PROVE  at[n] = IF n = 0 THEN p
                              ELSE mult(along[n - 1], CanonicalPermutation[moves[n]])
    OBVIOUS
  <2>1. CASE n = 0
    BY <2>1
  <2>2. CASE n # 0
    <3>1. n \in 1 .. l /\ n - 1 \in 0 .. l
      BY <1>1, <2>2
    <3> QED BY <2>2, <3>1
  <2> QED BY <2>1, <2>2
<1>3. Applied(p, moves) = after[l]
  BY DEF Applied
<1> HIDE DEF along
<1>4. Rule(after)
  BY <1>2
<1> HIDE DEF after
<1>5. ASSUME {n \in Nat : n <= l /\ after[n] # along[n]} # {} PROVE FALSE
  <2> DEFINE T == {n \in Nat : n <= l /\ after[n] # along[n]}
  <2>1. PICK n \in T : \A m \in T : n <= m
    BY <1>5, Smallest
  <2>2. n \in 0 .. l
    BY <1>1, <2>1
  <2>3. /\ after[n] = IF n = 0 THEN p ELSE mult(after[n - 1], CanonicalPermutation[moves[n]])
        /\ along[n] = IF n = 0 THEN p ELSE mult(along[n - 1], CanonicalPermutation[moves[n]])
    BY <1>2, <1>4, <2>2
  <2>4. n # 0 => n - 1 \in Nat /\ n - 1 <= l /\ n - 1 \notin T
    BY <1>1, <2>1
  <2>5. n # 0 => after[n - 1] = along[n - 1]
    BY <2>4
  <2> QED BY <2>1, <2>3, <2>5
<1>6. after[l] = along[l] /\ along[l] = at[l]
  BY <1>1, <1>5 DEF along
<1> QED BY <1>3, <1>6

(* What is reported is the path to the solved cube. *)
LEMMA ReportIsOptimal ==
  ASSUME TableIsSound, SearchInv, Report
  PROVE  SolutionIsOptimal'
<1>1. /\ pc = "found" /\ cube' = cube
      /\ solution' = [i \in 1 .. current + 1 |-> MoveOf(states[i - 1])]
  BY DEF Report
<1>2. /\ current \in Nat /\ current = boundary_depth - remaining_depth
      /\ boundary_depth \in Nat /\ remaining_depth \in Nat
  BY <1>1, TopIsSound
<1>3. remaining_depth = 0 /\ Turned(Top.p, MoveOf(Top)) = identity
  BY <1>1 DEF SearchInv, FoundInv
<1>4. current = boundary_depth
  BY <1>2, <1>3
<1>5. Len(solution') = current + 1 /\ solution' \in Seq(Moves)
  <2>1. SearchInv'
    BY ReportKeepsInv
  <2>2. solution' \in Seq(Moves)
    BY <2>1 DEF SearchInv, TypeOK
  <2>3. DOMAIN solution' = 1 .. current + 1 /\ current + 1 \in Nat
    BY <1>1, <1>2
  <2> QED BY <2>2, <2>3, LenProperties
<1>6. Applied(cube, solution') = identity
  <2> DEFINE at == [n \in 0 .. current + 1 |-> IF n = current + 1 THEN identity ELSE states[n].p]
  <2>1. at[0] = cube
    BY <1>1, <1>2 DEF SearchInv, PathInv, StackIsAPath
  <2>2. ASSUME NEW n \in 1 .. current + 1
        PROVE  at[n] = mult(at[n - 1], CanonicalPermutation[solution'[n]])
    <3>1. solution'[n] = MoveOf(states[n - 1]) /\ at[n - 1] = states[n - 1].p
      BY <1>1, <1>2
    <3>2. CASE n = current + 1
      <4>1. n - 1 = current /\ at[n] = identity
        BY <1>2, <3>2
      <4> QED BY <1>3, <3>1, <4>1 DEF Top, Turned
    <3>3. CASE n # current + 1
      <4>1. n \in 1 .. current /\ at[n] = states[n].p
        BY <1>2, <3>3
      <4> QED BY <1>1, <3>1, <4>1 DEF SearchInv, PathInv, StackIsAPath
    <3> QED BY <3>2, <3>3
  <2> HIDE DEF at
  <2>3. Applied(cube, solution') = at[Len(solution')]
    BY <1>5, <2>1, <2>2, AppliedAlong
  <2>4. at[current + 1] = identity
    BY <1>2 DEF at
  <2> QED BY <1>5, <2>3, <2>4
<1>7. /\ cube \in Reachable /\ Away(cube) \in Nat /\ Away(cube) <= ScrambleLength
      /\ boundary_depth < Away(cube)
  BY <1>1, CubeInReach DEF SearchInv, DepthInv
<1>8. current + 1 <= ScrambleLength /\ current \in 0 .. ScrambleLength
  BY <1>2, <1>4, <1>7, StackIsLongEnough
<1>9. cube \notin Within[current]
  <2>1. cube \notin Ball[current]
    BY <1>2, <1>4, <1>7, AwayDef
  <2> QED BY <1>8, <2>1 DEF Within
<1>10. Len(solution') <= ScrambleLength /\ cube \notin Within[Len(solution') - 1]
  <2>1. Len(solution') - 1 = current
    BY <1>2, <1>5
  <2> QED BY <1>5, <1>8, <1>9, <2>1
<1> QED BY <1>1, <1>6, <1>10 DEF SolutionIsOptimal

LEMMA SolveIsOptimal ==
  ASSUME NEW c, Solve(c)
  PROVE  SolutionIsOptimal'
<1>1. CASE c # identity
  BY <1>1 DEF Solve, SolutionIsOptimal
<1>2. CASE c = identity
  <2>1. cube' = identity /\ (solution' = <<>> \/ pc' = "search")
    BY <1>2 DEF Solve
  <2>2. Applied(identity, <<>>) = identity
    <3>1. <<>> \in Seq(Moves) /\ Len(<<>>) = 0
      OBVIOUS
    <3> DEFINE at == [n \in 0 .. 0 |-> identity]
    <3>2. at[0] = identity
      OBVIOUS
    <3> HIDE DEF at
    <3>3. \A n \in 1 .. Len(<<>>) :
            at[n] = mult(at[n - 1], CanonicalPermutation[(<<>>)[n]])
      BY <3>1
    <3>4. Applied(identity, <<>>) = at[Len(<<>>)]
      BY <3>1, <3>2, <3>3, AppliedAlong
    <3> QED BY <3>1, <3>2, <3>4
  <2> QED BY <2>1, <2>2 DEF SolutionIsOptimal
<1> QED BY <1>1, <1>2

-----------------------------------------------------------------------------
(* Theorems.                                                               *)

FullInv == SearchInv /\ SolutionIsOptimal

LEMMA NextKeepsInv ==
  ASSUME TableIsSound, FullInv, [Next]_vars
  PROVE  FullInv'
<1> USE DEF FullInv
<1>1. ASSUME solves < Len(Scrambles), NEW c \in Scrambles[solves + 1], Solve(c) PROVE FullInv'
  BY <1>1, SolveKeepsInv, SolveIsOptimal
<1>2. CASE Round
  <2>1. SearchInv'
    BY <1>2, NextExponentKeepsInv, ExponentsExhaustedKeepsInv, NextAxisKeepsInv,
       SkipAxisKeepsInv, DeepenKeepsInv, BacktrackKeepsInv DEF Round
  <2>2. pc' # "idle"
    <3>1. CASE ExponentsExhausted \/ SkipAxis \/ Backtrack
      BY <3>1 DEF ExponentsExhausted, SkipAxis, Backtrack, Searching
    <3>2. CASE NextExponent \/ NextAxis \/ Deepen
      BY <3>2 DEF NextExponent, NextAxis, Deepen, Searching, Try
    <3> QED BY <1>2, <3>1, <3>2 DEF Round
  <2> QED BY <2>1, <2>2 DEF SolutionIsOptimal
<1>3. CASE Report
  BY <1>3, ReportKeepsInv, ReportIsOptimal
<1>4. CASE UNCHANGED vars
  <2>1. SolutionIsOptimal'
    BY <1>4 DEF SolutionIsOptimal, vars
  <2> QED BY <1>4, <2>1, StutterKeepsInv
<1> QED BY <1>1, <1>2, <1>3, <1>4 DEF Next

LEMMA InvHolds ==
  ASSUME TableIsSound
  PROVE  Spec => []FullInv
<1>1. Init => FullInv
  BY InitHasInv DEF Init, FullInv, SolutionIsOptimal
<1>2. FullInv /\ [Next]_vars => FullInv'
  BY NextKeepsInv
<1> QED BY <1>1, <1>2, PTL DEF Spec

(* The types, and with them the bounds of the stack (the array of 30       *)
(* states, solve.cpp:159) and of RelativePruning's rows.                   *)
THEOREM TypeCorrect ==
  ASSUME TableIsSound
  PROVE  Spec => []TypeOK
<1>1. FullInv => TypeOK
  BY DEF FullInv, SearchInv
<1> QED BY <1>1, InvHolds, PTL

(* The search never looks at a depth before all smaller ones are proved to *)
(* have no solution: nothing that solve.cpp:206-214, 309-312 and 316-338   *)
(* leave out was needed.                                                   *)
THEOREM DepthJustified ==
  ASSUME TableIsSound
  PROVE  Spec => []DepthIsJustified
<1>1. FullInv => DepthIsJustified
  <2> SUFFICES ASSUME FullInv, pc # "idle"
               PROVE  boundary_depth < ScrambleLength /\ cube \notin Within[boundary_depth]
    BY DEF DepthIsJustified
  <2>1. /\ cube \in Reachable /\ Away(cube) \in Nat /\ Away(cube) <= ScrambleLength
        /\ boundary_depth < Away(cube) /\ boundary_depth \in Nat
    BY CubeInReach DEF FullInv, SearchInv, DepthInv, TypeOK
  <2>2. boundary_depth < ScrambleLength /\ boundary_depth \in 0 .. ScrambleLength
    BY <2>1, StackIsLongEnough
  <2>3. cube \notin Ball[boundary_depth]
    BY <2>1, AwayDef
  <2> QED BY <2>2, <2>3 DEF Within
<1> QED BY <1>1, InvHolds, PTL

(* What solve() returns solves the cube it was given, in as few moves as   *)
(* any solution has.                                                       *)
THEOREM SolutionsAreOptimal ==
  ASSUME TableIsSound
  PROVE  Spec => []SolutionIsOptimal
<1>1. FullInv => SolutionIsOptimal
  BY DEF FullInv
<1> QED BY <1>1, InvHolds, PTL

(* The two bits per move keep the bounds of every level exact              *)
(* (solve.cpp:247-260).                                                    *)
THEOREM BoundsStayExact ==
  ASSUME TableIsSound
  PROVE  Spec => []BoundsAreExact
<1>1. FullInv => BoundsAreExact
  BY DEF FullInv, SearchInv
<1> QED BY <1>1, InvHolds, PTL

(* The stack is a path of moves none of which should have been discarded   *)
(* (solve.cpp:290-294, 348-358).                                           *)
THEOREM StackStaysAPath ==
  ASSUME TableIsSound
  PROVE  Spec => []StackIsAPath
<1>1. FullInv => StackIsAPath
  BY DEF FullInv, SearchInv, PathInv, StackIsAPath
<1> QED BY <1>1, InvHolds, PTL

(* The symmetries used to leave out moves fix the cube on top, and none    *)
(* that fixes the path is missing (solve.cpp:309, 349).                    *)
THEOREM SymmetriesStayOfTheTop ==
  ASSUME TableIsSound
  PROVE  Spec => []SymmetriesAreOfTheTop
<1>1. FullInv => SymmetriesAreOfTheTop
  <2> SUFFICES ASSUME FullInv, pc # "idle" PROVE SymmetriesAreOfTheTop
    BY DEF SymmetriesAreOfTheTop
  <2>1. current \in 0 .. current
    BY TopIsSound DEF FullInv
  <2> QED BY <2>1 DEF FullInv, SearchInv, SymmetryInv, SymmetriesAreOfTheTop, Top
<1> QED BY <1>1, InvHolds, PTL

(* Every round leads to a place where the search was not yet, so that no   *)
(* round is made twice (solve.cpp:269-367).                                *)
LEMMA TryGoesOn ==
  ASSUME TypeOK, NEW from, NEW depth, Try(from, depth)
  PROVE  /\ current \in Nat /\ (current' = current \/ current' = current + 1)
         /\ \A i \in 0 .. current - 1 : states'[i] = states[i]
         /\ states'[current] = from
<1> DEFINE next == execute_move(states[current + 1], from, MoveOf(from))
<1>1. /\ current \in Nat /\ current \in 0 .. StatesLength - 1 /\ StatesLength \in Nat
      /\ states \in [0 .. StatesLength - 1 -> CubeStates]
  BY StackIsLongEnough DEF TypeOK
<1>2. /\ current' = current \/ current' = current + 1
      /\ \/ states' = [states EXCEPT ![current] = from]
         \/ \E s \in {next, Enter(next, from, MoveOf(from))} :
              states' = [states EXCEPT ![current] = from, ![current + 1] = s]
  BY DEF Try
<1>3. ASSUME NEW s, states' = [states EXCEPT ![current] = from, ![current + 1] = s]
      PROVE  /\ \A i \in 0 .. current - 1 : states'[i] = states[i]
             /\ states'[current] = from
  BY <1>1, <1>3
<1>4. CASE states' = [states EXCEPT ![current] = from]
  BY <1>1, <1>2, <1>4
<1> HIDE DEF next
<1> QED BY <1>1, <1>2, <1>3, <1>4

LEMMA LaterMoveIsAfter ==
  ASSUME current \in Nat, current' \in Nat, current <= current',
         boundary_depth' = boundary_depth,
         \A i \in 0 .. current - 1 : states'[i] = states[i],
         4 * states'[current].axis + states'[current].exponent > 4 * Top.axis + Top.exponent
  PROVE  After(Position', Position)
<1> DEFINE old == Position.path
           new == Position'.path
<1>1. /\ DOMAIN old = 0 .. current /\ DOMAIN new = 0 .. current'
      /\ current \in DOMAIN old /\ current \in DOMAIN new
  BY DEF Position
<1>2. \A j \in 0 .. current - 1 : new[j] = old[j]
  BY DEF Position
<1>3. new[current] > old[current]
  BY DEF Position, Top
<1>4. Position'.depth = Position.depth
  BY DEF Position
<1> HIDE DEF old, new
<1>5. current \in DOMAIN old \cap DOMAIN new
  BY <1>1
<1>6. \E i \in DOMAIN old \cap DOMAIN new :
         (\A j \in 0 .. i - 1 : new[j] = old[j]) /\ new[i] > old[i]
  BY <1>2, <1>3, <1>5
<1> QED BY <1>4, <1>6 DEF After, old, new

LEMMA RoundAdvances ==
  ASSUME SearchInv, Round
  PROVE  After(Position', Position)
<1>1. pc = "search" /\ TypeOK
  <2>1. CASE ExponentsExhausted \/ SkipAxis \/ Backtrack
    BY <2>1 DEF ExponentsExhausted, SkipAxis, Backtrack, Searching, SearchInv
  <2>2. CASE NextExponent \/ NextAxis \/ Deepen
    BY <2>2 DEF NextExponent, NextAxis, Deepen, Searching, SearchInv
  <2> QED BY <2>1, <2>2 DEF Round
<1>2. /\ current \in Nat /\ boundary_depth \in Nat /\ current = boundary_depth - remaining_depth
      /\ Top \in CubeStates /\ Top.axis \in 0 .. 5 /\ Top.exponent \in 0 .. 3
  BY <1>1, TopIsSound DEF Axes
<1>3. CASE NextExponent
  <2> DEFINE from == [Top EXCEPT !.exponent = @ + 1]
  <2>1. Try(from, remaining_depth) /\ boundary_depth' = boundary_depth
    BY <1>3 DEF NextExponent
  <2>2. from.axis = Top.axis /\ from.exponent = Top.exponent + 1
    BY <1>2 DEF CubeStates
  <2> HIDE DEF from
  <2>3. /\ current' = current \/ current' = current + 1
        /\ \A i \in 0 .. current - 1 : states'[i] = states[i]
        /\ states'[current] = from
    BY <1>1, <2>1, TryGoesOn
  <2>4. 4 * from.axis + from.exponent > 4 * Top.axis + Top.exponent
    BY <1>2, <2>2
  <2> QED BY <1>2, <2>1, <2>3, <2>4, LaterMoveIsAfter
<1>4. CASE NextAxis
  <2> DEFINE from == [Top EXCEPT !.axis = @ + 1, !.exponent = 1]
  <2>1. Try(from, remaining_depth) /\ boundary_depth' = boundary_depth
    BY <1>4 DEF NextAxis
  <2>2. from.axis = Top.axis + 1 /\ from.exponent = 1
    BY <1>2 DEF CubeStates
  <2> HIDE DEF from
  <2>3. /\ current' = current \/ current' = current + 1
        /\ \A i \in 0 .. current - 1 : states'[i] = states[i]
        /\ states'[current] = from
    BY <1>1, <2>1, TryGoesOn
  <2>4. 4 * from.axis + from.exponent > 4 * Top.axis + Top.exponent
    BY <1>2, <2>2
  <2> QED BY <1>2, <2>1, <2>3, <2>4, LaterMoveIsAfter
<1>5. CASE SkipAxis
  <2>1. current \in 0 .. StatesLength - 1 /\ states \in [0 .. StatesLength - 1 -> CubeStates]
    BY <1>1, StackIsLongEnough DEF TypeOK
  <2>2. /\ boundary_depth' = boundary_depth /\ current' = current
        /\ states' = [states EXCEPT ![current].axis = @ + 1, ![current].exponent = 1]
    BY <1>5 DEF SkipAxis
  <2> DEFINE from == [Top EXCEPT !.axis = @ + 1, !.exponent = 1]
  <2>3. states' = [states EXCEPT ![current] = from]
    BY <2>1, <2>2 DEF Top
  <2>4. from.axis = Top.axis + 1 /\ from.exponent = 1
    BY <1>2 DEF CubeStates
  <2> HIDE DEF from
  <2>5. states'[current] = from /\ \A i \in 0 .. current - 1 : states'[i] = states[i]
    BY <1>2, <2>1, <2>3
  <2>6. 4 * from.axis + from.exponent > 4 * Top.axis + Top.exponent
    BY <1>2, <2>4
  <2>7. current' \in Nat /\ current <= current'
    BY <1>2, <2>2
  <2> QED BY <1>2, <2>2, <2>5, <2>6, <2>7, LaterMoveIsAfter
<1>6. CASE ExponentsExhausted
  <2>1. /\ should_increase = "Exponent" /\ should_increase' = "Axis"
        /\ states' = states /\ current' = current /\ boundary_depth' = boundary_depth
    BY <1>6 DEF ExponentsExhausted, Searching
  <2>2. /\ Position'.depth = Position.depth /\ Position'.path = Position.path
        /\ Position'.exhausted /\ ~ Position.exhausted
    BY <2>1 DEF Position
  <2> QED BY <2>2 DEF After
<1>7. CASE Backtrack
  <2>1. /\ states' = states /\ current' = current - 1 /\ boundary_depth' = boundary_depth
    BY <1>7 DEF Backtrack
  <2>2. /\ DOMAIN Position.path = 0 .. current /\ DOMAIN Position'.path = 0 .. current - 1
        /\ \A j \in 0 .. current - 1 : Position'.path[j] = Position.path[j]
        /\ Position'.depth = Position.depth
    BY <1>2, <2>1 DEF Position
  <2>3. current \in 0 .. current /\ current \notin 0 .. current - 1
        /\ 0 .. current - 1 \subseteq 0 .. current
    BY <1>2
  <2>4. Position'.path # Position.path
    BY <2>2, <2>3
  <2> QED BY <2>2, <2>3, <2>4 DEF After
<1>8. CASE Deepen
  <2>1. Position'.depth = Position.depth + 1 /\ Position.depth \in Nat
    BY <1>2, <1>8 DEF Deepen, Position
  <2> QED BY <2>1 DEF After
<1> QED BY <1>3, <1>4, <1>5, <1>6, <1>7, <1>8 DEF Round

THEOREM SearchKeepsAdvancing ==
  ASSUME TableIsSound
  PROVE  Spec => SearchAdvances
<1>1. FullInv /\ [Next]_vars => [pc = "search" => After(Position', Position)]_vars
  <2> SUFFICES ASSUME FullInv, Next, pc = "search" PROVE After(Position', Position)
    OBVIOUS
  <2>1. Round
    BY DEF Next, Solve, Report
  <2> QED BY <2>1, RoundAdvances DEF FullInv
<1> QED BY <1>1, InvHolds, PTL DEF Spec, SearchAdvances
=============================================================================
