------------------------------ MODULE CubeGroup ------------------------------
(***************************************************************************)
(* What proofs about the cube use of its tables.  The tables have no       *)
(* parameter: TLC evaluates each of the assumptions below for all of them. *)
(***************************************************************************)
EXTENDS Cube

Twists == 0 .. 5

(* Whatever the type Permutation can hold, cubes and others. *)
AllPermutations ==
  [corner : [CornerCubies -> CornerCubies], twist : [CornerCubies -> Twists],
   edge : [EdgeCubies -> EdgeCubies], flip : [EdgeCubies -> {0, 1}]]

(* orientation_sum is the multiplication of a group of six. *)
ASSUME TwistsAreAGroup ==
  \A a, b, c \in Twists :
    /\ orientation_sum[a][b] \in Twists
    /\ orientation_sum[orientation_sum[a][b]][c] = orientation_sum[a][orientation_sum[b][c]]
    /\ orientation_sum[a][0] = a /\ orientation_sum[0][a] = a

ASSUME TablesHavePermutations ==
  /\ \A m \in Moves : CanonicalPermutation[m] \in AllPermutations
  /\ \A s \in FullSymmetries : FullSymmetry[s] \in AllPermutations

(* FullInverseSymmetryIndex is the inverse on both sides. *)
ASSUME SymmetriesHaveInverses ==
  \A s \in FullSymmetries :
    LET t == FullInverseSymmetryIndex[s]
    IN  /\ t \in FullSymmetries
        /\ mult(FullSymmetry[s], FullSymmetry[t]) = identity
        /\ mult(FullSymmetry[t], FullSymmetry[s]) = identity

(* Every symmetry maps every move to a move. *)
ASSUME MovesAreConjugated ==
  \A m \in Moves, s \in FullSymmetries :
    LET n == FullCanonicalPermutationConjugate[m][s]
    IN  /\ n \in Moves
        /\ CanonicalPermutation[n] = FullSymmetryConjugate(CanonicalPermutation[m], s)

ASSUME MovesCanBeUndone ==
  \A m \in Moves : \E n \in Moves :
    mult(CanonicalPermutation[m], CanonicalPermutation[n]) = identity

(* Two turns of one face are a single one or none, and one turn of it is   *)
(* another one followed by a third.                                        *)
ASSUME TurnsOfAFace ==
  \A m, n \in Moves :
    m % 6 = n % 6 =>
      LET twice == mult(CanonicalPermutation[m], CanonicalPermutation[n])
      IN  /\ twice = identity \/ \E o \in Moves : twice = CanonicalPermutation[o]
          /\ m # n => \E o \in Moves :
               mult(CanonicalPermutation[m], CanonicalPermutation[o]) = CanonicalPermutation[n]

ASSUME OppositeFacesCommute ==
  \A m, n \in Moves :
    (m % 6) + 3 = n % 6 =>
      mult(CanonicalPermutation[m], CanonicalPermutation[n]) =
        mult(CanonicalPermutation[n], CanonicalPermutation[m])

(* Seen through fb_transform, turns of F and B are turns of U and D, and   *)
(* so are those of L and R through lr_transform.                           *)
ASSUME AxesAreTurned ==
  /\ fb_transform \in FullSymmetries /\ lr_transform \in FullSymmetries
  /\ \A m \in Moves :
       /\ m % 3 = 2 => FullCanonicalPermutationConjugate[m][fb_transform] % 3 = 0
       /\ m % 3 = 1 => FullCanonicalPermutationConjugate[m][lr_transform] % 3 = 0
=============================================================================
