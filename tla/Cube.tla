-------------------------------- MODULE Cube --------------------------------
(***************************************************************************)
(* The cube of permutation.cpp and symmetry.cpp: permutations of the 20    *)
(* cubies with their orientations, the 18 moves, and the symmetries of the *)
(* cube by which moves and positions are conjugated.                       *)
(*                                                                         *)
(* Everything is indexed from 0, as in the code.                           *)
(***************************************************************************)
EXTENDS Integers, Sequences, FiniteSets, SequencesExt

(* CornerCubieIndex *)
URF == 0
ULF == 1
DRF == 2
DLF == 3
URB == 4
ULB == 5
DRB == 6
DLB == 7

(* EdgeCubieIndex; the edges of the UD slice are the last four. *)
UF == 0
DF == 1
UB == 2
DB == 3
UL == 4
UR == 5
DL == 6
DR == 7
LF == 8
RB == 9
LB == 10
RF == 11

CornerCubies == URF .. DLB
EdgeCubies == UF .. RF

(* A sequence indexed from 0. *)
From0(s) == [i \in 0 .. Len(s) - 1 |-> s[i + 1]]

(* A permutation: for every corner and every edge place, the cubie that    *)
(* replaces it and how that one is turned.  A corner is turned by 0 (I), 1 *)
(* (G) or 2 (G2) thirds, or reflected first: 3 (Re), 4 (GRe), 5 (G2Re).    *)
Permutation(cr, co, er, eo) == [corner |-> cr, twist |-> co, edge |-> er, flip |-> eo]

Perm(cr, co, er, eo) == Permutation(From0(cr), From0(co), From0(er), From0(eo))

(* Composition of corner orientations: a reflection reverses the turns. *)
orientation_sum == From0(
  <<From0(<<0, 1, 2, 3, 4, 5>>), From0(<<1, 2, 0, 4, 5, 3>>), From0(<<2, 0, 1, 5, 3, 4>>),
    From0(<<3, 5, 4, 0, 2, 1>>), From0(<<4, 3, 5, 1, 0, 2>>), From0(<<5, 4, 3, 2, 1, 0>>)>>)

(* Permutation::mult *)
mult(a, b) ==
  Permutation([i \in CornerCubies |-> a.corner[b.corner[i]]],
              [i \in CornerCubies |-> orientation_sum[a.twist[b.corner[i]]][b.twist[i]]],
              [i \in EdgeCubies |-> a.edge[b.edge[i]]],
              [i \in EdgeCubies |-> (a.flip[b.edge[i]] + b.flip[i]) % 2])

identity ==
  Permutation([i \in CornerCubies |-> i], [i \in CornerCubies |-> 0],
              [i \in EdgeCubies |-> i], [i \in EdgeCubies |-> 0])

mult_vector(perms) == FoldLeft(mult, identity, perms)

power(p, times) == mult_vector([i \in 1 .. times |-> p])

-----------------------------------------------------------------------------
(* The moves. *)

(* Ui, Ri, Fi, Di, Li, Bi *)
FacePermutationInverse == From0(
  <<Perm(<<ULF, ULB, DRF, DLF, URF, URB, DRB, DLB>>, <<0, 0, 0, 0, 0, 0, 0, 0>>,
         <<UL, DF, UR, DB, UB, UF, DL, DR, LF, RB, LB, RF>>, <<0, 0, 0, 0, 0, 0, 0, 0, 0, 0, 0, 0>>),
    Perm(<<URB, ULF, URF, DLF, DRB, ULB, DRF, DLB>>, <<2, 0, 1, 0, 1, 0, 2, 0>>,
         <<UF, DF, UB, DB, UL, RB, DL, RF, LF, DR, LB, UR>>, <<0, 0, 0, 0, 0, 0, 0, 0, 0, 0, 0, 0>>),
    Perm(<<DRF, URF, DLF, ULF, URB, ULB, DRB, DLB>>, <<1, 2, 2, 1, 0, 0, 0, 0>>,
         <<RF, LF, UB, DB, UL, UR, DL, DR, UF, RB, LB, DF>>, <<1, 1, 0, 0, 0, 0, 0, 0, 1, 0, 0, 1>>),
    Perm(<<URF, ULF, DRB, DRF, URB, ULB, DLB, DLF>>, <<0, 0, 0, 0, 0, 0, 0, 0>>,
         <<UF, DR, UB, DL, UL, UR, DF, DB, LF, RB, LB, RF>>, <<0, 0, 0, 0, 0, 0, 0, 0, 0, 0, 0, 0>>),
    Perm(<<URF, DLF, DRF, DLB, URB, ULF, DRB, ULB>>, <<0, 1, 0, 2, 0, 2, 0, 1>>,
         <<UF, DF, UB, DB, LF, UR, LB, DR, DL, RB, UL, RF>>, <<0, 0, 0, 0, 0, 0, 0, 0, 0, 0, 0, 0>>),
    Perm(<<URF, ULF, DRF, DLF, ULB, DLB, URB, DRB>>, <<0, 0, 0, 0, 2, 1, 1, 2>>,
         <<UF, DF, LB, RB, UL, UR, DL, DR, LF, UB, DB, RF>>, <<0, 0, 1, 1, 0, 0, 0, 0, 0, 1, 1, 0>>)>>)

Axes == 0 .. 5    \* U, R, F, D, L, B
Moves == 0 .. 17  \* the quarter turns, then the half turns, then the inverses

CanonicalPermutation ==
  [m \in Moves |-> power(FacePermutationInverse[m % 6], 3 - m \div 6)]

CanonicalPermutationIndex(p) == CHOOSE m \in Moves : CanonicalPermutation[m] = p

-----------------------------------------------------------------------------
(* The symmetries. *)

S_F2 == 0
S_U4 == 1
S_LR2 == 2
S_URF3 == 3

FundamentalSymmetry == From0(
  <<Perm(<<DLF, DRF, ULF, URF, DLB, DRB, ULB, URB>>, <<0, 0, 0, 0, 0, 0, 0, 0>>,
         <<DF, UF, DB, UB, DR, DL, UR, UL, RF, LB, RB, LF>>, <<0, 0, 0, 0, 0, 0, 0, 0, 0, 0, 0, 0>>),
    Perm(<<URB, URF, DRB, DRF, ULB, ULF, DLB, DLF>>, <<0, 0, 0, 0, 0, 0, 0, 0>>,
         <<UR, DR, UL, DL, UF, UB, DF, DB, RF, LB, LF, RB>>, <<0, 0, 0, 0, 0, 0, 0, 0, 1, 1, 1, 1>>),
    Perm(<<ULF, URF, DLF, DRF, ULB, URB, DLB, DRB>>, <<3, 3, 3, 3, 3, 3, 3, 3>>,
         <<UF, DF, UB, DB, UR, UL, DR, DL, RF, LB, RB, LF>>, <<0, 0, 0, 0, 0, 0, 0, 0, 0, 0, 0, 0>>),
    Perm(<<URF, DRF, URB, DRB, ULF, DLF, ULB, DLB>>, <<1, 2, 2, 1, 2, 1, 1, 2>>,
         <<RF, RB, LF, LB, DF, UF, DB, UB, DR, UL, DL, UR>>, <<0, 0, 0, 0, 1, 1, 1, 1, 1, 1, 1, 1>>)>>)

(* A turn about the axis through the L and R faces: it takes the UD axis   *)
(* to the FB axis.                                                         *)
SymmetryS_R4i ==
  mult_vector(<<FundamentalSymmetry[S_URF3], FundamentalSymmetry[S_U4], FundamentalSymmetry[S_F2]>>)

(* The product of some of the fundamental symmetries, each to a power. *)
SymmetryProduct(factors, powers) ==
  mult_vector([i \in DOMAIN factors |-> power(FundamentalSymmetry[factors[i]], powers[i])])

(* All 48 symmetries. *)
FullSymmetries == 0 .. 47

FullSymmetry ==
  [n \in FullSymmetries |->
     SymmetryProduct(<<S_URF3, S_F2, S_U4, S_LR2>>,
                     <<n \div 16, (n \div 8) % 2, (n \div 2) % 4, n % 2>>)]

FullInverseSymmetryIndex ==
  [s \in FullSymmetries |->
     CHOOSE t \in FullSymmetries : mult(FullSymmetry[s], FullSymmetry[t]) = identity]

FullSymmetryIndex(p) == CHOOSE s \in FullSymmetries : FullSymmetry[s] = p

(* A position as it is seen through a symmetry. *)
FullSymmetryConjugate(p, s) ==
  mult(mult(FullSymmetry[s], p), FullSymmetry[FullInverseSymmetryIndex[s]])

(* The move that does on a conjugated cube what m does on the cube. *)
FullCanonicalPermutationConjugate ==
  [m \in Moves |-> [s \in FullSymmetries |->
     CanonicalPermutationIndex(FullSymmetryConjugate(CanonicalPermutation[m], s))]]

(* The symmetries that turn the FB and the LR axis into the UD axis. *)
fb_transform == FullSymmetryIndex(SymmetryS_R4i)
lr_transform == FullSymmetryIndex(mult(SymmetryS_R4i, FundamentalSymmetry[S_U4]))
=============================================================================
