--------------------------- MODULE SymCoordinates ---------------------------
(***************************************************************************)
(* How coordinate.cpp and movetable.cpp number the positions that the      *)
(* pruning table is about.  A position has three coordinates: where the    *)
(* edges of the UD slice are ("raw"), how all edges are flipped and how    *)
(* all corners are turned.  Raw coordinates that a symmetry maps to each   *)
(* other form a class; one raw coordinate stands for its class, and the    *)
(* "sym" coordinate of another one is the class and a symmetry that leads  *)
(* to it.                                                                  *)
(*                                                                         *)
(* The real cube has 11880 raw coordinates and 788 classes; the            *)
(* definitions are for any puzzle whose positions have such coordinates.   *)
(***************************************************************************)
EXTENDS Integers, FiniteSets, FiniteSetsExt

CONSTANTS
  UDSliceSortedCoordinateLength,
  EdgeOrientationCoordinateLength,
  CornerOrientationCoordinateLength,
  CanonicalPermutationLength,
  SymmetryLength,
  Multiply(_, _),            \* a position after a move
  SymmetryConjugate(_, _),   \* a position as seen through a symmetry
  SymmetryProduct(_, _),     \* the symmetry that is two in a row
  MoveConjugate(_, _)        \* a move as seen through a symmetry

Raws == 0 .. UDSliceSortedCoordinateLength - 1
Edges == 0 .. EdgeOrientationCoordinateLength - 1
Corners == 0 .. CornerOrientationCoordinateLength - 1
AllMoves == 0 .. CanonicalPermutationLength - 1
Symmetries == 0 .. SymmetryLength - 1

(* A position, as far as the three coordinates tell. *)
Position(ud, edge, corner) == [ud |-> ud, edge |-> edge, corner |-> corner]
Positions == [ud : Raws, edge : Edges, corner : Corners]
Solved == Position(0, 0, 0)

(* The inverses of the coordinates: a position that has a given one. *)
UDSliceSortedEdgeOrientationInverse(ud, edge) == Position(ud, edge, 0)
UDSliceSortedCoordinateInverse(ud) == Position(ud, 0, 0)
EdgeOrientationCoordinateInverse(edge) == Position(0, edge, 0)
CornerOrientationCoordinateInverse(corner) == Position(0, 0, corner)

(* The symmetries are numbered in no particular order; number 0 is not the *)
(* one that does nothing.                                                  *)
IdentitySymmetry == CHOOSE i \in Symmetries : \A s \in Symmetries : SymmetryProduct(i, s) = s

InverseSymmetryIndex ==
  [s \in Symmetries |-> CHOOSE t \in Symmetries : SymmetryProduct(s, t) = IdentitySymmetry]

-----------------------------------------------------------------------------
(* What makes it a puzzle with such coordinates.                           *)

ASSUME ThereAreCoordinates ==
  /\ UDSliceSortedCoordinateLength \in Nat \ {0}
  /\ EdgeOrientationCoordinateLength \in Nat \ {0}
  /\ CornerOrientationCoordinateLength \in Nat \ {0}
  /\ CanonicalPermutationLength \in Nat
  /\ SymmetryLength \in Nat \ {0}

(* A move needs of each coordinate no other one, and can be undone. *)
ASSUME MovesMoveCoordinates ==
  \A m \in AllMoves :
    /\ \A p \in Positions :
         /\ Multiply(p, m) \in Positions
         /\ Multiply(p, m).ud = Multiply(UDSliceSortedCoordinateInverse(p.ud), m).ud
         /\ Multiply(p, m).edge = Multiply(EdgeOrientationCoordinateInverse(p.edge), m).edge
         /\ Multiply(p, m).corner = Multiply(CornerOrientationCoordinateInverse(p.corner), m).corner
    /\ \E n \in AllMoves : \A p \in Positions : Multiply(Multiply(p, m), n) = p

(* The symmetries are a group, and act on positions. *)
ASSUME SymmetriesAreAGroup ==
  /\ \A s, t \in Symmetries : SymmetryProduct(s, t) \in Symmetries
  /\ \A s, t, u \in Symmetries :
       SymmetryProduct(SymmetryProduct(s, t), u) = SymmetryProduct(s, SymmetryProduct(t, u))
  /\ IdentitySymmetry \in Symmetries
  /\ \A s \in Symmetries :
       /\ SymmetryProduct(IdentitySymmetry, s) = s
       /\ \E t \in Symmetries : SymmetryProduct(s, t) = IdentitySymmetry
                                 /\ SymmetryProduct(t, s) = IdentitySymmetry

ASSUME SymmetriesActOnPositions ==
  /\ \A p \in Positions :
       /\ SymmetryConjugate(p, IdentitySymmetry) = p
       /\ \A s, t \in Symmetries :
            SymmetryConjugate(SymmetryConjugate(p, t), s) = SymmetryConjugate(p, SymmetryProduct(s, t))
  /\ \A s \in Symmetries : SymmetryConjugate(Solved, s) = Solved

(* What a symmetry makes of the edges depends on where they are, and of    *)
(* the other two coordinates on nothing else.                              *)
ASSUME SymmetriesMapCoordinates ==
  \A p \in Positions, s \in Symmetries :
    LET q == SymmetryConjugate(p, s)
    IN  /\ q \in Positions
        /\ q.ud = SymmetryConjugate(UDSliceSortedCoordinateInverse(p.ud), s).ud
        /\ q.edge = SymmetryConjugate(UDSliceSortedEdgeOrientationInverse(p.ud, p.edge), s).edge
        /\ q.corner = SymmetryConjugate(CornerOrientationCoordinateInverse(p.corner), s).corner

(* A symmetry maps moves to moves. *)
ASSUME SymmetriesMapMoves ==
  \A m \in AllMoves, s \in Symmetries :
    /\ MoveConjugate(m, s) \in AllMoves
    /\ \A p \in Positions :
         SymmetryConjugate(Multiply(p, m), s) = Multiply(SymmetryConjugate(p, s), MoveConjugate(m, s))

-----------------------------------------------------------------------------
(* Classes and sym coordinates. *)

(* The raw coordinates that stand for their classes: the smallest ones.    *)
Representants ==
  {r \in Raws : \A s \in Symmetries :
     SymmetryConjugate(UDSliceSortedCoordinateInverse(r), s).ud >= r}

UDSliceSortedClassCount == Cardinality(Representants)
Classes == 0 .. UDSliceSortedClassCount - 1

(* They are numbered in ascending order. *)
UDSliceSortedClass2Representant ==
  [class \in Classes |->
     CHOOSE r \in Representants : Cardinality({q \in Representants : q < r}) = class]

SymUDSliceSortedCoordinateLength == SymmetryLength * UDSliceSortedClassCount
SymUDSliceSortedCoordinates == 0 .. SymUDSliceSortedCoordinateLength - 1

Representant(class) == UDSliceSortedClass2Representant[class]

SymUDSliceSortedClass(sym) == sym \div SymmetryLength
SymUDSliceSortedSymmetry(sym) == sym % SymmetryLength

(* A symmetry leads from the representant of a class to a raw coordinate. *)
UDSliceSortedSym2Raw ==
  [sym \in SymUDSliceSortedCoordinates |->
     SymmetryConjugate(UDSliceSortedCoordinateInverse(Representant(SymUDSliceSortedClass(sym))),
                       SymUDSliceSortedSymmetry(sym)).ud]

(* Several may lead to the same one; the first of them is its coordinate.  *)
UDSliceSortedRaw2Sym ==
  [r \in Raws |-> {sym \in SymUDSliceSortedCoordinates : UDSliceSortedSym2Raw[sym] = r}]

SymUDSliceSortedCoordinate(p) == Min(UDSliceSortedRaw2Sym[p.ud])

-----------------------------------------------------------------------------
(* Orientations under a symmetry.  The corners' change depends on nothing  *)
(* else.  The edges' depends on where the edges are: the table is only for *)
(* the way from a raw coordinate back to the representant of its class, by *)
(* the inverse of the symmetry that leads there.                           *)
CornerOrientationConjugate ==
  [c \in Corners |-> [s \in Symmetries |->
     SymmetryConjugate(CornerOrientationCoordinateInverse(c), s).corner]]

EdgeOrientationConjugate ==
  [e \in Edges |-> [class \in Classes |-> [s \in Symmetries |->
     LET there == UDSliceSortedSym2Raw[class * SymmetryLength + InverseSymmetryIndex[s]]
     IN  SymmetryConjugate(UDSliceSortedEdgeOrientationInverse(there, e), s).edge]]]

-----------------------------------------------------------------------------
(* Moves. *)

CornerOrientationMove ==
  [c \in Corners |-> [m \in AllMoves |->
     Multiply(CornerOrientationCoordinateInverse(c), m).corner]]

EdgeOrientationMove ==
  [e \in Edges |-> [m \in AllMoves |-> Multiply(EdgeOrientationCoordinateInverse(e), m).edge]]

SymUDSliceSortedRepresentantMove ==
  [class \in Classes |-> [m \in AllMoves |->
     SymUDSliceSortedCoordinate(
       Multiply(UDSliceSortedCoordinateInverse(Representant(class)), m))]]

(* Mistake: the move is conjugated by the symmetry, not by its inverse. *)
SymMoveByTheSymmetry(sym, move) ==
  LET i == SymUDSliceSortedSymmetry(sym)
      next == SymUDSliceSortedRepresentantMove[SymUDSliceSortedClass(sym)][MoveConjugate(move, i)]
  IN  SymUDSliceSortedClass(next) * SymmetryLength
        + SymmetryProduct(i, SymUDSliceSortedSymmetry(next))

(* A move of any position is a conjugated move of the representant: with   *)
(* S the symmetry and R the representant, S R S' M = S (R (S' M S)) S'.    *)
SymUDSliceSortedMove(sym, move) ==
  LET i == SymUDSliceSortedSymmetry(sym)
      next == SymUDSliceSortedRepresentantMove
                [SymUDSliceSortedClass(sym)][MoveConjugate(move, InverseSymmetryIndex[i])]
  IN  SymUDSliceSortedClass(next) * SymmetryLength
        + SymmetryProduct(i, SymUDSliceSortedSymmetry(next))
=============================================================================
