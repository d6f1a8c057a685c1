----------------------------- MODULE TurnedCube -----------------------------
(***************************************************************************)
(* A cube that is turned, and the coordinates by which the solver follows  *)
(* it.  It shows that the tables of permutation.cpp, symmetry.cpp,         *)
(* coordinate.cpp and movetable.cpp are those of one cube: the solver      *)
(* never has the cube itself, only coordinates (solve.cpp:216-245), of     *)
(* which six are those of conjugates.                                      *)
(***************************************************************************)
EXTENDS Coordinates

CONSTANTS
  Scrambles,  \* sequences of moves: where the cube is at first
  MaxTurns,   \* bound: turns of the cube
  LaterMoves  \* bound: the moves of all turns but the first

VARIABLES
  p,            \* the cube
  coordinates,  \* those that the solver has in a CubeState
  turns         \* how many moves were made

vars == <<p, coordinates, turns>>

Init ==
  /\ \E s \in Scrambles :
       p = mult_vector([i \in DOMAIN s |-> CanonicalPermutation[s[i]]])
  /\ coordinates = coordinates_of(p)
  /\ turns = 0

Turn(m) ==
  /\ turns < MaxTurns
  /\ turns > 0 => m \in LaterMoves
  /\ p' = mult(p, CanonicalPermutation[m])
  /\ coordinates' = execute_move(coordinates, m)
  /\ turns' = turns + 1

Next == \E m \in Moves : Turn(m)

Spec == Init /\ [][Next]_vars

-----------------------------------------------------------------------------
(* The table is asked about a conjugate of the cube, with which it shares  *)
(* the distance: the orientations that reduce_to_representant finds        *)
(* (pruningtable.cpp:51-63), knowing only where the slice is, are those of *)
(* the conjugate that has the representant.                                *)
AxisFollows(axis, q) ==
  LET there == SymmetryConjugate(q, InverseSymmetryIndex[axis.ud.symmetry])
  IN  /\ UDSliceSortedSym2Raw(axis.ud.class, axis.ud.symmetry) = UDSliceSortedCoordinate(q)
      /\ axis.edge = EdgeOrientationCoordinate(q)
      /\ axis.corner = CornerOrientationCoordinate(q)
      /\ reduce_to_representant(axis.ud, axis.edge, axis.corner) =
           <<UDSliceSortedCoordinate(there), EdgeOrientationCoordinate(there),
             CornerOrientationCoordinate(there)>>

(* The coordinates stay those of the cube, though each is moved by itself  *)
(* (solve.cpp:216-245): no table needs what its coordinate does not tell.  *)
CoordinatesFollow ==
  /\ \A axis \in SliceAxes : AxisFollows(coordinates.axes[axis], TurnedTo(axis, p))
  /\ coordinates.corners = CornerPermutationCoordinate(p)

(* The solver sees by its coordinates when the cube is solved, and only    *)
(* then (solve.cpp:197-204): three slices fix all edges.                   *)
SolvedIsSeen == is_solved(coordinates) <=> p = identity
=============================================================================
