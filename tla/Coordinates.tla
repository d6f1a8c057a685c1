----------------------------- MODULE Coordinates -----------------------------
(***************************************************************************)
(* The coordinates of a cube (coordinate.cpp), the same after a move as    *)
(* the move tables give them (movetable.cpp), and the ten of them by which *)
(* the solver follows a cube (solve.cpp).                                  *)
(*                                                                         *)
(* A class of slice coordinates is named by its representant, the smallest *)
(* of them, and a sym coordinate is that and one of the 16 symmetries.     *)
(* The code numbers the classes in the order of the representants; a table *)
(* of 11880 or more entries is here what its entries are computed from.    *)
(***************************************************************************)
EXTENDS Cube, Combinations

-----------------------------------------------------------------------------
(* Coordinates of a permutation. *)

CornerOrientationCoordinate(p) ==
  MapThenSumSet(LAMBDA i : p.twist[i] * 3 ^ (6 - i), 0 .. 6)

EdgeOrientationCoordinate(p) ==
  MapThenSumSet(LAMBDA i : p.flip[i] * 2 ^ (10 - i), 0 .. 10)

Factorial[n \in 0 .. 11] == IF n = 0 THEN 1 ELSE n * Factorial[n - 1]

(* The number of an arrangement among those of its values: every value     *)
(* counts the bigger ones before it.                                       *)
ArrangementNumber(f) ==
  MapThenSumSet(LAMBDA i : Cardinality({j \in DOMAIN f : j < i /\ f[j] > f[i]}) * Factorial[i],
                DOMAIN f)

CornerPermutationCoordinate(p) == ArrangementNumber(p.corner)

SliceCubies == LF .. RF

(* The place where a cubie is. *)
PlaceOf(p, cubie) == CHOOSE i \in EdgeCubies : p.edge[i] = cubie

(* Each place that is not taken counts the ways to choose among the places *)
(* before it as many as are taken there, but one.                          *)
SliceNumber(places) ==
  LET before(pos) == Cardinality({i \in places : i < pos})
  IN  MapThenSumSet(LAMBDA pos : Choose(pos, before(pos) - 1),
                    {pos \in EdgeCubies \ places : before(pos) > 0})

UDSliceCoordinate(p) == SliceNumber({PlaceOf(p, c) : c \in SliceCubies})

UDSliceSortedCoordinate(p) ==
  UDSliceCoordinate(p) * 24 + ArrangementNumber([k \in 0 .. 3 |-> PlaceOf(p, LF + k)])

UDSliceSortedCoordinateLength == 11880

(* The axes FB and LR are turned to where UD is. *)
Turned(p, turn) == mult_vector(<<turn, p, power(turn, 3)>>)
FBTurned(p) == Turned(p, SymmetryS_R4i)
LRTurned(p) ==
  mult_vector(<<SymmetryS_R4i, FundamentalSymmetry[S_U4], p,
                power(FundamentalSymmetry[S_U4], 3), power(SymmetryS_R4i, 3)>>)

-----------------------------------------------------------------------------
(* A permutation with a given coordinate. *)

CornerOrientationCoordinateInverse(coord) ==
  LET digit(i) == (coord \div 3 ^ (6 - i)) % 3
      total == MapThenSumSet(digit, 0 .. 6)
  IN  [identity EXCEPT !.twist =
         [i \in CornerCubies |-> IF i < 7 THEN digit(i) ELSE (3 - (total % 3)) % 3]]

EdgeFlips(coord) ==
  LET digit(i) == (coord \div 2 ^ (10 - i)) % 2
      total == MapThenSumSet(digit, 0 .. 10)
  IN  [i \in EdgeCubies |-> IF i < 11 THEN digit(i) ELSE total % 2]

EdgeOrientationCoordinateInverse(coord) == [identity EXCEPT !.flip = EdgeFlips(coord)]

(* From the last place on, the value that has so many bigger ones among    *)
(* those that are left.                                                    *)
CornerPermutationCoordinateInverse(coord) ==
  LET take(values, i) ==
        LET left == CornerCubies \ {values[j] : j \in DOMAIN values}
            value == CHOOSE v \in left : Cardinality({w \in left : w > v})
                                           = (coord \div Factorial[i]) % (i + 1)
        IN  <<value>> \o values
  IN  [identity EXCEPT !.corner = From0(FoldLeft(take, <<>>, <<7, 6, 5, 4, 3, 2, 1, 0>>))]

(* The four places with a given number.  SliceInverse is the loop by which *)
(* the code finds them, and the two other things that follow from it.      *)
SliceNumbers == [places \in kSubset(4, EdgeCubies) |-> SliceNumber(places)]

SlicePlaces ==
  [n \in 0 .. 494 |-> CHOOSE places \in DOMAIN SliceNumbers : SliceNumbers[places] = n]

(* The four cubies in their places, the others in ascending order.         *)
SliceEdges(places, order) ==
  [i \in EdgeCubies |->
     LET before == Cardinality({j \in places : j < i})
     IN  IF i \in places THEN LF + CHOOSE k \in 0 .. 3 : order[k] = before ELSE i - before]

SliceOrders ==
  LET orders == {f \in [0 .. 3 -> 0 .. 3] : \A i, j \in 0 .. 3 : f[i] = f[j] => i = j}
  IN  [n \in 0 .. 23 |-> CHOOSE f \in orders : ArrangementNumber(f) = n]

Cycle(f, i) ==
  LET Follow[j \in DOMAIN f] == {j} \cup IF f[j] = i THEN {} ELSE Follow[f[j]]
  IN  Follow[i]

(* Permutation::edge_permutation_is_even: cycles of even length are odd. *)
edge_permutation_is_even(f) ==
  LET odd == {c \in {Cycle(f, i) : i \in DOMAIN f} : Cardinality(c) % 2 = 0}
  IN  Cardinality(odd) % 2 = 0

(* Mistake: the corners are left alone. *)
CornersAtHome(edges) == [i \in CornerCubies |-> i]

(* Two corners are swapped if the edges alone are no position of a cube. *)
ParityCorners(edges) ==
  [i \in CornerCubies |-> IF edge_permutation_is_even(edges) \/ i > ULF THEN i ELSE 1 - i]

UDSliceSortedCoordinateInverse(coord) ==
  LET edges == SliceEdges(SlicePlaces[coord \div 24], SliceOrders[coord % 24])
  IN  [identity EXCEPT !.edge = edges, !.corner = ParityCorners(edges)]

UDSliceSortedEdgeOrientationInverse(ud, edge) ==
  [UDSliceSortedCoordinateInverse(ud) EXCEPT !.flip = EdgeFlips(edge)]

-----------------------------------------------------------------------------
(* The 16 symmetries that leave the UD axis alone, in the order of         *)
(* symmetry.cpp: the three fundamental ones, then the other products.      *)

Symmetries == 0 .. 15

SymmetryPowers ==
  LET powers == [n \in 1 .. 16 |-> <<(n - 1) \div 8, ((n - 1) \div 2) % 4, (n - 1) % 2>>]
  IN  <<<<1, 0, 0>>, <<0, 1, 0>>, <<0, 0, 1>>>> \o SelectSeq(powers, LAMBDA e : e[1] + e[2] + e[3] # 1)

Symmetry == [s \in Symmetries |-> SymmetryProduct(<<S_F2, S_U4, S_LR2>>, SymmetryPowers[s + 1])]

SymmetryIndex(p) == CHOOSE s \in Symmetries : Symmetry[s] = p

InverseSymmetryIndex ==
  [s \in Symmetries |-> CHOOSE t \in Symmetries : mult(Symmetry[s], Symmetry[t]) = identity]

SymmetryConjugate(p, s) == mult_vector(<<Symmetry[s], p, Symmetry[InverseSymmetryIndex[s]]>>)

SymmetryMult == [s \in Symmetries |-> [t \in Symmetries |->
                   SymmetryIndex(mult(Symmetry[s], Symmetry[t]))]]

CanonicalPermutationConjugate ==
  [m \in Moves |-> [s \in Symmetries |->
     CanonicalPermutationIndex(SymmetryConjugate(CanonicalPermutation[m], s))]]

-----------------------------------------------------------------------------
(* Classes and sym coordinates. *)

SliceThrough(p, symmetry) == UDSliceSortedCoordinate(SymmetryConjugate(p, symmetry))

(* The smallest coordinate of a class is met first. *)
UDSliceSortedClass2Representant(raw) ==
  LET instance == UDSliceSortedCoordinateInverse(raw)
  IN  Min({SliceThrough(instance, s) : s \in Symmetries})

(* A symmetry leads from a representant to a raw coordinate. *)
UDSliceSortedSym2Raw(representant, symmetry) ==
  SliceThrough(UDSliceSortedCoordinateInverse(representant), symmetry)

Sym(representant, symmetry) == [class |-> representant, symmetry |-> symmetry]

(* Several symmetries may lead to the same raw coordinate: the first one.  *)
UDSliceSortedRaw2Sym(raw) ==
  LET class == UDSliceSortedClass2Representant(raw)
  IN  Sym(class, Min({s \in Symmetries : UDSliceSortedSym2Raw(class, s) = raw}))

SymUDSliceSortedCoordinate(p) == UDSliceSortedRaw2Sym(UDSliceSortedCoordinate(p))

(* Orientations under a symmetry: see SymCoordinates. *)
CornerOrientationConjugate(corner, s) ==
  CornerOrientationCoordinate(SymmetryConjugate(CornerOrientationCoordinateInverse(corner), s))

EdgeOrientationConjugate(edge, class, s) ==
  LET there == UDSliceSortedSym2Raw(class, InverseSymmetryIndex[s])
  IN  EdgeOrientationCoordinate(
        SymmetryConjugate(UDSliceSortedEdgeOrientationInverse(there, edge), s))

(* PruningTable::reduce_to_representant: where the table is looked up. *)
reduce_to_representant(ud, edge, corner) ==
  LET back == InverseSymmetryIndex[ud.symmetry]
  IN  <<ud.class, EdgeOrientationConjugate(edge, ud.class, back),
        CornerOrientationConjugate(corner, back)>>

-----------------------------------------------------------------------------
(* Coordinates after a move. *)

CornerOrientationMove(coord, m) ==
  CornerOrientationCoordinate(
    mult(CornerOrientationCoordinateInverse(coord), CanonicalPermutation[m]))

EdgeOrientationMove(coord, m) ==
  EdgeOrientationCoordinate(mult(EdgeOrientationCoordinateInverse(coord), CanonicalPermutation[m]))

CornerPermutationMove(coord, m) ==
  CornerPermutationCoordinate(
    mult(CornerPermutationCoordinateInverse(coord), CanonicalPermutation[m]))

SymUDSliceSortedRepresentantMove(class, m) ==
  SymUDSliceSortedCoordinate(mult(UDSliceSortedCoordinateInverse(class), CanonicalPermutation[m]))

(* Mistake: the symmetries are multiplied the other way round. *)
SymMoveMultipliedBackwards(sym, m) ==
  LET back == InverseSymmetryIndex[sym.symmetry]
      next == SymUDSliceSortedRepresentantMove(sym.class, CanonicalPermutationConjugate[m][back])
  IN  Sym(next.class, SymmetryMult[next.symmetry][sym.symmetry])

SymUDSliceSortedMove(sym, m) ==
  LET back == InverseSymmetryIndex[sym.symmetry]
      next == SymUDSliceSortedRepresentantMove(sym.class, CanonicalPermutationConjugate[m][back])
  IN  Sym(next.class, SymmetryMult[sym.symmetry][next.symmetry])

-----------------------------------------------------------------------------
(* The coordinates of a CubeState. *)

(* One axis: where its slice is, and the orientations as it sees them. *)
Axis(ud, edge, corner) == [ud |-> ud, edge |-> edge, corner |-> corner]

AxisOf(p) ==
  Axis(SymUDSliceSortedCoordinate(p),
       EdgeOrientationCoordinate(p), CornerOrientationCoordinate(p))

AxisMove(axis, m) ==
  Axis(SymUDSliceSortedMove(axis.ud, m),
       EdgeOrientationMove(axis.edge, m), CornerOrientationMove(axis.corner, m))

SliceAxes == {"ud", "fb", "lr"}

(* The cube turned so that the axis is where UD is, and a move seen so. *)
TurnedTo(axis, p) ==
  CASE axis = "ud" -> p
    [] axis = "fb" -> FBTurned(p)
    [] axis = "lr" -> LRTurned(p)

MoveOn(axis, m) ==
  IF axis = "ud" THEN m
  ELSE FullCanonicalPermutationConjugate[m][IF axis = "fb" THEN fb_transform ELSE lr_transform]

(* CubeSolver::reinitialize *)
coordinates_of(p) ==
  [axes |-> [axis \in SliceAxes |-> AxisOf(TurnedTo(axis, p))],
   corners |-> CornerPermutationCoordinate(p)]

(* CubeSolver::execute_move, without the bounds *)
execute_move(current, m) ==
  [axes |-> [axis \in SliceAxes |-> AxisMove(current.axes[axis], MoveOn(axis, m))],
   corners |-> CornerPermutationMove(current.corners, m)]

(* Mistake: the edges are taken to be in place if they are in their slices. *)
is_solved_by_slices(current) ==
  /\ current.corners = 0
  /\ current.axes["ud"].corner = 0
  /\ current.axes["ud"].edge = 0
  /\ \A axis \in SliceAxes : current.axes[axis].ud.class < 24

is_solved(current) ==
  /\ current.corners = 0
  /\ current.axes["ud"].corner = 0
  /\ current.axes["ud"].edge = 0
  /\ \A axis \in SliceAxes : current.axes[axis].ud.class = 0
=============================================================================
