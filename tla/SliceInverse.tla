---------------------------- MODULE SliceInverse ----------------------------
(***************************************************************************)
(* UDSliceSortedCoordinateInverse of coordinate.cpp (281-364), round by    *)
(* round: how the places of the four slice edges are found from a number.  *)
(* The loop has no bound of its own, it stops because the number is small  *)
(* enough; if it did not, it would read numbers that were never written.   *)
(***************************************************************************)
EXTENDS Coordinates

CONSTANTS
  Coords,  \* the coordinates that are inverted
  Garbage  \* what memory holds that was never written

ASSUME CoordsAreCoordinates ==
  /\ Coords \subseteq 0 .. UDSliceSortedCoordinateLength - 1
  /\ Garbage \in Int

VARIABLES
  coord,           \* the argument
  unsorted_coord,  \* what is left of its quotient by 24
  remaining,       \* how many places are still to be found
  next_pos,        \* the next place to look at
  sum,             \* of the numbers that were read for this one
  positions,       \* the places
  result           \* the permutation, or none yet

vars == <<coord, unsorted_coord, remaining, next_pos, sum, positions, result>>

Init ==
  /\ coord \in Coords
  /\ unsorted_coord = coord \div 24
  /\ remaining = 4
  /\ next_pos = 11
  /\ sum = 0
  /\ positions = [i \in 0 .. 3 |-> -1]
  /\ result = <<>>

(* The number that a round reads. *)
Combinatorial == CombinatorialOr(next_pos, remaining - 1, Garbage)

Skip ==
  /\ remaining > 0
  /\ unsorted_coord >= sum + Combinatorial
  /\ sum' = sum + Combinatorial
  /\ next_pos' = next_pos - 1
  /\ UNCHANGED <<coord, unsorted_coord, remaining, positions, result>>

(* Mistake: the number is not made smaller by those that were skipped. *)
PlaceAndKeep ==
  /\ remaining > 0
  /\ unsorted_coord < sum + Combinatorial
  /\ positions' = [positions EXCEPT ![remaining - 1] = next_pos]
  /\ next_pos' = next_pos - 1
  /\ remaining' = remaining - 1
  /\ sum' = 0
  /\ UNCHANGED <<coord, unsorted_coord, result>>

Place ==
  /\ remaining > 0
  /\ unsorted_coord < sum + Combinatorial
  /\ unsorted_coord' = unsorted_coord - sum
  /\ positions' = [positions EXCEPT ![remaining - 1] = next_pos]
  /\ next_pos' = next_pos - 1
  /\ remaining' = remaining - 1
  /\ sum' = 0
  /\ UNCHANGED <<coord, result>>

(* The order of the four cubies, from the last to the first: a cubie takes *)
(* the place that its digit says among those that are left.                *)
order ==
  LET sorted == coord % 24
      third == 3 - (sorted \div 6)
      second == LET x == 2 - ((sorted \div 2) % 3) IN IF x >= third THEN x + 1 ELSE x
      low == IF third < second THEN third ELSE second
      high == IF third < second THEN second ELSE third
      first == LET x == 1 - (sorted % 2)
                   y == IF x >= low THEN x + 1 ELSE x
               IN  IF y >= high THEN y + 1 ELSE y
  IN  From0(<<6 - third - second - first, first, second, third>>)

(* Slice cubies go to the places, all other cubies follow each other. *)
ArrangedEdges ==
  [i \in EdgeCubies |->
     IF \E k \in 0 .. 3 : positions[order[k]] = i
       THEN LF + CHOOSE k \in 0 .. 3 : positions[order[k]] = i
       ELSE i - Cardinality({k \in 0 .. 3 : positions[k] < i})]

Arrange ==
  /\ remaining = 0
  /\ result = <<>>
  /\ result' = [identity EXCEPT !.edge = ArrangedEdges, !.corner = ParityCorners(ArrangedEdges)]
  /\ UNCHANGED <<coord, unsorted_coord, remaining, next_pos, sum, positions>>

Next == Skip \/ Place \/ Arrange

Spec == Init /\ [][Next]_vars

-----------------------------------------------------------------------------
TypeOK ==
  /\ coord \in Coords
  /\ unsorted_coord \in Nat
  /\ remaining \in 0 .. 4
  /\ next_pos \in -1 .. 11
  /\ sum \in Nat
  /\ positions \in [0 .. 3 -> -1 .. 11]

(* No round reads a number that was never written: the loop has found all  *)
(* four places before it runs out of places (coordinate.cpp:17, 293).      *)
ReadsAreWritten == remaining > 0 => Written(next_pos, remaining - 1)

(* What is found has the coordinate it was found for, and is the position  *)
(* of a cube: edges and corners are both even or both odd (354-361).       *)
Inversions(f) ==
  Cardinality({d \in (DOMAIN f) \X (DOMAIN f) : d[1] < d[2] /\ f[d[1]] > f[d[2]]})

InverseIsRight ==
  result # <<>> =>
    /\ UDSliceSortedCoordinate(result) = coord
    /\ result = UDSliceSortedCoordinateInverse(coord)
    /\ Inversions(result.corner) % 2 = Inversions(result.edge) % 2
=============================================================================
