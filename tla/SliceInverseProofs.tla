------------------------- MODULE SliceInverseProofs -------------------------
(***************************************************************************)
(* The loop of UDSliceSortedCoordinateInverse never reads a number that    *)
(* was not written, whatever coordinate it is given and whatever memory    *)
(* holds.                                                                  *)
(***************************************************************************)
EXTENDS SliceInverse, TLAPS

(* How many ways there are to place so many of the four edges below a      *)
(* place; Choose is that for fewer than four.                              *)
Ways(n, k) == IF k = 4 THEN (n * (n - 1) * (n - 2) * (n - 3)) \div 24 ELSE Choose(n, k)

(* What a round reads is the ways that it rules out.                       *)
LEMMA Pascal ==
  ASSUME NEW n \in 0 .. 11, NEW k \in 1 .. 4
  PROVE  Ways(n + 1, k) = Ways(n, k) + Choose(n, k - 1)
<1>1. k = 1 \/ k = 2 \/ k = 3 \/ k = 4
  OBVIOUS
<1>2. \/ n = 0 \/ n = 1 \/ n = 2 \/ n = 3 \/ n = 4 \/ n = 5
      \/ n = 6 \/ n = 7 \/ n = 8 \/ n = 9 \/ n = 10 \/ n = 11
  OBVIOUS
<1> QED
  BY <1>1, <1>2 DEF Ways, Choose

(* Edges fit below a place only if there are as many places. *)
LEMMA WaysNeedPlaces ==
  ASSUME NEW n \in 0 .. 12, NEW k \in 1 .. 4, Ways(n, k) > 0
  PROVE  n >= k
<1>1. k = 1 \/ k = 2 \/ k = 3 \/ k = 4
  OBVIOUS
<1>2. n >= 4 \/ n = 0 \/ n = 1 \/ n = 2 \/ n = 3
  OBVIOUS
<1> QED
  BY <1>1, <1>2 DEF Ways, Choose

LEMMA ChooseIsNatural ==
  ASSUME NEW n \in 0 .. 12, NEW k \in 0 .. 3
  PROVE  Choose(n, k) \in Nat
<1>1. k = 0 \/ k = 1 \/ k = 2 \/ k = 3
  OBVIOUS
<1>2. \/ n = 0 \/ n = 1 \/ n = 2 \/ n = 3 \/ n = 4 \/ n = 5 \/ n = 6
      \/ n = 7 \/ n = 8 \/ n = 9 \/ n = 10 \/ n = 11 \/ n = 12
  OBVIOUS
<1> QED
  BY <1>1, <1>2 DEF Choose

-----------------------------------------------------------------------------
(* What is left of the number is less than the ways in which the edges     *)
(* still to be placed fit below the next place: that is what the loop      *)
(* never says and relies on.                                               *)
Fits ==
  remaining > 0 =>
    /\ sum <= unsorted_coord
    /\ unsorted_coord - sum < Ways(next_pos + 1, remaining)

IInv == TypeOK /\ Fits

LEMMA InvImpliesWritten == IInv => ReadsAreWritten
<1> SUFFICES ASSUME IInv, remaining > 0
             PROVE  Written(next_pos, remaining - 1)
  BY DEF ReadsAreWritten
<1>1. next_pos \in -1 .. 11 /\ next_pos + 1 \in 0 .. 12 /\ remaining \in 1 .. 4
  BY DEF IInv, TypeOK
<1>2. Ways(next_pos + 1, remaining) > 0
  <2>1. unsorted_coord \in Nat /\ sum \in Nat
    BY DEF IInv, TypeOK
  <2>2. Ways(next_pos + 1, remaining) \in Int
    <3>1. \A k \in 1 .. 3 : k \in 0 .. 3
      OBVIOUS
    <3>2. CASE remaining = 4
      BY <3>2, <1>1 DEF Ways
    <3>3. CASE remaining # 4
      BY <3>3, <1>1, ChooseIsNatural DEF Ways
    <3> QED
      BY <3>2, <3>3
  <2> QED
    BY <2>1, <2>2 DEF IInv, Fits
<1>3. next_pos + 1 >= remaining
  BY <1>1, <1>2, WaysNeedPlaces
<1> QED
  BY <1>1, <1>3 DEF Written

LEMMA Quotient ==
  ASSUME NEW c \in Int, c >= 0, c < 11880
  PROVE  c \div 24 \in Nat /\ c \div 24 < 495
OBVIOUS

LEMMA InitInv == Init => IInv
<1> SUFFICES ASSUME Init PROVE IInv
  OBVIOUS
<1>1. coord \in Int /\ coord >= 0 /\ coord < 11880
  <2>1. coord \in Coords
    BY DEF Init
  <2>2. coord \in 0 .. UDSliceSortedCoordinateLength - 1
    BY <2>1, CoordsAreCoordinates
  <2> QED
    BY <2>2 DEF UDSliceSortedCoordinateLength
<1>2. unsorted_coord \in Nat /\ unsorted_coord < 495
  <2>1. unsorted_coord = coord \div 24
    BY DEF Init
  <2> QED
    BY <1>1, <2>1, Quotient
<1>3. Ways(12, 4) = 495
  BY DEF Ways
<1> QED
  BY <1>2, <1>3 DEF Init, IInv, TypeOK, Fits

LEMMA StepInv == IInv /\ [Next]_vars => IInv'
<1> SUFFICES ASSUME IInv, [Next]_vars PROVE IInv'
  OBVIOUS
<1> USE DEF IInv, TypeOK
<1>1. ASSUME remaining > 0
      PROVE  /\ next_pos \in 0 .. 11
             /\ remaining \in 1 .. 4
             /\ Combinatorial = Choose(next_pos, remaining - 1)
             /\ Combinatorial \in Nat
  <2>1. next_pos \in 0 .. 11 /\ remaining \in 1 .. 4 /\ Written(next_pos, remaining - 1)
    BY <1>1, InvImpliesWritten DEF ReadsAreWritten, Written
  <2>2. Choose(next_pos, remaining - 1) \in Nat
    BY <2>1, ChooseIsNatural
  <2> QED
    BY <2>1, <2>2 DEF Combinatorial, CombinatorialOr
<1>2. CASE Skip
  <2>1. remaining > 0 /\ remaining' = remaining /\ unsorted_coord' = unsorted_coord
    BY <1>2 DEF Skip
  <2>2. Ways(next_pos + 1, remaining) = Ways(next_pos, remaining) + Combinatorial
    BY <1>1, <2>1, Pascal
  <2>3. sum' = sum + Combinatorial /\ next_pos' + 1 = next_pos /\ sum' <= unsorted_coord
    BY <1>1, <1>2, <2>1 DEF Skip
  <2>4. Ways(next_pos, remaining) \in Int
    <3>1. CASE remaining = 4
      BY <3>1, <1>1, <2>1 DEF Ways
    <3>2. CASE remaining # 4
      BY <3>2, <1>1, <2>1, ChooseIsNatural DEF Ways
    <3> QED
      BY <3>1, <3>2
  <2>5. Fits'
    BY <1>1, <2>1, <2>2, <2>3, <2>4 DEF Fits
  <2>6. TypeOK'
    BY <1>1, <1>2, <2>1 DEF Skip
  <2> QED
    BY <2>5, <2>6
<1>3. CASE Place
  <2>1. /\ remaining > 0 /\ remaining' = remaining - 1
        /\ unsorted_coord' = unsorted_coord - sum /\ sum' = 0
        /\ next_pos' + 1 = next_pos
        /\ unsorted_coord < sum + Combinatorial
    BY <1>1, <1>3 DEF Place
  <2>2. sum <= unsorted_coord
    BY <2>1 DEF Fits
  <2>3. unsorted_coord' \in Nat /\ unsorted_coord' < Choose(next_pos, remaining - 1)
    BY <1>1, <2>1, <2>2
  <2>4. Fits'
    BY <1>1, <2>1, <2>3 DEF Fits, Ways
  <2>5. TypeOK'
    BY <1>1, <1>3, <2>1, <2>3 DEF Place
  <2> QED
    BY <2>4, <2>5
<1>4. CASE Arrange
  BY <1>4 DEF Arrange, Fits
<1>5. CASE UNCHANGED vars
  BY <1>5 DEF vars, Fits
<1> QED
  BY <1>2, <1>3, <1>4, <1>5 DEF Next

(* Every variable of the loop stays in its type: in particular it never    *)
(* looks below the first place (coordinate.cpp 288-304).                   *)
THEOREM TypeCorrect == Spec => []TypeOK
<1>1. IInv => TypeOK
  BY DEF IInv
<1> QED
  BY <1>1, InitInv, StepInv, PTL DEF Spec

(* No round reads a combinatorial number that was never written, for every *)
(* set of coordinates and whatever the memory holds (coordinate.cpp:17).   *)
THEOREM NothingUnwrittenIsRead == Spec => []ReadsAreWritten
<1> QED
  BY InitInv, StepInv, InvImpliesWritten, PTL DEF Spec
=============================================================================
