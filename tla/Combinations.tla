---------------------------- MODULE Combinations ----------------------------
(***************************************************************************)
(* The numbers with which coordinate.cpp counts the places of the four     *)
(* edges of a slice.                                                       *)
(***************************************************************************)
EXTENDS Integers

(* How many ways there are to choose j of i things, for j below 4. *)
Choose(i, j) ==
  IF j = 0 THEN 1
  ELSE IF j = 1 THEN i
  ELSE IF j = 2 THEN (i * (i - 1)) \div 2
  ELSE (i * (i - 1) * (i - 2)) \div 6

(* The rows that are allocated, and the columns that are written: those up *)
(* to the diagonal.                                                        *)
Written(i, j) == i \in 0 .. 11 /\ j \in 0 .. 3 /\ j <= i

(* What a read gives; beyond the diagonal it is whatever was in memory. *)
CombinatorialOr(i, j, garbage) == IF Written(i, j) THEN Choose(i, j) ELSE garbage
=============================================================================
