--------------------------- MODULE PruningValues ----------------------------
(***************************************************************************)
(* How pruningtable.cpp codes a distance in two bits: the distance modulo  *)
(* 3, with 3 standing for 0 so that 0 can mean "empty".  A search that     *)
(* knows the distance before a move finds the one after it from those two  *)
(* bits, because a move changes it by at most one.                         *)
(***************************************************************************)
EXTENDS Integers

Empty == 0

MapEntry == [d \in 0 .. 2 |-> IF d = 0 THEN 3 ELSE d]
IncMod3 == [d \in 0 .. 2 |-> (d + 1) % 3]
DecMod3 == [d \in 0 .. 2 |-> (d + 2) % 3]
MapEntryDecMod3 == [d \in 0 .. 2 |-> MapEntry[DecMod3[d]]]

(* The entry of the table for a distance. *)
EntryOf(distance) == MapEntry[distance % 3]

(* RelativePruning has rows for the distances below this length. *)
RelativePruningLength == 20

signal_mod == [d \in 0 .. 2 |-> IF d = 2 THEN 0 - 1 ELSE d]

(* The distance after a move, from the one before it and the new entry.    *)
RelativePruning ==
  [i \in 0 .. RelativePruningLength - 1 |-> [j \in 1 .. 3 |-> i + signal_mod[(j - i) % 3]]]
=============================================================================
