--------------------------- MODULE MCCoordinates ---------------------------
(* The two ways between cubes and coordinates, one of which is gone: a     *)
(* cube that is turned, or a coordinate whose cube is sought.              *)
EXTENDS SliceInverse

CONSTANTS Scrambles, MaxTurns, LaterMoves

VARIABLES p, coordinates, turns

Follower == INSTANCE TurnedCube

(* The solved cube; U2 D2 L2 R2 F2 B2, which leaves every edge in its      *)
(* slice and the corners where they were; the cube of client.cpp; and one  *)
(* with all edges flipped.                                                 *)
MCScrambles ==
  {<<>>, <<6, 9, 10, 7, 8, 11>>, <<0, 1, 15, 7, 2, 16, 0, 9, 13, 8, 5>>,
   <<0, 7, 2, 5, 1, 11, 1, 6, 4, 5, 13, 12, 15, 7, 2, 13, 4, 11, 6, 8>>}

(* Every set of places, each with four of the 24 orders, and every order   *)
(* with some of them.                                                      *)
MCCoords == {c \in 0 .. UDSliceSortedCoordinateLength - 1 : (c \div 24 + c) % 6 = 0}

(* There is no cube while a coordinate is inverted. *)
ACube == p # <<>>

(* See TurnedCube: coordinates that are moved one by one stay those of the *)
(* cube (solve.cpp:216-245).                                               *)
CoordinatesFollow == ACube => Follower!CoordinatesFollow

(* See TurnedCube: is_solved says of the coordinates what is true of the   *)
(* cube (solve.cpp:197-204).                                               *)
SolvedIsSeen == ACube => Follower!SolvedIsSeen

MCInit ==
  \/ /\ Follower!Init
     /\ coord = 0
     /\ Init
  \/ /\ p = <<>> /\ coordinates = <<>> /\ turns = 0
     /\ Init

TurnCube == ACube /\ Follower!Next /\ UNCHANGED vars

Invert == ~ACube /\ Next /\ UNCHANGED <<p, coordinates, turns>>

MCNext == TurnCube \/ Invert

MCSpec == MCInit /\ [][MCNext]_<<vars, p, coordinates, turns>>
=============================================================================
