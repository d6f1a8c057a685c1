---------------------------- MODULE MCCubeSolver ----------------------------
(***************************************************************************)
(* The solver with a table of the kind of the real one, exact up to depth  *)
(* TableDepth and constant beyond, and with scrambles of few moves.        *)
(***************************************************************************)
EXTENDS CubeSolver, TLC

CONSTANT TableDepth

Layers[n \in 0 .. TableDepth] ==
  IF n = 0 THEN {UDCoordinates(identity)}
  ELSE Layers[n - 1] \cup {UDMove(c, m) : c \in Layers[n - 1], m \in Moves}

Balls == [n \in 0 .. TableDepth |-> Layers[n]]

MCDistance(p) ==
  LET c == UDCoordinates(p)
  IN  IF c \in Balls[TableDepth]
        THEN CHOOSE n \in 0 .. TableDepth : c \in Balls[n] /\ (n = 0 \/ c \notin Balls[n - 1])
        ELSE TableDepth + 1

(* Scrambles, by the numbers of their moves: 0..5 are U R F D L B, 6..11   *)
(* the half turns, 12..17 the inverses.                                    *)
Scrambled(moves) == Applied(identity, moves)

(* Every cube of three moves or fewer, up to a symmetry of the cube, which *)
(* takes every first move to U or to U2.                                   *)
AllScrambles ==
  {identity} \cup {Scrambled(<<m>>) : m \in {0, 6}}
             \cup {Scrambled(<<m, n>>) : m \in {0, 6}, n \in Moves}
             \cup {Scrambled(<<m, n, o>>) : m \in {0, 6}, n \in Moves, o \in Moves}

(* The table of this module keeps to what the proofs ask of one.           *)
ASSUME TableIsSoundHere ==
  /\ \A p \in AllScrambles :
       /\ MCDistance(p) \in 0 .. RelativePruningLength - 1
       /\ \A m \in Moves :
            MCDistance(mult(p, CanonicalPermutation[m])) - MCDistance(p) \in {-1, 0, 1}
  /\ MCDistance(identity) = 0
  /\ \A m \in Moves : m % 3 = 0 => MCDistance(CanonicalPermutation[m]) = 0

(* After each of them, one that the first moves solve, or one with a deep  *)
(* search.                                                                 *)
MCScrambles == <<AllScrambles, {Scrambled(<<0>>), Scrambled(<<7, 10, 6>>)}>>
=============================================================================
