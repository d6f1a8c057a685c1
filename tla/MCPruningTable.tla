--------------------------- MODULE MCPruningTable ---------------------------
(***************************************************************************)
(* The pruning table of a small puzzle that has what makes the table of    *)
(* the cube difficult: classes of several raw coordinates, raw coordinates *)
(* with symmetries of their own, edges whose change under a symmetry       *)
(* depends on where they are, corners whose change does not, and distances *)
(* above 3.                                                                *)
(*                                                                         *)
(* A raw coordinate 7 x + y is a pair of x, modulo 4, and y, modulo 7.     *)
(* One symmetry mirrors x, and turns the edges by twice x; another doubles *)
(* y, and permutes the corners 1, 2, 3.  There are 8 edge and 4 corner     *)
(* coordinates, in the run about files that are not whole 4 and 1.         *)
(***************************************************************************)
EXTENDS PruningTable

X(ud) == ud \div 7
Y(ud) == ud % 7
Raw(x, y) == 7 * (x % 4) + (y % 7)

(* Symmetry s mirrors Mirrors(s) times and doubles Doubles(s) times. *)
Mirrors(s) == (s + 1) % 2
Doubles(s) == ((s + 1) \div 2) % 3
Symmetry(mirrors, doubles) ==
  CHOOSE s \in 0 .. 5 : Mirrors(s) = mirrors % 2 /\ Doubles(s) = doubles % 3

MCSymmetryProduct(s, t) == Symmetry(Mirrors(s) + Mirrors(t), Doubles(s) + Doubles(t))

Double(corner) == IF corner = 0 THEN 0 ELSE (corner % 3) + 1

MCSymmetryConjugate(p, s) ==
  LET x == X(p.ud)
  IN  [ud |-> Raw(IF Mirrors(s) = 1 THEN 4 - x ELSE x, 2 ^ Doubles(s) * Y(p.ud)),
       edge |-> (p.edge - 2 * x * Mirrors(s)) % EdgeOrientationCoordinateLength,
       corner |-> CASE Doubles(s) = 0 -> p.corner
                    [] Doubles(s) = 1 -> Double(p.corner)
                    [] Doubles(s) = 2 -> Double(Double(p.corner))]

(* The moves: x and the edges together, forth and back; the edges alone;   *)
(* and y by 1, 2, 4 and back, with the corners.                            *)
Turns == <<[x |-> 1, e |-> 1, y |-> 0, c |-> 0], [x |-> 3, e |-> -1, y |-> 0, c |-> 0],
           [x |-> 0, e |-> 1, y |-> 0, c |-> 0], [x |-> 0, e |-> -1, y |-> 0, c |-> 0],
           [x |-> 0, e |-> 0, y |-> 1, c |-> 1], [x |-> 0, e |-> 0, y |-> 2, c |-> 2],
           [x |-> 0, e |-> 0, y |-> 4, c |-> 3], [x |-> 0, e |-> 0, y |-> 6, c |-> 1],
           [x |-> 0, e |-> 0, y |-> 5, c |-> 2], [x |-> 0, e |-> 0, y |-> 3, c |-> 3]>>

(* Corners are added without carry: two that differ make the third one.    *)
AddCorner(c, d) == IF c = d THEN 0 ELSE IF c = 0 \/ d = 0 THEN c + d ELSE 6 - c - d

MCMultiply(p, m) ==
  LET turn == Turns[m + 1]
  IN  [ud |-> Raw(X(p.ud) + turn.x, Y(p.ud) + turn.y), edge |-> (p.edge + turn.e) % EdgeOrientationCoordinateLength,
       corner |-> IF CornerOrientationCoordinateLength = 1 THEN 0 ELSE AddCorner(p.corner, turn.c)]

(* The move n for which a conjugated position after it is the conjugate of *)
(* the position after m.                                                   *)
MCMoveConjugate(m, s) ==
  CHOOSE n \in 0 .. 9 :
    MCMultiply(MCSymmetryConjugate(Position(0, 0, 0), s), n)
      = MCSymmetryConjugate(MCMultiply(Position(0, 0, 0), m), s)
=============================================================================
