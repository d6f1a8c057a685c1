------------------------------ MODULE CubeTexts ------------------------------
(***************************************************************************)
(* What the programs write and read instead of cubes and moves: the hash   *)
(* of a cube (hash.cpp), which is the colours of its 54 facelets, the      *)
(* names of moves (permutation.cpp, solve.cpp), and the parsers of both    *)
(* (client.cpp, main.cpp).                                                 *)
(*                                                                         *)
(* A text is a sequence of characters.  What is numbered from 0 in the     *)
(* code is a function on 0 .. n, as in Cube.                               *)
(***************************************************************************)
EXTENDS Cube

FaceName == From0(<<"U", "R", "F", "D", "L", "B">>)

CornerCubieName == From0(
  <<<<"U", "R", "F">>, <<"U", "L", "F">>, <<"D", "R", "F">>, <<"D", "L", "F">>,
    <<"U", "R", "B">>, <<"U", "L", "B">>, <<"D", "R", "B">>, <<"D", "L", "B">>>>)

EdgeCubieName == From0(
  <<<<"U", "F">>, <<"D", "F">>, <<"U", "B">>, <<"D", "B">>, <<"U", "L">>, <<"U", "R">>,
    <<"D", "L">>, <<"D", "R">>, <<"L", "F">>, <<"R", "B">>, <<"L", "B">>, <<"R", "F">>>>)

-----------------------------------------------------------------------------
(* From a cube to its hash.                                                *)

face_color == From0(<<"b", "r", "w", "g", "o", "y">>)

(* The colours of a cubie at home, from its anchor facelet on: clockwise   *)
(* for a corner.                                                           *)
anchor_corners == From0(
  <<From0(<<"b", "r", "w">>), From0(<<"b", "w", "o">>), From0(<<"g", "w", "r">>),
    From0(<<"g", "o", "w">>), From0(<<"b", "y", "r">>), From0(<<"b", "o", "y">>),
    From0(<<"g", "r", "y">>), From0(<<"g", "y", "o">>)>>)

anchor_edges == From0(
  <<From0(<<"b", "w">>), From0(<<"g", "w">>), From0(<<"b", "y">>), From0(<<"g", "y">>),
    From0(<<"b", "o">>), From0(<<"b", "r">>), From0(<<"g", "o">>), From0(<<"g", "r">>),
    From0(<<"w", "o">>), From0(<<"y", "r">>), From0(<<"y", "o">>), From0(<<"w", "r">>)>>)

cubie_face(kind, cubie, rotation) == [kind |-> kind, cubie |-> cubie, rotation |-> rotation]

C(cubie, rotation) == cubie_face("corner", cubie, rotation)
E(cubie, rotation) == cubie_face("edge", cubie, rotation)
Z(face) == cubie_face("center", face, 0)

(* Which facelet of which cubie the colours stand for: three rows of the   *)
(* faces U, L, F, R, B and D.                                              *)
hashindex2cubieface == From0(
  <<C(ULB, 0), E(UB, 0), C(URB, 0), E(UL, 0), Z(0), E(UR, 0), C(ULF, 0), E(UF, 0), C(URF, 0),
    C(ULB, 1), E(UL, 1), C(ULF, 2), E(LB, 1), Z(4), E(LF, 1), C(DLB, 2), E(DL, 1), C(DLF, 1),
    C(ULF, 1), E(UF, 1), C(URF, 2), E(LF, 0), Z(2), E(RF, 0), C(DLF, 2), E(DF, 1), C(DRF, 1),
    C(URF, 1), E(UR, 1), C(URB, 2), E(RF, 1), Z(1), E(RB, 1), C(DRF, 2), E(DR, 1), C(DRB, 1),
    C(URB, 1), E(UB, 1), C(ULB, 2), E(RB, 0), Z(5), E(LB, 0), C(DRB, 2), E(DB, 1), C(DLB, 1),
    C(DLF, 0), E(DF, 0), C(DRF, 0), E(DL, 0), Z(3), E(DR, 0), C(DLB, 0), E(DB, 0), C(DRB, 0)>>)

(* Mistake: the colours are turned the wrong way. *)
CornerFaceletTurnedBack(p, place, rotation) ==
  anchor_corners[p.corner[place]][(rotation + p.twist[place]) % 3]

(* The anchor of a corner that is turned once shows one facelet later;     *)
(* with a reflection the colours go round the other way.                   *)
CornerFacelet(p, place, rotation) ==
  LET turned == (rotation + 3 - (p.twist[place] % 3)) % 3
  IN  anchor_corners[p.corner[place]][IF p.twist[place] < 3 THEN turned ELSE (3 - turned) % 3]

EdgeFacelet(p, place, rotation) ==
  anchor_edges[p.edge[place]][(rotation + p.flip[place]) % 2]

FaceletColor(p, f) ==
  CASE f.kind = "corner" -> CornerFacelet(p, f.cubie, f.rotation)
    [] f.kind = "edge" -> EdgeFacelet(p, f.cubie, f.rotation)
    [] f.kind = "center" -> face_color[f.cubie]

Hash(p) == [i \in 1 .. 54 |-> FaceletColor(p, hashindex2cubieface[i - 1])]

-----------------------------------------------------------------------------
(* From a hash to the cube.  The code has a second table of indexes for    *)
(* it, and it takes the colours from the centres, not from face_color.     *)

corner_facelets == From0(
  <<<<8, 27, 20>>, <<6, 18, 11>>, <<47, 26, 33>>, <<45, 17, 24>>,
    <<2, 36, 29>>, <<0, 9, 38>>, <<53, 35, 42>>, <<51, 44, 15>>>>)

edge_facelets == From0(
  <<<<7, 19>>, <<46, 25>>, <<1, 37>>, <<52, 43>>, <<3, 10>>, <<5, 28>>,
    <<48, 16>>, <<50, 34>>, <<21, 14>>, <<39, 32>>, <<41, 12>>, <<23, 30>>>>)

center_facelets == From0(<<4, 31, 22, 49, 13, 40>>)

Colors(hash, facelets) == [k \in DOMAIN facelets |-> hash[facelets[k] + 1]]

centers(hash) ==
  [face \in {FaceName[a] : a \in Axes} |->
     hash[center_facelets[CHOOSE a \in Axes : FaceName[a] = face] + 1]]

has(colors, color) == \E k \in DOMAIN colors : colors[k] = color

indexOf(colors, color) ==
  CHOOSE k \in DOMAIN colors : colors[k] = color /\ \A j \in 1 .. k - 1 : colors[j] # color

(* The cubie with these colours is named by the faces that have them. *)
CornerName(center, colors) ==
  <<IF has(colors, center["U"]) THEN "U" ELSE "D",
    IF has(colors, center["R"]) THEN "R" ELSE "L",
    IF has(colors, center["F"]) THEN "F" ELSE "B">>

EdgeName(center, colors) ==
  SelectSeq(<<"U", "D", "L", "R", "F", "B">>, LAMBDA face : has(colors, center[face]))

(* The anchor of an edge is its first facelet, but the second one if that  *)
(* is on L or R.                                                           *)
EdgeAnchor(name) == IF name[1] \in {"L", "R"} THEN name[2] ELSE name[1]

CornerNamed(name) == CHOOSE c \in CornerCubies : CornerCubieName[c] = name
EdgeNamed(name) == CHOOSE e \in EdgeCubies : EdgeCubieName[e] = name

(* Where the functions of the code return something: a lookup that finds   *)
(* no name runs off the end of its function, -1 is no orientation, and a   *)
(* short text is read beyond its end.                                      *)
IsHash(text) ==
  /\ Len(text) >= 54
  /\ \A i \in CornerCubies :
       LET colors == Colors(text, corner_facelets[i])
       IN  has(colors, centers(text)[CornerName(centers(text), colors)[1]])
  /\ \A i \in EdgeCubies :
       EdgeName(centers(text), Colors(text, edge_facelets[i])) \in
         {EdgeCubieName[e] : e \in EdgeCubies}

Hash2Permutation(hash) ==
  LET corner(i) == Colors(hash, corner_facelets[i])
      edge(i) == Colors(hash, edge_facelets[i])
      anchor(i) == centers(hash)[EdgeAnchor(EdgeName(centers(hash), edge(i)))]
      cubie(i) == CornerNamed(CornerName(centers(hash), corner(i)))
  IN  Permutation(
        [i \in CornerCubies |-> cubie(i)],
        [i \in CornerCubies |->
           indexOf(corner(i), centers(hash)[CornerCubieName[cubie(i)][1]]) - 1],
        [i \in EdgeCubies |-> EdgeNamed(EdgeName(centers(hash), edge(i)))],
        [i \in EdgeCubies |-> IF edge(i)[1] = anchor(i) THEN 0 ELSE 1])

-----------------------------------------------------------------------------
(* What the tables have to say, so that a hash can be read back.  They     *)
(* have no parameter: TLC evaluates each of these assumptions for all of   *)
(* them.                                                                   *)

(* The two tables of facelets agree. *)
ASSUME FaceletsAgree ==
  /\ \A i \in CornerCubies :
       /\ DOMAIN corner_facelets[i] = 1 .. 3
       /\ \A k \in 1 .. 3 : /\ corner_facelets[i][k] \in 0 .. 53
                            /\ hashindex2cubieface[corner_facelets[i][k]] = C(i, k - 1)
  /\ \A i \in EdgeCubies :
       /\ DOMAIN edge_facelets[i] = 1 .. 2
       /\ \A k \in 1 .. 2 : /\ edge_facelets[i][k] \in 0 .. 53
                            /\ hashindex2cubieface[edge_facelets[i][k]] = E(i, k - 1)
  /\ \A a \in Axes : /\ center_facelets[a] \in 0 .. 53
                     /\ hashindex2cubieface[center_facelets[a]] = Z(a)

(* A hash is made of the colours of cubies, which are those of the faces. *)
ASSUME FaceletsAreOfCubies ==
  \A f \in 0 .. 53 :
    \/ \E i \in CornerCubies, k \in 0 .. 2 : hashindex2cubieface[f] = C(i, k)
    \/ \E i \in EdgeCubies, k \in 0 .. 1 : hashindex2cubieface[f] = E(i, k)
    \/ \E a \in Axes : hashindex2cubieface[f] = Z(a)

Color == {"b", "r", "w", "g", "o", "y"}

ASSUME CubiesAreColored ==
  /\ \A c \in CornerCubies, k \in 0 .. 2 : anchor_corners[c][k] \in Color
  /\ \A e \in EdgeCubies, k \in 0 .. 1 : anchor_edges[e][k] \in Color
  /\ \A a \in Axes : face_color[a] \in Color

(* The colours of the faces. *)
FaceColors ==
  [face \in {FaceName[a] : a \in Axes} |-> face_color[CHOOSE a \in Axes : FaceName[a] = face]]

(* Every cubie, however it is turned, is recognised by the colours that it *)
(* shows, and so is how it is turned.                                      *)
ASSUME CornersAreRecognized ==
  \A c \in CornerCubies, t \in 0 .. 2 :
    LET colors == [k \in 1 .. 3 |-> anchor_corners[c][(k + 2 - t) % 3]]
        anchor == FaceColors[CornerCubieName[c][1]]
    IN  /\ CornerName(FaceColors, colors) = CornerCubieName[c]
        /\ CornerNamed(CornerCubieName[c]) = c
        /\ has(colors, anchor) /\ indexOf(colors, anchor) = t + 1

ASSUME EdgesAreRecognized ==
  \A e \in EdgeCubies, f \in {0, 1} :
    LET colors == [k \in 1 .. 2 |-> anchor_edges[e][(k - 1 + f) % 2]]
    IN  /\ EdgeName(FaceColors, colors) = EdgeCubieName[e]
        /\ EdgeNamed(EdgeCubieName[e]) = e
        /\ colors[1] = FaceColors[EdgeAnchor(EdgeCubieName[e])] <=> f = 0

-----------------------------------------------------------------------------
(* Moves as text.                                                          *)

CanonicalPermutationName ==
  [m \in Moves |-> <<FaceName[m % 6]>> \o <<<<>>, <<"2">>, <<"i">>>>[m \div 6 + 1]]

(* What the solver makes of its solution: a name and a space per move. *)
move_names(moves) ==
  FlattenSeq([i \in 1 .. Len(moves) |-> Append(CanonicalPermutationName[moves[i]], " ")])

(* A character that is no name of a face counts as the first one. *)
FaceOf(char) ==
  LET named == {a \in Axes : CanonicalPermutationName[a][1] = char}
  IN  IF named = {} THEN 0 ELSE CHOOSE a \in named : TRUE

(* The face of a move is its first character, and the second one, if there *)
(* is one, says how it is turned.                                          *)
ASSUME NamesAreRead ==
  \A m \in Moves :
    LET name == CanonicalPermutationName[m]
    IN  /\ name \in Seq({"U", "R", "F", "D", "L", "B", "2", "i"})
        /\ name[1] \in {"U", "R", "F", "D", "L", "B"} /\ FaceOf(name[1]) = m % 6
        /\ m \div 6 = 0 => Len(name) = 1
        /\ m \div 6 = 1 => Len(name) = 2 /\ name[2] = "2"
        /\ m \div 6 = 2 => Len(name) = 2 /\ name[2] = "i"

(* Both programs have the same parser; its text ends where the client sees *)
(* a NUL or a line ends, or at a semicolon.                                *)
parse_moves(text, start) ==
  LET suffix(i) == IF i = Len(text) THEN 0
                   ELSE CASE text[i + 1] = "i" -> 12 [] text[i + 1] = "2" -> 6 [] OTHER -> 0
      Read[i \in start .. Len(text) + 1] ==
        IF i > Len(text) THEN <<>>
        ELSE CASE text[i] = ";" -> <<>>
               [] text[i] = " " -> Read[i + 1]
               [] OTHER -> <<FaceOf(text[i]) + suffix(i)>>
                             \o Read[i + IF suffix(i) = 0 THEN 1 ELSE 2]
  IN  Read[start]

(* What moves make of a cube: no corner is reflected. *)
UnreflectedPermutations ==
  [corner : [CornerCubies -> CornerCubies], twist : [CornerCubies -> 0 .. 2],
   edge : [EdgeCubies -> EdgeCubies], flip : [EdgeCubies -> {0, 1}]]

ASSUME MovesDoNotReflect ==
  /\ \A m \in Moves : CanonicalPermutation[m] \in UnreflectedPermutations
  /\ \A a, b \in 0 .. 2 : orientation_sum[a][b] = (a + b) % 3

apply(p, moves) == FoldLeft(LAMBDA q, m : mult(q, CanonicalPermutation[m]), p, moves)
=============================================================================
