--------------------------- MODULE MCClientServer ---------------------------
(* Instances of ClientServer for TLC. *)
EXTENDS ClientServer, TLC

CONSTANTS p1, p2, c1, c2, cube1, cube2

(* One program with two threads; their cubes differ, so that an answer to  *)
(* the wrong thread would show.                                            *)
OneProgram == [c \in {c1, c2} |-> p1]

(* Two programs with a thread each. *)
TwoPrograms == (c1 :> p1) @@ (c2 :> p2)

TwoCubes == (c1 :> cube1) @@ (c2 :> cube2)
=============================================================================
