--------------------------- MODULE MCNodeBinding ----------------------------
(***************************************************************************)
(* Four calls, two of them for the same cube, on two threads, with room on *)
(* the heap for three at a time, so that addresses are used again.         *)
(***************************************************************************)
EXTENDS NodeBinding, TLC

CONSTANTS r1, r2, r3, r4, cube1, cube2, cube3

MCCubeOf == (r1 :> cube1) @@ (r2 :> cube2) @@ (r3 :> cube3) @@ (r4 :> cube1)
=============================================================================
