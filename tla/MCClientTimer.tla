--------------------------- MODULE MCClientTimer ----------------------------
(***************************************************************************)
(* Up to 2147 seconds the product fits in an int; up to 4294 it does not,  *)
(* but what usleep() takes from it is still right; then no more.           *)
(***************************************************************************)
EXTENDS ClientTimer

MCDurations == {0, 1, 60, 2147, 2148, 4294, 4295}
=============================================================================
