------------------------- MODULE MCModelPublication -------------------------
(***************************************************************************)
(* A server and a command line run, two invocations, one request.          *)
(***************************************************************************)
EXTENDS ModelPublication, TLC

Symmetry == Permutations(Process)
=============================================================================
