---------------------------- MODULE MCCanonicalRun ---------------------------
(***************************************************************************)
(* A System of two units, so that one may fail while the other goes on, and *)
(* two calls: an inspection that closes the Run and one more call on it.   *)
(***************************************************************************)
EXTENDS CanonicalRun, TLC

CONSTANTS arm, camera

MCUnits == {arm, camera}
Symmetry == Permutations(MCUnits)
=============================================================================
