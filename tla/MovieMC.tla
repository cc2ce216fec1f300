------------------------------ MODULE MovieMC ------------------------------
(***************************************************************************)
(* Symmetry, for TLC: nothing in Movie tells two samples, or two files,    *)
(* apart.                                                                  *)
(***************************************************************************)
EXTENDS Movie, TLC

Alike == Permutations(Inputs) \cup Permutations(Files)
=============================================================================
