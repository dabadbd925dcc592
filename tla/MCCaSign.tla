------------------------------ MODULE MCCaSign ------------------------------
(***************************************************************************)
(* CaSign with three runs and serial numbers that reach the largest.      *)
(***************************************************************************)
EXTENDS CaSign, TLC

CONSTANTS r1, r2, r3, common, long

RunSet == {r1, r2, r3}
SubjectSet == {common, long}
LongSet == {long}
Symmetry == Permutations(RunSet)
=============================================================================
