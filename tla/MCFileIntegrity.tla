------------------------ MODULE MCFileIntegrity ------------------------
(* Instances of FileIntegrity for TLC.                                   *)
EXTENDS FileIntegrity, TLC

CONSTANTS a, b, r1, r2

Symmetry == Permutations(Bytes) \cup Permutations(Runs)
========================================================================
