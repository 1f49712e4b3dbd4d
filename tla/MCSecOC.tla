----------------------------- MODULE MCSecOC -----------------------------
(* Instances of SecOC for TLC.                                            *)
EXTENDS SecOC, TLC

CONSTANTS d1, d2

DataSymmetry == Permutations(Data)
==========================================================================
