-------------------------- MODULE MCTlsService --------------------------
(* Instances of TlsService for TLC.                                      *)
EXTENDS TlsService, TLC

CONSTANTS g1, g2, s1, s2, c1

ProgramSymmetry ==
  Permutations(Generators) \cup Permutations(Servers) \cup Permutations(Clients)
=========================================================================
