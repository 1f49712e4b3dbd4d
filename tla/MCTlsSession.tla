-------------------------- MODULE MCTlsSession --------------------------
(* Instances of TlsSession for TLC.                                      *)
EXTENDS TlsSession, TLC

CONSTANTS s1, s2, c1, c2, c3

ProgramSymmetry == Permutations(Servers) \cup Permutations(Clients)
=========================================================================
