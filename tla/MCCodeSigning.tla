------------------------- MODULE MCCodeSigning -------------------------
(* Instances of CodeSigning for TLC.                                     *)
EXTENDS CodeSigning, TLC

CONSTANTS s1, s2, s3, v1, v2, fwA, fwB

\* Two builds of sign_firmware with different firmware; all further runs
\* are of the first build.
Builds   == [s \in Signers |-> IF s = s2 THEN fwB ELSE fwA]
OneBuild == [s \in Signers |-> fwA]

\* No state holds a firmware, and of Builds each of two runs has its own:
\* the runs may be exchanged, and their firmware with them.
SignerSymmetry == Permutations(Signers)
========================================================================
