----------------------------- MODULE MCDemos ------------------------------
(* Instances of Demos for TLC.                                             *)
EXTENDS Demos

TwoSamples == {Zeros, [j \in 0 .. Length - 1 |-> Bits]}

===========================================================================
