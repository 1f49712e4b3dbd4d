---------------------------- MODULE BootChain ----------------------------
(***************************************************************************)
(* What a chain of trust promises: in one boot stages start in order, and  *)
(* a stage starts only while its image is the one that was signed.  Images *)
(* may change at any time, and the machine may be booted again.  An image  *)
(* that changes while its stage runs does not stop it.                     *)
(*                                                                         *)
(* A signature made over no image at all vouches for none: its stage may   *)
(* start over any image.  Signing is over before the first stage starts.   *)
(***************************************************************************)
EXTENDS Naturals

CONSTANT Last  \* the number of stages

VARIABLES
  up,       \* stages 1..up run in this boot
  genuine,  \* the stages whose images are the signed ones
  hollow    \* the stages whose signatures are over no image

Stages == 1..Last

Init == up = 0 /\ genuine \in SUBSET Stages /\ hollow = {}

Sign ==
  /\ up = 0
  /\ genuine' \in SUBSET Stages
  /\ hollow' \in SUBSET Stages
  /\ UNCHANGED up

StartStage ==
  /\ up < Last
  /\ up + 1 \in genuine \cup hollow
  /\ up' = up + 1
  /\ UNCHANGED <<genuine, hollow>>

Reboot == up' = 0 /\ genuine' \in SUBSET Stages /\ UNCHANGED hollow

Change == genuine' \in SUBSET Stages /\ UNCHANGED <<up, hollow>>

Next == Sign \/ StartStage \/ Reboot \/ Change

Spec == Init /\ [][Next]_<<up, genuine, hollow>>

==========================================================================
