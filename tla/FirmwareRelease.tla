------------------------- MODULE FirmwareRelease -------------------------
(***************************************************************************)
(* What the code-signing pair of tools promises, without files: a signing  *)
(* run releases its firmware in one step, and a verification run answers   *)
(* in one step.  The firmware a verification declares genuine is firmware  *)
(* that has been released; a negative answer is always allowed.            *)
(* The one verdict with nothing behind it needs a release with nothing     *)
(* behind it: an "unchecked" answer takes a signing that signed no         *)
(* firmware.  CodeSigning, with its three files, torn reads, crashes and   *)
(* unnoticed failures, is shown to implement this.                         *)
(***************************************************************************)
CONSTANTS
  Signers,    \* executions of sign_firmware
  Verifiers,  \* executions of verify_firmware
  fw_data     \* the firmware each signing run signs

VARIABLES
  released,   \* the signing runs that have released their firmware
  hollow,     \* the signing runs that have released a signature of nothing
  verdict     \* per verification run: "none", "reject", "unchecked" or genuine firmware

vars == <<released, hollow, verdict>>

Init ==
  /\ released = {} /\ hollow = {}
  /\ verdict = [v \in Verifiers |-> "none"]

Release(s) ==
  /\ released' = released \cup {s}
  /\ UNCHANGED <<hollow, verdict>>

ReleaseHollow(s) ==
  /\ hollow' = hollow \cup {s}
  /\ UNCHANGED <<released, verdict>>

Accept(v, s) ==
  /\ verdict[v] = "none"
  /\ s \in released
  /\ verdict' = [verdict EXCEPT ![v] = fw_data[s]]
  /\ UNCHANGED <<released, hollow>>

PassUnchecked(v) ==
  /\ verdict[v] = "none"
  /\ hollow # {}
  /\ verdict' = [verdict EXCEPT ![v] = "unchecked"]
  /\ UNCHANGED <<released, hollow>>

Reject(v) ==
  /\ verdict[v] = "none"
  /\ verdict' = [verdict EXCEPT ![v] = "reject"]
  /\ UNCHANGED <<released, hollow>>

Next ==
  \/ \E s \in Signers : Release(s) \/ ReleaseHollow(s)
  \/ \E v \in Verifiers, s \in Signers : Accept(v, s)
  \/ \E v \in Verifiers : Reject(v) \/ PassUnchecked(v)

Spec == Init /\ [][Next]_vars

==========================================================================
