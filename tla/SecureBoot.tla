---------------------------- MODULE SecureBoot ---------------------------
(***************************************************************************)
(* 05_secure_boot_sim/secure_boot.c: main makes a root key, signs three    *)
(* stages, boots them in a chain, changes the second stage and boots       *)
(* again.  The results of key generation, of signing and of the calls that *)
(* hash an image are not looked at, and any library call may fail.         *)
(*                                                                         *)
(* ECDSA is ideal: a signature verifies only for the bytes it was made     *)
(* for, under the key it was made with.                                    *)
(***************************************************************************)
EXTENDS Integers, Sequences

VARIABLES
  pc,        \* the next call of main
  k,         \* the stage it is about
  boot,      \* 1: the normal boot, 2: the boot after the change
  root_key,  \* root_key # NULL
  data,      \* per stage: the image
  signature, \* per stage: the image that was signed, Nothing or Unsigned
  sig_len,   \* per stage: "zero", "most" (length asked for), "exact" (signed)
  ran,       \* history: per boot, the images that ran, in order
  unhashed,  \* history: <<boot, stage>> of the verifications of no image
  failed,    \* history: a library call failed
  code       \* exit code, 2 while the program runs

vars ==
  <<pc, k, boot, root_key, data, signature, sig_len, ran, unhashed, failed, code>>

Stages   == 1..3
Unsigned == "unsigned"
Nothing  == "nothing"  \* the empty message

Init ==
  /\ pc = "create_root_key" /\ k = 1 /\ boot = 1
  /\ root_key = FALSE
  /\ data = [s \in Stages |-> "original"]
  /\ signature = [s \in Stages |-> Unsigned]
  /\ sig_len = [s \in Stages |-> "zero"]
  /\ ran = [b \in 1..2 |-> <<>>]
  /\ unhashed = {}
  /\ failed = FALSE
  /\ code = 2

create_root_key ==
  /\ pc = "create_root_key"
  /\ root_key' \in BOOLEAN
  /\ failed' = ~root_key'
  /\ pc' = "sign"
  /\ UNCHANGED <<k, boot, data, signature, sig_len, ran, unhashed, code>>

(* The message a context comes to hold: the image, or nothing when the     *)
(* Update call fails, which nobody notices.                                *)
Hashed(s) == {data[s], Nothing}

(* EVP_DigestSignFinal is called for the length, then for the signature;   *)
(* either may fail, and without a key both do.                             *)
sign_stage ==
  /\ pc = "sign"
  /\ \/ /\ root_key
        /\ \E message \in Hashed(k) :
             /\ signature' = [signature EXCEPT ![k] = message]
             /\ failed' = (failed \/ message = Nothing)
        /\ sig_len' = [sig_len EXCEPT ![k] = "exact"]
     \/ /\ root_key
        /\ sig_len' = [sig_len EXCEPT ![k] = "most"]
        /\ failed' = TRUE
        /\ UNCHANGED signature
     \/ failed' = TRUE /\ UNCHANGED <<signature, sig_len>>
  /\ IF k < 3 THEN k' = k + 1 /\ UNCHANGED pc ELSE k' = 1 /\ pc' = "verify"
  /\ UNCHANGED <<boot, root_key, data, ran, unhashed, code>>

Covers(s, message) == root_key /\ sig_len[s] = "exact" /\ signature[s] = message

(* EVP_DigestVerifyFinal: 1 for a valid signature, 0 for another one, less *)
(* than 0 when it could not tell -- a malformed signature, a failed call.  *)
VerifyFinal(s, message) == IF Covers(s, message) THEN {1, 0, -1} ELSE {0, -1}

\* Mutant: if (result) in place of if (result == 1).
NotZero(result) == result # 0

Verified(result) == result = 1

(* boot_fail_demo returns 0, boot_fail returns 1; both free the key.       *)
Exit(c) ==
  /\ pc' = "exited" /\ code' = c
  /\ UNCHANGED <<k, ran>>

RunStage(next) ==
  /\ ran' = [ran EXCEPT ![boot] = Append(@, data[k])]
  /\ pc' = next
  /\ k' = IF next = "verify" THEN k + 1 ELSE 1
  /\ UNCHANGED code

\* Mutant: a verification that fails does not jump to boot_fail.
NoGoto(ok) == RunStage(IF k < 3 THEN "verify" ELSE "tamper")

FirstBoot(ok) ==
  \/ ok /\ RunStage(IF k < 3 THEN "verify" ELSE "tamper")
  \/ ~ok /\ Exit(1)

\* Mutant: a verification that fails does not jump to boot_fail_demo.
NoGotoDemo(ok) == (k < 3 /\ RunStage("verify")) \/ (k = 3 /\ Exit(0))

(* No stage runs after the first, whatever the answer about stage 2 is.    *)
SecondBoot(ok) ==
  \/ ok /\ k = 1 /\ RunStage("verify")
  \/ ~(ok /\ k = 1) /\ Exit(0)

verify_stage ==
  /\ pc = "verify"
  /\ \E message \in Hashed(k) : \E result \in VerifyFinal(k, message) :
       /\ IF boot = 1 THEN FirstBoot(Verified(result)) ELSE SecondBoot(Verified(result))
       /\ unhashed' = IF message = Nothing THEN unhashed \cup {<<boot, k>>} ELSE unhashed
       /\ failed' = (failed \/ message = Nothing \/ (Covers(k, message) /\ result # 1))
  /\ UNCHANGED <<boot, root_key, data, signature, sig_len>>

(* stage2.data[0] ^= 0xFF, and the second boot begins.                     *)
Tamper ==
  /\ pc = "tamper"
  /\ data' = [data EXCEPT ![2] = "changed"]
  /\ boot' = 2 /\ pc' = "verify"
  /\ UNCHANGED <<k, root_key, signature, sig_len, ran, unhashed, failed, code>>

(* No memory for a context: the library is handed a NULL.                  *)
Crash ==
  /\ pc \in {"create_root_key", "sign", "verify"}
  /\ pc' = "crashed"
  /\ failed' = TRUE
  /\ UNCHANGED <<k, boot, root_key, data, signature, sig_len, ran, unhashed, code>>

Over == pc \in {"exited", "crashed"} /\ UNCHANGED vars

Next == create_root_key \/ sign_stage \/ verify_stage \/ Tamper \/ Crash \/ Over

Spec == Init /\ [][Next]_vars

---------------------------------------------------------------------------
(* Properties                                                              *)

(* The stage's image is signed; or neither its signature nor the answer    *)
(* about it is about the image: two failed Update calls cancel out.        *)
Trusted(b, s) ==
  \/ signature[s] = "original"
  \/ signature[s] = Nothing /\ <<b, s>> \in unhashed

(* Exit code 0 is given only after a boot in which all three stages ran,   *)
(* each signed and verified -- or not hashed both times, since no Update   *)
(* is looked at -- and exit code 1 only if the kernel never ran.           *)
CodeTellsTheBoot ==
  /\ code = 0 => Len(ran[1]) = 3 /\ \A s \in Stages : Trusted(1, s)
  /\ code = 1 => Len(ran[1]) < 3 /\ ran[2] = <<>>

(* If no library call fails the first boot completes and the second one    *)
(* stops before the changed stage, with exit code 0.                       *)
HonestRunDetectsTampering ==
  (pc = "exited" /\ ~failed) =>
    code = 0 /\ ran[1] = <<"original", "original", "original">> /\ ran[2] = <<"original">>

(* Both boots keep the promise of a chain of trust: no stage runs out of   *)
(* order, or over an image other than the signed one unless its signature  *)
(* was made over nothing, whatever else fails.                             *)
Chain == INSTANCE BootChain WITH
  Last <- 3,
  up <- Len(ran[boot]),
  genuine <- {s \in Stages : Covers(s, data[s])},
  hollow <- {s \in Stages : Covers(s, Nothing)}

ImplementsChain == Chain!Spec

==========================================================================
