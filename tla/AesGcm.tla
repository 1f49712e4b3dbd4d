----------------------------- MODULE AesGcm ------------------------------
(***************************************************************************)
(* 02_aes_encryption/aes_gcm.c: main encrypts one message with associated  *)
(* data, decrypts it, then tries to decrypt it with a changed ciphertext   *)
(* and with changed associated data.  Each function drives one OpenSSL     *)
(* cipher context through its calls in order; any call may fail.           *)
(*                                                                         *)
(* main drops what RAND_bytes returns: a key or an IV that was not filled  *)
(* is what the stack holds, the same in every call.                        *)
(*                                                                         *)
(* AES-GCM is ideal: a tag fits only the ciphertext and associated data it *)
(* was computed for.  Decryption writes the plaintext buffer before the    *)
(* tag is looked at.                                                       *)
(***************************************************************************)
EXTENDS Integers, Sequences

CONSTANT plaintext_len  \* length of the message

ASSUME LengthAssumption == plaintext_len \in Nat \ {0}

VARIABLES
  job,         \* which call of main is being made, an index of Jobs
  pc,          \* next library call, or "main" between the functions
  ctx,         \* the cipher context, or NoCtx
  ciphertext,  \* main's buffer: "ct" once it is written
  tag,         \* main's buffer: what the tag was computed for, or NoTag
  decrypted,   \* main's buffer: what a decryption wrote there last
  pt_len,      \* what the function called last returned
  shown,       \* per job: what main printed about it
  code,        \* exit code, 2 while the program runs
  failed       \* history: the jobs in which a library call failed; 0: RAND_bytes

vars == <<job, pc, ctx, ciphertext, tag, decrypted, pt_len, shown, code, failed>>

\* What each call passes: direction, ciphertext, associated data.
Jobs == <<[dir |-> "enc", ct |-> "ct",      aad |-> "aad"],
          [dir |-> "dec", ct |-> "ct",      aad |-> "aad"],
          [dir |-> "dec", ct |-> "changed", aad |-> "aad"],
          [dir |-> "dec", ct |-> "ct",      aad |-> "changed"]>>

Args == Jobs[job]

NoTag   == [ct |-> "none", aad |-> "none"]
NoCtx   == [live |-> FALSE, set |-> {}, aad |-> "none", ct |-> "none", tag |-> NoTag]
NewCtx  == [NoCtx EXCEPT !.live = TRUE]

\* The calls of each function, in order.
Calls == [enc |-> <<"new", "cipher", "ivlen", "key", "aad", "update", "final", "get_tag">>,
          dec |-> <<"new", "cipher", "ivlen", "key", "aad", "update", "set_tag", "final">>]

CallsNow == Calls[Args.dir]

Init ==
  /\ job = 1 /\ pc = 1
  /\ ctx = NoCtx
  /\ ciphertext = "unset" /\ tag = NoTag /\ decrypted = "unset"
  /\ pt_len = 0
  /\ shown = [j \in DOMAIN Jobs |-> "nothing"]
  /\ code = 2
  /\ failed \in {{}, {0}}

---------------------------------------------------------------------------
(* aes_gcm_encrypt and aes_gcm_decrypt                                     *)

\* Position in main after the last call of a function.
Main == 9

At(call) == pc # Main /\ code = 2 /\ CallsNow[pc] = call

Return(n) == pc' = Main /\ pt_len' = n

Configured == ctx.set = {"cipher", "ivlen", "key"}

(* The call finds what it builds on: a call out of order always fails.     *)
InOrder(call) ==
  /\ call \in {"ivlen", "key"} => "cipher" \in ctx.set
  /\ call \in {"aad", "update"} => Configured

(* A library call fails: the context is freed and -1 returned.  It is the  *)
(* library's failure only if the call was made in order.                   *)
Fail ==
  /\ failed' = IF InOrder(CallsNow[pc]) THEN failed \cup {job} ELSE failed
  /\ ctx' = NoCtx
  /\ Return(-1)
  /\ UNCHANGED <<job, ciphertext, tag, decrypted, shown, code>>

LibraryFails ==
  /\ pc # Main /\ code = 2
  /\ Args.dir = "dec" => CallsNow[pc] # "final"
  /\ Fail

Succeeds(call) ==
  /\ At(call) /\ InOrder(call)
  /\ pc' = pc + 1
  /\ UNCHANGED <<job, pt_len, shown, code, failed>>

New ==
  /\ Succeeds("new")
  /\ ctx' = NewCtx
  /\ UNCHANGED <<ciphertext, tag, decrypted>>

(* The cipher, the IV length, and the key with the IV.                     *)
Configure ==
  \E c \in {"cipher", "ivlen", "key"} :
    /\ Succeeds(c)
    /\ ctx' = [ctx EXCEPT !.set = @ \cup {c}]
    /\ UNCHANGED <<ciphertext, tag, decrypted>>

\* Mutant: associated data is not fed to the cipher.
FeedNothing ==
  /\ Succeeds("aad")
  /\ UNCHANGED <<ctx, ciphertext, tag, decrypted>>

FeedAad ==
  /\ Succeeds("aad")
  /\ ctx' = [ctx EXCEPT !.aad = Args.aad]
  /\ UNCHANGED <<ciphertext, tag, decrypted>>

(* Encryption fills ciphertext, decryption fills the plaintext buffer; a   *)
(* changed ciphertext gives a changed plaintext.                           *)
Update ==
  /\ Succeeds("update")
  /\ ctx' = [ctx EXCEPT !.ct = Args.ct]
  /\ IF Args.dir = "enc"
       THEN ciphertext' = "ct" /\ UNCHANGED decrypted
       ELSE decrypted' = (IF Args.ct = "ct" THEN "plaintext" ELSE "changed")
            /\ UNCHANGED ciphertext
  /\ UNCHANGED tag

SetTag ==
  /\ Succeeds("set_tag")
  /\ ctx' = [ctx EXCEPT !.tag = tag]
  /\ UNCHANGED <<ciphertext, tag, decrypted>>

EncryptFinal ==
  /\ Args.dir = "enc"
  /\ Succeeds("final")
  /\ UNCHANGED <<ctx, ciphertext, tag, decrypted>>

GetTag ==
  /\ At("get_tag")
  /\ tag' = [ct |-> ctx.ct, aad |-> ctx.aad]
  /\ ctx' = NoCtx
  /\ Return(plaintext_len)
  /\ UNCHANGED <<job, ciphertext, decrypted, shown, code, failed>>

\* Mutant: the tag only has to fit the ciphertext.
CiphertextFits == ctx.tag.ct = ctx.ct

TagFits == ctx.tag = [ct |-> ctx.ct, aad |-> ctx.aad]

DecryptResult(ret) == IF ret THEN plaintext_len ELSE -2

(* The context is freed before the answer is looked at.  An unfit tag and  *)
(* a failure inside the call give the same answer.                         *)
DecryptFinal ==
  /\ Args.dir = "dec" /\ At("final")
  /\ \E ret \in {TagFits, FALSE} :
       /\ failed' = IF ret = TagFits THEN failed ELSE failed \cup {job}
       /\ Return(DecryptResult(ret))
  /\ ctx' = NoCtx
  /\ UNCHANGED <<job, ciphertext, tag, decrypted, shown, code>>

---------------------------------------------------------------------------
(* main                                                                    *)

(* What main prints after job 2, 3 and 4: the text, a message, or nothing. *)
Verdict ==
  CASE job = 2 /\ pt_len >= 0 -> decrypted
    [] job = 2 /\ pt_len < 0  -> "failed"
    [] job = 3 /\ pt_len = -2 -> "tamper_found"
    [] job = 3 /\ pt_len >= 0 -> "unexpected"
    [] job = 4 /\ pt_len = -2 -> "tamper_found"
    [] OTHER                  -> "nothing"

MainGoesOn ==
  /\ pc = Main /\ code = 2
  /\ IF job = 1 /\ pt_len < 0
       THEN /\ shown' = [shown EXCEPT ![job] = "failed"]
            /\ code' = 1
            /\ UNCHANGED <<job, pc>>
       ELSE /\ shown' = [shown EXCEPT ![job] = Verdict]
            /\ IF job = Len(Jobs)
                 THEN code' = 0 /\ UNCHANGED <<job, pc>>
                 ELSE job' = job + 1 /\ pc' = 1 /\ UNCHANGED code
  /\ UNCHANGED <<ctx, ciphertext, tag, decrypted, pt_len, failed>>

Over == code # 2 /\ UNCHANGED vars

Next ==
  \/ LibraryFails \/ New \/ Configure \/ FeedAad \/ Update \/ SetTag
  \/ EncryptFinal \/ GetTag \/ DecryptFinal
  \/ MainGoesOn \/ Over

Spec == Init /\ [][Next]_vars

---------------------------------------------------------------------------
(* Properties                                                              *)

(* What main shows of the buffer is the plaintext of a decryption in which *)
(* no call failed, and of the changed inputs it shows nothing.             *)
ShownIsVerified ==
  /\ shown[2] \in {"nothing", "failed", "plaintext"}
  /\ shown[2] = "plaintext" => 2 \notin failed
  /\ \A j \in 3..4 : shown[j] \in {"nothing", "tamper_found"}

(* A decryption is accepted, by the function (a length, not an error) and  *)
(* in what main shows, only for the very ciphertext and associated data    *)
(* that were encrypted and only when the tag has been found to fit,        *)
(* although the buffer has been written by then in every case.             *)
DecryptedIsAuthentic ==
  /\ (pc = Main /\ Args.dir = "dec" /\ pt_len >= 0)
       => Args.ct = "ct" /\ Args.aad = "aad" /\ decrypted = "plaintext"
  /\ ShownIsVerified

(* If no call of the cipher fails, main shows the message it encrypted,    *)
(* reports both changes and exits with 0, even with a key and an IV that   *)
(* were never filled.                                                      *)
HonestRunShowsAll ==
  (code # 2 /\ failed \subseteq {0})
    => /\ code = 0
       /\ shown[2] = "plaintext"
       /\ shown[3] = "tamper_found" /\ shown[4] = "tamper_found"

==========================================================================
