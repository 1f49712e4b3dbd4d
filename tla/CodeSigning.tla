--------------------------- MODULE CodeSigning ---------------------------
(***************************************************************************)
(* 06_code_signing: sign_firmware and verify_firmware are separate         *)
(* programs that meet only in the files of one directory: signing_key.pem, *)
(* public_key.pem and signed_firmware.bin.  Nothing locks the files, no    *)
(* file is replaced atomically, and either program may be killed between   *)
(* two of its calls.  One action per file operation of each program.  The  *)
(* results of most calls are not looked at, so a key generation, a         *)
(* signing, a write, a read or a verification may fail and the program go  *)
(* on: `sfailed' and `vfailed' remember what failed.                       *)
(*                                                                         *)
(* Data is abstracted to who produced it: a key pair is named by the       *)
(* signing run that generated it, a PEM file holds a key or no readable    *)
(* PEM block, and each of the three regions of signed_firmware.bin holds   *)
(* the bytes one signing run wrote there, or none.  ECDSA is ideal: only   *)
(* the holder of a key makes a signature the key verifies.                 *)
(***************************************************************************)
EXTENDS Naturals, FiniteSets

CONSTANTS
  Signers,     \* executions of sign_firmware; each generates its own key pair
  Verifiers,   \* executions of verify_firmware
  fw_data,     \* the firmware built into the sign_firmware that each one runs
  SigLengths,  \* lengths a DER-encoded ECDSA signature can have
  FwFiles,     \* file names verify_firmware is called with
  MaxFaults    \* bound: how many kills and failing calls there are, beside
               \* a failing EVP_DigestVerifyUpdate

OutFile == "signed_firmware.bin"

\* What stands in place of a key or of the bytes of a region.
Absent == "absent"   \* no such file
Torn   == "torn"     \* a file without a complete PEM block
NoKey  == "nokey"    \* pkey == NULL
Junk   == "junk"     \* bytes no signing run wrote: a hole, or unread memory
NoOne  == "noone"    \* no signing run

ASSUME NamesAssumption ==
  Signers \cap {Absent, Torn, NoKey, Junk, NoOne} = {}
ASSUME ProgramsAssumption == Signers \cap Verifiers = {}
ASSUME SizesAssumption == \A n \in SigLengths : n \in Nat
ASSUME BoundAssumption == MaxFaults \in Nat

Regions == {"header", "signature", "payload"}

VARIABLES
  spc,          \* signer: next call to make
  pkey,         \* signer: its key pair
  sig_len,      \* signer: length of its signature, header.sig_length
  signature,    \* signer: what its array of that name holds
  signing_key,  \* file signing_key.pem
  public_key,   \* file public_key.pem
  fw_exists,    \* file signed_firmware.bin exists
  package,      \* its regions: who wrote the bytes now there
  vpc,          \* verifier: next call to make
  fw_file,      \* verifier: the file it was asked to verify
  vkey,         \* verifier: the public key it loaded
  buf,          \* verifier: header, signature, payload as read
  held,         \* verifier: resources not yet released
  result,       \* verifier: exit code, 2 while it runs
  dead,         \* the programs that were killed
  latest,       \* history: the signer that started last
  alone,        \* history: signers no other signer has run beside
  calm,         \* history: the release in place all through a verifier's run
  sfailed,      \* history: the calls of a signer that failed unnoticed
  vfailed       \* history: the calls of a verifier that failed unnoticed

files    == <<signing_key, public_key, fw_exists, package>>
signVars == <<spc, pkey, sig_len, signature, sfailed>>
verVars  == <<vpc, fw_file, vkey, buf, held, result, vfailed>>
history  == <<latest, alone, calm>>
vars     == <<files, signVars, verVars, history, dead>>

SignerSteps == {"idle", "fopen_priv", "write_priv", "fopen_pub", "write_pub",
                "sign", "fopen_out", "write_header", "write_sig",
                "write_payload", "done"}
VerifierSteps == {"idle", "load_key", "fopen_fw", "read_header", "read_sig",
                  "read_payload", "verify", "exited"}
Resources == {"pkey", "fw", "signature", "payload", "ctx"}
Signatures == {"unfilled", "of_firmware", "of_nothing"}

Running(s)   == spc[s] \notin {"idle", "done"} /\ s \notin dead
Verifying(v) == vpc[v] \notin {"idle", "exited"} /\ v \notin dead

SignerCalls   == {"keygen", "signing_key", "public_key", "sign"} \cup Regions
VerifierCalls == {"load", "read", "update", "verify"}

\* One more kill or failing call is within the bound.
MayFail ==
  Cardinality(dead)
  + Cardinality({sc \in Signers \X SignerCalls : sc[2] \in sfailed[sc[1]]})
  + Cardinality({vc \in Verifiers \X {"load", "read", "verify"} :
                   vc[2] \in vfailed[vc[1]]})
    < MaxFaults

Init ==
  /\ spc = [s \in Signers |-> "idle"]
  /\ pkey = [s \in Signers |-> NoKey]
  /\ sig_len = [s \in Signers |-> 0]
  /\ signature = [s \in Signers |-> "unfilled"]
  /\ signing_key = Absent /\ public_key = Absent
  /\ fw_exists = FALSE
  /\ package = [r \in Regions |-> Junk]
  /\ vpc = [v \in Verifiers |-> "idle"]
  /\ fw_file = [v \in Verifiers |-> OutFile]
  /\ vkey = [v \in Verifiers |-> NoKey]
  /\ buf = [v \in Verifiers |-> [r \in Regions |-> Junk]]
  /\ held = [v \in Verifiers |-> {}]
  /\ result = [v \in Verifiers |-> 2]
  /\ dead = {}
  /\ latest = NoOne /\ alone = {}
  /\ calm = [v \in Verifiers |-> NoOne]
  /\ sfailed = [s \in Signers |-> {}]
  /\ vfailed = [v \in Verifiers |-> {}]

---------------------------------------------------------------------------
(* sign_firmware                                                           *)

SGoto(s, from, to) ==
  /\ spc[s] = from /\ s \notin dead
  /\ spc' = [spc EXCEPT ![s] = to]

SFails(s, call) == MayFail /\ sfailed' = [sfailed EXCEPT ![s] = @ \cup {call}]

(* main starts and generates its key; the result of EVP_PKEY_keygen is not *)
(* looked at, so on failure the program goes on with a NULL key.           *)
Keygen(s) ==
  /\ SGoto(s, "idle", "fopen_priv")
  /\ \/ pkey' = [pkey EXCEPT ![s] = s] /\ UNCHANGED sfailed
     \/ SFails(s, "keygen") /\ UNCHANGED pkey
  /\ latest' = s
  /\ alone' = IF \E t \in Signers : Running(t)
              THEN {t \in alone : ~Running(t)}
              ELSE alone \cup {s}
  /\ calm' = [v \in Verifiers |-> IF Verifying(v) THEN NoOne ELSE calm[v]]
  /\ UNCHANGED <<files, sig_len, signature, verVars, dead>>

(* fopen(.., "w") empties the file at once.                                *)
FopenPrivate(s) ==
  /\ SGoto(s, "fopen_priv", "write_priv")
  /\ signing_key' = Torn
  /\ UNCHANGED <<pkey, sig_len, signature, sfailed, public_key, fw_exists, package,
                 verVars, history, dead>>

(* PEM_write_* and fclose: the key is in the file, or the write failed,    *)
(* with no result looked at -- without a key it always does -- and what    *)
(* the file held stays or is cut up.                                       *)
WritePem(s, f, file) ==
  \/ pkey[s] # NoKey /\ file' = pkey[s] /\ UNCHANGED sfailed
  \/ pkey[s] # NoKey /\ file' \in {file, Torn} /\ SFails(s, f)
  \/ pkey[s] = NoKey /\ file' \in {file, Torn} /\ UNCHANGED sfailed

\* Mutant: signing_key.pem is not flushed.
LosePrivate(s) ==
  /\ SGoto(s, "write_priv", "fopen_pub")
  /\ UNCHANGED <<files, pkey, sig_len, signature, sfailed, verVars, history, dead>>

WritePrivate(s) ==
  /\ SGoto(s, "write_priv", "fopen_pub")
  /\ WritePem(s, "signing_key", signing_key)
  /\ UNCHANGED <<pkey, sig_len, signature, public_key, fw_exists, package,
                 verVars, history, dead>>

FopenPublic(s) ==
  /\ SGoto(s, "fopen_pub", "write_pub")
  /\ public_key' = Torn
  /\ UNCHANGED <<pkey, sig_len, signature, sfailed, signing_key, fw_exists, package,
                 verVars, history, dead>>

\* Mutant: public_key.pem is not flushed.
LosePublic(s) ==
  /\ SGoto(s, "write_pub", "sign")
  /\ UNCHANGED <<files, pkey, sig_len, signature, sfailed, verVars, history, dead>>

WritePublic(s) ==
  /\ SGoto(s, "write_pub", "sign")
  /\ WritePem(s, "public_key", public_key)
  /\ UNCHANGED <<pkey, sig_len, signature, signing_key, fw_exists, package,
                 verVars, history, dead>>

(* No EVP_DigestSign* result is looked at.  When the update fails the      *)
(* signature is one of the empty message; when another call does, or there *)
(* is no key, the array stays as the stack left it and sig_len may be      *)
(* anything.  The DER length of a signature varies from run to run.        *)
Sign(s) ==
  /\ SGoto(s, "sign", "fopen_out")
  /\ \E n \in SigLengths : sig_len' = [sig_len EXCEPT ![s] = n]
  /\ \/ /\ pkey[s] # NoKey
        /\ signature' = [signature EXCEPT ![s] = "of_firmware"]
        /\ UNCHANGED sfailed
     \/ /\ pkey[s] # NoKey
        /\ \E g \in {"of_nothing", "unfilled"} : signature' = [signature EXCEPT ![s] = g]
        /\ SFails(s, "sign")
     \/ pkey[s] = NoKey /\ UNCHANGED <<signature, sfailed>>
  /\ UNCHANGED <<files, pkey, verVars, history, dead>>

FopenPackage(s) ==
  /\ SGoto(s, "fopen_out", "write_header")
  /\ fw_exists' = TRUE
  /\ package' = [r \in Regions |-> Junk]
  /\ UNCHANGED <<pkey, sig_len, signature, sfailed, signing_key, public_key,
                 verVars, history, dead>>

(* Signatures of two runs may differ in length, and then the regions of    *)
(* one run do not lie where those of the other do: writing one region      *)
(* overwrites part of the neighbouring region of the other run.            *)
Clobbers(s, r, q) ==
  /\ package[q] # Junk
  /\ \/ r = "signature" /\ q = "payload" /\ sig_len[package[q]] < sig_len[s]
     \/ r = "payload" /\ q = "signature" /\ sig_len[package[q]] > sig_len[s]

WriteRegion(s, r, from, to) ==
  /\ \/ /\ SGoto(s, from, to)
        /\ package' = [q \in Regions |-> IF q = r THEN s
                                        ELSE IF Clobbers(s, r, q) THEN Junk
                                        ELSE package[q]]
        /\ UNCHANGED sfailed
     \* fwrite only fills stdio's buffer; where writing it out fails, the rest
     \* of the buffer is lost as well.
     \/ /\ SGoto(s, from, "done")
        /\ \E cut \in SUBSET {q \in Regions : q = r \/ Clobbers(s, r, q)} :
             package' = [q \in Regions |-> IF q \in cut THEN Junk ELSE package[q]]
        /\ SFails(s, r)
  /\ UNCHANGED <<pkey, sig_len, signature, signing_key, public_key, fw_exists,
                 verVars, history, dead>>

WriteHeader(s)    == WriteRegion(s, "header", "write_header", "write_sig")
WriteSignature(s) == WriteRegion(s, "signature", "write_sig", "write_payload")
WritePayload(s)   == WriteRegion(s, "payload", "write_payload", "done")

SignerStep(s) ==
  \/ FopenPrivate(s) \/ WritePrivate(s) \/ FopenPublic(s) \/ WritePublic(s)
  \/ Sign(s) \/ FopenPackage(s)
  \/ WriteHeader(s) \/ WriteSignature(s) \/ WritePayload(s)

(* Killed from outside, or by a NULL FILE where fopen failed.              *)
KillSigner(s) ==
  /\ MayFail
  /\ Running(s)
  /\ dead' = dead \cup {s}
  /\ UNCHANGED <<files, signVars, verVars, history>>

---------------------------------------------------------------------------
(* verify_firmware                                                         *)

(* The signing run s is the last one, is over, and nobody ran beside it.   *)
Settled(s) == s = latest /\ s \in alone /\ spc[s] = "done"

VStart(v) ==
  /\ vpc[v] = "idle"
  /\ vpc' = [vpc EXCEPT ![v] = "load_key"]
  /\ \E f \in FwFiles : fw_file' = [fw_file EXCEPT ![v] = f]
  /\ calm' = [calm EXCEPT ![v] = IF \E s \in Signers : Settled(s)
                                 THEN latest ELSE NoOne]
  /\ UNCHANGED <<files, signVars, vkey, buf, held, result, vfailed, dead,
                 latest, alone>>

At(v, step) == vpc[v] = step /\ v \notin dead

\* Mutant: exit code -1, 255 to the caller, for every failure.
VExitMinusOne(v, code) ==
  /\ vpc' = [vpc EXCEPT ![v] = "exited"]
  /\ result' = [result EXCEPT ![v] = IF code = 0 THEN 0 ELSE 255]

VExit(v, code) ==
  /\ vpc' = [vpc EXCEPT ![v] = "exited"]
  /\ result' = [result EXCEPT ![v] = code]

VFails(v, call) == MayFail /\ vfailed' = [vfailed EXCEPT ![v] = @ \cup {call}]

(* PEM_read_PUBKEY answers NULL on a file without a PEM block, or when it  *)
(* fails, and the NULL is not checked.                                     *)
VLoadKey(v) ==
  /\ At(v, "load_key")
  /\ IF public_key = Absent
       THEN /\ VExit(v, 1)
            /\ UNCHANGED <<vkey, held, vfailed>>
       ELSE /\ \/ /\ vkey' = [vkey EXCEPT ![v] =
                               IF public_key = Torn THEN NoKey ELSE public_key]
                  /\ UNCHANGED vfailed
               \/ /\ vkey' = [vkey EXCEPT ![v] = NoKey]
                  /\ VFails(v, "load")
            /\ held' = [held EXCEPT ![v] = @ \cup {"pkey"}]
            /\ vpc' = [vpc EXCEPT ![v] = "fopen_fw"]
            /\ UNCHANGED result
  /\ UNCHANGED <<files, signVars, fw_file, buf, history, dead>>

VOpenFirmware(v) ==
  /\ At(v, "fopen_fw")
  /\ IF fw_file[v] = OutFile /\ fw_exists
       THEN /\ held' = [held EXCEPT ![v] = @ \cup {"fw"}]
            /\ vpc' = [vpc EXCEPT ![v] = "read_header"]
            /\ UNCHANGED result
       ELSE /\ VExit(v, 1)
            /\ held' = [held EXCEPT ![v] = @ \ {"pkey"}]
  /\ UNCHANGED <<files, signVars, fw_file, vkey, buf, vfailed, history, dead>>

(* fread's count is ignored: where it fails, the bytes of the buffer are   *)
(* as the stack or malloc left them.                                       *)
Fread(v, r, bytes) ==
  \/ /\ buf' = [buf EXCEPT ![v][r] = bytes]
     /\ UNCHANGED vfailed
  \/ /\ buf' = [buf EXCEPT ![v][r] = Junk]
     /\ VFails(v, "read")

\* Mutant: the package is not closed when the magic is wrong.
VReadHeaderLeaks(v) ==
  /\ At(v, "read_header")
  /\ Fread(v, "header", package["header"])
  /\ IF buf'[v]["header"] = Junk
       THEN /\ VExit(v, 1)
            /\ held' = [held EXCEPT ![v] = @ \ {"pkey"}]
       ELSE /\ held' = [held EXCEPT ![v] = @ \cup {"signature"}]
            /\ vpc' = [vpc EXCEPT ![v] = "read_sig"]
            /\ UNCHANGED result
  /\ UNCHANGED <<files, signVars, fw_file, vkey, history, dead>>

(* Of a short file the header stays as it was, and the magic check rejects *)
(* it.                                                                     *)
VReadHeader(v) ==
  /\ At(v, "read_header")
  /\ Fread(v, "header", package["header"])
  /\ IF buf'[v]["header"] = Junk
       THEN /\ VExit(v, 1)
            /\ held' = [held EXCEPT ![v] = @ \ {"fw", "pkey"}]
       ELSE /\ held' = [held EXCEPT ![v] = @ \cup {"signature"}]
            /\ vpc' = [vpc EXCEPT ![v] = "read_sig"]
            /\ UNCHANGED result
  /\ UNCHANGED <<files, signVars, fw_file, vkey, history, dead>>

\* Mutant: the signature is read with a fixed length.
AlignedFixed(h, w) ==
  IF w = Junk \/ sig_len[w] # (CHOOSE n \in SigLengths : TRUE) THEN Junk ELSE w

(* The bytes of a region as read at the offset and length header h gives:  *)
(* cut elsewhere than they were written, they are nobody's.                *)
Aligned(h, w) == IF w = Junk \/ sig_len[w] # sig_len[h] THEN Junk ELSE w

VReadSignature(v) ==
  /\ At(v, "read_sig")
  /\ Fread(v, "signature", Aligned(buf[v]["header"], package["signature"]))
  /\ held' = [held EXCEPT ![v] = @ \cup {"payload"}]
  /\ vpc' = [vpc EXCEPT ![v] = "read_payload"]
  /\ UNCHANGED <<files, signVars, fw_file, vkey, result, history, dead>>

VReadPayload(v) ==
  /\ At(v, "read_payload")
  /\ Fread(v, "payload", Aligned(buf[v]["header"], package["payload"]))
  /\ held' = [held EXCEPT ![v] = (@ \ {"fw"}) \cup {"ctx"}]
  /\ vpc' = [vpc EXCEPT ![v] = "verify"]
  /\ UNCHANGED <<files, signVars, fw_file, vkey, result, history, dead>>

\* Mutant: the payload read last is not what is verified.
SignatureKnown(key, b) ==
  /\ key # NoKey
  /\ b["signature"] = key
  /\ signature[key] = "of_firmware"
  /\ b["payload"] # Junk

(* EVP_DigestVerifyFinal over what was read.                               *)
SignatureValid(key, b) ==
  /\ key # NoKey
  /\ b["signature"] = key
  /\ signature[key] = "of_firmware"
  /\ b["payload"] # Junk
  /\ fw_data[b["payload"]] = fw_data[key]

(* The same when EVP_DigestVerifyUpdate had failed: over no bytes at all.  *)
EmptyValid(key, b) ==
  /\ key # NoKey
  /\ b["signature"] = key
  /\ signature[key] = "of_nothing"

(* Only the last of the EVP_DigestVerify* results is looked at.            *)
VVerify(v) ==
  /\ At(v, "verify")
  /\ \/ /\ VExit(v, IF SignatureValid(vkey[v], buf[v]) THEN 0 ELSE 1)
        /\ UNCHANGED vfailed
     \/ /\ VExit(v, IF EmptyValid(vkey[v], buf[v]) THEN 0 ELSE 1)
        /\ vfailed' = [vfailed EXCEPT ![v] = @ \cup {"update"}]
     \/ /\ VExit(v, 1)
        /\ VFails(v, "verify")
  /\ held' = [held EXCEPT ![v] = @ \ {"ctx", "signature", "payload", "pkey"}]
  /\ UNCHANGED <<files, signVars, fw_file, vkey, buf, history, dead>>

VerifierStep(v) ==
  \/ VLoadKey(v) \/ VOpenFirmware(v)
  \/ VReadHeader(v) \/ VReadSignature(v) \/ VReadPayload(v) \/ VVerify(v)

(* Killed from outside, or by a NULL key or buffer inside the library.     *)
KillVerifier(v) ==
  /\ MayFail
  /\ Verifying(v)
  /\ dead' = dead \cup {v}
  /\ UNCHANGED <<files, signVars, verVars, history>>

---------------------------------------------------------------------------

(* Every program has been run and is over: the only way to stop.           *)
AllOver ==
  /\ \A s \in Signers : spc[s] = "done" \/ s \in dead
  /\ \A v \in Verifiers : vpc[v] = "exited" \/ v \in dead
  /\ UNCHANGED vars

Next ==
  \/ \E s \in Signers : Keygen(s) \/ SignerStep(s) \/ KillSigner(s)
  \/ \E v \in Verifiers : VStart(v) \/ VerifierStep(v) \/ KillVerifier(v)
  \/ AllOver

Spec == Init /\ [][Next]_vars

---------------------------------------------------------------------------
(* Properties                                                              *)

(* Every variable stays in its domain.                                     *)
TypeOK ==
  /\ spc \in [Signers -> SignerSteps]
  /\ pkey \in [Signers -> Signers \cup {NoKey}]
  /\ sig_len \in [Signers -> SigLengths \cup {0}]
  /\ signature \in [Signers -> Signatures]
  /\ signing_key \in Signers \cup {Absent, Torn}
  /\ public_key \in Signers \cup {Absent, Torn}
  /\ fw_exists \in BOOLEAN
  /\ package \in [Regions -> Signers \cup {Junk}]
  /\ vpc \in [Verifiers -> VerifierSteps]
  /\ fw_file \in [Verifiers -> FwFiles \cup {OutFile}]
  /\ vkey \in [Verifiers -> Signers \cup {NoKey}]
  /\ buf \in [Verifiers -> [Regions -> Signers \cup {Junk}]]
  /\ held \in [Verifiers -> SUBSET Resources]
  /\ result \in [Verifiers -> {0, 1, 2}]
  /\ dead \subseteq Signers \cup Verifiers
  /\ latest \in Signers \cup {NoOne}
  /\ alone \subseteq Signers
  /\ calm \in [Verifiers -> Signers \cup {NoOne}]
  /\ sfailed \in [Signers -> SUBSET SignerCalls]
  /\ vfailed \in [Verifiers -> SUBSET VerifierCalls]

Accepts(v) == vpc[v] = "exited" /\ result[v] = 0

(* Run s has a key and has put a header and a signature on disk.           *)
SignatureOut(s) ==
  /\ pkey[s] = s /\ spc[s] \in {"write_payload", "done"}
  /\ sfailed[s] \cap {"header", "signature"} = {}

(* verify_firmware declares firmware genuine (exit code 0) only if the     *)
(* payload it prints is what the holder of the loaded public key signed,   *)
(* and only after that signing run had put its signature on disk, however  *)
(* the files were rewritten while it read.  The one exception takes two    *)
(* unnoticed failures, one in either program: an update of the signing     *)
(* and an update of this verification.                                     *)
AcceptedIsAuthentic ==
  \A v \in Verifiers : Accepts(v) =>
    \E s \in Signers :
      /\ vkey[v] = s /\ SignatureOut(s)
      /\ \/ /\ signature[s] = "of_firmware"
            /\ buf[v]["payload"] # Junk
            /\ fw_data[buf[v]["payload"]] = fw_data[s]
         \/ signature[s] = "of_nothing" /\ "update" \in vfailed[v]

(* What run s leaves in a PEM file that no other run opens after it.       *)
PemLeft(s, f) == IF pkey[s] = s /\ f \notin sfailed[s] THEN s ELSE Torn

(* A signing run that ran to its end with no other run beside it and was   *)
(* followed by none leaves exactly what it managed to write: each PEM file *)
(* complete, or torn when its own write failed, and a package of its own    *)
(* bytes, all of them unless a write of it failed -- whatever earlier      *)
(* runs, killed or overlapping, had left.                                  *)
UndisturbedRunReleases ==
  \A s \in Signers : Settled(s) =>
    /\ signing_key = PemLeft(s, "signing_key")
    /\ public_key = PemLeft(s, "public_key")
    /\ fw_exists
    /\ \A r \in Regions : package[r] \in {s, Junk}
    /\ sfailed[s] \cap Regions = {} => package = [r \in Regions |-> s]

(* Killed anywhere, an undisturbed signing run may leave its new public    *)
(* key with an old package, but never bytes of its package beside an older *)
(* key: the files hold its own, or none where its own write failed.        *)
PackageNeverOutrunsKey ==
  \A s \in Signers :
    (s = latest /\ s \in alone /\ \E r \in Regions : package[r] = s)
      => /\ signing_key = PemLeft(s, "signing_key")
         /\ public_key = PemLeft(s, "public_key")

(* Every call of run s that a verification depends on succeeded.           *)
Verifiable(s) == sfailed[s] \subseteq {"signing_key"}

(* Signed then verified, with no signing run in between: exit code 0       *)
(* exactly when no call this depends on had failed, in either program.      *)
CalmVerificationAccepts ==
  \A v \in Verifiers :
    (vpc[v] = "exited" /\ calm[v] # NoOne /\ fw_file[v] = OutFile /\ vfailed[v] = {})
      => (result[v] = 0 <=> Verifiable(calm[v]))

(* On every way out of verify_firmware the package is closed and the key,  *)
(* the two buffers and the digest context are freed.                       *)
ExitReleasesAll == \A v \in Verifiers : vpc[v] = "exited" => held[v] = {}

(* The README's two commands, "sign_firmware sample.bin signed.bin" then   *)
(* "verify_firmware signed.bin" with no signing run in between and no call *)
(* failing, verify.                                                        *)
DocumentedWorkflow ==
  \A v \in Verifiers :
    (/\ vpc[v] = "exited" /\ calm[v] # NoOne /\ fw_file[v] = "signed.bin"
     /\ vfailed[v] = {} /\ Verifiable(calm[v]))
      => result[v] = 0

(* CodeSigning implements FirmwareRelease: a run releases what it signed   *)
(* at the moment its signature is written, a verification answers at exit. *)
Abstract == INSTANCE FirmwareRelease WITH
  released <- {s \in Signers : SignatureOut(s) /\ signature[s] = "of_firmware"},
  hollow   <- {s \in Signers : SignatureOut(s) /\ signature[s] = "of_nothing"},
  verdict  <- [v \in Verifiers |->
                 IF vpc[v] # "exited" THEN "none"
                 ELSE IF result[v] = 1 THEN "reject"
                 ELSE IF "update" \in vfailed[v] THEN "unchecked"
                 ELSE fw_data[buf[v]["payload"]]]

ImplementsRelease == Abstract!Spec

==========================================================================
