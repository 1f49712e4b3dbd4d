------------------------ MODULE CodeSigningProofs ------------------------
(***************************************************************************)
(* Proofs of the properties of CodeSigning, for any number of signing and  *)
(* verification runs, any firmware, any signature lengths and any number   *)
(* of kills and of calls that fail.                                        *)
(***************************************************************************)
EXTENDS CodeSigning, TLAPS

---------------------------------------------------------------------------
(* The inductive invariant, part by part.                                  *)

\* A key pair belongs to the run that generated it.
OwnKeys ==
  /\ \A s \in Signers : pkey[s] \in {s, NoKey}
  /\ public_key \in Signers => pkey[public_key] = public_key
  /\ \A v \in Verifiers : vkey[v] \in Signers => pkey[vkey[v]] = vkey[v]

\* A run's keys do not change once it has started.
KeyAfterStart ==
  \A s \in Signers : pkey[s] = s => spc[s] # "idle"

\* The steps that come after the signing.
AfterSign == {"fopen_out", "write_header", "write_sig", "write_payload", "done"}

\* What has failed shows in the key and the signature a run goes on with,
\* and after a region that was not written it writes nothing more.
FailuresTold ==
  \A s \in Signers :
    /\ pkey[s] = NoKey /\ spc[s] # "idle" => "keygen" \in sfailed[s]
    /\ "keygen" \in sfailed[s] => pkey[s] = NoKey /\ spc[s] # "idle"
    /\ "signing_key" \in sfailed[s]
         => spc[s] \in {"fopen_pub", "write_pub", "sign"} \cup AfterSign
    /\ "public_key" \in sfailed[s] => spc[s] \in {"sign"} \cup AfterSign
    /\ "sign" \in sfailed[s] => spc[s] \in AfterSign
    /\ spc[s] \notin AfterSign => signature[s] = "unfilled"
    /\ spc[s] \in AfterSign
         => (signature[s] = "of_firmware" <=> pkey[s] = s /\ "sign" \notin sfailed[s])
    /\ sfailed[s] \cap Regions # {} => spc[s] = "done"

HasWritten(s, r) ==
  CASE r = "header"    -> /\ spc[s] \in {"write_sig", "write_payload", "done"}
                          /\ "header" \notin sfailed[s]
    [] r = "signature" -> /\ spc[s] \in {"write_payload", "done"}
                          /\ sfailed[s] \cap {"header", "signature"} = {}
    [] r = "payload"   -> spc[s] = "done" /\ sfailed[s] \cap Regions = {}

\* Bytes of a run are in the package, or were read from it, only after that
\* run has written them.
BytesHaveWriters ==
  \A r \in Regions :
    /\ package[r] \in Signers => HasWritten(package[r], r)
    /\ \A v \in Verifiers : buf[v][r] \in Signers => HasWritten(buf[v][r], r)

\* Exit code 0 was computed from the key and the bytes still in memory.
AnswerIsValid ==
  \A v \in Verifiers : Accepts(v) =>
    \/ "update" \in vfailed[v] /\ EmptyValid(vkey[v], buf[v])
    \/ SignatureValid(vkey[v], buf[v])

\* The update is the last of a verification's calls but one.
UpdateIsLast == \A v \in Verifiers : "update" \in vfailed[v] => vpc[v] = "exited"

AuthParts ==
  /\ OwnKeys /\ KeyAfterStart /\ FailuresTold
  /\ BytesHaveWriters /\ AnswerIsValid /\ UpdateIsLast

AuthInv == TypeOK /\ AuthParts

\* Beside the last run, when it has been alone so far, no other one runs.
LatestAlone ==
  /\ latest \in Signers => spc[latest] # "idle"
  /\ \A t \in alone : spc[t] # "idle"
  /\ latest \in alone => \A t \in Signers : Running(t) => t = latest

\* The files of the last run, when it is alone, at each of its steps.
LatestFiles ==
  latest \in alone =>
    /\ spc[latest] \in SignerSteps \ {"idle", "fopen_priv"}
         => signing_key = IF spc[latest] = "write_priv" THEN Torn
                          ELSE PemLeft(latest, "signing_key")
    /\ spc[latest] \in {"write_pub", "sign"} \cup AfterSign
         => public_key = IF spc[latest] = "write_pub" THEN Torn
                         ELSE PemLeft(latest, "public_key")
    /\ spc[latest] \in AfterSign \ {"fopen_out"}
         => /\ fw_exists
            /\ \A r \in Regions :
                 package[r] = IF HasWritten(latest, r) THEN latest ELSE Junk

ReleaseInv == AuthInv /\ LatestAlone /\ LatestFiles

\* A verification that still runs beside a settled release has read only
\* from that release, and one that has ended has accepted it.
CalmAt(v) ==
  /\ vpc[v] # "idle"
  /\ spc[calm[v]] = "done"
  /\ vpc[v] = "exited" /\ fw_file[v] = OutFile /\ vfailed[v] = {}
       => (result[v] = 0 <=> Verifiable(calm[v]))
  /\ Verifying(v) => Settled(calm[v])
  /\ Verifying(v) /\ vfailed[v] = {} =>
       /\ vpc[v] # "load_key"
            => vkey[v] = IF public_key = Torn THEN NoKey ELSE public_key
       /\ vpc[v] \in {"read_sig", "read_payload", "verify"}
            => buf[v]["header"] = calm[v]
       /\ vpc[v] \in {"read_payload", "verify"}
            => buf[v]["signature"] = package["signature"]
       /\ vpc[v] = "verify" => buf[v]["payload"] = package["payload"]

CalmProgress == \A v \in Verifiers : calm[v] # NoOne => CalmAt(v)

\* What verify_firmware holds at each of its steps.
HeldAt(step) ==
  CASE step = "fopen_fw"     -> {"pkey"}
    [] step = "read_header"  -> {"pkey", "fw"}
    [] step = "read_sig"     -> {"pkey", "fw", "signature"}
    [] step = "read_payload" -> {"pkey", "fw", "signature", "payload"}
    [] step = "verify"       -> {"pkey", "signature", "payload", "ctx"}
    [] OTHER                 -> {}

HeldInv == \A v \in Verifiers : held[v] = HeldAt(vpc[v])

---------------------------------------------------------------------------
(* Type correctness.                                                       *)

LEMMA TypeAtStart == Init => TypeOK
<1> SUFFICES ASSUME Init PROVE TypeOK
  OBVIOUS
<1>1. /\ sfailed \in [Signers -> SUBSET SignerCalls]
      /\ vfailed \in [Verifiers -> SUBSET VerifierCalls]
      /\ held \in [Verifiers -> SUBSET Resources]
  BY DEF Init
<1>2. signature \in [Signers -> Signatures] /\ sig_len \in [Signers -> SigLengths \cup {0}]
  BY DEF Init, Signatures
<1>3. spc \in [Signers -> SignerSteps] /\ vpc \in [Verifiers -> VerifierSteps]
  BY DEF Init, SignerSteps, VerifierSteps
<1> QED
  BY <1>1, <1>2, <1>3 DEF Init, TypeOK

\* One more failing call is one of the calls the program makes.
LEMMA SignerCallFails ==
  ASSUME TypeOK, NEW s \in Signers, NEW c \in SignerCalls, SFails(s, c)
  PROVE  sfailed' \in [Signers -> SUBSET SignerCalls]
  BY DEF TypeOK, SFails

LEMMA VerifierCallFails ==
  ASSUME TypeOK, NEW v \in Verifiers, NEW c \in VerifierCalls, VFails(v, c)
  PROVE  vfailed' \in [Verifiers -> SUBSET VerifierCalls]
  BY DEF TypeOK, VFails

LEMMA TypeStep == TypeOK /\ [Next]_vars => TypeOK'
<1> SUFFICES ASSUME TypeOK, [Next]_vars PROVE TypeOK'
  OBVIOUS
<1> USE SizesAssumption, NamesAssumption
        DEF TypeOK, files, signVars, verVars, history, SignerSteps, VerifierSteps
<1>1. ASSUME NEW s \in Signers, Keygen(s) PROVE TypeOK'
  <2>1. sfailed' \in [Signers -> SUBSET SignerCalls]
    BY <1>1, SignerCallFails DEF Keygen, SignerCalls
  <2> QED
    <3>1. pkey' \in [Signers -> Signers \cup {NoKey}]
      BY <1>1 DEF Keygen
    <3>2. calm' \in [Verifiers -> Signers \cup {NoOne}] /\ alone' \subseteq Signers
      BY <1>1 DEF Keygen
    <3> QED
      BY <1>1, <2>1, <3>1, <3>2 DEF Keygen, SGoto
<1>2. ASSUME NEW s \in Signers, FopenPrivate(s) PROVE TypeOK'
  BY <1>2 DEF FopenPrivate, SGoto
<1>3. ASSUME NEW s \in Signers, WritePrivate(s) PROVE TypeOK'
  <2>1. sfailed' \in [Signers -> SUBSET SignerCalls]
    BY <1>3, SignerCallFails DEF WritePrivate, WritePem, SignerCalls
  <2>2. signing_key' \in Signers \cup {Absent, Torn}
    BY <1>3 DEF WritePrivate, WritePem
  <2> QED
    BY <1>3, <2>1, <2>2 DEF WritePrivate, SGoto
<1>4. ASSUME NEW s \in Signers, FopenPublic(s) PROVE TypeOK'
  BY <1>4 DEF FopenPublic, SGoto
<1>5. ASSUME NEW s \in Signers, WritePublic(s) PROVE TypeOK'
  <2>1. sfailed' \in [Signers -> SUBSET SignerCalls]
    BY <1>5, SignerCallFails DEF WritePublic, WritePem, SignerCalls
  <2>2. public_key' \in Signers \cup {Absent, Torn}
    BY <1>5 DEF WritePublic, WritePem
  <2> QED
    BY <1>5, <2>1, <2>2 DEF WritePublic, SGoto
<1>6. ASSUME NEW s \in Signers, Sign(s) PROVE TypeOK'
  <2>1. sfailed' \in [Signers -> SUBSET SignerCalls]
    BY <1>6, SignerCallFails DEF Sign, SignerCalls
  <2>2. signature' \in [Signers -> Signatures]
    BY <1>6 DEF Sign, Signatures
  <2> QED
    <3>1. sig_len' \in [Signers -> SigLengths \cup {0}]
      BY <1>6 DEF Sign
    <3> QED
      BY <1>6, <2>1, <2>2, <3>1 DEF Sign, SGoto
<1>7. ASSUME NEW s \in Signers, FopenPackage(s) PROVE TypeOK'
  BY <1>7 DEF FopenPackage, SGoto
<1>8. ASSUME NEW s \in Signers, NEW r \in Regions, NEW from, NEW to \in SignerSteps,
             WriteRegion(s, r, from, to)
      PROVE  TypeOK'
  <2>1. sfailed' \in [Signers -> SUBSET SignerCalls]
    BY <1>8, SignerCallFails DEF WriteRegion, SignerCalls
  <2>2. package' \in [Regions -> Signers \cup {Junk}]
    <3>1. \A q \in Regions : package[q] \in Signers \cup {Junk}
      OBVIOUS
    <3>2. \/ package' = [q \in Regions |-> IF q = r THEN s
                                          ELSE IF Clobbers(s, r, q) THEN Junk
                                          ELSE package[q]]
          \/ \E lost \in SUBSET Regions :
               package' = [q \in Regions |-> IF q \in lost THEN Junk ELSE package[q]]
      BY <1>8 DEF WriteRegion
    <3> HIDE DEF TypeOK
    <3> QED
      BY <3>1, <3>2
  <2>3. spc' \in [Signers -> SignerSteps]
    BY <1>8 DEF WriteRegion, SGoto
  <2> QED
    BY <1>8, <2>1, <2>2, <2>3 DEF WriteRegion
<1>9. ASSUME NEW s \in Signers, WriteHeader(s) \/ WriteSignature(s) \/ WritePayload(s)
      PROVE  TypeOK'
  BY <1>9, <1>8 DEF WriteHeader, WriteSignature, WritePayload, Regions
<1>11. ASSUME NEW s \in Signers, KillSigner(s) PROVE TypeOK'
  BY <1>11 DEF KillSigner
<1>12. ASSUME NEW v \in Verifiers, VStart(v) PROVE TypeOK'
  BY <1>12 DEF VStart, Settled
<1>13. ASSUME NEW v \in Verifiers, VLoadKey(v) PROVE TypeOK'
  <2>1. CASE public_key = Absent
    <3>1. vpc' \in [Verifiers -> VerifierSteps] /\ result' \in [Verifiers -> {0, 1, 2}]
      BY <1>13, <2>1, ZenonT(60) DEF VLoadKey, VExit
    <3>2. UNCHANGED <<vkey, held, vfailed>>
      BY <1>13, <2>1 DEF VLoadKey
    <3> QED
      BY <1>13, <3>1, <3>2 DEF VLoadKey
  <2>2. CASE public_key # Absent
    <3>1. held' \in [Verifiers -> SUBSET Resources]
      BY <1>13, <2>2 DEF VLoadKey, Resources
    <3>2. vpc' \in [Verifiers -> VerifierSteps] /\ UNCHANGED result
      BY <1>13, <2>2 DEF VLoadKey
    <3>3. vfailed' \in [Verifiers -> SUBSET VerifierCalls]
      BY <1>13, <2>2, VerifierCallFails DEF VLoadKey, VerifierCalls
    <3>4. vkey' \in [Verifiers -> Signers \cup {NoKey}]
      <4>1. \E k \in Signers \cup {NoKey} : vkey' = [vkey EXCEPT ![v] = k]
        BY <1>13, <2>2 DEF VLoadKey
      <4> QED
        BY <4>1
    <3> QED
      BY <1>13, <2>2, <3>1, <3>2, <3>3, <3>4 DEF VLoadKey
  <2> QED
    BY <2>1, <2>2
<1>14. ASSUME NEW v \in Verifiers, VOpenFirmware(v) PROVE TypeOK'
  <2>1. held' \in [Verifiers -> SUBSET Resources]
    BY <1>14 DEF VOpenFirmware, Resources
  <2>2. vpc' \in [Verifiers -> VerifierSteps] /\ result' \in [Verifiers -> {0, 1, 2}]
    BY <1>14, ZenonT(60) DEF VOpenFirmware, VExit
  <2> QED
    BY <1>14, <2>1, <2>2 DEF VOpenFirmware
<1>0. ASSUME NEW v \in Verifiers, NEW r \in Regions, NEW b \in Signers \cup {Junk},
             Fread(v, r, b)
      PROVE  /\ buf' \in [Verifiers -> [Regions -> Signers \cup {Junk}]]
             /\ vfailed' \in [Verifiers -> SUBSET VerifierCalls]
  <2>1. buf' \in [Verifiers -> [Regions -> Signers \cup {Junk}]]
    <3>1. \E w \in Signers \cup {Junk} : buf' = [buf EXCEPT ![v][r] = w]
      BY <1>0 DEF Fread
    <3> QED
      BY <3>1
  <2>2. vfailed' \in [Verifiers -> SUBSET VerifierCalls]
    BY <1>0, VerifierCallFails DEF Fread, VerifierCalls
  <2> QED
    BY <2>1, <2>2
<1>15. ASSUME NEW v \in Verifiers, VReadHeader(v) PROVE TypeOK'
  <2>1. held' \in [Verifiers -> SUBSET Resources]
    <3>1. \/ held' = [held EXCEPT ![v] = @ \ {"fw", "pkey"}]
          \/ held' = [held EXCEPT ![v] = @ \cup {"signature"}]
      BY <1>15 DEF VReadHeader
    <3>2. \E h \in SUBSET Resources : held' = [held EXCEPT ![v] = h]
      <4>1. held[v] \in SUBSET Resources
        OBVIOUS
      <4> HIDE DEF TypeOK
      <4> QED
        BY <3>1, <4>1 DEF Resources
    <3> QED
      BY <3>2
  <2>2. vpc' \in [Verifiers -> VerifierSteps] /\ result' \in [Verifiers -> {0, 1, 2}]
    BY <1>15 DEF VReadHeader, VExit
  <2>3. /\ buf' \in [Verifiers -> [Regions -> Signers \cup {Junk}]]
        /\ vfailed' \in [Verifiers -> SUBSET VerifierCalls]
    BY <1>15, <1>0 DEF VReadHeader, Regions
  <2> QED
    BY <1>15, <2>1, <2>2, <2>3 DEF VReadHeader
<1>16. ASSUME NEW v \in Verifiers, VReadSignature(v) PROVE TypeOK'
  <2>1. /\ buf' \in [Verifiers -> [Regions -> Signers \cup {Junk}]]
        /\ vfailed' \in [Verifiers -> SUBSET VerifierCalls]
    BY <1>16, <1>0 DEF VReadSignature, Aligned, Regions
  <2> QED
    BY <1>16, <2>1 DEF VReadSignature, At, Resources
<1>17. ASSUME NEW v \in Verifiers, VReadPayload(v) PROVE TypeOK'
  <2>1. /\ buf' \in [Verifiers -> [Regions -> Signers \cup {Junk}]]
        /\ vfailed' \in [Verifiers -> SUBSET VerifierCalls]
    BY <1>17, <1>0 DEF VReadPayload, Aligned, Regions
  <2> QED
    BY <1>17, <2>1 DEF VReadPayload, At, Resources
<1>18. ASSUME NEW v \in Verifiers, VVerify(v) PROVE TypeOK'
  <2>1. vfailed' \in [Verifiers -> SUBSET VerifierCalls]
    BY <1>18, VerifierCallFails DEF VVerify, VerifierCalls
  <2>2. vpc' \in [Verifiers -> VerifierSteps] /\ result' \in [Verifiers -> {0, 1, 2}]
    BY <1>18 DEF VVerify, VExit
  <2> QED
    BY <1>18, <2>1, <2>2 DEF VVerify, Resources
<1>19. ASSUME NEW v \in Verifiers, KillVerifier(v) PROVE TypeOK'
  BY <1>19 DEF KillVerifier
<1>20. CASE UNCHANGED vars
  BY <1>20 DEF vars
<1> QED
  BY <1>1, <1>2, <1>3, <1>4, <1>5, <1>6, <1>7, <1>9, <1>11, <1>12,
     <1>13, <1>14, <1>15, <1>16, <1>17, <1>18, <1>19, <1>20
     DEF Next, SignerStep, VerifierStep, AllOver

\* Every variable of the two programs and of their files stays in its domain.
THEOREM TypeCorrect == Spec => []TypeOK
  BY TypeAtStart, TypeStep, PTL DEF Spec

---------------------------------------------------------------------------
(* A verification accepts only what the owner of the loaded key signed.    *)

\* A signing run that goes on has still written what it had written.
LEMMA WrittenStaysWritten ==
  ASSUME TypeOK, FailuresTold, NEW s \in Signers, SignerStep(s) \/ Keygen(s),
         NEW t \in Signers, NEW r \in Regions, HasWritten(t, r)
  PROVE  HasWritten(t, r)'
<1> USE DEF TypeOK
<1>1. CASE t # s
  <2>1. spc'[t] = spc[t] /\ sfailed'[t] = sfailed[t]
    BY <1>1 DEF SGoto, SFails, Keygen, WriteHeader, WriteSignature, WritePayload,
       WriteRegion, SignerStep, FopenPrivate, WritePrivate, FopenPublic, WritePublic,
       Sign, FopenPackage, WritePem
  <2> QED
    BY <2>1 DEF HasWritten
<1>2. CASE t = s
  <2> USE <1>2 DEF SGoto, SFails, HasWritten, Regions
  <2>1. CASE WriteSignature(s)
    <3>1. r = "header" /\ "header" \notin sfailed[s]
      BY <2>1 DEF WriteSignature, WriteRegion
    <3>2. spc'[s] \in {"write_payload", "done"} /\ "header" \notin sfailed'[s]
      BY <2>1, <3>1 DEF WriteSignature, WriteRegion
    <3> QED
      BY <3>1, <3>2
  <2>2. CASE WritePayload(s)
    <3>1. r \in {"header", "signature"}
      BY <2>2 DEF WritePayload, WriteRegion
    <3>2. spc'[s] = "done" /\ sfailed'[s] \subseteq sfailed[s] \cup {"payload"}
      BY <2>2 DEF WritePayload, WriteRegion
    <3> QED
      BY <3>1, <3>2
  <2>3. CASE ~WriteSignature(s) /\ ~WritePayload(s)
    BY <2>3 DEF SignerStep, Keygen, FopenPrivate, WritePrivate, FopenPublic, WritePublic,
       Sign, FopenPackage, WriteHeader, WriteRegion
  <2> QED
    BY <2>1, <2>2, <2>3
<1> QED
  BY <1>1, <1>2

LEMMA FailuresToldStep ==
  ASSUME TypeOK, OwnKeys, KeyAfterStart, FailuresTold, [Next]_vars
  PROVE  FailuresTold'
<1> USE NamesAssumption DEF NoKey
<1>1. ASSUME NEW s \in Signers, Keygen(s) \/ SignerStep(s) PROVE FailuresTold'
  <2> USE DEF FailuresTold, AfterSign, SGoto, SFails, TypeOK, SignerSteps
  <2>1. CASE Keygen(s)
    <3>1. pkey'[s] = NoKey <=> "keygen" \in sfailed'[s]
      BY <2>1 DEF Keygen, OwnKeys, KeyAfterStart
    <3>2. sfailed'[s] \subseteq sfailed[s] \cup {"keygen"} /\ spc'[s] = "fopen_priv"
      BY <2>1 DEF Keygen
    <3>3. \A t \in Signers \ {s} : /\ pkey'[t] = pkey[t] /\ spc'[t] = spc[t]
                                   /\ sfailed'[t] = sfailed[t] /\ signature'[t] = signature[t]
      BY <2>1 DEF Keygen
    <3>4. sfailed[s] \cap Regions = {} /\ "keygen" \notin Regions
      BY <2>1 DEF Keygen, Regions
    <3> QED
      BY <2>1, <3>1, <3>2, <3>3, <3>4 DEF Keygen
  <2>2. CASE FopenPrivate(s) \/ FopenPublic(s) \/ FopenPackage(s)
    BY <2>2 DEF FopenPrivate, FopenPublic, FopenPackage
  <2>3. CASE WritePrivate(s)
    <3>1. sfailed' \in {sfailed, [sfailed EXCEPT ![s] = @ \cup {"signing_key"}]}
      BY <2>3 DEF WritePrivate, WritePem
    <3> QED
      BY <2>3, <3>1, SMTT(60) DEF WritePrivate, Regions
  <2>4. CASE WritePublic(s)
    BY <2>4 DEF WritePublic, WritePem, Regions
  <2>5. CASE Sign(s)
    <3>1. \A t \in Signers \ {s} : /\ pkey'[t] = pkey[t] /\ spc'[t] = spc[t]
                                   /\ sfailed'[t] = sfailed[t] /\ signature'[t] = signature[t]
      BY <2>5 DEF Sign
    <3>2. /\ sfailed[s] \subseteq sfailed'[s] /\ sfailed'[s] \subseteq sfailed[s] \cup {"sign"}
          /\ spc'[s] = "fopen_out" /\ pkey'[s] = pkey[s]
      BY <2>5 DEF Sign
    <3>3. /\ pkey[s] = NoKey => signature'[s] = signature[s] /\ "sign" \notin sfailed'[s]
          /\ pkey[s] # NoKey =>
               (signature'[s] = "of_firmware" <=> "sign" \notin sfailed'[s])
      BY <2>5 DEF Sign
    <3>4. "sign" \notin Regions
      BY DEF Regions
    <3>5. sfailed'[s] \cap Regions = {}
      <4>1. spc[s] = "sign"
        BY <2>5 DEF Sign
      <4>2. sfailed[s] \cap Regions = {}
        BY <4>1
      <4> QED
        BY <3>2, <3>4, <4>2
    <3>6. /\ "keygen" \in sfailed'[s] <=> "keygen" \in sfailed[s]
          /\ spc[s] = "sign" /\ pkey[s] \in {s, NoKey}
      BY <2>5, <3>2 DEF Sign, OwnKeys
    <3> QED
      BY <2>5, <3>1, <3>2, <3>3, <3>5, <3>6
  <2>6. CASE WriteHeader(s) \/ WriteSignature(s) \/ WritePayload(s)
    BY <2>6 DEF WriteHeader, WriteSignature, WritePayload, WriteRegion, Regions
  <2> QED
    BY <1>1, <2>1, <2>2, <2>3, <2>4, <2>5, <2>6 DEF SignerStep
<1>2. ASSUME UNCHANGED signVars PROVE FailuresTold'
  BY <1>2 DEF FailuresTold, signVars
<1>3. ASSUME \A s \in Signers : ~Keygen(s) /\ ~SignerStep(s) PROVE UNCHANGED signVars
  BY <1>3 DEF Next, KillSigner, VStart, VerifierStep, VLoadKey, VOpenFirmware,
     VReadHeader, VReadSignature, VReadPayload, VVerify, KillVerifier, AllOver, vars
<1> QED
  BY <1>1, <1>2, <1>3

LEMMA UpdateIsLastStep == TypeOK /\ UpdateIsLast /\ [Next]_vars => UpdateIsLast'
<1> SUFFICES ASSUME TypeOK, UpdateIsLast, [Next]_vars PROVE UpdateIsLast'
  OBVIOUS
<1>1. ASSUME NEW v \in Verifiers, VStart(v) \/ VerifierStep(v) PROVE UpdateIsLast'
  <2>1. \A w \in Verifiers \ {v} : vfailed'[w] = vfailed[w] /\ vpc'[w] = vpc[w]
    BY <1>1 DEF TypeOK, VStart, VerifierStep, VLoadKey, VOpenFirmware, VReadHeader,
       VReadSignature, VReadPayload, VVerify, VExit, Fread, VFails
  <2>2. CASE VVerify(v)
    BY <2>1, <2>2 DEF UpdateIsLast, VVerify, VExit, TypeOK
  <2>3. CASE ~VVerify(v)
    BY <1>1, <2>1, <2>3 DEF UpdateIsLast, TypeOK, VStart, VerifierStep, VLoadKey, At,
       VOpenFirmware, VReadHeader, VReadSignature, VReadPayload, VExit, Fread, VFails
  <2> QED
    BY <2>2, <2>3
<1>2. ASSUME UNCHANGED verVars PROVE UpdateIsLast'
  BY <1>2 DEF UpdateIsLast, verVars
<1>3. ASSUME \A v \in Verifiers : ~(VStart(v) \/ VerifierStep(v)) PROVE UNCHANGED verVars
  BY <1>3 DEF Next, Keygen, SignerStep, FopenPrivate, WritePrivate, FopenPublic,
     WritePublic, Sign, FopenPackage, WriteHeader, WriteSignature, WritePayload,
     WriteRegion, KillSigner, KillVerifier, AllOver, vars
<1> QED
  BY <1>1, <1>2, <1>3

\* A step of verification run v leaves every other one as it was.
LEMMA OtherVerifications ==
  ASSUME TypeOK, NEW v \in Verifiers, VStart(v) \/ VerifierStep(v)
  PROVE  /\ UNCHANGED <<files, signVars, dead, latest, alone>>
         /\ \A w \in Verifiers \ {v} :
              /\ vpc'[w] = vpc[w] /\ fw_file'[w] = fw_file[w] /\ vkey'[w] = vkey[w]
              /\ buf'[w] = buf[w] /\ held'[w] = held[w] /\ result'[w] = result[w]
              /\ calm'[w] = calm[w] /\ vfailed'[w] = vfailed[w]
  BY DEF TypeOK, VStart, VerifierStep, VLoadKey, VOpenFirmware, VReadHeader,
     VReadSignature, VReadPayload, VVerify, VExit, Fread, VFails, history

\* A verification that ends with 0 has just checked what it has read.
LEMMA AnswerStep ==
  ASSUME TypeOK, AnswerIsValid, NEW v \in Verifiers, VStart(v) \/ VerifierStep(v)
  PROVE  AnswerIsValid'
<1>1. ASSUME NEW w \in Verifiers \ {v}, Accepts(w)'
      PROVE  \/ "update" \in vfailed'[w] /\ EmptyValid(vkey[w], buf[w])'
             \/ SignatureValid(vkey[w], buf[w])'
  BY <1>1, OtherVerifications
     DEF AnswerIsValid, Accepts, EmptyValid, SignatureValid, signVars
<1>2. ASSUME Accepts(v)' PROVE VVerify(v)
  BY <1>2 DEF Accepts, TypeOK, VStart, VerifierStep, VLoadKey, VOpenFirmware,
     VReadHeader, VReadSignature, VReadPayload, VExit, At
<1>3. ASSUME Accepts(v)'
      PROVE  \/ "update" \in vfailed'[v] /\ EmptyValid(vkey[v], buf[v])'
             \/ SignatureValid(vkey[v], buf[v])'
  <2>1. UNCHANGED <<vkey, buf, signature>>
    BY <1>2, <1>3 DEF VVerify, signVars
  <2>2. \/ "update" \in vfailed'[v] /\ EmptyValid(vkey[v], buf[v])
        \/ SignatureValid(vkey[v], buf[v])
    BY <1>2, <1>3 DEF VVerify, VExit, Accepts, TypeOK
  <2> QED
    BY <2>1, <2>2 DEF EmptyValid, SignatureValid
<1> QED
  BY <1>1, <1>3 DEF AnswerIsValid

LEMMA AuthStep == AuthInv /\ [Next]_vars => AuthInv'
<1> SUFFICES ASSUME AuthInv, [Next]_vars
             PROVE  (OwnKeys /\ KeyAfterStart /\ BytesHaveWriters /\ AnswerIsValid)'
  BY TypeStep, FailuresToldStep, UpdateIsLastStep DEF AuthInv, AuthParts
<1> USE NamesAssumption DEF AuthInv, AuthParts, Torn, Absent, NoKey, Junk, NoOne
<1>1. ASSUME NEW s \in Signers, Keygen(s)
      PROVE  (OwnKeys /\ KeyAfterStart /\ BytesHaveWriters /\ AnswerIsValid)'
  <2>1. UNCHANGED <<files, verVars>>
    BY <1>1 DEF Keygen
  <2>2. \A t \in Signers : t # s => pkey'[t] = pkey[t] /\ spc'[t] = spc[t]
    BY <1>1 DEF Keygen, SGoto, TypeOK
  <2>3. spc[s] = "idle" /\ spc'[s] = "fopen_priv" /\ pkey'[s] \in {s, NoKey}
    BY <1>1 DEF Keygen, SGoto, TypeOK, OwnKeys
  <2>4. OwnKeys' /\ KeyAfterStart'
    <3>1. pkey[s] # s
      BY <2>3 DEF KeyAfterStart
    <3>2. \A t \in Signers : pkey[t] = t => pkey'[t] = t
      BY <2>2, <3>1
    <3>3. OwnKeys'
      BY <2>1, <2>2, <2>3, <3>2 DEF OwnKeys, files, verVars
    <3>4. KeyAfterStart'
      BY <2>2, <2>3 DEF KeyAfterStart
    <3> QED
      BY <3>3, <3>4
  <2>5. BytesHaveWriters'
    <3>1. \A t \in Signers, r \in Regions : HasWritten(t, r) => HasWritten(t, r)'
      BY <1>1, WrittenStaysWritten
    <3>2. package' = package /\ buf' = buf
      BY <2>1 DEF files, verVars
    <3>3. ASSUME NEW r \in Regions, package'[r] \in Signers
          PROVE  HasWritten(package[r], r)'
      BY <3>1, <3>2, <3>3 DEF BytesHaveWriters, HasWritten
    <3>4. ASSUME NEW r \in Regions, NEW v \in Verifiers, buf'[v][r] \in Signers
          PROVE  HasWritten(buf[v][r], r)'
      BY <3>1, <3>2, <3>4 DEF BytesHaveWriters, HasWritten
    <3> QED
      BY <3>3, <3>4 DEF BytesHaveWriters
  <2>6. AnswerIsValid'
    <3>1. signature' = signature
      BY <1>1 DEF Keygen
    <3> QED
      BY <2>1, <3>1 DEF AnswerIsValid, Accepts, SignatureValid, EmptyValid, verVars
  <2> QED
    BY <2>4, <2>5, <2>6
<1>2. ASSUME NEW s \in Signers, SignerStep(s)
      PROVE  (OwnKeys /\ KeyAfterStart /\ BytesHaveWriters /\ AnswerIsValid)'
  <2>1. UNCHANGED <<pkey, verVars>>
    BY <1>2 DEF SignerStep, FopenPrivate, WritePrivate, FopenPublic, WritePublic,
       Sign, FopenPackage, WriteHeader, WriteSignature, WritePayload, WriteRegion
  <2>2. \A t \in Signers : spc[t] # "idle" => spc'[t] # "idle"
    BY <1>2 DEF TypeOK, SignerStep, SGoto, FopenPrivate, WritePrivate, FopenPublic,
       WritePublic, Sign, FopenPackage, WriteHeader, WriteSignature, WritePayload,
       WriteRegion
  <2>3. \/ public_key' \in {public_key, Torn}
        \/ pkey[s] # NoKey /\ public_key' = pkey[s]
    <3>1. CASE FopenPublic(s)
      BY <3>1 DEF FopenPublic
    <3>2. CASE WritePublic(s)
      BY <3>2 DEF WritePublic, WritePem
    <3>3. CASE ~FopenPublic(s) /\ ~WritePublic(s)
      BY <1>2, <3>3 DEF SignerStep, FopenPrivate, WritePrivate, Sign, FopenPackage,
         WriteHeader, WriteSignature, WritePayload, WriteRegion, files
    <3> QED
      BY <3>1, <3>2, <3>3
  <2>4. OwnKeys'
    BY <2>1, <2>3 DEF OwnKeys, verVars, TypeOK
  <2>5. KeyAfterStart'
    BY <2>1, <2>2 DEF KeyAfterStart
  <2>6. \A r \in Regions :
          \/ package'[r] \in {package[r], Junk}
          \/ package'[r] = s /\ HasWritten(s, r)'
    <3>0. ASSUME NEW q \in Regions, NEW from, NEW to, WriteRegion(s, q, from, to),
                 sfailed' = sfailed => HasWritten(s, q)'
          PROVE  \A r \in Regions : \/ package'[r] \in {package[r], Junk}
                                    \/ package'[r] = s /\ HasWritten(s, r)'
      <4>1. CASE sfailed' = sfailed
        BY <3>0, <4>1 DEF WriteRegion
      <4>2. CASE sfailed' # sfailed
        BY <3>0, <4>2 DEF WriteRegion
      <4> QED
        BY <4>1, <4>2
    <3> USE DEF TypeOK, SGoto, FailuresTold
    <3>1. CASE WriteHeader(s)
      <4>1. WriteRegion(s, "header", "write_header", "write_sig")
        BY <3>1 DEF WriteHeader
      <4>2. spc[s] = "write_header" /\ spc'[s] \in {"write_sig", "done"}
        BY <4>1 DEF WriteRegion
      <4>3. sfailed[s] \cap Regions = {}
        BY <4>2
      <4>4. sfailed' = sfailed => HasWritten(s, "header")'
        BY <4>2, <4>3 DEF HasWritten, Regions
      <4> QED
        BY <4>1, <4>4, <3>0 DEF Regions
    <3>2. CASE WriteSignature(s)
      <4>1. WriteRegion(s, "signature", "write_sig", "write_payload")
        BY <3>2 DEF WriteSignature
      <4>2. spc[s] = "write_sig" /\ spc'[s] \in {"write_payload", "done"}
        BY <4>1 DEF WriteRegion
      <4>3. sfailed[s] \cap Regions = {}
        BY <4>2
      <4>4. sfailed' = sfailed => HasWritten(s, "signature")'
        BY <4>2, <4>3 DEF HasWritten, Regions
      <4> QED
        BY <4>1, <4>4, <3>0 DEF Regions
    <3>3. CASE WritePayload(s)
      <4>1. WriteRegion(s, "payload", "write_payload", "done")
        BY <3>3 DEF WritePayload
      <4>2. spc[s] = "write_payload" /\ spc'[s] = "done"
        BY <4>1 DEF WriteRegion
      <4>3. sfailed[s] \cap Regions = {}
        BY <4>2
      <4>4. sfailed' = sfailed => HasWritten(s, "payload")'
        BY <4>2, <4>3 DEF HasWritten, Regions
      <4> QED
        BY <4>1, <4>4, <3>0 DEF Regions
    <3>4. CASE FopenPackage(s)
      BY <3>4 DEF FopenPackage
    <3>5. CASE ~(\/ WriteHeader(s) \/ WriteSignature(s) \/ WritePayload(s)
                 \/ FopenPackage(s))
      <4>1. package' = package
        BY <1>2, <3>5 DEF SignerStep, FopenPrivate, WritePrivate, FopenPublic,
           WritePublic, Sign, files
      <4> QED
        BY <4>1
    <3> QED
      BY <3>1, <3>2, <3>3, <3>4, <3>5
  <2>7. BytesHaveWriters'
    <3>1. \A t \in Signers, r \in Regions : HasWritten(t, r) => HasWritten(t, r)'
      BY <1>2, WrittenStaysWritten
    <3>2. ASSUME NEW r \in Regions, package'[r] \in Signers
          PROVE  HasWritten(package[r], r)'
      <4>1. CASE package'[r] = package[r]
        BY <3>1, <3>2, <4>1, ZenonT(60) DEF BytesHaveWriters, HasWritten
      <4>2. CASE package'[r] = s /\ HasWritten(s, r)'
        BY <4>2 DEF HasWritten
      <4> QED
        BY <2>6, <3>2, <4>1, <4>2
    <3>3. ASSUME NEW r \in Regions, NEW v \in Verifiers, buf'[v][r] \in Signers
          PROVE  HasWritten(buf[v][r], r)'
      <4>1. buf' = buf /\ HasWritten(buf[v][r], r)
        BY <2>1, <3>3 DEF BytesHaveWriters, verVars
      <4> QED
        BY <3>1, <3>3, <4>1 DEF HasWritten
    <3> QED
      BY <3>2, <3>3 DEF BytesHaveWriters
  <2>8. AnswerIsValid'
    <3>1. ASSUME NEW k \in Signers, HasWritten(k, "signature")
          PROVE  signature'[k] = signature[k]
      BY <1>2, <3>1 DEF HasWritten, TypeOK, SignerStep, SGoto, FopenPrivate, WritePrivate,
         FopenPublic, WritePublic, Sign, FopenPackage, WriteHeader, WriteSignature,
         WritePayload, WriteRegion
    <3>2. ASSUME NEW v \in Verifiers, buf[v]["signature"] \in Signers
          PROVE  signature'[buf[v]["signature"]] = signature[buf[v]["signature"]]
      BY <3>1, <3>2 DEF BytesHaveWriters, Regions
    <3>3. ASSUME NEW v \in Verifiers
          PROVE  /\ SignatureValid(vkey[v], buf[v]) => SignatureValid(vkey[v], buf[v])'
                 /\ EmptyValid(vkey[v], buf[v]) => EmptyValid(vkey[v], buf[v])'
      BY <2>1, <3>2 DEF SignatureValid, EmptyValid, TypeOK, verVars
    <3> QED
      BY <2>1, <3>3 DEF AnswerIsValid, Accepts, verVars
  <2> QED
    BY <2>4, <2>5, <2>7, <2>8
<1>3. ASSUME UNCHANGED <<files, signVars, verVars>>
      PROVE  (OwnKeys /\ KeyAfterStart /\ BytesHaveWriters /\ AnswerIsValid)'
  <2>1. OwnKeys' /\ KeyAfterStart'
    BY <1>3 DEF OwnKeys, KeyAfterStart, files, signVars, verVars
  <2>2. BytesHaveWriters'
    BY <1>3, ZenonT(60) DEF BytesHaveWriters, HasWritten, files, signVars, verVars
  <2>3. AnswerIsValid'
    BY <1>3 DEF AnswerIsValid, Accepts, SignatureValid, EmptyValid, signVars, verVars
  <2> QED
    BY <2>1, <2>2, <2>3
<1>4. ASSUME NEW v \in Verifiers, VStart(v) \/ VerifierStep(v)
      PROVE  (OwnKeys /\ KeyAfterStart /\ BytesHaveWriters /\ AnswerIsValid)'
  <2>1. UNCHANGED <<files, signVars>>
    BY <1>4, OtherVerifications
  <2>2. \A w \in Verifiers : vkey'[w] \in {vkey[w], public_key, NoKey}
    BY <1>4 DEF VStart, VerifierStep, VLoadKey, VOpenFirmware, VReadHeader,
       VReadSignature, VReadPayload, VVerify, TypeOK
  <2>3. \A w \in Verifiers, r \in Regions : buf'[w][r] \in {buf[w][r], package[r], Junk}
    <3>1. CASE VReadHeader(v) \/ VReadSignature(v) \/ VReadPayload(v)
      <4>1. ASSUME NEW q \in Regions, NEW b \in {package[q], Junk}, Fread(v, q, b)
            PROVE  \A w \in Verifiers, r \in Regions :
                     buf'[w][r] \in {buf[w][r], package[r], Junk}
        <5>1. \E c \in {package[q], Junk} : buf' = [buf EXCEPT ![v][q] = c]
          BY <4>1 DEF Fread
        <5>2. buf \in [Verifiers -> [Regions -> Signers \cup {Junk}]]
          BY DEF TypeOK
        <5> QED
          BY <5>1, <5>2
      <4>2. CASE VReadHeader(v)
        BY <4>1, <4>2 DEF VReadHeader, Regions
      <4>3. CASE VReadSignature(v)
        BY <4>1, <4>3 DEF VReadSignature, Aligned, Regions
      <4>4. CASE VReadPayload(v)
        BY <4>1, <4>4 DEF VReadPayload, Aligned, Regions
      <4> QED
        BY <3>1, <4>2, <4>3, <4>4
    <3>2. CASE ~(VReadHeader(v) \/ VReadSignature(v) \/ VReadPayload(v))
      BY <1>4, <3>2 DEF VStart, VerifierStep, VLoadKey, VOpenFirmware, VVerify
    <3> QED
      BY <3>1, <3>2
  <2>4. OwnKeys' /\ KeyAfterStart'
    BY <2>1, <2>2 DEF OwnKeys, KeyAfterStart, TypeOK, files, signVars
  <2>5. BytesHaveWriters'
    <3>1. ASSUME NEW w \in Verifiers, NEW r \in Regions, buf'[w][r] \in Signers
          PROVE  HasWritten(buf[w][r], r)'
      <4>1. buf'[w][r] \in {buf[w][r], package[r]}
        BY <2>3, <3>1
      <4>2. HasWritten(buf'[w][r], r)
        BY <3>1, <4>1 DEF BytesHaveWriters
      <4> QED
        BY <2>1, <4>2 DEF HasWritten, signVars
    <3>2. \A r \in Regions : package'[r] \in Signers => HasWritten(package[r], r)'
      BY <2>1 DEF BytesHaveWriters, HasWritten, files, signVars
    <3> QED
      BY <3>1, <3>2 DEF BytesHaveWriters
  <2> QED
    BY <1>4, <2>4, <2>5, AnswerStep
<1>5. ASSUME \A s \in Signers : ~Keygen(s) /\ ~SignerStep(s),
             \A v \in Verifiers : ~VStart(v) /\ ~VerifierStep(v)
      PROVE  UNCHANGED <<files, signVars, verVars>>
  BY <1>5 DEF Next, KillSigner, KillVerifier, AllOver, vars
<1> QED
  BY <1>1, <1>2, <1>3, <1>4, <1>5

LEMMA AuthInvariant == Spec => []AuthInv
<1>1. ASSUME Init PROVE AuthInv
  <2>1. TypeOK
    BY <1>1, TypeAtStart
  <2>2. OwnKeys /\ KeyAfterStart
    BY <1>1, NamesAssumption DEF Init, OwnKeys, KeyAfterStart, Absent, NoKey
  <2>3. BytesHaveWriters
    BY <1>1, NamesAssumption DEF Init, BytesHaveWriters, Junk
  <2>4. AnswerIsValid
    BY <1>1 DEF Init, AnswerIsValid, Accepts
  <2>5. FailuresTold /\ UpdateIsLast
    BY <1>1 DEF Init, FailuresTold, AfterSign, UpdateIsLast
  <2> QED
    BY <2>1, <2>2, <2>3, <2>4, <2>5 DEF AuthInv, AuthParts
<1> QED
  BY <1>1, AuthStep, PTL DEF Spec

\* verify_firmware exits with 0 only for a payload that the owner of the key
\* it loaded signed and had finished signing, whatever other signing runs
\* did to the files meanwhile -- unless an update of the signing and one of
\* the verification both failed unnoticed.
THEOREM AcceptedFirmwareIsAuthentic == Spec => []AcceptedIsAuthentic
<1>1. AuthInv => AcceptedIsAuthentic
  <2> SUFFICES ASSUME AuthInv, NEW v \in Verifiers, Accepts(v)
               PROVE  LET s == vkey[v] IN
                      /\ s \in Signers /\ SignatureOut(s)
                      /\ \/ /\ signature[s] = "of_firmware"
                            /\ buf[v]["payload"] # Junk
                            /\ fw_data[buf[v]["payload"]] = fw_data[s]
                         \/ signature[s] = "of_nothing" /\ "update" \in vfailed[v]
    BY DEF AcceptedIsAuthentic
  <2>1. vkey[v] \in Signers /\ buf[v]["signature"] = vkey[v]
    BY DEF AuthInv, AuthParts, AnswerIsValid, SignatureValid, EmptyValid, TypeOK
  <2>2. SignatureOut(vkey[v])
    BY <2>1, NamesAssumption DEF AuthInv, AuthParts, OwnKeys, BytesHaveWriters, HasWritten,
       SignatureOut, Regions
  <2> QED
    BY <2>1, <2>2 DEF AuthInv, AuthParts, AnswerIsValid, SignatureValid, EmptyValid
<1> QED
  BY <1>1, AuthInvariant, PTL

---------------------------------------------------------------------------
(* What an undisturbed signing run leaves on disk.                         *)

\* Going on, a signing run stays started and nobody else starts running.
LEMMA SignerGoesOn ==
  ASSUME TypeOK, NEW s \in Signers, SignerStep(s)
  PROVE  /\ Running(s) /\ UNCHANGED <<pkey, dead, verVars, history>>
         /\ \A t \in Signers : /\ spc[t] # "idle" => spc'[t] # "idle"
                               /\ Running(t)' => Running(t)
  BY DEF TypeOK, SignerStep, SGoto, Running, FopenPrivate, WritePrivate, FopenPublic,
     WritePublic, Sign, FopenPackage, WriteHeader, WriteSignature, WritePayload,
     WriteRegion

\* The steps of verify_firmware and the kills leave the signing side alone.
LEMMA OthersLeaveFiles ==
  ASSUME TypeOK, [Next]_vars, \A s \in Signers : ~Keygen(s) /\ ~SignerStep(s)
  PROVE  UNCHANGED <<files, signVars, latest, alone>> /\ dead \subseteq dead'
  BY DEF Next, VerifierStep, AllOver, KillSigner, KillVerifier, VStart, VLoadKey,
     VOpenFirmware, VReadHeader, VReadSignature, VReadPayload, VVerify, vars,
     files, signVars, history

LEMMA LatestAloneStep ==
  ASSUME TypeOK, LatestAlone, [Next]_vars
  PROVE  LatestAlone'
<1>1. ASSUME NEW s \in Signers, Keygen(s) PROVE LatestAlone'
  <2>1. /\ latest' = s /\ dead' = dead /\ spc[s] = "idle" /\ s \notin alone
        /\ spc' = [spc EXCEPT ![s] = "fopen_priv"]
    BY <1>1 DEF Keygen, SGoto, LatestAlone
  <2>2. \A t \in Signers : t # s => (Running(t)' <=> Running(t))
    BY <2>1 DEF Running, TypeOK
  <2>3. alone' \subseteq alone \cup {s}
    BY <1>1 DEF Keygen
  <2>4. s \in alone' => \A t \in Signers : ~Running(t)
    BY <1>1, <2>1 DEF Keygen
  <2>5. \A t \in alone' : t \in Signers /\ spc'[t] # "idle"
    BY <2>1, <2>3 DEF LatestAlone, TypeOK
  <2> QED
    BY <2>1, <2>2, <2>4, <2>5 DEF LatestAlone, TypeOK
<1>2. ASSUME NEW s \in Signers, SignerStep(s) PROVE LatestAlone'
  BY <1>2, SignerGoesOn DEF LatestAlone, TypeOK, history
<1>3. ASSUME \A s \in Signers : ~Keygen(s) /\ ~SignerStep(s) PROVE LatestAlone'
  BY <1>3, OthersLeaveFiles DEF LatestAlone, Running, signVars
<1> QED
  BY <1>1, <1>2, <1>3

\* Written at its own signature length, no region of a run reaches into another.
LEMMA OwnRegionsFit ==
  ASSUME TypeOK, NEW s \in Signers, NEW r \in Regions, NEW q \in Regions,
         package[q] = s
  PROVE  ~Clobbers(s, r, q)
<1>1. sig_len[s] \in SigLengths \cup {0}
  BY DEF TypeOK
<1>2. sig_len[s] \in Nat
  BY <1>1, SizesAssumption
<1> QED
  BY <1>2 DEF Clobbers

LEMMA LatestFilesStep ==
  ASSUME AuthInv, LatestAlone, LatestFiles, [Next]_vars
  PROVE  LatestFiles'
<1> USE NamesAssumption DEF AuthInv, AuthParts, LatestFiles, Junk
<1>1. ASSUME NEW s \in Signers, Keygen(s) PROVE LatestFiles'
  <2>1. latest' = s /\ spc'[s] = "fopen_priv"
    BY <1>1 DEF Keygen, SGoto, TypeOK
  <2> QED
    BY <2>1 DEF AfterSign
<1>2. ASSUME NEW s \in Signers, SignerStep(s) PROVE LatestFiles'
  <2> SUFFICES ASSUME latest \in alone PROVE LatestFiles'
    BY <1>2, SignerGoesOn DEF history
  <2>1. s = latest /\ UNCHANGED <<pkey, latest, alone>>
    BY <1>2, SignerGoesOn DEF LatestAlone, history
  <2> USE <2>1 DEF TypeOK, SGoto, SignerSteps
  <2> USE DEF AfterSign, PemLeft
  <2>2. CASE FopenPrivate(s)
    BY <2>2 DEF FopenPrivate
  <2>3. CASE WritePrivate(s)
    <3>1. "signing_key" \notin sfailed[s] /\ pkey[s] \in {s, NoKey} /\ signing_key = Torn
      BY <2>3 DEF WritePrivate, FailuresTold, OwnKeys
    <3>2. signing_key' = PemLeft(s, "signing_key")'
      BY <2>3, <3>1 DEF WritePrivate, WritePem, SFails, NoKey
    <3> QED
      BY <2>3, <3>2 DEF WritePrivate
  <2>4. CASE FopenPublic(s)
    BY <2>4 DEF FopenPublic
  <2>5. CASE WritePublic(s)
    <3>1. "public_key" \notin sfailed[s] /\ pkey[s] \in {s, NoKey} /\ public_key = Torn
      BY <2>5 DEF WritePublic, FailuresTold, OwnKeys
    <3>2. public_key' = PemLeft(s, "public_key")'
      BY <2>5, <3>1 DEF WritePublic, WritePem, SFails, NoKey
    <3>3. "signing_key" \in sfailed'[s] <=> "signing_key" \in sfailed[s]
      BY <2>5 DEF WritePublic, WritePem, SFails
    <3> QED
      BY <2>5, <3>2, <3>3 DEF WritePublic
  <2>6. CASE Sign(s)
    <3>1. \A f \in {"signing_key", "public_key"} : f \in sfailed'[s] <=> f \in sfailed[s]
      BY <2>6 DEF Sign, SFails
    <3> QED
      BY <2>6, <3>1 DEF Sign, files
  <2>7. CASE FopenPackage(s)
    BY <2>7 DEF FopenPackage, HasWritten, Regions
  <2>8. ASSUME NEW r \in Regions, NEW from \in AfterSign \ {"fopen_out", "done"},
               NEW to \in AfterSign \ {"fopen_out"}, WriteRegion(s, r, from, to),
               \A q \in Regions : HasWritten(s, q) => HasWritten(s, q)',
               \A q \in Regions : HasWritten(s, q)' => HasWritten(s, q) \/ q = r,
               HasWritten(s, r)' <=> sfailed' = sfailed, ~HasWritten(s, r)
        PROVE  LatestFiles'
    <3>1. \A q \in Regions : ~Clobbers(s, r, q)
      <4>1. \A q \in Regions : package[q] = s \/ package[q] = Junk
        BY <2>8 DEF WriteRegion
      <4> QED
        BY <4>1, OwnRegionsFit DEF Clobbers
    <3>2. ASSUME NEW q \in Regions
          PROVE  package'[q] = IF HasWritten(s, q)' THEN s ELSE Junk
      <4>1. package[q] = IF HasWritten(s, q) THEN s ELSE Junk
        BY <2>8 DEF WriteRegion
      <4>2. CASE sfailed' = sfailed
        <5>1. r \notin sfailed[s]
          BY <2>8, <4>2 DEF WriteRegion, FailuresTold
        <5>2. package' = [p \in Regions |-> IF p = r THEN s
                                           ELSE IF Clobbers(s, r, p) THEN Junk
                                           ELSE package[p]]
          BY <2>8, <4>2, <5>1 DEF WriteRegion, SFails
        <5> QED
          BY <2>8, <3>1, <4>1, <4>2, <5>2
      <4>3. CASE sfailed' # sfailed
        <5>1. \E cut \in SUBSET {p \in Regions : p = r \/ Clobbers(s, r, p)} :
                package' = [p \in Regions |-> IF p \in cut THEN Junk ELSE package[p]]
          BY <2>8, <4>3 DEF WriteRegion
        <5>2. q # r => package'[q] = package[q]
          BY <3>1, <5>1
        <5>3. q = r => package'[q] = Junk
          BY <2>8, <4>1, <5>1
        <5> QED
          BY <2>8, <4>1, <4>3, <5>2, <5>3
      <4> QED
        BY <4>2, <4>3
    <3>3. \A f \in {"signing_key", "public_key"} : f \in sfailed'[s] <=> f \in sfailed[s]
      BY <2>8 DEF WriteRegion, SFails, Regions
    <3>4. spc[s] = from /\ spc'[s] \in {to, "done"} /\ fw_exists' = fw_exists
      BY <2>8 DEF WriteRegion
    <3>5. UNCHANGED <<signing_key, public_key>>
      BY <2>8 DEF WriteRegion
    <3> QED
      BY <2>8, <3>2, <3>3, <3>4, <3>5
  <2>9. ASSUME NEW r \in Regions
        PROVE  HasWritten(s, r) => HasWritten(s, r)'
    BY <1>2, <2>9, WrittenStaysWritten DEF AuthParts
  <2> USE DEF FailuresTold, SFails, HasWritten
  <2>10. CASE WriteHeader(s)
    BY <2>10, <2>9, <2>8 DEF WriteHeader, WriteRegion, Regions
  <2>11. CASE WriteSignature(s)
    <3>1. /\ WriteRegion(s, "signature", "write_sig", "write_payload")
          /\ sfailed[s] \cap Regions = {} /\ spc[s] = "write_sig"
      BY <2>11 DEF WriteSignature, WriteRegion
    <3>2. \/ sfailed' = sfailed /\ spc'[s] = "write_payload"
          \/ spc'[s] = "done" /\ sfailed'[s] = sfailed[s] \cup {"signature"}
      BY <3>1 DEF WriteRegion
    <3>3. HasWritten(s, "signature")' <=> sfailed' = sfailed
      <4>1. CASE sfailed' = sfailed /\ spc'[s] = "write_payload"
        BY <3>1, <4>1 DEF Regions
      <4>2. CASE sfailed'[s] = sfailed[s] \cup {"signature"}
        <5>1. ~HasWritten(s, "signature")'
          BY <4>2
        <5>2. "signature" \notin sfailed[s]
          BY <3>1 DEF Regions
        <5> QED
          BY <4>2, <5>1, <5>2
      <4> QED
        BY <3>2, <4>1, <4>2
    <3>4. ~HasWritten(s, "payload")' /\ ~HasWritten(s, "signature")
      BY <3>1, <3>2 DEF Regions
    <3>5. HasWritten(s, "header")
      BY <3>1 DEF Regions
    <3> QED
      BY <3>1, <3>3, <3>4, <3>5, <2>9, <2>8 DEF Regions
  <2>12. CASE WritePayload(s)
    <3>1. /\ WriteRegion(s, "payload", "write_payload", "done")
          /\ sfailed[s] \cap Regions = {} /\ spc[s] = "write_payload"
      BY <2>12 DEF WritePayload, WriteRegion
    <3>2. /\ spc'[s] = "done"
          /\ sfailed' = sfailed \/ sfailed'[s] = sfailed[s] \cup {"payload"}
      BY <3>1 DEF WriteRegion
    <3>3. HasWritten(s, "payload")' <=> sfailed' = sfailed
      BY <3>1, <3>2 DEF Regions
    <3>4. ~HasWritten(s, "payload")
      BY <3>1
    <3>5. HasWritten(s, "header") /\ HasWritten(s, "signature")
      BY <3>1 DEF Regions
    <3> QED
      BY <3>1, <3>3, <3>4, <3>5, <2>9, <2>8 DEF Regions
  <2> QED
    BY <1>2, <2>2, <2>3, <2>4, <2>5, <2>6, <2>7, <2>10, <2>11, <2>12 DEF SignerStep
<1>3. ASSUME \A s \in Signers : ~Keygen(s) /\ ~SignerStep(s) PROVE LatestFiles'
  <2>1. UNCHANGED <<files, signVars, latest, alone>>
    BY <1>3, OthersLeaveFiles
  <2> QED
    BY <2>1 DEF HasWritten, PemLeft, files, signVars
<1> QED
  BY <1>1, <1>2, <1>3

LEMMA ReleaseInvariant == Spec => []ReleaseInv
<1>1. Init => LatestAlone /\ LatestFiles
  BY NamesAssumption DEF Init, LatestAlone, LatestFiles, NoOne
<1>2. ReleaseInv /\ [Next]_vars => ReleaseInv'
  BY AuthStep, LatestAloneStep, LatestFilesStep DEF ReleaseInv, AuthInv
<1> QED
  BY <1>1, <1>2, AuthInvariant, PTL DEF Spec, ReleaseInv

LEMMA ReleaseInvRelease == ReleaseInv => UndisturbedRunReleases
<1> SUFFICES ASSUME ReleaseInv, NEW s \in Signers, Settled(s)
             PROVE  /\ signing_key = PemLeft(s, "signing_key")
                    /\ public_key = PemLeft(s, "public_key")
                    /\ fw_exists
                    /\ \A r \in Regions : package[r] \in {s, Junk}
                    /\ sfailed[s] \cap Regions = {} => package = [r \in Regions |-> s]
  BY DEF UndisturbedRunReleases
<1>1. /\ signing_key = PemLeft(s, "signing_key") /\ public_key = PemLeft(s, "public_key")
      /\ fw_exists
      /\ \A r \in Regions : package[r] = IF HasWritten(s, r) THEN s ELSE Junk
  BY DEF ReleaseInv, LatestFiles, Settled, AfterSign, SignerSteps
<1>2. sfailed[s] \cap Regions = {} => \A r \in Regions : HasWritten(s, r)
  BY DEF Settled, HasWritten, Regions
<1>3. package = [r \in Regions |-> package[r]]
  BY DEF ReleaseInv, AuthInv, TypeOK
<1> QED
  BY <1>1, <1>2, <1>3

\* A signing run that nobody disturbs leaves in key, public key and package
\* what it managed to write itself, whatever earlier runs had left in the
\* files, and all of it when no write failed.
THEOREM UndisturbedRunsRelease == Spec => []UndisturbedRunReleases
  BY ReleaseInvRelease, ReleaseInvariant, PTL

\* Stopped anywhere and whatever failed, an undisturbed signing run has
\* never put bytes of its package beside another run's keys.
THEOREM PackagesFollowKeys == Spec => []PackageNeverOutrunsKey
<1>1. ASSUME ReleaseInv, NEW s \in Signers, s = latest, s \in alone,
             NEW r \in Regions, package[r] = s
      PROVE  /\ signing_key = PemLeft(s, "signing_key")
             /\ public_key = PemLeft(s, "public_key")
  <2>1. HasWritten(s, r)
    BY <1>1 DEF ReleaseInv, AuthInv, AuthParts, BytesHaveWriters
  <2>2. spc[s] \in {"write_sig", "write_payload", "done"}
    BY <2>1 DEF HasWritten, Regions
  <2> QED
    BY <1>1, <2>2 DEF ReleaseInv, LatestFiles, AfterSign, SignerSteps
<1>2. ReleaseInv => PackageNeverOutrunsKey
  BY <1>1 DEF PackageNeverOutrunsKey
<1> QED
  BY <1>2, ReleaseInvariant, PTL

---------------------------------------------------------------------------
(* Verifying a release that is left alone.                                 *)

\* The signature of a settled release verifies over its payload just when
\* none of the calls this depends on failed.
LEMMA SettledVerifies ==
  ASSUME ReleaseInv, NEW s \in Signers, Settled(s), NEW b,
         b["signature"] = package["signature"], b["payload"] = package["payload"]
  PROVE  /\ SignatureValid(IF public_key = Torn THEN NoKey ELSE public_key, b)
              <=> Verifiable(s)
         /\ Verifiable(s) => package["header"] = s
         /\ public_key # Absent /\ fw_exists
<1> USE NamesAssumption DEF Torn, NoKey, Absent, Junk
<1>1. /\ public_key = PemLeft(s, "public_key") /\ fw_exists
      /\ sfailed[s] \cap Regions = {} => package = [r \in Regions |-> s]
  BY ReleaseInvRelease DEF UndisturbedRunReleases
<1>2. /\ FailuresTold /\ pkey[s] \in {s, NoKey} /\ spc[s] \in AfterSign
      /\ sfailed[s] \subseteq SignerCalls
  BY DEF ReleaseInv, AuthInv, AuthParts, OwnKeys, Settled, AfterSign, TypeOK
<1>3. ASSUME Verifiable(s)
      PROVE  /\ SignatureValid(IF public_key = Torn THEN NoKey ELSE public_key, b)
             /\ package["header"] = s
  <2>1. package = [r \in Regions |-> s] /\ "keygen" \notin sfailed[s] /\ "sign" \notin sfailed[s]
    BY <1>1, <1>3 DEF Verifiable, Regions
  <2>2. pkey[s] = s /\ signature[s] = "of_firmware"
    BY <1>2, <2>1 DEF FailuresTold, AfterSign
  <2>3. public_key = s
    BY <1>1, <1>3, <2>2 DEF PemLeft, Verifiable
  <2> QED
    BY <2>1, <2>2, <2>3 DEF SignatureValid, Regions
<1>4. ASSUME SignatureValid(IF public_key = Torn THEN NoKey ELSE public_key, b)
      PROVE  Verifiable(s)
  <2>1. public_key = s /\ pkey[s] = s /\ "public_key" \notin sfailed[s]
    BY <1>1, <1>4 DEF SignatureValid, PemLeft
  <2>2. signature[s] = "of_firmware" /\ package["payload"] # Junk
    BY <1>4, <2>1 DEF SignatureValid
  <2>3. package["payload"] = s
    BY <2>2, ReleaseInvRelease DEF UndisturbedRunReleases, Regions
  <2>4. sfailed[s] \cap Regions = {}
    BY <2>3 DEF ReleaseInv, AuthInv, AuthParts, BytesHaveWriters, HasWritten, Regions
  <2>5. "keygen" \notin sfailed[s] /\ "sign" \notin sfailed[s]
    BY <1>2, <2>1, <2>2 DEF FailuresTold
  <2> QED
    BY <1>2, <2>1, <2>4, <2>5 DEF Verifiable, SignerCalls, Regions
<1>5. public_key # Absent
  BY <1>1 DEF PemLeft
<1> QED
  BY <1>1, <1>3, <1>4, <1>5

LEMMA CalmStep ==
  ASSUME ReleaseInv, CalmProgress, [Next]_vars
  PROVE  CalmProgress'
<1> USE NamesAssumption DEF NoOne, NoKey, Junk, Torn, Absent
<1>0. TypeOK
  BY DEF ReleaseInv, AuthInv
<1>1. ASSUME NEW s \in Signers, Keygen(s) PROVE CalmProgress'
  <2>1. /\ UNCHANGED verVars /\ spc[s] = "idle"
        /\ \A t \in Signers \ {s} : spc'[t] = spc[t] /\ sfailed'[t] = sfailed[t]
        /\ \A w \in Verifiers : (calm'[w] = calm[w] /\ ~Verifying(w)) \/ calm'[w] = NoOne
        /\ dead' = dead
    BY <1>0, <1>1 DEF Keygen, SGoto, SFails, TypeOK
  <2>2. ASSUME NEW w \in Verifiers, calm'[w] # NoOne PROVE CalmAt(w)'
    <3>1. calm[w] \in Signers \ {s} /\ calm'[w] = calm[w] /\ ~Verifying(w) /\ CalmAt(w)
      BY <1>0, <2>1, <2>2 DEF CalmProgress, CalmAt, TypeOK
    <3> QED
      BY <2>1, <3>1 DEF CalmAt, Verifying, Verifiable, verVars
  <2> QED
    BY <2>2 DEF CalmProgress
<1>2. ASSUME NEW s \in Signers, SignerStep(s) PROVE CalmProgress'
  <2>1. Running(s) /\ UNCHANGED <<dead, verVars, history>>
    BY <1>0, <1>2, SignerGoesOn
  <2>2. \A t \in Signers \ {s} : spc'[t] = spc[t] /\ sfailed'[t] = sfailed[t]
    BY <1>0, <1>2 DEF SGoto, SFails, SignerStep, FopenPrivate, WritePrivate, FopenPublic,
       WritePublic, Sign, FopenPackage, WriteHeader, WriteSignature, WritePayload,
       WriteRegion, WritePem, TypeOK
  <2>3. ASSUME NEW w \in Verifiers, calm[w] # NoOne
        PROVE  ~Verifying(w) /\ calm[w] \in Signers \ {s}
    BY <1>0, <2>1, <2>3 DEF CalmProgress, CalmAt, Settled, ReleaseInv, LatestAlone,
       Running, TypeOK
  <2>4. ASSUME NEW w \in Verifiers, calm'[w] # NoOne PROVE CalmAt(w)'
    BY <2>1, <2>2, <2>3, <2>4 DEF CalmProgress, CalmAt, Verifying, Verifiable, verVars, history
  <2> QED
    BY <2>4 DEF CalmProgress
<1>3. ASSUME NEW v \in Verifiers, VStart(v) \/ VerifierStep(v) PROVE CalmProgress'
  <2>1. ASSUME NEW w \in Verifiers \ {v}, calm'[w] # NoOne PROVE CalmAt(w)'
    BY <1>0, <1>3, <2>1, OtherVerifications
       DEF CalmProgress, CalmAt, Verifying, Settled, Verifiable, signVars, files
  <2>2. ASSUME VStart(v), calm'[v] # NoOne PROVE CalmAt(v)'
    BY <1>0, <2>2 DEF VStart, CalmAt, Verifying, Settled, TypeOK, signVars
  <2>3. ASSUME VerifierStep(v), calm'[v] # NoOne PROVE CalmAt(v)'
    <3>1. /\ calm'[v] = calm[v] /\ calm[v] \in Signers /\ fw_file'[v] = fw_file[v]
          /\ UNCHANGED <<files, signVars, latest, alone, dead>>
          /\ vfailed[v] \subseteq vfailed'[v]
      BY <1>0, <2>3 DEF VerifierStep, VLoadKey, VOpenFirmware, VReadHeader, Fread, VFails,
         VReadSignature, VReadPayload, VVerify, history, TypeOK
    <3>2. Verifying(v)
      BY <2>3 DEF VerifierStep, VLoadKey, VOpenFirmware, VReadHeader,
         VReadSignature, VReadPayload, VVerify, At, Verifying
    <3>3. CalmAt(v)
      BY <2>3, <3>1 DEF CalmProgress
    <3>4. Settled(calm[v]) /\ Settled(calm[v])'
      BY <3>1, <3>2, <3>3 DEF CalmAt, Settled, signVars
    <3>5. spc'[calm'[v]] = "done" /\ (Verifiable(calm[v])' <=> Verifiable(calm[v]))
      BY <3>1, <3>3 DEF CalmAt, Verifiable, signVars
    <3>6. CASE vfailed'[v] # {}
      <4>1. vpc'[v] # "idle"
        BY <1>0, <2>3 DEF VerifierStep, VLoadKey, VOpenFirmware, VReadHeader,
           VReadSignature, VReadPayload, VVerify, VExit, TypeOK
      <4> QED
        BY <3>1, <3>4, <3>5, <3>6, <4>1 DEF CalmAt
    <3>7. CASE vfailed'[v] = {}
      <4>1. /\ vfailed[v] = {}
            /\ \A c : ~VFails(v, c) /\ vfailed' # [vfailed EXCEPT ![v] = @ \cup {c}]
            /\ public_key # Absent /\ fw_exists
            /\ \A r \in Regions : package[r] \in {calm[v], Junk}
            /\ Verifiable(calm[v]) => package["header"] = calm[v]
        <5>1. ASSUME NEW c, vfailed' = [vfailed EXCEPT ![v] = @ \cup {c}]
              PROVE  c \in vfailed'[v]
          BY <1>0, <5>1 DEF TypeOK
        <5>2. public_key # Absent /\ fw_exists
              /\ (Verifiable(calm[v]) => package["header"] = calm[v])
          BY <3>1, <3>4, SettledVerifies
        <5> QED
          BY <3>1, <3>4, <3>7, <5>1, <5>2, ReleaseInvRelease
             DEF UndisturbedRunReleases, VFails
      <4> USE <1>0, <3>1, <3>2, <3>3, <3>4, <3>5, <3>7, <4>1
              DEF CalmAt, Verifying, TypeOK, At
      <4>2. CASE VLoadKey(v)
        BY <4>2 DEF VLoadKey, files
      <4>3. CASE VOpenFirmware(v)
        BY <4>3 DEF VOpenFirmware, VExit, files
      <4>4. CASE VReadHeader(v)
        BY <4>4 DEF VReadHeader, VExit, Fread, Regions, files
      <4>5. CASE VReadSignature(v)
        BY <4>5 DEF VReadSignature, Fread, Aligned, Regions, files
      <4>6. CASE VReadPayload(v)
        BY <4>6 DEF VReadPayload, Fread, Aligned, Regions, files
      <4>7. CASE VVerify(v)
        <5>1. /\ vpc'[v] = "exited"
              /\ result'[v] = IF SignatureValid(vkey[v], buf[v]) THEN 0 ELSE 1
          BY <4>7, ZenonT(60) DEF VVerify, VExit
        <5>2. SignatureValid(vkey[v], buf[v]) <=> Verifiable(calm[v])
          BY <4>7, SettledVerifies DEF VVerify
        <5> QED
          BY <5>1, <5>2
      <4> QED
        BY <2>3, <4>2, <4>3, <4>4, <4>5, <4>6, <4>7 DEF VerifierStep
    <3> QED
      BY <3>6, <3>7
  <2> QED
    BY <1>3, <2>1, <2>2, <2>3 DEF CalmProgress
<1>4. ASSUME NEW s \in Signers, KillSigner(s) PROVE CalmProgress'
  BY <1>4 DEF KillSigner, CalmProgress, CalmAt, Verifying, Settled, Verifiable, files,
     signVars, verVars, history
<1>5. ASSUME NEW v \in Verifiers, KillVerifier(v) PROVE CalmProgress'
  BY <1>5 DEF KillVerifier, CalmProgress, CalmAt, Verifying, Settled, Verifiable, files,
     signVars, verVars, history
<1>6. CASE UNCHANGED vars
  BY <1>6 DEF vars, CalmProgress, CalmAt, Verifying, Settled, Verifiable, files,
     signVars, verVars, history
<1> QED
  BY <1>1, <1>2, <1>3, <1>4, <1>5, <1>6 DEF Next, AllOver

\* What was signed and left alone verifies: a verification of the package
\* that begins after an undisturbed signing run, sees no other one start and
\* has no failing call exits with 0 just when no call of the signing run
\* failed, the writing of its private key apart.
THEOREM CalmVerificationsAccept == Spec => []CalmVerificationAccepts
<1>1. Init => CalmProgress
  BY DEF Init, CalmProgress
<1>2. ReleaseInv /\ CalmProgress /\ [Next]_vars => CalmProgress'
  BY CalmStep
<1>3. CalmProgress => CalmVerificationAccepts
  BY DEF CalmProgress, CalmAt, CalmVerificationAccepts
<1> QED
  BY <1>1, <1>2, <1>3, ReleaseInvariant, PTL DEF Spec

---------------------------------------------------------------------------
(* Every way out of verify_firmware releases what was acquired.            *)

LEMMA HeldStep ==
  ASSUME TypeOK, HeldInv, [Next]_vars
  PROVE  HeldInv'
<1>1. ASSUME NEW v \in Verifiers, VStart(v) \/ VerifierStep(v) PROVE HeldInv'
  <2>1. \A w \in Verifiers \ {v} : held'[w] = HeldAt(vpc'[w])
    BY <1>1, OtherVerifications DEF HeldInv
  <2>2. held'[v] = HeldAt(vpc'[v])
    <3> USE DEF HeldInv, HeldAt, TypeOK, VerifierSteps
    <3>1. CASE VStart(v)
      BY <3>1 DEF VStart
    <3>2. CASE VLoadKey(v)
      BY <3>2 DEF VLoadKey, VExit, At
    <3>3. CASE VOpenFirmware(v)
      BY <3>3, ZenonT(60) DEF VOpenFirmware, VExit, At
    <3>4. CASE VReadHeader(v)
      BY <3>4, ZenonT(60) DEF VReadHeader, VExit, At
    <3>5. CASE VReadSignature(v)
      BY <3>5 DEF VReadSignature, At
    <3>6. CASE VReadPayload(v)
      BY <3>6 DEF VReadPayload, At
    <3>7. CASE VVerify(v)
      BY <3>7 DEF VVerify, VExit, At
    <3> QED
      BY <1>1, <3>1, <3>2, <3>3, <3>4, <3>5, <3>6, <3>7 DEF VerifierStep
  <2> QED
    BY <2>1, <2>2 DEF HeldInv
<1>2. ASSUME UNCHANGED <<vpc, held>> PROVE HeldInv'
  BY <1>2 DEF HeldInv, HeldAt
<1>3. ASSUME \A v \in Verifiers : ~(VStart(v) \/ VerifierStep(v))
      PROVE  UNCHANGED <<vpc, held>>
  BY <1>3 DEF Next, Keygen, SignerStep, FopenPrivate, WritePrivate, FopenPublic,
     WritePublic, Sign, FopenPackage, WriteHeader, WriteSignature, WritePayload,
     WriteRegion, KillSigner, KillVerifier, AllOver, vars, verVars
<1> QED
  BY <1>1, <1>2, <1>3

\* verify_firmware ends with the package closed and the key, both buffers
\* and the digest context freed, on each of its error paths too.
THEOREM ExitsReleaseAll == Spec => []ExitReleasesAll
<1>1. Init => HeldInv
  BY DEF Init, HeldInv, HeldAt
<1>2. TypeOK /\ HeldInv /\ [Next]_vars => HeldInv'
  BY HeldStep
<1>3. HeldInv => ExitReleasesAll
  BY DEF HeldInv, HeldAt, ExitReleasesAll
<1> QED
  BY <1>1, <1>2, <1>3, TypeCorrect, PTL DEF Spec

---------------------------------------------------------------------------
(* The pair of programs implements FirmwareRelease.                        *)

Released == {s \in Signers : SignatureOut(s) /\ signature[s] = "of_firmware"}
Hollow   == {s \in Signers : SignatureOut(s) /\ signature[s] = "of_nothing"}

Verdict(v) ==
  IF vpc[v] # "exited" THEN "none"
  ELSE IF result[v] = 1 THEN "reject"
  ELSE IF "update" \in vfailed[v] THEN "unchecked"
  ELSE fw_data[buf[v]["payload"]]

LEMMA SignerImplements ==
  ASSUME AuthInv, NEW s \in Signers, Keygen(s) \/ SignerStep(s)
  PROVE  /\ \/ Released' \in {Released, Released \cup {s}} /\ Hollow' = Hollow
            \/ Released' = Released /\ Hollow' = Hollow \cup {s}
         /\ UNCHANGED verVars
<1> USE DEF AuthInv, AuthParts, TypeOK, SGoto, SFails
<1>1. ASSUME NEW t \in Signers, t # s
      PROVE  (SignatureOut(t)' <=> SignatureOut(t)) /\ signature'[t] = signature[t]
  BY <1>1 DEF SignatureOut, SignerStep, Keygen, FopenPrivate, WritePrivate,
     FopenPublic, WritePublic, Sign, FopenPackage, WriteHeader, WriteSignature,
     WritePayload, WriteRegion, WritePem
<1>2. SignatureOut(s) => SignatureOut(s)' /\ signature'[s] = signature[s]
  <2>1. CASE WritePayload(s)
    <3>1. sfailed'[s] \subseteq sfailed[s] \cup {"payload"}
      BY <2>1 DEF WritePayload, WriteRegion
    <3> QED
      BY <2>1, <3>1 DEF SignatureOut, WritePayload, WriteRegion
  <2>2. CASE ~WritePayload(s)
    BY <2>2 DEF SignatureOut, SignerStep, Keygen, FopenPrivate, WritePrivate,
       FopenPublic, WritePublic, Sign, FopenPackage, WriteHeader, WriteSignature,
       WriteRegion
  <2> QED
    BY <2>1, <2>2
<1>3. UNCHANGED verVars
  BY DEF SignerStep, Keygen, FopenPrivate, WritePrivate, FopenPublic, WritePublic, Sign,
     FopenPackage, WriteHeader, WriteSignature, WritePayload, WriteRegion
<1>4. CASE SignatureOut(s)
  BY <1>1, <1>2, <1>3, <1>4 DEF Released, Hollow
<1>5. CASE ~SignatureOut(s)' /\ ~SignatureOut(s)
  BY <1>1, <1>3, <1>5 DEF Released, Hollow
<1>6. CASE SignatureOut(s)' /\ ~SignatureOut(s)
  BY <1>1, <1>3, <1>6 DEF Released, Hollow
<1> QED
  BY <1>4, <1>5, <1>6

\* Each verification answers once, and 0 only for what was released.
LEMMA VerifierImplements ==
  ASSUME AuthInv, NEW v \in Verifiers, VStart(v) \/ VerifierStep(v)
  PROVE  /\ Released' = Released /\ Hollow' = Hollow
         /\ \A w \in Verifiers \ {v} : Verdict(w)' = Verdict(w)
         /\ \/ Verdict(v)' = Verdict(v)
            \/ vpc[v] # "exited" /\ Verdict(v)' = "reject"
            \/ /\ vpc[v] # "exited"
               /\ \E s \in Released : Verdict(v)' = fw_data[s]
            \/ vpc[v] # "exited" /\ Hollow # {} /\ Verdict(v)' = "unchecked"
<1>0. TypeOK
  BY DEF AuthInv
<1>1. /\ Released' = Released /\ Hollow' = Hollow
      /\ \A w \in Verifiers \ {v} : Verdict(w)' = Verdict(w)
  BY <1>0, OtherVerifications DEF Released, Hollow, SignatureOut, Verdict, signVars
<1>2. CASE ~VVerify(v)
  <2>1. /\ vpc[v] # "exited"
        /\ vpc'[v] # "exited" \/ result'[v] = 1
    BY <1>0, <1>2 DEF VStart, VerifierStep, VLoadKey,
       VOpenFirmware, VReadHeader, VReadSignature, VReadPayload, VExit, At, TypeOK
  <2> QED
    BY <1>1, <2>1 DEF Verdict
<1>3. CASE VVerify(v)
  <2> USE <1>0, <1>3, NamesAssumption DEF VVerify, VExit, At, TypeOK
  <2>1. ASSUME buf[v]["signature"] = vkey[v], vkey[v] # NoKey
        PROVE  vkey[v] \in Signers /\ SignatureOut(vkey[v])
    <3>1. vkey[v] \in Signers /\ pkey[vkey[v]] = vkey[v]
      BY <2>1 DEF AuthInv, AuthParts, OwnKeys
    <3>2. HasWritten(vkey[v], "signature")
      BY <2>1, <3>1 DEF AuthInv, AuthParts, BytesHaveWriters, Regions
    <3> QED
      BY <3>1, <3>2 DEF HasWritten, SignatureOut
  <2>2. vpc[v] = "verify" /\ vpc'[v] = "exited" /\ result'[v] \in {0, 1} /\ buf' = buf
    OBVIOUS
  <2>3. CASE result'[v] = 1
    BY <1>1, <2>2, <2>3 DEF Verdict
  <2>4. CASE result'[v] = 0 /\ "update" \in vfailed'[v]
    <3>1. EmptyValid(vkey[v], buf[v]) \/ "update" \in vfailed[v]
      BY <2>4 DEF VFails
    <3>2. "update" \notin vfailed[v]
      BY DEF AuthInv, AuthParts, UpdateIsLast
    <3>3. vkey[v] \in Hollow
      BY <2>1, <3>1, <3>2 DEF EmptyValid, Hollow
    <3> QED
      BY <1>1, <2>2, <2>4, <3>3 DEF Verdict
  <2>5. CASE result'[v] = 0 /\ "update" \notin vfailed'[v]
    <3>1. SignatureValid(vkey[v], buf[v])
      BY <2>5
    <3>2. vkey[v] \in Released
      BY <2>1, <3>1 DEF SignatureValid, Released
    <3>3. Verdict(v)' = fw_data[vkey[v]]
      BY <2>2, <2>5, <3>1 DEF Verdict, SignatureValid
    <3> QED
      BY <1>1, <2>2, <3>2, <3>3
  <2> QED
    BY <2>2, <2>3, <2>4, <2>5
<1> QED
  BY <1>1, <1>2, <1>3

LEMMA ImplementationStep == AuthInv /\ [Next]_vars => [Abstract!Next]_(Abstract!vars)
<1> SUFFICES ASSUME AuthInv, [Next]_vars PROVE [Abstract!Next]_(Abstract!vars)
  OBVIOUS
<1> DEFINE verdict == [v \in Verifiers |-> Verdict(v)]
<1>1. ASSUME NEW s \in Signers, Keygen(s) \/ SignerStep(s)
      PROVE  [Abstract!Next]_(Abstract!vars)
  <2>1. /\ \/ Released' \in {Released, Released \cup {s}} /\ Hollow' = Hollow
           \/ Released' = Released /\ Hollow' = Hollow \cup {s}
        /\ verdict' = verdict
    BY <1>1, SignerImplements DEF verVars, Verdict
  <2>2. CASE Released' = Released /\ Hollow' = Hollow
    BY <2>1, <2>2 DEF Abstract!vars, Released, Hollow, Verdict
  <2>3. CASE Released' = Released \cup {s} /\ Hollow' = Hollow
    BY <2>1, <2>3 DEF Abstract!Next, Abstract!Release, Released, Hollow, Verdict
  <2>4. CASE Released' = Released /\ Hollow' = Hollow \cup {s}
    BY <2>1, <2>4 DEF Abstract!Next, Abstract!ReleaseHollow, Released, Hollow, Verdict
  <2> QED
    BY <2>1, <2>2, <2>3, <2>4
<1>2. ASSUME NEW v \in Verifiers, VStart(v) \/ VerifierStep(v)
      PROVE  [Abstract!Next]_(Abstract!vars)
  <2>1. /\ Released' = Released /\ Hollow' = Hollow
        /\ \A w \in Verifiers \ {v} : Verdict(w)' = Verdict(w)
    BY <1>2, VerifierImplements
  <2>2. CASE Verdict(v)' = Verdict(v)
    <3>1. verdict' = verdict
      BY <2>1, <2>2
    <3> QED
      BY <2>1, <3>1 DEF Abstract!vars, Released, Hollow, Verdict
  <2>3. CASE vpc[v] # "exited" /\ Verdict(v)' = "reject"
    <3>1. verdict[v] = "none" /\ verdict' = [verdict EXCEPT ![v] = "reject"]
      BY <2>1, <2>3, ZenonT(60) DEF Verdict
    <3>2. Abstract!Reject(v)
      BY <2>1, <3>1 DEF Abstract!Reject, Released, Hollow, Verdict
    <3> QED
      BY <3>2 DEF Abstract!Next
  <2>4. ASSUME vpc[v] # "exited", NEW s \in Released, Verdict(v)' = fw_data[s]
        PROVE  [Abstract!Next]_(Abstract!vars)
    <3>0. verdict' = [verdict EXCEPT ![v] = fw_data[s]]
      BY <2>1, <2>4
    <3>1. verdict[v] = "none" /\ verdict' = [verdict EXCEPT ![v] = fw_data[s]]
      BY <2>4, <3>0 DEF Verdict
    <3>2. Abstract!Accept(v, s)
      BY <2>1, <3>1 DEF Abstract!Accept, Released, Hollow, Verdict
    <3> QED
      BY <3>2 DEF Abstract!Next, Released
  <2>5. CASE vpc[v] # "exited" /\ Hollow # {} /\ Verdict(v)' = "unchecked"
    <3>1. verdict[v] = "none" /\ verdict' = [verdict EXCEPT ![v] = "unchecked"]
      BY <2>1, <2>5, ZenonT(60) DEF Verdict
    <3>2. Abstract!PassUnchecked(v)
      BY <2>1, <2>5, <3>1 DEF Abstract!PassUnchecked, Released, Hollow, Verdict
    <3> QED
      BY <3>2 DEF Abstract!Next
  <2> QED
    BY <1>2, <2>2, <2>3, <2>4, <2>5, VerifierImplements
<1>3. ASSUME UNCHANGED <<signVars, verVars>> PROVE [Abstract!Next]_(Abstract!vars)
  <2>1. Released' = Released /\ Hollow' = Hollow
    BY <1>3 DEF Released, Hollow, SignatureOut, signVars
  <2>2. verdict' = verdict
    BY <1>3 DEF Verdict, verVars
  <2> QED
    BY <2>1, <2>2 DEF Abstract!vars, Released, Hollow, Verdict
<1>4. ASSUME \A s \in Signers : ~(Keygen(s) \/ SignerStep(s)),
             \A v \in Verifiers : ~(VStart(v) \/ VerifierStep(v))
      PROVE  UNCHANGED <<signVars, verVars>>
  BY <1>4 DEF Next, KillSigner, KillVerifier, AllOver, vars
<1> QED
  BY <1>1, <1>2, <1>3, <1>4

\* Seen through the files and exit codes, sign_firmware releases firmware and
\* verify_firmware answers as FirmwareRelease says.
THEOREM CodeSigningImplementsRelease == Spec => ImplementsRelease
<1>1. ASSUME Init PROVE Abstract!Init
  <2>1. Released = {} /\ Hollow = {} /\ \A v \in Verifiers : Verdict(v) = "none"
    BY <1>1 DEF Init, Released, Hollow, SignatureOut, Verdict
  <2> QED
    BY <2>1 DEF Abstract!Init, Released, Hollow, Verdict
<1> QED
  BY <1>1, ImplementationStep, AuthInvariant, PTL
     DEF Spec, ImplementsRelease, Abstract!Spec

==========================================================================
