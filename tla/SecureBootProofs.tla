------------------------ MODULE SecureBootProofs ------------------------
(***************************************************************************)
(* Proofs about secure boot: what the exit code says, what a run without   *)
(* failures does, and that both boots implement the chain of trust.        *)
(***************************************************************************)
EXTENDS SecureBoot, TLAPS

Images == {"original", "changed"}
Over2  == {"exited", "crashed"}

TypeOK ==
  /\ pc \in {"create_root_key", "sign", "verify", "tamper"} \cup Over2
  /\ k \in Stages /\ boot \in 1..2
  /\ root_key \in BOOLEAN
  /\ data \in [Stages -> Images]
  /\ signature \in [Stages -> Images \cup {Unsigned, Nothing}]
  /\ sig_len \in [Stages -> {"zero", "most", "exact"}]
  /\ ran \in [1..2 -> Seq(Images)]
  /\ unhashed \in SUBSET ((1..2) \X Stages)
  /\ failed \in BOOLEAN
  /\ code \in 0..2

(* Where main is tells which boot it is in and how far that boot got.      *)
Progress ==
  /\ pc = "create_root_key" => k = 1
  /\ pc \in {"create_root_key", "sign"} => boot = 1 /\ ran[1] = <<>>
  /\ pc = "verify" => Len(ran[boot]) = k - 1
  /\ pc = "tamper" => boot = 1 /\ k = 1 /\ Len(ran[1]) = 3
  /\ boot = 1 => ran[2] = <<>>
  /\ boot = 2 => Len(ran[1]) = 3
  /\ Len(ran[2]) \in 0..1

(* Only the image of stage 2 changes, between the boots.                   *)
OnlyStage2Changes ==
  \A s \in Stages : data[s] = IF boot = 2 /\ s = 2 THEN "changed" ELSE "original"

(* What ran in either boot is the original image, signed, unless both its  *)
(* signature and the answer about it are about nothing.                    *)
RanSigned ==
  \A b \in 1..2 : \A i \in 1..Len(ran[b]) :
    i \in Stages /\ ran[b][i] = "original" /\ Trusted(b, i)

Exits ==
  /\ code = 2 <=> pc # "exited"
  /\ code = 0 => boot = 2
  /\ code = 1 => boot = 1 /\ Len(ran[1]) < 3

(* No signature is over nothing before the key is made.                    *)
NoneEarly == pc = "create_root_key" => \A s \in Stages : signature[s] = Unsigned

(* Without a failed call there is a key, every stage main has come to is   *)
(* signed, and main ends after one stage of the second boot.               *)
Unfailed ==
  ~failed =>
    /\ pc # "crashed"
    /\ pc # "create_root_key" => root_key
    /\ \A s \in Stages :
         pc # "create_root_key" /\ (pc = "sign" => s < k)
           => signature[s] = "original" /\ sig_len[s] = "exact"
    /\ pc = "exited" => boot = 2 /\ Len(ran[2]) = 1

Inv ==
  TypeOK /\ Progress /\ OnlyStage2Changes /\ RanSigned /\ Exits /\ NoneEarly /\ Unfailed

-------------------------------------------------------------------------
(* What one more stage does to the images that ran.                        *)
LEMMA RunStageEffect ==
  ASSUME TypeOK, NEW next, RunStage(next)
  PROVE  /\ ran' \in [1..2 -> Seq(Images)]
         /\ ran[boot] \in Seq(Images) /\ Len(ran[boot]) \in Nat
         /\ Len(ran'[boot]) = Len(ran[boot]) + 1
         /\ ran'[boot][Len(ran[boot]) + 1] = data[k]
         /\ \A i \in 1..Len(ran[boot]) : ran'[boot][i] = ran[boot][i]
         /\ \A b \in 1..2 : b # boot => ran'[b] = ran[b]
         /\ k' = (IF next = "verify" THEN k + 1 ELSE 1)
         /\ pc' = next /\ code' = code
<1>1. boot \in 1..2 /\ ran \in [1..2 -> Seq(Images)] /\ data[k] \in Images
  BY DEF TypeOK
<1>2. /\ ran' = [ran EXCEPT ![boot] = Append(@, data[k])]
      /\ k' = (IF next = "verify" THEN k + 1 ELSE 1) /\ pc' = next /\ code' = code
  BY DEF RunStage
<1>3. ran[boot] \in Seq(Images) /\ Len(ran[boot]) \in Nat
  BY <1>1
<1>4. ran'[boot] = Append(ran[boot], data[k]) /\ \A b \in 1..2 : b # boot => ran'[b] = ran[b]
  BY <1>1, <1>2
<1>5. /\ Append(ran[boot], data[k]) \in Seq(Images)
      /\ Len(Append(ran[boot], data[k])) = Len(ran[boot]) + 1
      /\ Append(ran[boot], data[k])[Len(ran[boot]) + 1] = data[k]
      /\ \A i \in 1..Len(ran[boot]) : Append(ran[boot], data[k])[i] = ran[boot][i]
  BY <1>1, <1>3
<1>6. ran' \in [1..2 -> Seq(Images)]
  BY <1>1, <1>2, <1>5
<1> QED BY <1>2, <1>3, <1>4, <1>5, <1>6

(* The result of a verification: 1 only for a signature that fits.         *)
LEMMA VerifiedFits ==
  ASSUME NEW s, NEW message, NEW result \in VerifyFinal(s, message), Verified(result)
  PROVE  Covers(s, message)
BY DEF VerifyFinal, Verified

(* Init gives the invariant.                                               *)
LEMMA InitInv == Init => Inv
<1> SUFFICES ASSUME Init PROVE Inv
  OBVIOUS
<1>1. /\ <<>> \in Seq(Images) /\ Len(<<>>) = 0
      /\ ran \in [1..2 -> Seq(Images)] /\ ran[1] = <<>> /\ ran[2] = <<>>
  BY DEF Init
<1>2. TypeOK
  <2>1. data \in [Stages -> Images]
    BY DEF Init, Images
  <2>2. signature \in [Stages -> Images \cup {Unsigned, Nothing}]
    BY DEF Init
  <2>3. sig_len \in [Stages -> {"zero", "most", "exact"}]
    BY DEF Init
  <2>4. /\ pc = "create_root_key" /\ k \in Stages /\ boot \in 1..2 /\ code \in 0..2
        /\ root_key = FALSE /\ failed = FALSE /\ unhashed = {}
    BY DEF Init, Stages
  <2> QED BY <1>1, <2>1, <2>2, <2>3, <2>4 DEF TypeOK
<1>3. Progress /\ OnlyStage2Changes /\ Exits /\ NoneEarly /\ Unfailed
  BY <1>1 DEF Init, Progress, OnlyStage2Changes, Exits, NoneEarly, Unfailed, Stages
<1>4. RanSigned
  <2>1. \A b \in 1..2 : Len(ran[b]) = 0
    BY <1>1
  <2> QED BY <2>1 DEF RanSigned
<1> QED BY <1>2, <1>3, <1>4 DEF Inv

LEMMA CreateRootKeyInv ==
  ASSUME Inv, create_root_key
  PROVE  Inv'
<1>1. /\ pc = "create_root_key" /\ pc' = "sign" /\ boot = 1 /\ ran[1] = <<>> /\ k = 1
      /\ root_key' \in BOOLEAN /\ failed' = ~root_key'
      /\ UNCHANGED <<k, boot, data, signature, sig_len, ran, unhashed, code>>
  BY DEF create_root_key, Inv, TypeOK, Progress, Stages
<1>2. TypeOK'
  BY <1>1 DEF Inv, TypeOK
<1>3. Progress' /\ OnlyStage2Changes' /\ RanSigned' /\ Exits' /\ NoneEarly'
  BY <1>1 DEF Inv, Progress, OnlyStage2Changes, RanSigned, Trusted, Exits, NoneEarly
<1>4. Unfailed'
  <2>1. ~failed' => root_key'
    BY <1>1
  <2> QED BY <1>1, <2>1 DEF Unfailed, Stages
<1> QED BY <1>2, <1>3, <1>4 DEF Inv

(* Signing stage k: the images that ran are none yet.                      *)
LEMMA SignStageInv ==
  ASSUME Inv, sign_stage
  PROVE  Inv'
<1> USE DEF Stages
<1>1. /\ pc = "sign" /\ k \in 1..3 /\ boot = 1 /\ ran[1] = <<>> /\ ran[2] = <<>>
      /\ UNCHANGED <<boot, root_key, data, ran, unhashed, code>>
      /\ signature \in [1..3 -> Images \cup {Unsigned, Nothing}]
      /\ sig_len \in [1..3 -> {"zero", "most", "exact"}]
      /\ data[k] = "original" /\ data[k] \in Images
  BY DEF Inv, TypeOK, Progress, OnlyStage2Changes, sign_stage
<1>2. \/ k < 3 /\ k' = k + 1 /\ pc' = "sign"
      \/ k = 3 /\ k' = 1 /\ pc' = "verify"
  BY <1>1 DEF sign_stage
<1>3. \/ /\ signature' = [signature EXCEPT ![k] = "original"]
         /\ sig_len' = [sig_len EXCEPT ![k] = "exact"]
         /\ failed' = failed
      \/ /\ signature' = [signature EXCEPT ![k] = Nothing]
         /\ sig_len' = [sig_len EXCEPT ![k] = "exact"]
         /\ failed' = TRUE
      \/ /\ failed' = TRUE /\ signature' = signature
         /\ sig_len' = sig_len \/ sig_len' = [sig_len EXCEPT ![k] = "most"]
  <2>1. failed \in BOOLEAN /\ data[k] # Nothing
    BY <1>1 DEF Inv, TypeOK, Nothing
  <2>2. CASE \E message \in Hashed(k) :
               /\ signature' = [signature EXCEPT ![k] = message]
               /\ failed' = (failed \/ message = Nothing)
               /\ sig_len' = [sig_len EXCEPT ![k] = "exact"]
    BY <1>1, <2>1, <2>2 DEF Hashed
  <2> QED BY <2>2 DEF sign_stage
<1>4. TypeOK'
  <2>1. signature' \in [1..3 -> Images \cup {Unsigned, Nothing}]
    BY <1>1, <1>3 DEF Images
  <2>2. sig_len' \in [1..3 -> {"zero", "most", "exact"}]
    BY <1>1, <1>3
  <2>3. failed' \in BOOLEAN
    BY <1>3 DEF Inv, TypeOK
  <2> QED BY <1>1, <1>2, <2>1, <2>2, <2>3 DEF Inv, TypeOK
<1>5. Progress' /\ OnlyStage2Changes' /\ RanSigned' /\ Exits' /\ NoneEarly'
  BY <1>1, <1>2 DEF Inv, TypeOK, Progress, OnlyStage2Changes, RanSigned, Exits, NoneEarly
<1>6. Unfailed'
  <2> SUFFICES ASSUME ~failed'
               PROVE  /\ pc' # "crashed" /\ root_key' /\ pc' # "exited"
                      /\ \A s \in Stages : (pc' = "sign" => s < k')
                           => signature'[s] = "original" /\ sig_len'[s] = "exact"
    BY DEF Unfailed
  <2>1. /\ signature' = [signature EXCEPT ![k] = "original"]
        /\ sig_len' = [sig_len EXCEPT ![k] = "exact"] /\ ~failed
    BY <1>3
  <2>2. \A s \in Stages : s < k => signature[s] = "original" /\ sig_len[s] = "exact"
    BY <1>1, <2>1 DEF Inv, Unfailed
  <2> QED BY <1>1, <1>2, <2>1, <2>2 DEF Inv, Unfailed
<1> QED BY <1>4, <1>5, <1>6 DEF Inv

(* Verifying stage k: its image runs, or main exits.                       *)
LEMMA VerifyStageInv ==
  ASSUME Inv, verify_stage
  PROVE  Inv'
<1> USE DEF Stages
<1>0. PICK message \in Hashed(k) : \E result \in VerifyFinal(k, message) :
        /\ IF boot = 1 THEN FirstBoot(Verified(result)) ELSE SecondBoot(Verified(result))
        /\ unhashed' = IF message = Nothing THEN unhashed \cup {<<boot, k>>} ELSE unhashed
        /\ failed' = (failed \/ message = Nothing \/ (Covers(k, message) /\ result # 1))
  BY DEF verify_stage
<1>1. PICK result \in VerifyFinal(k, message) :
        /\ IF boot = 1 THEN FirstBoot(Verified(result)) ELSE SecondBoot(Verified(result))
        /\ unhashed' = IF message = Nothing THEN unhashed \cup {<<boot, k>>} ELSE unhashed
        /\ failed' = (failed \/ message = Nothing \/ (Covers(k, message) /\ result # 1))
  BY <1>0
<1>2. /\ pc = "verify" /\ UNCHANGED <<boot, root_key, data, signature, sig_len>>
      /\ k \in 1..3 /\ boot \in 1..2 /\ code = 2 /\ failed \in BOOLEAN
      /\ Len(ran[boot]) = k - 1 /\ ran \in [1..2 -> Seq(Images)]
  BY DEF verify_stage, Inv, TypeOK, Progress, Exits
<1>3. OnlyStage2Changes' /\ (pc' # "create_root_key" => NoneEarly')
  BY <1>2 DEF Inv, OnlyStage2Changes, NoneEarly
<1>4. /\ failed' \in BOOLEAN
      /\ unhashed' \in SUBSET ((1..2) \X Stages)
      /\ unhashed \subseteq unhashed'
  BY <1>1, <1>2 DEF Inv, TypeOK
<1>5. ~failed' =>
        /\ ~failed /\ root_key
        /\ \A s \in Stages : signature[s] = "original" /\ sig_len[s] = "exact"
        /\ Covers(k, data[k]) => Verified(result)
  BY <1>1, <1>2 DEF Inv, Unfailed, Verified, Hashed
<1>6. CASE \E next : RunStage(next) /\ Verified(result) /\
             next = (IF k < 3 /\ (boot = 1 \/ k = 1) THEN "verify" ELSE "tamper") /\
             (boot = 1 \/ k = 1)
  <2>1. PICK next : RunStage(next) /\ Verified(result) /\
             next = (IF k < 3 /\ (boot = 1 \/ k = 1) THEN "verify" ELSE "tamper") /\
             (boot = 1 \/ k = 1)
    BY <1>6
  <2>2. Covers(k, message)
    BY <1>1, <2>1, VerifiedFits
  <2>3. /\ data[k] = "original"
        /\ \/ signature[k] = "original"
           \/ signature[k] = Nothing /\ <<boot, k>> \in unhashed'
    <3>1. data[k] = "original"
      BY <1>2, <2>1 DEF Inv, OnlyStage2Changes
    <3>2. message = Nothing => signature[k] = Nothing /\ <<boot, k>> \in unhashed'
      BY <1>1, <2>2 DEF Covers
    <3>3. message # Nothing => signature[k] = "original"
      BY <3>1, <2>2 DEF Covers, Hashed
    <3> QED BY <3>1, <3>2, <3>3
  <2>4. /\ ran' \in [1..2 -> Seq(Images)]
        /\ Len(ran'[boot]) = k
        /\ ran'[boot][k] = data[k]
        /\ \A i \in 1..(k - 1) : ran'[boot][i] = ran[boot][i]
        /\ \A b \in 1..2 : b # boot => ran'[b] = ran[b]
        /\ k' = (IF next = "verify" THEN k + 1 ELSE 1)
        /\ pc' = next /\ code' = code
    BY <1>2, <2>1, RunStageEffect DEF Inv
  <2>5. TypeOK'
    BY <1>2, <1>4, <2>1, <2>4 DEF Inv, TypeOK
  <2>6. Progress'
    <3>1. CASE boot = 1
      <4>1. ran'[2] = <<>> /\ Len(ran'[2]) = 0 /\ Len(ran'[1]) = k /\ boot' = 1
        BY <1>2, <2>4, <3>1 DEF Inv, Progress
      <4>2. \/ k < 3 /\ pc' = "verify" /\ k' = k + 1
            \/ k = 3 /\ pc' = "tamper" /\ k' = 1
        BY <1>2, <2>1, <2>4, <3>1
      <4> QED BY <1>2, <4>1, <4>2, <3>1 DEF Progress
    <3>2. CASE boot = 2
      <4>1. k = 1 /\ pc' = "verify" /\ k' = 2 /\ boot' = 2
        BY <1>2, <2>1, <2>4, <3>2
      <4>2. Len(ran'[1]) = 3 /\ Len(ran'[2]) = 1
        BY <2>4, <3>2, <4>1 DEF Inv, Progress
      <4> QED BY <4>1, <4>2 DEF Progress
    <3> QED BY <1>2, <3>1, <3>2
  <2>7. RanSigned'
    <3> SUFFICES ASSUME NEW b \in 1..2, NEW i \in 1..Len(ran'[b])
                 PROVE  i \in Stages /\ ran'[b][i] = "original" /\ Trusted(b, i)'
      BY DEF RanSigned
    <3>0. Trusted(b, i) => Trusted(b, i)'
      BY <1>2, <1>4 DEF Trusted
    <3>1. CASE b # boot
      BY <3>0, <3>1, <2>4 DEF Inv, RanSigned
    <3>2. CASE b = boot /\ i = k
      BY <3>2, <1>2, <2>3, <2>4 DEF Trusted
    <3>3. CASE b = boot /\ i # k
      <4>1. i \in 1..(k - 1) /\ i \in 1..Len(ran[b])
        BY <3>3, <1>2, <2>4
      <4> QED BY <3>0, <4>1, <3>3, <2>4 DEF Inv, RanSigned
    <3> QED BY <3>1, <3>2, <3>3
  <2>8. Exits'
    BY <1>2, <2>1, <2>4 DEF Inv, Exits
  <2>9. Unfailed'
    BY <1>2, <1>5, <2>1, <2>4 DEF Unfailed
  <2>10. NoneEarly'
    BY <1>3, <2>1, <2>4
  <2> QED BY <1>3, <2>5, <2>6, <2>7, <2>8, <2>9, <2>10 DEF Inv
<1>7. CASE /\ Exit(IF boot = 1 THEN 1 ELSE 0)
           /\ boot = 1 => ~Verified(result)
           /\ boot = 2 => ~(Verified(result) /\ k = 1)
  <2>1. /\ pc' = "exited" /\ code' = (IF boot = 1 THEN 1 ELSE 0)
        /\ k' = k /\ ran' = ran
    BY <1>7 DEF Exit
  <2>2. TypeOK'
    BY <1>2, <1>4, <2>1 DEF Inv, TypeOK, Over2
  <2>3. Progress' /\ RanSigned' /\ Exits'
    BY <1>2, <1>4, <2>1 DEF Inv, Progress, RanSigned, Trusted, Exits
  <2>4. Unfailed'
    <3> SUFFICES ASSUME ~failed'
                 PROVE  root_key /\ boot = 2 /\ Len(ran[2]) = 1
      BY <1>2, <1>5, <2>1 DEF Unfailed
    <3>1. boot = 1 \/ k = 1 => Covers(k, data[k])
      BY <1>2, <1>5 DEF Covers, Inv, OnlyStage2Changes
    <3>2. boot = 2 /\ k # 1
      BY <1>2, <1>5, <1>7, <3>1
    <3> QED BY <1>2, <1>5, <3>2 DEF Inv, Progress
  <2>5. NoneEarly'
    BY <1>3, <2>1
  <2> QED BY <1>3, <2>2, <2>3, <2>4, <2>5 DEF Inv
<1> QED BY <1>1, <1>2, <1>6, <1>7 DEF FirstBoot, SecondBoot

LEMMA TamperInv ==
  ASSUME Inv, Tamper
  PROVE  Inv'
<1> USE DEF Stages
<1>1. /\ pc = "tamper" /\ pc' = "verify" /\ boot = 1 /\ boot' = 2 /\ k = 1
      /\ Len(ran[1]) = 3 /\ ran[2] = <<>> /\ data \in [1..3 -> Images]
      /\ data' = [data EXCEPT ![2] = "changed"]
      /\ UNCHANGED <<k, root_key, signature, sig_len, ran, unhashed, failed, code>>
  BY DEF Tamper, Inv, TypeOK, Progress
<1>2. TypeOK'
  <2>1. data' \in [1..3 -> Images]
    BY <1>1 DEF Images
  <2> QED BY <1>1, <2>1 DEF Inv, TypeOK
<1>3. Progress' /\ OnlyStage2Changes'
  BY <1>1 DEF Inv, Progress, OnlyStage2Changes
<1>4. RanSigned' /\ Exits' /\ NoneEarly' /\ Unfailed'
  BY <1>1 DEF Inv, RanSigned, Trusted, Exits, NoneEarly, Unfailed
<1> QED BY <1>2, <1>3, <1>4 DEF Inv

LEMMA CrashInv ==
  ASSUME Inv, Crash
  PROVE  Inv'
<1>1. /\ pc \in {"create_root_key", "sign", "verify"} /\ pc' = "crashed" /\ failed'
      /\ failed' \in BOOLEAN
      /\ UNCHANGED <<k, boot, root_key, data, signature, sig_len, ran, unhashed, code>>
  BY DEF Crash
<1>2. TypeOK'
  BY <1>1 DEF Inv, TypeOK, Over2
<1>3. Progress' /\ OnlyStage2Changes' /\ RanSigned'
  BY <1>1 DEF Inv, Progress, OnlyStage2Changes, RanSigned, Trusted
<1>4. Exits' /\ NoneEarly' /\ Unfailed'
  BY <1>1 DEF Inv, Exits, NoneEarly, Unfailed
<1> QED BY <1>2, <1>3, <1>4 DEF Inv

LEMMA StutterInv ==
  ASSUME Inv, UNCHANGED vars
  PROVE  Inv'
<1>1. UNCHANGED <<pc, k, boot, root_key, data, signature, sig_len, ran, unhashed,
                  failed, code>>
  BY DEF vars
<1>2. TypeOK' /\ Progress' /\ OnlyStage2Changes' /\ RanSigned'
  BY <1>1 DEF Inv, TypeOK, Progress, OnlyStage2Changes, RanSigned, Trusted
<1>3. Exits' /\ NoneEarly' /\ Unfailed'
  BY <1>1 DEF Inv, Exits, NoneEarly, Unfailed
<1> QED BY <1>2, <1>3 DEF Inv

(* Every step keeps the invariant, one lemma per action.                   *)
LEMMA Inductive == Spec => []Inv
<1>1. Init => Inv
  BY InitInv
<1>2. Inv /\ [Next]_vars => Inv'
  <2> SUFFICES ASSUME Inv, [Next]_vars
               PROVE  Inv'
    OBVIOUS
  <2>1. CASE create_root_key
    BY <2>1, CreateRootKeyInv
  <2>2. CASE sign_stage
    BY <2>2, SignStageInv
  <2>3. CASE verify_stage
    BY <2>3, VerifyStageInv
  <2>4. CASE Tamper
    BY <2>4, TamperInv
  <2>5. CASE Crash
    BY <2>5, CrashInv
  <2>6. CASE UNCHANGED vars
    BY <2>6, StutterInv
  <2> QED BY <2>1, <2>2, <2>3, <2>4, <2>5, <2>6 DEF Next, Over
<1> QED BY <1>1, <1>2, PTL DEF Spec

-------------------------------------------------------------------------
(* Every variable of main stays in its set: the stage index in range, the  *)
(* images the two they can be, the exit code 0 or 1 when there is one.     *)
THEOREM TypeCorrect == Spec => []TypeOK
<1>1. Inv => TypeOK
  BY DEF Inv
<1> QED BY <1>1, Inductive, PTL

(* Exit code 0 is given only after a boot in which all three stages ran,   *)
(* each signed and verified unless its image was hashed neither time, exit *)
(* code 1 only if the kernel never ran (the two returns of main), whatever *)
(* calls of the library fail.                                              *)
THEOREM CodeTells == Spec => []CodeTellsTheBoot
<1>1. Inv => CodeTellsTheBoot
  <2> SUFFICES ASSUME Inv
               PROVE  CodeTellsTheBoot
    OBVIOUS
  <2>1. boot = 2 => Len(ran[1]) = 3
    BY DEF Inv, Progress
  <2>2. Len(ran[1]) = 3 => \A s \in Stages : Trusted(1, s)
    <3>1. \A i \in 1..Len(ran[1]) : Trusted(1, i)
      BY DEF Inv, RanSigned
    <3> QED BY <3>1 DEF Stages
  <2>3. boot = 1 => ran[2] = <<>>
    BY DEF Inv, Progress
  <2> QED BY <2>1, <2>2, <2>3 DEF Inv, Exits, CodeTellsTheBoot
<1> QED BY <1>1, Inductive, PTL

(* If no library call fails, the first boot runs the three images and the  *)
(* second stops before the changed one: the demonstration main is for.     *)
THEOREM TamperingDetected == Spec => []HonestRunDetectsTampering
<1>1. Inv => HonestRunDetectsTampering
  <2> SUFFICES ASSUME Inv, pc = "exited", ~failed
               PROVE  /\ code = 0
                      /\ ran[1] = <<"original", "original", "original">>
                      /\ ran[2] = <<"original">>
    BY DEF HonestRunDetectsTampering
  <2>1. boot = 2 /\ Len(ran[2]) = 1 /\ Len(ran[1]) = 3
    BY DEF Inv, Unfailed, Progress
  <2>2. code = 0
    BY <2>1 DEF Inv, Exits, TypeOK
  <2>3. ran[1] \in Seq(Images) /\ ran[2] \in Seq(Images)
    BY DEF Inv, TypeOK
  <2>4. /\ ran[1][1] = "original" /\ ran[1][2] = "original" /\ ran[1][3] = "original"
        /\ ran[2][1] = "original"
    BY <2>1 DEF Inv, RanSigned
  <2>5. ran[1] = <<"original", "original", "original">>
    BY <2>1, <2>3, <2>4
  <2>6. ran[2] = <<"original">>
    BY <2>1, <2>3, <2>4
  <2> QED BY <2>2, <2>5, <2>6
<1> QED BY <1>1, Inductive, PTL

-------------------------------------------------------------------------
(* Where the steps of main are steps of the chain of trust: a stage that   *)
(* runs is StartStage, the image change with the new boot is Reboot, key   *)
(* generation and signing are Sign.                                        *)
LEMMA StepsOfTheChain ==
  ASSUME Inv, [Next]_vars
  PROVE  [Chain!Next]_<<Len(ran[boot]), {s \in Stages : Covers(s, data[s])},
                        {s \in Stages : Covers(s, Nothing)}>>
<1> DEFINE up == Len(ran[boot])
           genuine == {s \in Stages : Covers(s, data[s])}
           hollow == {s \in Stages : Covers(s, Nothing)}
<1>1. genuine' \in SUBSET Chain!Stages /\ hollow' \in SUBSET Chain!Stages
  BY DEF Chain!Stages, Stages
<1>2. CASE create_root_key \/ sign_stage
  <2>1. UNCHANGED <<ran, boot>> /\ boot = 1 /\ ran[1] = <<>>
    BY <1>2 DEF create_root_key, sign_stage, Inv, Progress
  <2>2. Chain!Sign
    BY <2>1, <1>1 DEF Chain!Sign
  <2> QED BY <2>2 DEF Chain!Next
<1>3. CASE verify_stage
  <2>1. /\ UNCHANGED <<boot, root_key, data, signature, sig_len>>
        /\ k \in Stages /\ up = k - 1
    BY <1>3 DEF verify_stage, Inv, TypeOK, Progress
  <2>2. genuine' = genuine /\ hollow' = hollow
    BY <2>1 DEF Covers
  <2>3. PICK message \in Hashed(k) : \E result \in VerifyFinal(k, message) :
          IF boot = 1 THEN FirstBoot(Verified(result)) ELSE SecondBoot(Verified(result))
    BY <1>3 DEF verify_stage
  <2>4. CASE UNCHANGED ran
    BY <2>1, <2>2, <2>4
  <2>5. PICK result \in VerifyFinal(k, message) :
          IF boot = 1 THEN FirstBoot(Verified(result)) ELSE SecondBoot(Verified(result))
    BY <2>3
  <2>6. CASE (\E next : RunStage(next)) /\ Verified(result)
    <3>1. Len(ran'[boot]) = Len(ran[boot]) + 1 /\ Len(ran[boot]) \in Nat
      BY <2>6, RunStageEffect DEF Inv
    <3>2. up' = up + 1
      BY <3>1, <2>1
    <3>3. Covers(k, message)
      BY <2>6, VerifiedFits
    <3>4. up + 1 \in genuine \cup hollow /\ up < 3
      BY <2>1, <3>3 DEF Stages, Hashed
    <3>5. Chain!StartStage
      BY <2>2, <3>2, <3>4 DEF Chain!StartStage
    <3> QED BY <3>5 DEF Chain!Next
  <2> QED BY <2>4, <2>5, <2>6 DEF FirstBoot, SecondBoot, Exit
<1>4. CASE Tamper
  <2>1. boot' = 2 /\ ran' = ran /\ ran[2] = <<>>
    BY <1>4 DEF Tamper, Inv, Progress
  <2>2. up' = 0
    BY <2>1
  <2>3. hollow' = hollow
    BY <1>4 DEF Tamper, Covers
  <2>4. Chain!Reboot
    BY <1>1, <2>2, <2>3 DEF Chain!Reboot
  <2> QED BY <2>4 DEF Chain!Next
<1>5. CASE Crash \/ UNCHANGED vars
  <2>1. UNCHANGED <<boot, root_key, data, signature, sig_len, ran>>
    BY <1>5 DEF Crash, vars
  <2> QED BY <2>1 DEF Covers
<1> QED BY <1>2, <1>3, <1>4, <1>5 DEF Next, Over

(* Both boots implement the chain of trust: no stage starts out of order,  *)
(* or over an image other than the signed one unless its signature was     *)
(* made over nothing, whatever else fails.                                 *)
THEOREM ChainImplemented == Spec => ImplementsChain
<1>1. Init => Chain!Init
  <2> SUFFICES ASSUME Init
               PROVE  Chain!Init
    OBVIOUS
  <2>1. ran[boot] = <<>> /\ ~root_key
    BY DEF Init
  <2> QED BY <2>1 DEF Chain!Init, Chain!Stages, Stages, Covers
<1>2. Inv /\ [Next]_vars
        => [Chain!Next]_<<Len(ran[boot]), {s \in Stages : Covers(s, data[s])},
                          {s \in Stages : Covers(s, Nothing)}>>
  BY StepsOfTheChain
<1> QED BY <1>1, <1>2, Inductive, PTL DEF Spec, ImplementsChain, Chain!Spec

=========================================================================
