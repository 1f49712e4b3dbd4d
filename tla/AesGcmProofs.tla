-------------------------- MODULE AesGcmProofs --------------------------
(***************************************************************************)
(* Proofs about AES-GCM: a decryption that is accepted is the message that *)
(* was encrypted, for every length of it, and what main shows in a run     *)
(* without failures.                                                       *)
(***************************************************************************)
EXTENDS AesGcm, TLAPS

Contents == {"none", "ct", "aad", "changed"}
TheTag   == [ct |-> "ct", aad |-> "aad"]

Contexts == [live : BOOLEAN, set : SUBSET {"cipher", "ivlen", "key"},
             aad : Contents, ct : Contents, tag : {NoTag, TheTag}]

TypeOK ==
  /\ job \in 1..4 /\ pc \in 1..Main
  /\ ctx \in Contexts
  /\ ciphertext \in {"unset", "ct"}
  /\ tag \in {NoTag, TheTag}
  /\ decrypted \in {"unset", "plaintext", "changed"}
  /\ pt_len \in {-2, -1, 0, plaintext_len}
  /\ shown \in [1..4 -> {"nothing", "failed", "tamper_found", "unexpected", "unset",
                         "plaintext", "changed"}]
  /\ code \in 0..2
  /\ failed \in SUBSET (0..4)

\* The plaintext a decryption of this job's ciphertext writes.
Written == IF Args.ct = "ct" THEN "plaintext" ELSE "changed"

(* What the context holds between two calls of a function: the associated  *)
(* data and the ciphertext it was called with, then main's tag, and by     *)
(* then the plaintext buffer is written.                                   *)
ContextAsCalled ==
  pc # Main =>
    /\ pc >= 3 => "cipher" \in ctx.set
    /\ pc >= 4 => "ivlen" \in ctx.set
    /\ pc >= 5 => "key" \in ctx.set
    /\ pc >= 6 => ctx.aad = Args.aad
    /\ pc >= 7 => ctx.ct = Args.ct
    /\ pc >= 7 /\ Args.dir = "dec" => decrypted = Written
    /\ pc >= 8 /\ Args.dir = "dec" => ctx.tag = tag

(* The first job leaves the tag of what it encrypted, or fails; main does  *)
(* not go on without it.                                                   *)
TagFirst ==
  /\ job > 1 => tag = TheTag
  /\ job = 1 /\ pc = Main => (tag = TheTag /\ pt_len = plaintext_len) \/ pt_len = -1

(* The program ends at the last job, or with 1 at the first one.           *)
Ends ==
  /\ code # 2 => pc = Main
  /\ code = 0 => job = 4
  /\ code = 1 => job = 1 /\ pt_len = -1

(* Without a failed call every job returns what main expects of it, and    *)
(* what main has shown so far is that.                                     *)
Unfailed ==
  failed \subseteq {0} =>
    /\ pc = Main /\ job \in 1..2 => pt_len = plaintext_len
    /\ pc = Main /\ job \in 3..4 => pt_len = -2
    /\ job > 2 => shown[2] = "plaintext"
    /\ job > 3 => shown[3] = "tamper_found"
    /\ code = 0 => shown[4] = "tamper_found"

(* No call of a later job has failed, and nothing is shown about one; in   *)
(* job 2 a failed call leaves no length.                                   *)
SoFar ==
  /\ \A j \in failed : j <= job
  /\ job = 2 /\ 2 \in failed => pc = Main /\ pt_len < 0
  /\ \A j \in 2..4 : j > job \/ (j = job /\ code = 2) => shown[j] = "nothing"

Inv ==
  /\ TypeOK /\ ContextAsCalled /\ TagFirst /\ Ends /\ SoFar
  /\ DecryptedIsAuthentic /\ Unfailed

-------------------------------------------------------------------------
(* The four calls of main, and at which position each library call is.     *)
LEMMA ArgsByJob ==
  ASSUME job \in 1..4
  PROVE  /\ Args.dir = (IF job = 1 THEN "enc" ELSE "dec")
         /\ Args.ct = (IF job = 3 THEN "changed" ELSE "ct")
         /\ Args.aad = (IF job = 4 THEN "changed" ELSE "aad")
<1>1. job = 1 \/ job = 2 \/ job = 3 \/ job = 4
  OBVIOUS
<1> QED BY <1>1 DEF Args, Jobs

LEMMA Positions ==
  ASSUME job \in 1..4, pc \in 1..Main, NEW call, At(call)
  PROVE  /\ pc \in 1..8 /\ code = 2
         /\ call = "new" => pc = 1
         /\ call = "cipher" => pc = 2
         /\ call = "ivlen" => pc = 3
         /\ call = "key" => pc = 4
         /\ call = "aad" => pc = 5
         /\ call = "update" => pc = 6
         /\ call = "set_tag" => pc = 7 /\ job # 1
         /\ call = "final" => pc = (IF job = 1 THEN 7 ELSE 8)
         /\ call = "get_tag" => pc = 8 /\ job = 1
<1>1. /\ pc \in 1..8 /\ code = 2 /\ call = CallsNow[pc]
      /\ CallsNow = (IF job = 1 THEN Calls.enc ELSE Calls.dec)
  <2>1. pc # Main /\ code = 2 /\ call = CallsNow[pc]
    BY DEF At
  <2>2. CallsNow = (IF job = 1 THEN Calls.enc ELSE Calls.dec)
    BY ArgsByJob DEF CallsNow, Calls
  <2> QED BY <2>1, <2>2 DEF Main
<1>2. CASE job = 1
  BY <1>1, <1>2 DEF Calls
<1>3. CASE job # 1
  BY <1>1, <1>3 DEF Calls
<1> QED BY <1>2, <1>3

LEMMA NoCtxType == NoCtx \in Contexts /\ NewCtx \in Contexts
BY DEF NoCtx, NewCtx, Contexts, Contents

LEMMA ContextType ==
  ASSUME NEW c \in Contexts, NEW x \in Contents, NEW t \in {NoTag, TheTag}
  PROVE  /\ [c EXCEPT !.aad = x] \in Contexts /\ [c EXCEPT !.aad = x].aad = x
         /\ [c EXCEPT !.ct = x] \in Contexts /\ [c EXCEPT !.ct = x].ct = x
         /\ [c EXCEPT !.ct = x].aad = c.aad
         /\ [c EXCEPT !.ct = x].set = c.set /\ [c EXCEPT !.aad = x].set = c.set
         /\ [c EXCEPT !.tag = t].set = c.set
         /\ [c EXCEPT !.tag = t] \in Contexts /\ [c EXCEPT !.tag = t].tag = t
         /\ [c EXCEPT !.tag = t].ct = c.ct /\ [c EXCEPT !.tag = t].aad = c.aad
         /\ \A e \in {"cipher", "ivlen", "key"} :
              /\ [c EXCEPT !.set = @ \cup {e}] \in Contexts
              /\ [c EXCEPT !.set = @ \cup {e}].set = c.set \cup {e}
BY DEF Contexts

(* What every call that succeeds and is not the last does.                 *)
LEMMA SucceedsEffect ==
  ASSUME TypeOK, NEW call, Succeeds(call)
  PROVE  /\ At(call) /\ job \in 1..4 /\ pc \in 1..8 /\ pc # Main /\ code = 2 /\ pc' = pc + 1
         /\ UNCHANGED <<job, pt_len, shown, code, failed>> /\ Args' = Args
BY Positions DEF Succeeds, TypeOK, Args, Main

LEMMA InitInv == Init => Inv
<1> SUFFICES ASSUME Init PROVE Inv
  OBVIOUS
<1>1. /\ job = 1 /\ pc = 1 /\ ctx = NoCtx /\ ciphertext = "unset" /\ tag = NoTag
      /\ decrypted = "unset" /\ pt_len = 0 /\ code = 2 /\ failed \in {{}, {0}}
  BY DEF Init
<1>2. DOMAIN Jobs = 1..4
  BY DEF Jobs
<1>3. shown = [j \in 1..4 |-> "nothing"]
  BY <1>2 DEF Init
<1>5. TypeOK
  BY <1>1, <1>3, NoCtxType DEF TypeOK, Main
<1>6. SoFar /\ ShownIsVerified
  BY <1>1, <1>3 DEF SoFar, ShownIsVerified
<1> QED BY <1>1, <1>5, <1>6 DEF Inv, ContextAsCalled, TagFirst, Ends, DecryptedIsAuthentic,
               Unfailed, Main

(* A call that fails ends its function with -1.                            *)
LEMMA LibraryFailsInv ==
  ASSUME Inv, LibraryFails
  PROVE  Inv'
<1>0. InOrder(CallsNow[pc])
  <2>1. At(CallsNow[pc]) /\ job \in 1..4 /\ pc \in 1..Main /\ ctx \in Contexts
    BY DEF LibraryFails, At, Inv, TypeOK
  <2>2. /\ CallsNow[pc] \in {"ivlen", "key"} => pc \in 3..4
        /\ CallsNow[pc] \in {"aad", "update"} => pc \in 5..6
    BY <2>1, Positions
  <2>3. pc \in 3..6 => "cipher" \in ctx.set
    BY <2>1 DEF Inv, ContextAsCalled, Main
  <2>4. pc \in 5..6 => Configured
    BY <2>1 DEF Inv, ContextAsCalled, Main, Configured, Contexts
  <2> QED BY <2>2, <2>3, <2>4 DEF InOrder
<1>1. /\ pc # Main /\ code = 2 /\ pc' = Main /\ pt_len' = -1 /\ ctx' = NoCtx
      /\ failed' = failed \cup {job} /\ job \in 1..4
      /\ UNCHANGED <<job, ciphertext, tag, decrypted, shown, code>>
  BY <1>0 DEF LibraryFails, Fail, Return, Inv, TypeOK
<1>3. failed' \in SUBSET (0..4) /\ ~(failed' \subseteq {0})
  BY <1>1 DEF Inv, TypeOK
<1>4. TypeOK'
  BY <1>1, <1>3, NoCtxType DEF Inv, TypeOK, Main
<1>5. ContextAsCalled' /\ TagFirst' /\ Ends' /\ Unfailed'
  BY <1>1, <1>3 DEF Inv, ContextAsCalled, TagFirst, Ends, Unfailed
<1>6. SoFar'
  BY <1>1 DEF Inv, TypeOK, SoFar
<1>7. DecryptedIsAuthentic'
  BY <1>1 DEF Inv, SoFar, DecryptedIsAuthentic, ShownIsVerified
<1> QED BY <1>4, <1>5, <1>6, <1>7 DEF Inv

(* Every call that succeeds and is not the last of its function: it goes   *)
(* on, and keeps the invariant if the context stays as it is called.       *)
LEMMA SucceedsInv ==
  ASSUME Inv, NEW call, Succeeds(call), TypeOK', ContextAsCalled', UNCHANGED tag, pc < 8
  PROVE  Inv'
<1>1. /\ pc \in 1..7 /\ code = 2 /\ pc' = pc + 1
      /\ UNCHANGED <<job, pt_len, shown, code, failed>>
  BY SucceedsEffect DEF Inv
<1>2. pc' # Main /\ pc # Main
  BY <1>1 DEF Main
<1>3. TagFirst' /\ Ends' /\ SoFar' /\ DecryptedIsAuthentic' /\ Unfailed'
  BY <1>1, <1>2
  DEF Inv, TagFirst, Ends, SoFar, DecryptedIsAuthentic, ShownIsVerified, Unfailed
<1> QED BY <1>3 DEF Inv

(* The calls before the associated data configure the context.             *)
LEMMA EarlyInv ==
  ASSUME Inv, NEW call, Succeeds(call), UNCHANGED <<ciphertext, tag, decrypted>>, pc < 5,
         ctx' \in Contexts, pc = 1 \/ ctx'.set = ctx.set \cup {call},
         pc = 2 => call = "cipher", pc = 3 => call = "ivlen", pc = 4 => call = "key"
  PROVE  Inv'
<1>1. /\ pc \in 1..4 /\ code = 2 /\ pc' = pc + 1
      /\ UNCHANGED <<job, pt_len, shown, code, failed>>
  BY SucceedsEffect DEF Inv
<1>2. TypeOK'
  BY <1>1 DEF Inv, TypeOK, Main
<1>3. ContextAsCalled'
  BY <1>1 DEF ContextAsCalled, Inv, Main
<1> QED BY <1>1, <1>2, <1>3, SucceedsInv

LEMMA NewInv ==
  ASSUME Inv, New
  PROVE  Inv'
<1>1. pc = 1
  BY Positions DEF New, Succeeds, Inv, TypeOK
<1> QED BY <1>1, NoCtxType, EarlyInv DEF New

LEMMA ConfigureInv ==
  ASSUME Inv, Configure
  PROVE  Inv'
<1>1. PICK c \in {"cipher", "ivlen", "key"} :
        /\ Succeeds(c) /\ ctx' = [ctx EXCEPT !.set = @ \cup {c}]
        /\ UNCHANGED <<ciphertext, tag, decrypted>>
  BY DEF Configure
<1>2. At(c) /\ job \in 1..4 /\ pc \in 1..Main
  BY <1>1, SucceedsEffect DEF Inv, TypeOK
<1>3. /\ pc < 5 /\ pc # 1
      /\ pc = 2 => c = "cipher"
      /\ pc = 3 => c = "ivlen"
      /\ pc = 4 => c = "key"
  BY <1>2, Positions
<1>4. ctx' \in Contexts /\ ctx'.set = ctx.set \cup {c}
  <2>1. ctx \in Contexts /\ "ct" \in Contents /\ NoTag \in {NoTag, TheTag}
    BY DEF Inv, TypeOK, Contents
  <2>2. \A e \in {"cipher", "ivlen", "key"} :
          /\ [ctx EXCEPT !.set = @ \cup {e}] \in Contexts
          /\ [ctx EXCEPT !.set = @ \cup {e}].set = ctx.set \cup {e}
    BY <2>1, ContextType
  <2> QED BY <1>1, <2>2
<1> QED BY <1>1, <1>3, <1>4, EarlyInv

LEMMA FeedAadInv ==
  ASSUME Inv, FeedAad
  PROVE  Inv'
<1>1. Succeeds("aad") /\ UNCHANGED <<ciphertext, tag, decrypted>>
  BY DEF FeedAad
<1>2. ctx' = [ctx EXCEPT !.aad = Args.aad]
  BY DEF FeedAad
<1>3. pc = 5
  BY <1>1, SucceedsEffect, Positions DEF Inv, TypeOK
<1>4. /\ job \in 1..4 /\ pc' = 6 /\ Args' = Args
      /\ UNCHANGED <<job, pt_len, shown, code, failed>>
  BY <1>1, <1>3, SucceedsEffect DEF Inv
<1>5. Args.aad \in Contents
  BY <1>4, ArgsByJob DEF Contents
<1>6. ctx' \in Contexts /\ ctx'.aad = Args.aad /\ ctx'.set = ctx.set
  BY <1>2, <1>5, ContextType, ZenonT(60) DEF Inv, TypeOK
<1>7. TypeOK'
  BY <1>1, <1>4, <1>6 DEF Inv, TypeOK, Main
<1>8. ContextAsCalled'
  BY <1>3, <1>4, <1>6 DEF Inv, ContextAsCalled, Main
<1> QED BY <1>1, <1>3, <1>7, <1>8, SucceedsInv

LEMMA UpdateInv ==
  ASSUME Inv, Update
  PROVE  Inv'
<1>1. Succeeds("update") /\ UNCHANGED tag
  BY DEF Update
<1>2. ctx' = [ctx EXCEPT !.ct = Args.ct]
  BY DEF Update
<1>3. pc = 6
  BY <1>1, SucceedsEffect, Positions DEF Inv, TypeOK
<1>4. /\ job \in 1..4 /\ pc' = 7 /\ Args' = Args /\ Written' = Written
      /\ UNCHANGED <<job, pt_len, shown, code, failed>>
  BY <1>1, <1>3, SucceedsEffect DEF Inv, Written
<1>5. Args.ct \in Contents /\ ctx.aad = Args.aad
  BY <1>3, <1>4, ArgsByJob DEF Contents, Inv, ContextAsCalled, Main
<1>6. ctx' \in Contexts /\ ctx'.ct = Args.ct /\ ctx'.aad = ctx.aad
      /\ ctx'.set = ctx.set
  BY <1>2, <1>5, ContextType DEF Inv, TypeOK
<1>7. /\ ciphertext' \in {"unset", "ct"}
      /\ decrypted' \in {"unset", "plaintext", "changed"}
      /\ Args.dir = "dec" => decrypted' = Written
  BY <1>4, ArgsByJob DEF Update, Inv, TypeOK, Written
<1>8. TypeOK'
  BY <1>1, <1>4, <1>6, <1>7 DEF Inv, TypeOK, Main
<1>9. ContextAsCalled'
  BY <1>3, <1>4, <1>5, <1>6, <1>7 DEF Inv, ContextAsCalled, Main
<1> QED BY <1>1, <1>3, <1>8, <1>9, SucceedsInv

LEMMA SetTagInv ==
  ASSUME Inv, SetTag
  PROVE  Inv'
<1>1. Succeeds("set_tag") /\ UNCHANGED <<ciphertext, tag, decrypted>>
  BY DEF SetTag
<1>2. ctx' = [ctx EXCEPT !.tag = tag]
  BY DEF SetTag
<1>3. pc = 7
  BY <1>1, SucceedsEffect, Positions DEF Inv, TypeOK
<1>4. /\ job \in 1..4 /\ pc' = 8 /\ Args' = Args /\ Written' = Written
      /\ UNCHANGED <<job, pt_len, shown, code, failed>>
  BY <1>1, <1>3, SucceedsEffect DEF Inv, Written
<1>5. /\ ctx' \in Contexts /\ ctx'.tag = tag /\ ctx'.ct = ctx.ct /\ ctx'.aad = ctx.aad
      /\ ctx'.set = ctx.set
  <2>1. ctx \in Contexts /\ tag \in {NoTag, TheTag} /\ "ct" \in Contents
    BY DEF Inv, TypeOK, Contents
  <2> QED BY <1>2, <2>1, ContextType
<1>6. TypeOK'
  BY <1>1, <1>4, <1>5 DEF Inv, TypeOK, Main
<1>7. ContextAsCalled'
  BY <1>1, <1>3, <1>4, <1>5 DEF Inv, ContextAsCalled, Main
<1> QED BY <1>1, <1>3, <1>6, <1>7, SucceedsInv

LEMMA EncryptFinalInv ==
  ASSUME Inv, EncryptFinal
  PROVE  Inv'
<1>1. Succeeds("final") /\ UNCHANGED <<ctx, ciphertext, tag, decrypted>> /\ Args.dir = "enc"
  BY DEF EncryptFinal
<1>2. job = 1
  BY <1>1, SucceedsEffect, ArgsByJob DEF Inv
<1>3. pc = 7
  BY <1>1, <1>2, SucceedsEffect, Positions DEF Inv, TypeOK
<1>4. /\ pc' = 8 /\ Args' = Args
      /\ UNCHANGED <<job, pt_len, shown, code, failed>>
  BY <1>1, <1>3, SucceedsEffect DEF Inv
<1>5. TypeOK'
  BY <1>1, <1>4 DEF Inv, TypeOK, Main
<1>6. ContextAsCalled'
  BY <1>1, <1>3, <1>4 DEF Inv, ContextAsCalled, Main
<1> QED BY <1>1, <1>3, <1>5, <1>6, SucceedsInv

(* The tag handed out is the one of the message and its associated data.   *)
LEMMA GetTagInv ==
  ASSUME Inv, GetTag
  PROVE  Inv'
<1>1. /\ job = 1 /\ pc = 8 /\ code = 2 /\ pc' = Main /\ pt_len' = plaintext_len
      /\ tag' = [ct |-> ctx.ct, aad |-> ctx.aad] /\ ctx' = NoCtx
      /\ UNCHANGED <<job, ciphertext, decrypted, shown, code, failed>>
  BY Positions DEF GetTag, Return, At, Inv, TypeOK
<1>2. ctx.ct = "ct" /\ ctx.aad = "aad" /\ Args.dir = "enc" /\ Args' = Args
  BY <1>1, ArgsByJob DEF Inv, ContextAsCalled, Main, Args
<1>3. tag' = TheTag
  BY <1>1, <1>2 DEF TheTag
<1>5. TypeOK'
  BY <1>1, <1>3, NoCtxType DEF Inv, TypeOK, Main
<1>6. ContextAsCalled' /\ TagFirst' /\ Ends' /\ DecryptedIsAuthentic'
  BY <1>1, <1>2, <1>3
  DEF Inv, ContextAsCalled, TagFirst, Ends, DecryptedIsAuthentic, ShownIsVerified
<1>7. SoFar' /\ Unfailed'
  BY <1>1 DEF Inv, SoFar, Unfailed
<1> QED BY <1>5, <1>6, <1>7 DEF Inv

(* The tag fits exactly in job 2.                                          *)
LEMMA DecryptFinalInv ==
  ASSUME Inv, DecryptFinal
  PROVE  Inv'
<1>1. PICK ret \in {TagFits, FALSE} :
        /\ failed' = IF ret = TagFits THEN failed ELSE failed \cup {job}
        /\ pc' = Main /\ pt_len' = DecryptResult(ret)
  BY DEF DecryptFinal, Return
<1>2. /\ job \in 2..4 /\ pc = 8 /\ code = 2 /\ ctx' = NoCtx
      /\ UNCHANGED <<job, ciphertext, tag, decrypted, shown, code>>
  BY Positions, ArgsByJob DEF DecryptFinal, At, Inv, TypeOK
<1>3. /\ ctx.ct = Args.ct /\ ctx.aad = Args.aad /\ ctx.tag = TheTag
      /\ decrypted = Written /\ Args.dir = "dec" /\ Args' = Args
  BY <1>2, ArgsByJob DEF Inv, ContextAsCalled, TagFirst, Main, Args
<1>4. TagFits \in BOOLEAN /\ (TagFits <=> job = 2)
  <2>1. TagFits <=> ("ct" = Args.ct /\ "aad" = Args.aad)
    BY <1>3 DEF TagFits, TheTag
  <2> QED BY <2>1, <1>2, ArgsByJob DEF TagFits
<1>5. plaintext_len \in Nat \ {0}
  BY LengthAssumption
<1>6. \/ ret = TRUE /\ job = 2 /\ pt_len' = plaintext_len /\ failed' = failed
      \/ ret = FALSE /\ job # 2 /\ pt_len' = -2 /\ failed' = failed
      \/ ret = FALSE /\ job = 2 /\ pt_len' = -2 /\ failed' = failed \cup {job}
  <2>1. CASE ret = TRUE
    <3>1. TagFits = TRUE
      BY <1>1, <2>1
    <3> QED BY <1>1, <1>4, <2>1, <3>1 DEF DecryptResult
  <2>2. CASE ret = FALSE /\ TagFits = TRUE
    <3>1. (ret = TagFits) = FALSE
      BY <2>2
    <3> QED BY <1>1, <1>4, <2>2, <3>1 DEF DecryptResult
  <2>3. CASE ret = FALSE /\ TagFits = FALSE
    BY <1>1, <1>4, <2>3 DEF DecryptResult
  <2> QED BY <1>1, <1>4, <2>1, <2>2, <2>3
<1>8. TypeOK'
  BY <1>1, <1>2, <1>6, NoCtxType DEF Inv, TypeOK, Main
<1>9. ContextAsCalled' /\ TagFirst' /\ Ends'
  BY <1>1, <1>2 DEF Inv, ContextAsCalled, TagFirst, Ends
<1>10. DecryptedIsAuthentic'
  <2>0. ShownIsVerified'
    BY <1>2, <1>6 DEF Inv, SoFar, DecryptedIsAuthentic, ShownIsVerified
  <2> SUFFICES ASSUME pt_len' >= 0
               PROVE  Args.ct = "ct" /\ Args.aad = "aad" /\ decrypted = "plaintext"
    BY <2>0, <1>2, <1>3 DEF DecryptedIsAuthentic
  <2>1. job = 2
    BY <1>6
  <2> QED BY <2>1, <1>3, ArgsByJob DEF Written
<1>11. Unfailed'
  BY <1>1, <1>2, <1>6 DEF Inv, Unfailed
<1>12. SoFar'
  BY <1>1, <1>2, <1>6 DEF Inv, TypeOK, SoFar, Main
<1> QED BY <1>8, <1>9, <1>10, <1>11, <1>12 DEF Inv

(* main shows what a job gave and goes on to the next one, or ends.        *)
LEMMA MainGoesOnInv ==
  ASSUME Inv, MainGoesOn
  PROVE  Inv'
<1>1. /\ pc = Main /\ code = 2 /\ job \in 1..4 /\ Len(Jobs) = 4
      /\ UNCHANGED <<ctx, ciphertext, tag, decrypted, pt_len, failed>>
  BY DEF MainGoesOn, Inv, TypeOK, Jobs
<1>2. shown \in [1..4 -> {"nothing", "failed", "tamper_found", "unexpected", "unset",
                          "plaintext", "changed"}]
  BY DEF Inv, TypeOK
<1>3. plaintext_len \in Nat \ {0}
  BY LengthAssumption
<1>4. CASE job = 1 /\ pt_len < 0
  <2>1. /\ shown' = [shown EXCEPT ![job] = "failed"]
        /\ code' = 1 /\ UNCHANGED <<job, pc>>
    BY <1>4 DEF MainGoesOn
  <2>2. TypeOK'
    BY <1>1, <1>2, <2>1 DEF Inv, TypeOK
  <2>3. pt_len = -1 /\ ~(failed \subseteq {0})
    BY <1>1, <1>3, <1>4 DEF Inv, TagFirst, Unfailed
  <2>4. ContextAsCalled' /\ TagFirst' /\ Ends'
    BY <1>1, <1>4, <2>1, <2>3 DEF Inv, ContextAsCalled, TagFirst, Ends
  <2>5. \A j \in 2..4 : shown'[j] = shown[j]
    BY <1>2, <1>4, <2>1
  <2>6. SoFar' /\ DecryptedIsAuthentic' /\ Unfailed'
    BY <1>1, <1>4, <2>1, <2>3, <2>5
    DEF Inv, SoFar, DecryptedIsAuthentic, ShownIsVerified, Unfailed
  <2> QED BY <2>2, <2>4, <2>6 DEF Inv
<1>5. CASE ~(job = 1 /\ pt_len < 0)
  <2>1. /\ shown' = [shown EXCEPT ![job] = Verdict]
        /\ \/ job = 4 /\ code' = 0 /\ UNCHANGED <<job, pc>>
           \/ job < 4 /\ job' = job + 1 /\ pc' = 1 /\ code' = 2
    BY <1>1, <1>5 DEF MainGoesOn
  <2>2. Verdict \in {"nothing", "failed", "tamper_found", "unexpected", "unset",
                     "plaintext", "changed"}
    BY DEF Verdict, Inv, TypeOK
  <2>3. TypeOK'
    BY <1>1, <1>2, <2>1, <2>2 DEF Inv, TypeOK, Main
  <2>4. tag = TheTag
    BY <1>1, <1>3, <1>5 DEF Inv, TagFirst
  <2>5. ContextAsCalled' /\ TagFirst' /\ Ends'
    BY <1>1, <2>1, <2>4 DEF Inv, ContextAsCalled, TagFirst, Ends, Main
  <2>6. DecryptedIsAuthentic'
    <3>0. \A j \in 1..4 : shown'[j] = IF j = job THEN Verdict ELSE shown[j]
      BY <1>1, <1>2, <2>1
    <3>3. /\ job = 2 => Verdict \in {"failed", "plaintext"}
          /\ job = 2 /\ Verdict = "plaintext" => 2 \notin failed
          /\ job \in {3, 4} => Verdict \in {"nothing", "tamper_found"}
      <4>1. job = 2 => (pt_len >= 0 => decrypted = "plaintext" /\ 2 \notin failed)
        BY <1>1, <1>3, ArgsByJob DEF Inv, TypeOK, DecryptedIsAuthentic, SoFar
      <4>2. job \in {3, 4} => pt_len < 0
        BY <1>1, <1>3, ArgsByJob DEF Inv, TypeOK, DecryptedIsAuthentic
      <4>3. CASE job = 2
        BY <1>3, <4>1, <4>3 DEF Verdict, Inv, TypeOK
      <4>4. CASE job \in {3, 4}
        <5>1. pt_len < 0 /\ ~(pt_len >= 0)
          BY <1>3, <4>2, <4>4 DEF Inv, TypeOK
        <5> QED BY <4>4, <5>1 DEF Verdict
      <4> QED BY <1>1, <4>3, <4>4
    <3>4. ShownIsVerified'
      BY <1>1, <3>0, <3>3 DEF Inv, DecryptedIsAuthentic, ShownIsVerified
    <3>1. CASE pc' = 1
      BY <3>1, <3>4 DEF DecryptedIsAuthentic, Main
    <3>2. CASE UNCHANGED <<job, pc>>
      BY <1>1, <3>2, <3>4 DEF Inv, DecryptedIsAuthentic, Args
    <3> QED BY <2>1, <3>1, <3>2
  <2>7. Unfailed'
    <3> SUFFICES ASSUME failed \subseteq {0}
                 PROVE  Unfailed'
      BY <1>1 DEF Unfailed
    <3>1. /\ job = 2 => Verdict = "plaintext"
          /\ job \in {3, 4} => Verdict = "tamper_found"
      <4>1. job = 2 => decrypted = "plaintext" /\ pt_len = plaintext_len
        BY <1>1, <1>3, ArgsByJob DEF Inv, Unfailed, DecryptedIsAuthentic
      <4>2. job \in {3, 4} => pt_len = -2
        BY <1>1 DEF Inv, Unfailed
      <4>3. CASE job = 2
        BY <1>3, <4>1, <4>3 DEF Verdict
      <4>4. CASE job = 3
        BY <4>2, <4>4 DEF Verdict
      <4>5. CASE job = 4
        BY <4>2, <4>5 DEF Verdict
      <4> QED BY <1>1, <4>3, <4>4, <4>5
    <3>2. /\ job = 2 => shown'[2] = "plaintext"
          /\ job = 3 => shown'[3] = "tamper_found"
          /\ job = 4 => shown'[4] = "tamper_found"
          /\ \A j \in 1..4 : j # job => shown'[j] = shown[j]
      BY <1>1, <1>2, <2>1, <3>1
    <3>3. /\ job > 2 => shown[2] = "plaintext"
          /\ job > 3 => shown[3] = "tamper_found"
      BY DEF Inv, Unfailed
    <3>4. CASE job = 4 /\ code' = 0 /\ UNCHANGED <<job, pc>>
      BY <1>1, <3>2, <3>3, <3>4 DEF Inv, Unfailed
    <3>5. CASE job < 4 /\ job' = job + 1 /\ pc' = 1 /\ code' = 2
      BY <1>1, <3>2, <3>3, <3>5 DEF Unfailed, Main
    <3> QED BY <2>1, <3>4, <3>5
  <2>8. SoFar'
    <3>1. \A j \in 1..4 : j # job => shown'[j] = shown[j]
      BY <1>1, <1>2, <2>1
    <3>2. \/ job' = job /\ job = 4 /\ code' = 0
          \/ job' = job + 1 /\ pc' = 1 /\ code' = 2
      BY <1>1, <2>1
    <3>3. \A j \in failed : j \in 0..4
      BY DEF Inv, TypeOK
    <3> QED BY <1>1, <3>1, <3>2, <3>3 DEF Inv, SoFar
  <2> QED BY <2>3, <2>5, <2>6, <2>7, <2>8 DEF Inv
<1> QED BY <1>4, <1>5

LEMMA StutterInv ==
  ASSUME Inv, UNCHANGED vars
  PROVE  Inv'
<1>1. UNCHANGED <<job, pc, ctx, ciphertext, tag, decrypted, pt_len, shown, code, failed>>
  BY DEF vars
<1>2. Args' = Args /\ Written' = Written
  BY <1>1 DEF Args, Written
<1>3. TypeOK' /\ ContextAsCalled' /\ TagFirst' /\ Ends'
  BY <1>1, <1>2 DEF Inv, TypeOK, ContextAsCalled, TagFirst, Ends
<1>4. SoFar' /\ DecryptedIsAuthentic' /\ Unfailed'
  BY <1>1, <1>2 DEF Inv, SoFar, DecryptedIsAuthentic, ShownIsVerified, Unfailed
<1> QED BY <1>3, <1>4 DEF Inv

(* Every step keeps the invariant, one lemma per action.                   *)
LEMMA Inductive == Spec => []Inv
<1>1. Init => Inv
  BY InitInv
<1>2. Inv /\ [Next]_vars => Inv'
  <2> SUFFICES ASSUME Inv, [Next]_vars
               PROVE  Inv'
    OBVIOUS
  <2>1. CASE LibraryFails
    BY <2>1, LibraryFailsInv
  <2>2. CASE New
    BY <2>2, NewInv
  <2>3. CASE Configure
    BY <2>3, ConfigureInv
  <2>4. CASE FeedAad
    BY <2>4, FeedAadInv
  <2>5. CASE Update
    BY <2>5, UpdateInv
  <2>6. CASE SetTag
    BY <2>6, SetTagInv
  <2>7. CASE EncryptFinal
    BY <2>7, EncryptFinalInv
  <2>8. CASE GetTag
    BY <2>8, GetTagInv
  <2>9. CASE DecryptFinal
    BY <2>9, DecryptFinalInv
  <2>10. CASE MainGoesOn
    BY <2>10, MainGoesOnInv
  <2>11. CASE UNCHANGED vars
    BY <2>11, StutterInv
  <2> QED BY <2>1, <2>2, <2>3, <2>4, <2>5, <2>6, <2>7, <2>8, <2>9, <2>10, <2>11 DEF Next, Over
<1> QED BY <1>1, <1>2, PTL DEF Spec

-------------------------------------------------------------------------
(* main's variables and the cipher context stay in their sets: what a      *)
(* function returns is the length, 0, -1 or -2, and the tag buffer is      *)
(* empty or holds the one tag main computed.                               *)
THEOREM TypeCorrect == Spec => []TypeOK
<1>1. Inv => TypeOK
  BY DEF Inv
<1> QED BY <1>1, Inductive, PTL

(* aes_gcm_decrypt returns a length only for the ciphertext and associated *)
(* data that were encrypted, and then the buffer holds the plaintext; and  *)
(* main shows the buffer only then: for every length of the message and    *)
(* whichever calls fail.                                                   *)
THEOREM AcceptedIsAuthentic == Spec => []DecryptedIsAuthentic
<1>1. Inv => DecryptedIsAuthentic
  BY DEF Inv
<1> QED BY <1>1, Inductive, PTL

(* If no call of the cipher fails, main shows the message it encrypted,    *)
(* reports both changes and exits with 0.                                  *)
THEOREM AllShown == Spec => []HonestRunShowsAll
<1>1. Inv => HonestRunShowsAll
  <2> SUFFICES ASSUME Inv, code # 2, failed \subseteq {0}
               PROVE  /\ code = 0 /\ shown[2] = "plaintext"
                      /\ shown[3] = "tamper_found" /\ shown[4] = "tamper_found"
    BY DEF HonestRunShowsAll
  <2>1. pc = Main /\ plaintext_len \in Nat \ {0} /\ code \in 0..2
    BY LengthAssumption DEF Inv, Ends, TypeOK
  <2>2. code # 1
    BY <2>1 DEF Inv, Ends, Unfailed
  <2>3. code = 0 /\ job = 4
    BY <2>1, <2>2 DEF Inv, Ends
  <2> QED BY <2>3 DEF Inv, Unfailed
<1> QED BY <1>1, Inductive, PTL

=========================================================================
