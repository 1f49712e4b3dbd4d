----------------------------- MODULE AesCbc ------------------------------
(***************************************************************************)
(* 02_aes_encryption/aes_cbc.c: main encrypts a message, decrypts it, and  *)
(* encrypts it once more under a second IV.  A function hands the library  *)
(* the data in one Update and takes the rest in one Final, adding up the   *)
(* two lengths; any library call may fail, RAND_bytes among them.          *)
(*                                                                         *)
(* Bytes are abstracted to how many of a buffer have been written; AES is  *)
(* ideal: decrypting what was encrypted gives the message back.            *)
(***************************************************************************)
EXTENDS Pkcs7

CONSTANTS
  MessageLengths,  \* lengths of the message built into main
  BufferSize       \* bytes of ciphertext[], decrypted[], ciphertext2[]

ASSUME MessagesFit ==
  /\ BufferSize \in 1 .. SizeMod - 1
  /\ \A n \in MessageLengths : n \in Nat \ {0} /\ n + AES_BLOCK_SIZE < BufferSize

VARIABLES
  message_len,
  iv,         \* per encryption: "random", or "stack" if RAND_bytes failed
  job,        \* which call of main is being made
  pc,         \* next library call of the function, or "main"
  live,       \* a cipher context is allocated
  len,        \* the function's len: what the last library call put out
  total_len,  \* the function's total_len
  written,    \* per job: bytes of its output buffer that are written
  out_len,    \* per job: the length returned through the pointer, or Unset
  ret,        \* what the function called last returned
  printed,    \* the jobs whose output main has printed
  compared,   \* what memcmp of message and decrypted told main
  code        \* exit code, 2 while the program runs

vars == <<message_len, iv, job, pc, live, len, total_len, written, out_len, ret,
          printed, compared, code>>

Unset == -1

Encrypt1 == 1
Decrypt  == 2
Encrypt2 == 3
JobIds == 1..3

\* main calls RAND_bytes for the key and the first IV before the first job,
\* and for the second IV before the third; what it returns is dropped.
RandBytes(j) == iv' \in {[iv EXCEPT ![j] = x] : x \in {"random", "stack"}}

Init ==
  /\ message_len \in MessageLengths
  /\ iv = [j \in {Encrypt1, Encrypt2} |-> "stack"]
  /\ job = 0 /\ pc = "main"
  /\ live = FALSE /\ len = 0 /\ total_len = 0
  /\ written = [j \in JobIds |-> 0]
  /\ out_len = [j \in JobIds |-> Unset]
  /\ ret = 0
  /\ printed = {}
  /\ compared = "nothing"
  /\ code = 2

mainVars == <<message_len, iv, job, printed, compared, code>>

---------------------------------------------------------------------------
(* The library: what one Update and one Final put out.                     *)

InputLength == IF job = Decrypt THEN out_len[Encrypt1] ELSE message_len

\* Encryption puts out whole blocks; decryption holds the last one back.
UpdateBytes ==
  IF job = Decrypt THEN InputLength - AES_BLOCK_SIZE
  ELSE InputLength - (InputLength % AES_BLOCK_SIZE)

\* Encryption pads up to a whole block, decryption takes the padding off.
FinalBytes ==
  IF job = Decrypt THEN message_len % AES_BLOCK_SIZE ELSE AES_BLOCK_SIZE

---------------------------------------------------------------------------
(* aes_cbc_encrypt and aes_cbc_decrypt                                     *)

Return(n) == pc' = "main" /\ ret' = n

(* A library call fails: the context is freed, the length is not returned, *)
(* what Update wrote stays in the buffer.                                  *)
Fail ==
  /\ pc \in {"new", "init", "update", "final"}
  /\ live' = FALSE
  /\ Return(-1)
  /\ UNCHANGED <<mainVars, len, total_len, written, out_len>>

New ==
  /\ pc = "new"
  /\ live' = TRUE
  /\ pc' = "init"
  /\ UNCHANGED <<mainVars, len, total_len, written, out_len, ret>>

InitCipher ==
  /\ pc = "init"
  /\ pc' = "update"
  /\ UNCHANGED <<mainVars, live, len, total_len, written, out_len, ret>>

Update ==
  /\ pc = "update"
  /\ len' = UpdateBytes
  /\ total_len' = UpdateBytes
  /\ written' = [written EXCEPT ![job] = UpdateBytes]
  /\ pc' = "final"
  /\ UNCHANGED <<mainVars, live, out_len, ret>>

\* Mutant: total_len = len in place of total_len += len.
LastLength(n) == n

\* total_len += len
TotalLength(n) == total_len + n

(* Final writes at buffer + len.                                           *)
Final ==
  /\ pc = "final"
  /\ len' = FinalBytes
  /\ written' = [written EXCEPT ![job] = len + FinalBytes]
  /\ total_len' = TotalLength(FinalBytes)
  /\ out_len' = [out_len EXCEPT ![job] = TotalLength(FinalBytes)]
  /\ live' = FALSE
  /\ Return(0)
  /\ UNCHANGED mainVars

---------------------------------------------------------------------------
(* main                                                                    *)

Call(j) ==
  /\ job' = j
  /\ pc' = "new"
  /\ UNCHANGED <<message_len, live, len, total_len, out_len, ret>>

Exit(c) ==
  /\ code' = c
  /\ UNCHANGED <<message_len, iv, job, pc, live, len, total_len, written, out_len, ret>>

InMain(j) == pc = "main" /\ job = j /\ code = 2

Begin ==
  /\ InMain(0)
  /\ RandBytes(Encrypt1)
  /\ Call(Encrypt1)
  /\ UNCHANGED <<written, printed, compared, code>>

\* Mutant: the result of aes_cbc_encrypt is dropped here too.
GoOnAnyway ==
  /\ InMain(Encrypt1)
  /\ printed' = printed \cup {Encrypt1}
  /\ Call(Decrypt)
  /\ UNCHANGED <<iv, written, compared, code>>

AfterEncrypt1 ==
  /\ InMain(Encrypt1)
  /\ IF ret # 0
       THEN Exit(1) /\ UNCHANGED <<printed, compared>>
       ELSE /\ printed' = printed \cup {Encrypt1}
            /\ Call(Decrypt)
            /\ UNCHANGED <<iv, written, compared, code>>

(* A byte that ends the text is put behind it; memcmp looks at message_len *)
(* bytes, whatever decrypted_len is.                                       *)
AfterDecrypt ==
  /\ InMain(Decrypt)
  /\ IF ret # 0
       THEN Exit(1) /\ UNCHANGED <<printed, compared>>
       ELSE /\ printed' = printed \cup {Decrypt}
            /\ compared' = IF written[Decrypt] >= message_len THEN "same" ELSE "different"
            /\ written' = [written EXCEPT ![Decrypt] = out_len[Decrypt] + 1]
            /\ RandBytes(Encrypt2)
            /\ Call(Encrypt2)
            /\ UNCHANGED code

(* The second encryption's result is dropped: ciphertext2 is printed up to *)
(* ciphertext2_len, be they written or not.                                *)
AfterEncrypt2 ==
  /\ InMain(Encrypt2)
  /\ printed' = printed \cup {Encrypt2}
  /\ Exit(0)
  /\ UNCHANGED compared

Over == code # 2 /\ UNCHANGED vars

Next ==
  \/ New \/ InitCipher \/ Update \/ Final \/ Fail
  \/ Begin \/ AfterEncrypt1 \/ AfterDecrypt \/ AfterEncrypt2
  \/ Over

Spec == Init /\ [][Next]_vars

---------------------------------------------------------------------------
(* Properties                                                              *)

(* Every variable stays in its domain; no buffer is written past its end.  *)
TypeOK ==
  /\ message_len \in MessageLengths
  /\ iv \in [{Encrypt1, Encrypt2} -> {"random", "stack"}]
  /\ job \in 0..3
  /\ pc \in {"main", "new", "init", "update", "final"}
  /\ live \in BOOLEAN
  /\ len \in 0..BufferSize /\ total_len \in 0..BufferSize
  /\ written \in [JobIds -> 0..BufferSize] /\ out_len \in [JobIds -> Unset..BufferSize]
  /\ ret \in {0, -1}
  /\ printed \subseteq JobIds
  /\ compared \in {"nothing", "same", "different"}
  /\ code \in 0..2

\* main ends the decrypted text with a byte of its own before it prints it.
Terminator(j) == IF j = Decrypt /\ Decrypt \in printed THEN 1 ELSE 0

(* A length is returned exactly for a completed job, and it is the number  *)
(* of bytes it wrote into the buffer: for the ciphertexts the next         *)
(* multiple of the block above the message, for the decryption the message *)
(* itself, so that main's terminating byte is right behind it.             *)
LengthsAreExact ==
  \A j \in JobIds : out_len[j] # Unset =>
    /\ written[j] = out_len[j] + Terminator(j)
    /\ j = Decrypt => out_len[j] = message_len
    /\ j # Decrypt => /\ out_len[j] % AES_BLOCK_SIZE = 0
                      /\ out_len[j] \in (message_len + 1)..(message_len + AES_BLOCK_SIZE)

(* The first ciphertext and the decrypted text are shown only when they    *)
(* have been produced, and then the text is found equal to the message;    *)
(* otherwise the exit code is 1.                                           *)
ShownOrRefused ==
  code # 2 =>
    IF code = 0
      THEN compared = "same" /\ \A j \in {Encrypt1, Decrypt} : j \in printed /\ out_len[j] # Unset
      ELSE Decrypt \notin printed /\ (Encrypt1 \in printed => out_len[Encrypt1] # Unset)

(* Whenever main is in control no cipher context is left alive.            *)
ContextIsFreed == pc = "main" => ~live

(* The padding helpers and the library agree about every job: the helper   *)
(* pads to the length of the ciphertext, and taking the padding off again  *)
(* gives the length of the decrypted text.                                 *)
Message(byte) == [i \in 0 .. BufferSize - 1 |-> byte]

HelpersAgreeWithLibrary ==
  /\ \A j \in {Encrypt1, Encrypt2} : out_len[j] # Unset =>
       out_len[j] = PaddedLength(message_len, AES_BLOCK_SIZE)
  /\ out_len[Decrypt] # Unset =>
       out_len[Decrypt] = remove_pkcs7_padding(
         add_pkcs7_padding(Message(65), message_len, AES_BLOCK_SIZE), out_len[Encrypt1])

(* Whatever a ciphertext that was produced decrypts to, the removal does   *)
(* not run out of the buffer it is applied to.                             *)
RemovalStaysInside ==
  \A j \in {Encrypt1, Encrypt2}, last \in Byte : out_len[j] # Unset =>
    RemovalStaysInsideAt([Message(65) EXCEPT ![out_len[j] - 1] = last], out_len[j])

==========================================================================
