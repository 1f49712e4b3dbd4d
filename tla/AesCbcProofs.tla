--------------------------- MODULE AesCbcProofs ---------------------------
(***************************************************************************)
(* Proofs about AesCbc and the padding helpers of Pkcs7, for messages,     *)
(* blocks and buffers of every length and every width of size_t.           *)
(***************************************************************************)
EXTENDS AesCbc, TLAPS

(* Padding                                                                 *)

(* The padding is at least one byte and at most a block.                   *)
LEMMA PaddingRange ==
  ASSUME NEW length \in Nat, NEW block_size \in Nat \ {0}
  PROVE  Padding(length, block_size) \in 1 .. block_size
PROOF
<1>1. length % block_size \in 0 .. block_size - 1
  OBVIOUS
<1> QED
  BY <1>1 DEF Padding

(* remove_pkcs7_padding undoes add_pkcs7_padding, for every block size up  *)
(* to the one it recognises, as long as the length fits into a size_t, and *)
(* the message is left as it was.                                          *)
THEOREM RoundTrip ==
  ASSUME NEW size \in Nat, NEW data \in [0 .. size - 1 -> Byte],
         NEW length \in Nat, NEW block_size \in 1 .. AES_BLOCK_SIZE,
         length + block_size <= size, size < SizeMod
  PROVE  RoundTripAt(data, length, block_size)
PROOF
<1>1. PICK n \in 1 .. block_size : n = Padding(length, block_size)
  <2>1. block_size \in Nat \ {0}
    BY BlockAssumption
  <2>2. Padding(length, block_size) \in 1 .. block_size
    BY <2>1, PaddingRange
  <2> QED
    BY <2>2, Zenon
<1> DEFINE padded == [i \in 0 .. size - 1 |->
                       IF i \in length .. length + n - 1 THEN n ELSE data[i]]
           total == length + n
<1>2. n \in 1 .. AES_BLOCK_SIZE /\ n \in 1 .. 255 /\ n % 256 = n
  BY BlockAssumption
<1>3. total \in 1 .. size /\ total % SizeMod = total
  BY SizeAssumption
<1>4. PaddedLength(length, block_size) = total
  BY <1>1, <1>3 DEF PaddedLength
<1>5. add_pkcs7_padding(data, length, block_size) = padded
  BY <1>1, <1>2 DEF add_pkcs7_padding
<1>6. padded[total - 1] = n
  BY <1>3
<1>7. \A i \in 0 .. length - 1 : padded[i] = data[i]
  OBVIOUS
<1>8. remove_pkcs7_padding(padded, total) = length
  <2>1. Plausible(n)
    BY <1>2 DEF Plausible
  <2>2. total # 0 /\ total - n = length
    BY <1>2
  <2>3. length % SizeMod = length
    BY <1>3, SizeAssumption
  <2> HIDE DEF padded, total
  <2> QED
    BY <2>1, <2>2, <2>3, <1>6 DEF remove_pkcs7_padding
<1> HIDE DEF padded
<1> QED
  BY <1>4, <1>5, <1>7, <1>8 DEF RoundTripAt

(* On whole blocks the size_t difference never wraps around, whatever the  *)
(* bytes are.                                                              *)
THEOREM RemovalIsInside ==
  ASSUME NEW length \in Nat, length < SizeMod,
         NEW data, length # 0 => data[length - 1] \in Byte
  PROVE  RemovalStaysInsideAt(data, length)
PROOF
<1> SUFFICES ASSUME length % AES_BLOCK_SIZE = 0
             PROVE  remove_pkcs7_padding(data, length) \in 0 .. length
  BY DEF RemovalStaysInsideAt
<1>1. CASE length = 0 \/ ~Plausible(data[length - 1])
  BY <1>1 DEF remove_pkcs7_padding
<1>2. CASE length # 0 /\ Plausible(data[length - 1])
  <2>1. length >= AES_BLOCK_SIZE
    BY <1>2, BlockAssumption
  <2>2. length - data[length - 1] \in 0 .. length
    BY <1>2, <2>1, BlockAssumption DEF Plausible, Byte
  <2>3. (length - data[length - 1]) % SizeMod = length - data[length - 1]
    BY <2>2, SizeAssumption
  <2> QED
    BY <1>2, <2>2, <2>3 DEF remove_pkcs7_padding
<1> QED
  BY <1>1, <1>2

---------------------------------------------------------------------------
(* The invariant                                                           *)

(* How long the output of a job is when it is complete.                    *)
Output(j) ==
  IF j = Decrypt THEN message_len
  ELSE message_len - (message_len % AES_BLOCK_SIZE) + AES_BLOCK_SIZE

(* What was returned is the complete output; a job that has not returned   *)
(* has returned no length.                                                 *)
LengthsInv ==
  /\ \A j \in JobIds : out_len[j] # Unset =>
       out_len[j] = Output(j) /\ written[j] = Output(j) + Terminator(j)
  /\ \A j \in JobIds : job < j \/ (job = j /\ pc # "main") => out_len[j] = Unset
  /\ pc = "final" => /\ len = UpdateBytes /\ total_len = UpdateBytes
                     /\ written[job] = UpdateBytes

(* main reaches a job only through the complete ones before it.            *)
ProgressInv ==
  /\ job = 0 => pc = "main" /\ code = 2
  /\ job \in {Decrypt, Encrypt2} => out_len[Encrypt1] # Unset /\ Encrypt1 \in printed
  /\ job = Encrypt2 => out_len[Decrypt] # Unset /\ Decrypt \in printed /\ compared = "same"
  /\ job # Encrypt2 => Decrypt \notin printed
  /\ job \in {0, Encrypt1} => Encrypt1 \notin printed
  /\ (pc = "main" /\ job # 0 /\ ret = 0) => out_len[job] # Unset
  /\ code = 0 => job = Encrypt2
  /\ code = 1 => job \in {Encrypt1, Decrypt}
  /\ code # 2 => pc = "main"

ContextInv == live <=> pc \in {"init", "update", "final"}

Inv == TypeOK /\ LengthsInv /\ ProgressInv /\ ContextInv

---------------------------------------------------------------------------
(* Arithmetic                                                              *)

(* The remainder of a message is less than a block, and what is left is    *)
(* whole blocks.                                                           *)
LEMMA Remainder ==
  ASSUME NEW n \in Nat
  PROVE  /\ n % AES_BLOCK_SIZE \in 0 .. AES_BLOCK_SIZE - 1
         /\ n % AES_BLOCK_SIZE <= n
         /\ (n - (n % AES_BLOCK_SIZE) + AES_BLOCK_SIZE) % AES_BLOCK_SIZE = 0
PROOF
<1> DEFINE B == AES_BLOCK_SIZE
           q == n \div B
           r == n % B
<1>1. B \in Nat \ {0}
  BY BlockAssumption
<1>2. r \in 0 .. B - 1 /\ q \in Nat /\ n = B * q + r
  BY <1>1
<1>3. B * q \in Nat
  BY <1>1, <1>2
<1>4. n - r + B = B * (q + 1)
  BY <1>1, <1>2, <1>3
<1>5. (B * (q + 1)) % B = 0
  BY <1>1, <1>2
<1> QED
  BY <1>2, <1>3, <1>4, <1>5

(* The complete output fits into its buffer.                               *)
LEMMA OutputFits ==
  ASSUME TypeOK, NEW j \in JobIds
  PROVE  /\ Output(j) \in 1 .. BufferSize - 1
         /\ message_len \in 1 .. BufferSize - 1
         /\ message_len + AES_BLOCK_SIZE < BufferSize
         /\ message_len % AES_BLOCK_SIZE \in 0 .. AES_BLOCK_SIZE - 1
         /\ message_len % AES_BLOCK_SIZE <= message_len
PROOF
<1>1. message_len \in Nat \ {0} /\ message_len + AES_BLOCK_SIZE < BufferSize /\ BufferSize \in Nat
  BY MessagesFit, SizeAssumption DEF TypeOK
<1>2. message_len % AES_BLOCK_SIZE \in 0 .. AES_BLOCK_SIZE - 1
      /\ message_len % AES_BLOCK_SIZE <= message_len
  BY <1>1, Remainder
<1> QED
  BY <1>1, <1>2, BlockAssumption DEF Output

(* What Update and Final put out between them.                             *)
LEMMA OutputOfLibrary ==
  ASSUME Inv, job \in JobIds
  PROVE  /\ UpdateBytes \in 0 .. BufferSize
         /\ FinalBytes \in 0 .. BufferSize
         /\ UpdateBytes + FinalBytes = Output(job)
PROOF
<1>1. /\ Output(job) \in 1 .. BufferSize - 1
      /\ message_len \in 1 .. BufferSize - 1
      /\ message_len + AES_BLOCK_SIZE < BufferSize
      /\ message_len % AES_BLOCK_SIZE \in 0 .. AES_BLOCK_SIZE - 1
      /\ message_len % AES_BLOCK_SIZE <= message_len
  BY OutputFits DEF Inv
<1>2. AES_BLOCK_SIZE \in 1..255 /\ BufferSize \in Nat
  BY BlockAssumption, MessagesFit, SizeAssumption
<1>3. CASE job = Decrypt
  <2>1. out_len[Encrypt1] = Output(Encrypt1)
    BY <1>3 DEF Inv, LengthsInv, ProgressInv, JobIds, Encrypt1
  <2>2. InputLength = message_len - (message_len % AES_BLOCK_SIZE) + AES_BLOCK_SIZE
    BY <1>3, <2>1 DEF InputLength, Output, Encrypt1, Decrypt
  <2> QED
    BY <1>1, <1>2, <1>3, <2>2 DEF UpdateBytes, FinalBytes, Output
<1>4. CASE job # Decrypt
  BY <1>1, <1>2, <1>4 DEF UpdateBytes, FinalBytes, Output, InputLength
<1> QED
  BY <1>3, <1>4

---------------------------------------------------------------------------
(* The invariant                                                           *)

LEMMA InvInit == Init => Inv
PROOF
<1> SUFFICES ASSUME Init PROVE Inv
  OBVIOUS
<1> USE DEF JobIds, Encrypt1, Decrypt, Encrypt2, Unset
<1>1. TypeOK
  <2>1. live \in BOOLEAN
    BY DEF Init
  <2> QED
    BY <2>1, MessagesFit, SizeAssumption DEF Init, TypeOK
<1>2. LengthsInv /\ ProgressInv /\ ContextInv
  BY DEF Init, LengthsInv, ProgressInv, ContextInv
<1> QED
  BY <1>1, <1>2 DEF Inv

LEMMA InvNext == Inv /\ [Next]_vars => Inv'
PROOF
<1> SUFFICES ASSUME Inv, [Next]_vars PROVE Inv'
  OBVIOUS
<1> USE DEF JobIds, Encrypt1, Decrypt, Encrypt2, Unset, Terminator
<1>1. TypeOK /\ LengthsInv /\ ProgressInv /\ ContextInv /\ BufferSize \in Nat
  BY MessagesFit, SizeAssumption DEF Inv
<1>2. \A j \in JobIds : message_len' = message_len => Output(j)' = Output(j)
  BY DEF Output
<1>3. CASE New
  <2>1. TypeOK'
    BY <1>1, <1>2, <1>3 DEF New, mainVars, TypeOK
  <2>2. LengthsInv'
    BY <1>1, <1>2, <1>3 DEF New, mainVars, TypeOK, LengthsInv, ProgressInv
  <2>3. ProgressInv'
    BY <1>1, <1>2, <1>3 DEF New, mainVars, TypeOK, LengthsInv, ProgressInv
  <2>4. ContextInv'
    BY <1>1, <1>2, <1>3 DEF New, mainVars, TypeOK, ContextInv
  <2> QED
    BY <2>1, <2>2, <2>3, <2>4 DEF Inv
<1>4. CASE InitCipher
  <2>1. TypeOK'
    BY <1>1, <1>2, <1>4 DEF InitCipher, mainVars, TypeOK
  <2>2. LengthsInv'
    BY <1>1, <1>2, <1>4 DEF InitCipher, mainVars, TypeOK, LengthsInv, ProgressInv
  <2>3. ProgressInv'
    BY <1>1, <1>2, <1>4 DEF InitCipher, mainVars, TypeOK, LengthsInv, ProgressInv
  <2>4. ContextInv'
    BY <1>1, <1>2, <1>4 DEF InitCipher, mainVars, TypeOK, ContextInv
  <2> QED
    BY <2>1, <2>2, <2>3, <2>4 DEF Inv
<1>5. CASE Fail
  <2>1. TypeOK'
    BY <1>1, <1>2, <1>5 DEF Fail, Return, mainVars, TypeOK
  <2>2. LengthsInv'
    BY <1>1, <1>2, <1>5 DEF Fail, Return, mainVars, TypeOK, LengthsInv, ProgressInv
  <2>3. ProgressInv'
    BY <1>1, <1>2, <1>5 DEF Fail, Return, mainVars, TypeOK, LengthsInv, ProgressInv
  <2>4. ContextInv'
    BY <1>1, <1>2, <1>5 DEF Fail, Return, mainVars, TypeOK, ContextInv
  <2> QED
    BY <2>1, <2>2, <2>3, <2>4 DEF Inv
<1>6. CASE Update
  <2>1. job \in JobIds
    BY <1>1, <1>6 DEF Update, TypeOK, ProgressInv
  <2>2. PICK n \in 0 .. BufferSize : n = UpdateBytes
    BY <2>1, OutputOfLibrary, Zenon
  <2>3. /\ len' = n /\ total_len' = n /\ written' = [written EXCEPT ![job] = n]
        /\ pc = "update" /\ pc' = "final"
        /\ UNCHANGED <<mainVars, live, out_len, ret>>
    BY <1>6, <2>2 DEF Update
  <2>4. UpdateBytes' = UpdateBytes
    BY <2>3 DEF UpdateBytes, InputLength, mainVars
  <2>5. TypeOK'
    BY <1>1, <1>2, <2>1, <2>2, <2>3, <2>4 DEF mainVars, TypeOK
  <2>6. LengthsInv'
    BY <1>1, <1>2, <2>1, <2>2, <2>3, <2>4 DEF mainVars, TypeOK, LengthsInv, ProgressInv
  <2>7. ProgressInv'
    BY <1>1, <1>2, <2>1, <2>2, <2>3, <2>4 DEF mainVars, TypeOK, LengthsInv, ProgressInv
  <2>8. ContextInv'
    BY <1>1, <1>2, <2>1, <2>2, <2>3, <2>4 DEF mainVars, TypeOK, ContextInv
  <2> QED
    BY <2>5, <2>6, <2>7, <2>8 DEF Inv
<1>7. CASE Final
  <2>1. job \in JobIds
    BY <1>1, <1>7 DEF Final, TypeOK, ProgressInv
  <2>2. PICK n \in 0 .. BufferSize : n = Output(job)
    BY <1>1, <2>1, OutputFits
  <2>3. PICK m \in 0 .. BufferSize : m = FinalBytes
    BY <2>1, OutputOfLibrary, Zenon
  <2>4. len + m = n /\ total_len + m = n
    BY <1>1, <1>7, <2>1, <2>2, <2>3, OutputOfLibrary DEF Final, LengthsInv
  <2>5. /\ len' = m /\ total_len' = n /\ written' = [written EXCEPT ![job] = n]
        /\ out_len' = [out_len EXCEPT ![job] = n]
        /\ pc = "final" /\ live' = FALSE /\ pc' = "main" /\ ret' = 0
        /\ UNCHANGED mainVars
    BY <1>7, <2>3, <2>4 DEF Final, TotalLength, Return
  <2>6. TypeOK'
    <3>1. live' \in BOOLEAN
      BY <2>5
    <3>2. (written \in [JobIds -> 0..BufferSize] /\ out_len \in [JobIds -> Unset..BufferSize])'
      BY <1>1, <2>1, <2>2, <2>5 DEF TypeOK
    <3> QED
      BY <1>1, <2>2, <2>3, <2>5, <3>1, <3>2 DEF mainVars, TypeOK
  <2>7. LengthsInv'
    BY <1>1, <1>2, <2>1, <2>2, <2>3, <2>5 DEF mainVars, TypeOK, LengthsInv, ProgressInv
  <2>8. ProgressInv'
    BY <1>1, <1>2, <2>1, <2>2, <2>3, <2>5 DEF mainVars, TypeOK, LengthsInv, ProgressInv
  <2>9. ContextInv'
    BY <1>1, <1>2, <2>1, <2>2, <2>3, <2>5 DEF mainVars, TypeOK, ContextInv
  <2> QED
    BY <2>6, <2>7, <2>8, <2>9 DEF Inv
<1>8. CASE Begin
  <2>1. TypeOK'
    <3>1. iv' \in [{Encrypt1, Encrypt2} -> {"random", "stack"}]
      BY <1>1, <1>2, <1>8 DEF Begin, InMain, RandBytes, Call, TypeOK
    <3>2. live' \in BOOLEAN
      BY <1>1, <1>2, <1>8 DEF Begin, InMain, RandBytes, Call, TypeOK
    <3>3. /\ (message_len \in MessageLengths /\ written \in [JobIds -> 0..BufferSize])'
          /\ (out_len \in [JobIds -> Unset..BufferSize])'
      BY <1>1, <1>8 DEF Begin, InMain, Call, TypeOK
    <3>4. /\ job' \in 0..3 /\ pc' \in {"main", "new", "init", "update", "final"}
          /\ len' \in 0..BufferSize /\ total_len' \in 0..BufferSize
          /\ ret' \in {0, -1}
          /\ compared' \in {"nothing", "same", "different"} /\ code' \in 0..2
      BY <1>1, <1>8 DEF Begin, InMain, Call, TypeOK
    <3>5. printed' \subseteq JobIds
      BY <1>1, <1>8 DEF Begin, InMain, Call, TypeOK
    <3> QED
      BY <3>1, <3>2, <3>3, <3>4, <3>5 DEF TypeOK
  <2>2. LengthsInv'
    BY <1>1, <1>2, <1>8 DEF Begin, InMain, RandBytes, Call, TypeOK, LengthsInv, ProgressInv
  <2>3. ProgressInv'
    BY <1>1, <1>2, <1>8 DEF Begin, InMain, RandBytes, Call, TypeOK, LengthsInv, ProgressInv
  <2>4. ContextInv'
    BY <1>1, <1>2, <1>8 DEF Begin, InMain, RandBytes, Call, TypeOK, ContextInv
  <2> QED
    BY <2>1, <2>2, <2>3, <2>4 DEF Inv
<1>9. CASE AfterEncrypt1
  <2>1. TypeOK'
    <3>1. iv' \in [{Encrypt1, Encrypt2} -> {"random", "stack"}]
      BY <1>1, <1>2, <1>9 DEF AfterEncrypt1, InMain, Exit, Call, TypeOK
    <3>2. live' \in BOOLEAN
      BY <1>1, <1>2, <1>9 DEF AfterEncrypt1, InMain, Exit, Call, TypeOK
    <3>3. /\ (message_len \in MessageLengths /\ written \in [JobIds -> 0..BufferSize])'
          /\ (out_len \in [JobIds -> Unset..BufferSize])'
      BY <1>1, <1>9 DEF AfterEncrypt1, InMain, Exit, Call, TypeOK
    <3>4. /\ job' \in 0..3 /\ pc' \in {"main", "new", "init", "update", "final"}
          /\ len' \in 0..BufferSize /\ total_len' \in 0..BufferSize
          /\ ret' \in {0, -1}
          /\ compared' \in {"nothing", "same", "different"} /\ code' \in 0..2
      BY <1>1, <1>9 DEF AfterEncrypt1, InMain, Exit, Call, TypeOK
    <3>5. printed' \subseteq JobIds
      <4>1. printed' = printed \/ printed' = printed \cup {Encrypt1}
        BY <1>9 DEF AfterEncrypt1
      <4>2. Encrypt1 \in JobIds /\ printed \subseteq JobIds
        BY <1>1 DEF TypeOK
      <4> QED
        BY <4>1, <4>2
    <3> QED
      BY <3>1, <3>2, <3>3, <3>4, <3>5 DEF TypeOK
  <2>2. LengthsInv'
    BY <1>1, <1>2, <1>9 DEF AfterEncrypt1, InMain, Exit, Call, TypeOK, LengthsInv, ProgressInv
  <2>3. ProgressInv'
    BY <1>1, <1>2, <1>9 DEF AfterEncrypt1, InMain, Exit, Call, TypeOK, LengthsInv, ProgressInv
  <2>4. ContextInv'
    BY <1>1, <1>2, <1>9 DEF AfterEncrypt1, InMain, Exit, Call, TypeOK, ContextInv
  <2> QED
    BY <2>1, <2>2, <2>3, <2>4 DEF Inv
<1>10. CASE AfterDecrypt
  <2>1. ret = 0 => written[2] >= message_len /\ out_len[2] + 1 \in 0..BufferSize
    <3>1. message_len \in 1 .. BufferSize - 1
      BY <1>1, OutputFits
    <3> QED
      BY <1>1, <1>10, <3>1 DEF AfterDecrypt, InMain, LengthsInv, ProgressInv, Output
  <2>2. TypeOK'
    <3>1. iv' \in [{Encrypt1, Encrypt2} -> {"random", "stack"}]
      BY <1>1, <1>2, <1>10, <2>1 DEF AfterDecrypt, InMain, RandBytes, Exit, Call, TypeOK
    <3>2. live' \in BOOLEAN
      BY <1>1, <1>2, <1>10, <2>1 DEF AfterDecrypt, InMain, RandBytes, Exit, Call, TypeOK
    <3>3. /\ (message_len \in MessageLengths /\ written \in [JobIds -> 0..BufferSize])'
          /\ (out_len \in [JobIds -> Unset..BufferSize])'
      BY <1>1, <1>10, <2>1 DEF AfterDecrypt, InMain, Exit, Call, TypeOK
    <3>4. /\ job' \in 0..3 /\ pc' \in {"main", "new", "init", "update", "final"}
          /\ len' \in 0..BufferSize /\ total_len' \in 0..BufferSize
          /\ ret' \in {0, -1}
          /\ compared' \in {"nothing", "same", "different"} /\ code' \in 0..2
      BY <1>1, <1>10 DEF AfterDecrypt, InMain, Exit, Call, TypeOK
    <3>5. printed' \subseteq JobIds
      <4>1. printed' = printed \/ printed' = printed \cup {Decrypt}
        BY <1>10 DEF AfterDecrypt
      <4>2. Decrypt \in JobIds /\ printed \subseteq JobIds
        BY <1>1 DEF TypeOK
      <4> QED
        BY <4>1, <4>2
    <3> QED
      BY <3>1, <3>2, <3>3, <3>4, <3>5 DEF TypeOK
  <2>3. LengthsInv'
    BY <1>1, <1>2, <1>10, <2>1 DEF AfterDecrypt, InMain, RandBytes, Exit, Call, TypeOK, LengthsInv, ProgressInv
  <2>4. ProgressInv'
    BY <1>1, <1>2, <1>10, <2>1 DEF AfterDecrypt, InMain, RandBytes, Exit, Call, TypeOK, LengthsInv, ProgressInv
  <2>5. ContextInv'
    BY <1>1, <1>2, <1>10, <2>1 DEF AfterDecrypt, InMain, RandBytes, Exit, Call, TypeOK, ContextInv
  <2> QED
    BY <2>2, <2>3, <2>4, <2>5 DEF Inv
<1>11. CASE AfterEncrypt2
  <2>1. TypeOK'
    BY <1>1, <1>2, <1>11 DEF AfterEncrypt2, InMain, Exit, TypeOK
  <2>2. LengthsInv'
    BY <1>1, <1>2, <1>11 DEF AfterEncrypt2, InMain, Exit, TypeOK, LengthsInv, ProgressInv
  <2>3. ProgressInv'
    BY <1>1, <1>2, <1>11 DEF AfterEncrypt2, InMain, Exit, TypeOK, LengthsInv, ProgressInv
  <2>4. ContextInv'
    BY <1>1, <1>2, <1>11 DEF AfterEncrypt2, InMain, Exit, TypeOK, ContextInv
  <2> QED
    BY <2>1, <2>2, <2>3, <2>4 DEF Inv
<1>12. CASE UNCHANGED vars
  <2>1. UpdateBytes' = UpdateBytes
    BY <1>12 DEF vars, UpdateBytes, InputLength
  <2>2. TypeOK'
    BY <1>1, <1>2, <1>12, <2>1 DEF vars, TypeOK
  <2>3. LengthsInv'
    BY <1>1, <1>2, <1>12, <2>1 DEF vars, TypeOK, LengthsInv, ProgressInv
  <2>4. ProgressInv'
    BY <1>1, <1>2, <1>12, <2>1 DEF vars, TypeOK, LengthsInv, ProgressInv
  <2>5. ContextInv'
    BY <1>1, <1>2, <1>12, <2>1 DEF vars, TypeOK, ContextInv
  <2> QED
    BY <2>2, <2>3, <2>4, <2>5 DEF Inv
<1> QED
  BY <1>3, <1>4, <1>5, <1>6, <1>7, <1>8, <1>9, <1>10, <1>11, <1>12 DEF Next, Over

---------------------------------------------------------------------------
(* What the invariant implies                                              *)

LEMMA LengthsFollow == Inv => LengthsAreExact
PROOF
<1> SUFFICES ASSUME Inv, NEW j \in JobIds, out_len[j] # Unset
             PROVE  /\ written[j] = out_len[j] + Terminator(j)
                    /\ j = Decrypt => out_len[j] = message_len
                    /\ j # Decrypt => /\ out_len[j] % AES_BLOCK_SIZE = 0
                                      /\ out_len[j] \in (message_len + 1)..(message_len + AES_BLOCK_SIZE)
  BY DEF LengthsAreExact
<1>1. out_len[j] = Output(j) /\ written[j] = Output(j) + Terminator(j)
  BY DEF Inv, LengthsInv
<1>2. message_len \in Nat /\ message_len % AES_BLOCK_SIZE \in 0 .. AES_BLOCK_SIZE - 1
  BY OutputFits DEF Inv
<1>3. (message_len - (message_len % AES_BLOCK_SIZE) + AES_BLOCK_SIZE) % AES_BLOCK_SIZE = 0
  BY <1>2, Remainder
<1> QED
  BY <1>1, <1>2, <1>3, BlockAssumption DEF Output

LEMMA ShownFollows == Inv => ShownOrRefused
  BY DEF Inv, TypeOK, ProgressInv, ShownOrRefused, JobIds, Encrypt1, Decrypt, Encrypt2

LEMMA MessageRoundTrip ==
  ASSUME TypeOK, NEW block_size \in 1 .. AES_BLOCK_SIZE, NEW byte \in Byte
  PROVE  RoundTripAt(Message(byte), message_len, block_size)
PROOF
<1>1. Message(byte) \in [0 .. BufferSize - 1 -> Byte]
  BY DEF Message
<1>2. BufferSize \in Nat /\ BufferSize < SizeMod
  BY MessagesFit, SizeAssumption
<1>3. message_len \in Nat /\ message_len + block_size <= BufferSize
  BY <1>2, OutputFits, BlockAssumption DEF JobIds
<1> QED
  BY <1>1, <1>2, <1>3, RoundTrip

LEMMA AgreementFollows == Inv => HelpersAgreeWithLibrary
PROOF
<1> SUFFICES ASSUME Inv PROVE HelpersAgreeWithLibrary
  OBVIOUS
<1> DEFINE padded == add_pkcs7_padding(Message(65), message_len, AES_BLOCK_SIZE)
<1>1. AES_BLOCK_SIZE \in 1 .. AES_BLOCK_SIZE /\ 65 \in Byte /\ AES_BLOCK_SIZE \in 1 .. 255
  BY BlockAssumption DEF Byte
<1>2. RoundTripAt(Message(65), message_len, AES_BLOCK_SIZE)
  BY <1>1, MessageRoundTrip, Zenon DEF Inv
<1>3. remove_pkcs7_padding(padded, PaddedLength(message_len, AES_BLOCK_SIZE)) = message_len
  BY <1>2, Zenon DEF RoundTripAt
<1>4. PaddedLength(message_len, AES_BLOCK_SIZE) = Output(Encrypt1)
  <2>1. Output(Encrypt1) \in 1 .. BufferSize - 1
        /\ message_len \in 1 .. BufferSize - 1
        /\ message_len % AES_BLOCK_SIZE \in 0 .. AES_BLOCK_SIZE - 1
    BY OutputFits DEF Inv, JobIds, Encrypt1
  <2>2. BufferSize \in 1 .. SizeMod - 1 /\ SizeMod \in Nat
    BY MessagesFit, SizeAssumption
  <2>3. Output(Encrypt1) % SizeMod = Output(Encrypt1)
    BY <2>1, <2>2
  <2>4. message_len + Padding(message_len, AES_BLOCK_SIZE) = Output(Encrypt1)
    BY <1>1, <2>1 DEF Padding, Output, Encrypt1, Decrypt
  <2> QED
    BY <2>3, <2>4 DEF PaddedLength
<1>5. Output(Encrypt2) = Output(Encrypt1)
  BY DEF Output, Encrypt1, Encrypt2, Decrypt
<1>6. \A j \in JobIds : out_len[j] # Unset => out_len[j] = Output(j)
  BY DEF Inv, LengthsInv
<1>7. Encrypt1 \in JobIds /\ Encrypt2 \in JobIds /\ Decrypt \in JobIds
  BY DEF JobIds, Encrypt1, Encrypt2, Decrypt
<1>8. ASSUME NEW j \in {Encrypt1, Encrypt2}, out_len[j] # Unset
      PROVE  out_len[j] = PaddedLength(message_len, AES_BLOCK_SIZE)
  BY <1>4, <1>5, <1>6, <1>7, <1>8
<1>9. ASSUME out_len[Decrypt] # Unset
      PROVE  out_len[Decrypt] = remove_pkcs7_padding(padded, out_len[Encrypt1])
  <2>1. out_len[Decrypt] = message_len
    BY <1>6, <1>7, <1>9 DEF Output
  <2>2. out_len[Encrypt1] # Unset
    <3>1. ~(job < Decrypt)
      BY <1>7, <1>9 DEF Inv, LengthsInv
    <3> QED
      BY <3>1 DEF Inv, ProgressInv, TypeOK, Encrypt1, Decrypt, Encrypt2
  <2>3. out_len[Encrypt1] = PaddedLength(message_len, AES_BLOCK_SIZE)
    BY <1>8, <2>2
  <2> QED
    BY <1>3, <2>1, <2>3, Zenon
<1> QED
  BY <1>8, <1>9, Zenon DEF HelpersAgreeWithLibrary

LEMMA RemovalFollows == Inv => RemovalStaysInside
PROOF
<1> SUFFICES ASSUME Inv, NEW j \in {Encrypt1, Encrypt2}, NEW last \in Byte, out_len[j] # Unset
             PROVE  RemovalStaysInsideAt([Message(65) EXCEPT ![out_len[j] - 1] = last], out_len[j])
  BY Zenon DEF RemovalStaysInside
<1>1. out_len[j] \in 1 .. BufferSize - 1
  BY OutputFits DEF Inv, LengthsInv, JobIds, Encrypt1, Encrypt2
<1>2. PICK n \in 1 .. BufferSize - 1 : n = out_len[j]
  BY <1>1
<1> DEFINE data == [Message(65) EXCEPT ![n - 1] = last]
<1>3. data[n - 1] \in Byte
  <2>1. n - 1 \in 0 .. BufferSize - 1
    BY MessagesFit, SizeAssumption
  <2> QED
    BY <2>1, Zenon DEF Message
<1>4. n \in Nat /\ n < SizeMod
  BY MessagesFit, SizeAssumption
<1> HIDE DEF data
<1>5. RemovalStaysInsideAt(data, n)
  BY <1>3, <1>4, RemovalIsInside
<1> QED
  BY <1>2, <1>5, Zenon DEF data

---------------------------------------------------------------------------
(* The theorems                                                            *)

LEMMA InvHolds == Spec => []Inv
  BY InvInit, InvNext, PTL DEF Spec

(* Every variable stays in its domain, and no buffer is written past its   *)
(* end, for every message length that fits.                                *)
THEOREM CbcTypeCorrect == Spec => []TypeOK
  BY InvHolds, PTL DEF Inv

(* The lengths that are returned are exact, whichever calls failed.        *)
THEOREM CbcLengthsAreExact == Spec => []LengthsAreExact
  BY InvHolds, LengthsFollow, PTL

(* main shows what has been produced, or exits with 1.                     *)
THEOREM CbcShownOrRefused == Spec => []ShownOrRefused
  BY InvHolds, ShownFollows, PTL

(* No path through the two functions leaks the cipher context.             *)
THEOREM CbcContextIsFreed == Spec => []ContextIsFreed
PROOF
<1>1. Inv => ContextIsFreed
  BY DEF Inv, ContextInv, ContextIsFreed
<1> QED
  BY <1>1, InvHolds, PTL

(* The padding helpers compute the library's lengths.                      *)
THEOREM CbcHelpersAgree == Spec => []HelpersAgreeWithLibrary
  BY InvHolds, AgreementFollows, PTL

(* The removal stays inside every ciphertext's buffer.                     *)
THEOREM CbcRemovalStaysInside == Spec => []RemovalStaysInside
  BY InvHolds, RemovalFollows, PTL

===========================================================================
