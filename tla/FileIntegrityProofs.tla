----------------------- MODULE FileIntegrityProofs -----------------------
(***************************************************************************)
(* Proofs about FileIntegrity, for any number of runs, any bytes, buffer   *)
(* size and length of the file, and any number of changes and bad reads: a *)
(* check decides whether the file is what it was, a file that only grows   *)
(* is hashed whole, one change is seen from the end of one read on, and    *)
(* every way out releases everything.                                      *)
(***************************************************************************)
EXTENDS FileIntegrity, SequenceTheorems, TLAPS

(* A file's content is a sequence of at most MaxLength bytes.              *)
LEMMA ContentsAreSequences ==
  ASSUME NEW s
  PROVE  s \in Contents <=> s \in Seq(Bytes) /\ Len(s) <= MaxLength
<1>1. ASSUME s \in Contents
      PROVE  s \in Seq(Bytes) /\ Len(s) <= MaxLength
  <2>1. PICK n \in 0 .. MaxLength : s \in [1 .. n -> Bytes]
    BY <1>1 DEF Contents
  <2>2. n \in Nat
    BY BoundsAssumption
  <2>3. s \in UNION {[1 .. m -> Bytes] : m \in Nat}
    BY <2>1, <2>2, Zenon
  <2>4. s \in Seq(Bytes)
    BY <2>3, SeqDef, Zenon
  <2> QED
    BY <2>1, <2>2, <2>4, BoundsAssumption
<1>2. ASSUME s \in Seq(Bytes), Len(s) <= MaxLength
      PROVE  s \in Contents
  <2>1. Len(s) \in 0 .. MaxLength /\ s \in [1 .. Len(s) -> Bytes]
    BY <1>2, BoundsAssumption
  <2> QED
    BY <2>1 DEF Contents
<1> QED
  BY <1>1, <1>2

(* An empty file is one.                                                   *)
LEMMA EmptyTypes == <<>> \in Contents /\ Len(<<>>) = 0
<1>1. PICK e \in Seq(Bytes) : e = <<>> /\ Len(e) = 0
  BY EmptySeq
<1>2. Len(e) <= MaxLength
  BY <1>1, BoundsAssumption
<1> QED
  BY <1>1, <1>2, ContentsAreSequences

(* SubSeq inside a sequence, element by element.                           *)
LEMMA PartOfSequence ==
  ASSUME NEW S, NEW s \in Seq(S), NEW m \in Nat, NEW n \in Nat, m >= 1, n <= Len(s)
  PROVE  /\ SubSeq(s, m, n) \in Seq(S)
         /\ Len(SubSeq(s, m, n)) = IF m <= n THEN n - m + 1 ELSE 0
         /\ \A j \in 1 .. n - m + 1 : SubSeq(s, m, n)[j] = s[m + j - 1]
<1>1. \A j \in m .. n : s[j] \in S
  OBVIOUS
<1> QED
  BY <1>1, SubSeqProperties

(* \o, element by element.                                                 *)
LEMMA Concatenation ==
  ASSUME NEW S, NEW s \in Seq(S), NEW t \in Seq(S)
  PROVE  /\ s \o t \in Seq(S) /\ Len(s \o t) = Len(s) + Len(t)
         /\ \A j \in 1 .. Len(s) : (s \o t)[j] = s[j]
         /\ \A j \in 1 .. Len(t) : (s \o t)[Len(s) + j] = t[j]
  OBVIOUS

(* What is at the path has a content: no bytes for a directory.            *)
LEMMA FileIsContents ==
  ASSUME inode \in Inodes
  PROVE  inode.bytes \in Contents
<1>1. CASE inode \in {NoFile, Directory}
  <2>1. inode.bytes = <<>>
    BY <1>1 DEF NoFile, Directory
  <2> QED
    BY <2>1, EmptyTypes
<1>2. CASE \E s \in Contents : inode = File(s)
  <2>1. PICK s \in Contents : inode = File(s)
    BY <1>2
  <2> QED
    BY <2>1 DEF File
<1> QED
  BY <1>1, <1>2 DEF Inodes

(* What a read delivers are the bytes after those consumed, as many as the *)
(* buffer has room for unless the file ends.                               *)
LEMMA ChunkProperties ==
  ASSUME TypeOK, NEW r \in Runs
  PROVE  /\ inode.bytes \in Seq(Bytes) /\ Len(inode.bytes) <= MaxLength
         /\ digested[r] \in Seq(Bytes) /\ pos[r] = Len(digested[r]) /\ pos[r] \in Nat
         /\ Chunk(r) \in Seq(Bytes) /\ Len(Chunk(r)) \in Nat
         /\ pos[r] + Len(Chunk(r)) <= MaxLength
         /\ pos[r] <= Len(inode.bytes) => pos[r] + Len(Chunk(r)) <= Len(inode.bytes)
         /\ pos[r] <= Len(inode.bytes) /\ filled[r] + Len(Chunk(r)) < BUFFER_SIZE =>
              pos[r] + Len(Chunk(r)) = Len(inode.bytes)
         /\ pos[r] > Len(inode.bytes) => Len(Chunk(r)) = 0
         /\ filled[r] \in Nat /\ filled[r] + Len(Chunk(r)) <= BUFFER_SIZE
         /\ filled[r] < BUFFER_SIZE
         /\ \A j \in 1 .. Len(Chunk(r)) : Chunk(r)[j] = inode.bytes[pos[r] + j]
<1> DEFINE cur == inode.bytes
           p == pos[r]
           rest == Rest(r)
           room == BUFFER_SIZE - filled[r]
           most == IF Len(rest) < room THEN Len(rest) ELSE room
<1>1. cur \in Seq(Bytes) /\ Len(cur) <= MaxLength
  BY FileIsContents, ContentsAreSequences DEF TypeOK
<1>2. digested[r] \in Seq(Bytes) /\ p = Len(digested[r]) /\ p \in 0 .. MaxLength
  BY ContentsAreSequences DEF TypeOK
<1>3. Len(cur) \in Nat /\ p \in Nat /\ p + 1 \in Nat /\ p <= MaxLength
  BY <1>1, <1>2, BoundsAssumption
<1>4. /\ rest \in Seq(Bytes)
      /\ Len(rest) = IF p + 1 <= Len(cur) THEN Len(cur) - p ELSE 0
      /\ \A j \in 1 .. Len(rest) : rest[j] = cur[p + j]
  <2> HIDE DEF cur, p
  <2>1. /\ SubSeq(cur, p + 1, Len(cur)) \in Seq(Bytes)
        /\ Len(SubSeq(cur, p + 1, Len(cur))) =
             IF p + 1 <= Len(cur) THEN Len(cur) - (p + 1) + 1 ELSE 0
        /\ \A j \in 1 .. Len(cur) - (p + 1) + 1 :
             SubSeq(cur, p + 1, Len(cur))[j] = cur[p + 1 + j - 1]
    BY <1>1, <1>3, PartOfSequence
  <2>2. rest = SubSeq(cur, p + 1, Len(cur))
    BY DEF Rest, cur, p
  <2> QED
    BY <1>3, <2>1, <2>2
<1>0. filled[r] \in Nat /\ filled[r] < BUFFER_SIZE /\ room \in Nat /\ room >= 1
  <2>1. filled[r] \in 0 .. BUFFER_SIZE - 1
    BY DEF TypeOK
  <2> QED
    BY <2>1, BufferAssumption
<1> HIDE DEF room
<1>5. most \in Nat /\ most <= Len(rest) /\ most <= room
  BY <1>0, <1>4
<1>6. /\ Chunk(r) \in Seq(Bytes) /\ Len(Chunk(r)) = most
      /\ \A j \in 1 .. most : Chunk(r)[j] = rest[j]
  <2>1. Chunk(r) = SubSeq(rest, 1, most)
    BY DEF Chunk, room
  <2> HIDE DEF most, rest
  <2>2. /\ SubSeq(rest, 1, most) \in Seq(Bytes)
        /\ Len(SubSeq(rest, 1, most)) = IF 1 <= most THEN most - 1 + 1 ELSE 0
        /\ \A j \in 1 .. most - 1 + 1 : SubSeq(rest, 1, most)[j] = rest[1 + j - 1]
    BY <1>4, <1>5, PartOfSequence
  <2> QED
    BY <1>5, <2>1, <2>2
<1>7. \A j \in 1 .. most : Chunk(r)[j] = cur[p + j]
  BY <1>4, <1>5, <1>6
<1>8. /\ p + most <= MaxLength
      /\ p <= Len(cur) => p + most <= Len(cur)
      /\ p <= Len(cur) /\ most < room => p + most = Len(cur)
      /\ p > Len(cur) => most = 0
  <2>1. Len(rest) \in Nat
    BY <1>4
  <2> HIDE DEF cur, p, rest
  <2>2. CASE p <= Len(cur)
    <3>1. Len(rest) = Len(cur) - p
      BY <1>3, <1>4, <2>2
    <3> QED
      BY <1>0, <1>1, <1>3, <1>5, <2>1, <2>2, <3>1, BoundsAssumption
  <2>3. CASE p > Len(cur)
    <3>1. Len(rest) = 0
      BY <1>3, <1>4, <2>3
    <3> QED
      BY <1>0, <1>3, <1>5, <2>3, <3>1, BoundsAssumption
  <2> QED
    BY <1>3, <2>2, <2>3
<1> HIDE DEF most, rest
<1>9. /\ filled[r] + most <= BUFFER_SIZE
      /\ filled[r] + most < BUFFER_SIZE => most < room
  BY <1>0, <1>5, BufferAssumption DEF room
<1> HIDE DEF cur, p
<1>10. Len(Chunk(r)) = most
  BY <1>6
<1>11. /\ Chunk(r) \in Seq(Bytes) /\ \A j \in 1 .. most : Chunk(r)[j] = cur[p + j]
  BY <1>6, <1>7
<1> QED
  BY <1>0, <1>1, <1>2, <1>3, <1>5, <1>8, <1>9, <1>10, <1>11 DEF cur, p

(* Type correctness                                                        *)

LEMMA TypeInit == Init => TypeOK
<1> SUFFICES ASSUME Init PROVE TypeOK
  OBVIOUS
<1>1. 0 \in 0 .. BUFFER_SIZE - 1
  BY BufferAssumption
<1> QED
  BY <1>1, EmptyTypes, BoundsAssumption DEF Init, TypeOK

(* What is digested after a read of n bytes: what was, and n bytes of the  *)
(* file as it is now.                                                      *)
LEMMA ReadTypes ==
  ASSUME TypeOK, NEW r \in Runs, NEW n \in 0 .. Len(Chunk(r))
  PROVE  LET part == SubSeq(Chunk(r), 1, n)
             now  == digested[r] \o part
         IN  /\ now \in Contents /\ now \in Seq(Bytes)
             /\ Len(now) = pos[r] + n /\ pos[r] + n \in 0 .. MaxLength /\ Len(part) = n
             /\ \A j \in 1 .. pos[r] : now[j] = digested[r][j]
             /\ \A j \in pos[r] + 1 .. pos[r] + n : now[j] = inode.bytes[j]
<1> DEFINE part == SubSeq(Chunk(r), 1, n)
           now  == digested[r] \o part
<1>1. /\ digested[r] \in Seq(Bytes) /\ pos[r] = Len(digested[r]) /\ pos[r] \in Nat
      /\ Chunk(r) \in Seq(Bytes) /\ Len(Chunk(r)) \in Nat
      /\ pos[r] + Len(Chunk(r)) <= MaxLength
      /\ \A j \in 1 .. Len(Chunk(r)) : Chunk(r)[j] = inode.bytes[pos[r] + j]
  BY ChunkProperties
<1>2. n \in Nat /\ n <= Len(Chunk(r))
  BY <1>1
<1>3. /\ part \in Seq(Bytes) /\ Len(part) = n
      /\ \A j \in 1 .. n : part[j] = Chunk(r)[j]
  <2>1. /\ part \in Seq(Bytes)
        /\ Len(part) = IF 1 <= n THEN n - 1 + 1 ELSE 0
        /\ \A j \in 1 .. n - 1 + 1 : part[j] = Chunk(r)[1 + j - 1]
    BY <1>1, <1>2, PartOfSequence
  <2> HIDE DEF part
  <2> QED
    BY <1>2, <2>1
<1> HIDE DEF part
<1>4. /\ now \in Seq(Bytes) /\ Len(now) = pos[r] + n
      /\ \A j \in 1 .. pos[r] : now[j] = digested[r][j]
      /\ \A j \in 1 .. n : now[pos[r] + j] = part[j]
  <2>1. /\ now \in Seq(Bytes)
        /\ Len(now) = Len(digested[r]) + Len(part)
        /\ \A j \in 1 .. Len(digested[r]) : now[j] = digested[r][j]
        /\ \A j \in 1 .. Len(part) : now[Len(digested[r]) + j] = part[j]
    <3>1. digested[r] \in Seq(Bytes) /\ part \in Seq(Bytes)
      BY <1>1, <1>3
    <3> QED
      BY <3>1, Concatenation
  <2> HIDE DEF now
  <2> QED
    BY <1>1, <1>2, <1>3, <2>1
<1> HIDE DEF now
<1>5. \A j \in pos[r] + 1 .. pos[r] + n : now[j] = inode.bytes[j]
  <2> SUFFICES ASSUME NEW j \in pos[r] + 1 .. pos[r] + n
               PROVE  now[j] = inode.bytes[j]
    OBVIOUS
  <2> DEFINE k == j - pos[r]
  <2>1. k \in 1 .. n /\ k \in 1 .. Len(Chunk(r)) /\ pos[r] + k = j
    BY <1>1, <1>2
  <2> HIDE DEF k
  <2> QED
    BY <1>1, <1>3, <1>4, <2>1
<1>6. Len(now) <= MaxLength /\ pos[r] + n \in 0 .. MaxLength
  BY <1>1, <1>2, <1>4, BoundsAssumption
<1>7. now \in Contents
  BY <1>4, <1>6, ContentsAreSequences
<1> QED
  BY <1>3, <1>4, <1>5, <1>6, <1>7 DEF now, part

(* A read without an error delivers all of the chunk.                      *)
LEMMA WholeChunk ==
  ASSUME TypeOK, NEW r \in Runs
  PROVE  SubSeq(Chunk(r), 1, Len(Chunk(r))) = Chunk(r) /\ Len(Chunk(r)) \in 0 .. Len(Chunk(r))
<1>1. Chunk(r) \in Seq(Bytes)
  BY ChunkProperties
<1> QED
  BY <1>1

LEMMA TypeChange ==
  ASSUME TypeOK, NEW new \in Contents, Change(new)
  PROVE  TypeOK'
<1>1. inode' \in Inodes
  BY DEF Change, Inodes
<1>2. written' \in 0 .. MaxWrites
  BY BoundsAssumption DEF Change, TypeOK
<1>3. versions' \in [Runs -> Seq(Contents)]
  <2>1. \A r \in Runs : Append(versions[r], new) \in Seq(Contents)
    BY AppendProperties DEF TypeOK
  <2> QED
    BY <2>1 DEF Change, TypeOK
<1> QED
  BY <1>1, <1>2, <1>3 DEF Change, TypeOK, runVars

(* How a read moves what is in the buffer.                                 *)
LEMMA FilledTypes ==
  ASSUME TypeOK, NEW r \in Runs
  PROVE  (IF filled[r] + Len(Chunk(r)) = BUFFER_SIZE THEN 0 ELSE filled[r] + Len(Chunk(r)))
            \in 0 .. BUFFER_SIZE - 1
<1>1. /\ Len(Chunk(r)) \in Nat /\ filled[r] \in Nat /\ filled[r] + Len(Chunk(r)) <= BUFFER_SIZE
  BY ChunkProperties
<1> QED
  BY <1>1, BufferAssumption

LEMMA TypeNext == TypeOK /\ [Next]_vars => TypeOK'
<1> SUFFICES ASSUME TypeOK, [Next]_vars PROVE TypeOK'
  OBVIOUS
<1>1. CASE Write
  BY <1>1, TypeChange DEF Write
<1>3. CASE Truncate
  BY <1>3, TypeChange, EmptyTypes DEF Truncate
<1>4. ASSUME NEW r \in Runs, Usage(r) PROVE TypeOK'
  BY <1>4 DEF TypeOK, Usage, Exit, history
<1>5. ASSUME NEW r \in Runs, Start(r) PROVE TypeOK'
  <2>1. PICK e \in {NoHash} \cup Given :
          expected' = [expected EXCEPT ![r] = e]
    BY <1>5 DEF Start
  <2>2. e \in Texts \cup {NoHash}
    <3>1. CASE e = NoHash
      BY <3>1
    <3>2. CASE e \in Given
      <4>1. PICK h \in Printed, c \in Cases : e = [h EXCEPT !.case = c]
        BY <3>2 DEF Given
      <4>2. h \in Texts
        BY DEF Printed, TypeOK
      <4>3. PICK s \in Contents, d \in Cases : h = [digits |-> s, case |-> d]
        BY <4>2 DEF Texts
      <4>4. e = [digits |-> s, case |-> c]
        BY <4>1, <4>3
      <4> QED
        BY <4>4 DEF Texts
    <3> QED
      BY <3>1, <3>2
  <2> QED
    BY <1>5, <2>1, <2>2 DEF TypeOK, Start, history
<1>6. ASSUME NEW r \in Runs, Fopen(r) PROVE TypeOK'
  <2>1. /\ pc' \in [Runs -> {"idle", "fopen", "new_ctx", "fread", "final", "exited"}]
        /\ code' \in [Runs -> {0, 1, 2}]
    BY <1>6 DEF TypeOK, Fopen, Exit
  <2>2. held' \in [Runs -> SUBSET {"file", "ctx"}]
    <3>1. held' = held \/ held' = [held EXCEPT ![r] = {"file"}]
      BY <1>6 DEF Fopen
    <3>2. {"file"} \in SUBSET {"file", "ctx"}
      OBVIOUS
    <3> QED
      BY <3>1, <3>2 DEF TypeOK
  <2>3. versions' \in [Runs -> Seq(Contents)]
    <3>1. <<inode.bytes>> \in Seq(Contents)
      BY FileIsContents DEF TypeOK
    <3> QED
      BY <1>6, <3>1 DEF TypeOK, Fopen
  <2> QED
    BY <1>6, <2>1, <2>2, <2>3 DEF TypeOK, Fopen
<1>7. ASSUME NEW r \in Runs, NewContext(r) PROVE TypeOK'
  <2>1. /\ pc' \in [Runs -> {"idle", "fopen", "new_ctx", "fread", "final", "exited"}]
        /\ code' \in [Runs -> {0, 1, 2}]
    BY <1>7 DEF TypeOK, NewContext, Exit
  <2>2. held' \in [Runs -> SUBSET {"file", "ctx"}]
    <3>1. \/ held' = [held EXCEPT ![r] = @ \cup {"ctx"}]
          \/ held' = [held EXCEPT ![r] = @ \ {"file"}]
      BY <1>7 DEF NewContext, Release
    <3>2. held \in [Runs -> SUBSET {"file", "ctx"}]
      BY DEF TypeOK
    <3>3. held[r] \cup {"ctx"} \in SUBSET {"file", "ctx"}
      BY <3>2
    <3>4. held[r] \ {"file"} \in SUBSET {"file", "ctx"}
      BY <3>2
    <3> QED
      BY <3>1, <3>2, <3>3, <3>4
  <2> QED
    BY <1>7, <2>1, <2>2 DEF TypeOK, NewContext, history
<1>8. ASSUME NEW r \in Runs, DigestFails(r) PROVE TypeOK'
  <2>1. /\ pc' \in [Runs -> {"idle", "fopen", "new_ctx", "fread", "final", "exited"}]
        /\ code' \in [Runs -> {0, 1, 2}]
    BY <1>8 DEF TypeOK, DigestFails, Exit
  <2>2. held' \in [Runs -> SUBSET {"file", "ctx"}]
    BY <1>8 DEF TypeOK, DigestFails, Release
  <2> QED
    BY <1>8, <2>1, <2>2 DEF TypeOK, DigestFails, history
<1>9. ASSUME NEW r \in Runs, Fread(r) PROVE TypeOK'
  <2>1. /\ digested[r] \o Chunk(r) \in Contents
        /\ Len(digested[r] \o Chunk(r)) = pos[r] + Len(Chunk(r))
        /\ pos[r] + Len(Chunk(r)) \in 0 .. MaxLength
    BY ReadTypes, WholeChunk
  <2>2. AfterChunk(r) \in {"final", "fread"}
    BY DEF AfterChunk
  <2>3. filled' \in [Runs -> 0 .. BUFFER_SIZE - 1]
    BY <1>9, FilledTypes DEF TypeOK, Fread
  <2> QED
    BY <1>9, <2>1, <2>2, <2>3 DEF TypeOK, Fread, Consume, history
<1>10. ASSUME NEW r \in Runs, FreadFails(r) PROVE TypeOK'
  <2>1. PICK n \in 0 .. Len(Chunk(r)) :
          /\ digested' = [digested EXCEPT ![r] = @ \o SubSeq(Chunk(r), 1, n)]
          /\ pos' = [pos EXCEPT ![r] = @ + Len(SubSeq(Chunk(r), 1, n))]
          /\ pc' = [pc EXCEPT ![r] = IF filled[r] + n = 0 THEN "final" ELSE "fread"]
    BY <1>10 DEF FreadFails, Consume
  <2>2. /\ digested[r] \o SubSeq(Chunk(r), 1, n) \in Contents
        /\ Len(digested[r] \o SubSeq(Chunk(r), 1, n)) = pos[r] + n
        /\ pos[r] + n \in 0 .. MaxLength /\ Len(SubSeq(Chunk(r), 1, n)) = n
    BY ReadTypes
  <2>4. 0 \in 0 .. BUFFER_SIZE - 1
    BY BufferAssumption
  <2>3. errors' \in 0 .. MaxErrors
    BY <1>10, BoundsAssumption DEF FreadFails, TypeOK
  <2> QED
    BY <1>10, <2>1, <2>2, <2>3, <2>4 DEF TypeOK, FreadFails
<1>11. ASSUME NEW r \in Runs, Report(r) PROVE TypeOK'
  <2>1. hash_to_hex(digested[r]) \in Texts
    BY DEF hash_to_hex, Texts, TypeOK, Cases
  <2> QED
    BY <1>11, <2>1 DEF TypeOK, Report, Exit, Release, history
<1>12. CASE UNCHANGED vars
  BY <1>12 DEF TypeOK, vars, runVars, history
<1> QED
  BY <1>1, <1>3, <1>4, <1>5, <1>6, <1>7, <1>8, <1>9, <1>10, <1>11, <1>12
     DEF Next, AllOver

---------------------------------------------------------------------------

(* The invariant.  What a run has digested without a bad read is: of a     *)
(* file that only grew, its beginning; of a file nobody changed, up to the *)
(* end of a read; after one change, old bytes up to such an end and new    *)
(* ones from there.                                                        *)

Prefix(d, v) == Len(d) <= Len(v) /\ \A j \in 1 .. Len(d) : d[j] = v[j]

Aligned(p, in_buffer, v) ==
  /\ p <= Len(v)
  /\ p = Len(v) \/ (in_buffer = 0 /\ \E n \in 0 .. p : p = n * BUFFER_SIZE)

Mixed(d, old, new, k) ==
  /\ k <= Len(d)
  /\ \A j \in 1 .. k : d[j] = old[j]
  /\ \A j \in k + 1 .. Len(d) : d[j] = new[j]
  /\ Len(d) = k \/ Len(d) <= Len(new)

ReadInv(r) ==
  Reading(r) =>
    /\ Len(versions[r]) >= 1 /\ versions[r][Len(versions[r])] = inode.bytes
    /\ ~misread[r] =>
         /\ OnlyAppends(versions[r]) => Prefix(digested[r], inode.bytes)
         /\ Len(versions[r]) = 1 => Aligned(pos[r], filled[r], inode.bytes)
         /\ Len(versions[r]) = 2 =>
              \E k \in ReadEnds(versions[r][1]) :
                 Mixed(digested[r], versions[r][1], versions[r][2], k)

(* One content is a file that only grew.                                   *)
LEMMA OneVersion ==
  ASSUME NEW vs, Len(vs) = 1
  PROVE  OnlyAppends(vs)
<1>1. 2 .. Len(vs) = {}
  OBVIOUS
<1> QED
  BY <1>1 DEF OnlyAppends

(* Another version of a file that only grew.                               *)
LEMMA AppendedVersion ==
  ASSUME NEW vs \in Seq(Contents), NEW new \in Contents, Len(vs) >= 1,
         OnlyAppends(Append(vs, new))
  PROVE  OnlyAppends(vs) /\ Extends(new, vs[Len(vs)])
<1> DEFINE ws == Append(vs, new)
           n == Len(vs)
<1>1. n \in Nat /\ n >= 1 /\ Len(ws) = n + 1
  BY AppendProperties
<1>2. ws[n + 1] = new /\ \A i \in 1 .. n : ws[i] = vs[i]
  BY AppendProperties
<1>3. \A i \in 2 .. n + 1 : Extends(ws[i], ws[i - 1])
  BY <1>1 DEF OnlyAppends
<1> HIDE DEF ws
<1>4. OnlyAppends(vs)
  <2> SUFFICES ASSUME NEW i \in 2 .. n PROVE Extends(vs[i], vs[i - 1])
    BY DEF OnlyAppends
  <2>1. i \in 2 .. n + 1 /\ i \in 1 .. n /\ i - 1 \in 1 .. n
    BY <1>1
  <2>2. ws[i] = vs[i] /\ ws[i - 1] = vs[i - 1]
    BY <1>2, <2>1
  <2>3. Extends(ws[i], ws[i - 1])
    BY <1>3, <2>1
  <2> QED
    BY <2>2, <2>3
<1>5. Extends(new, vs[n])
  <2>1. n + 1 \in 2 .. n + 1 /\ n \in 1 .. n /\ n + 1 - 1 = n
    BY <1>1
  <2>2. Extends(ws[n + 1], ws[n])
    BY <1>3, <2>1
  <2>3. ws[n + 1] = new /\ ws[n] = vs[n]
    BY <1>2, <2>1
  <2> QED
    BY <2>2, <2>3
<1> QED
  BY <1>4, <1>5

LEMMA LongerPrefix ==
  ASSUME NEW d \in Seq(Bytes), NEW old \in Seq(Bytes), NEW new \in Seq(Bytes),
         Prefix(d, old), Extends(new, old)
  PROVE  Prefix(d, new)
<1>1. Len(d) \in Nat /\ Len(old) \in Nat /\ Len(new) \in Nat
  OBVIOUS
<1>2. Len(d) <= Len(old) /\ Len(old) <= Len(new) /\ SubSeq(new, 1, Len(old)) = old
  BY DEF Prefix, Extends
<1>3. \A j \in 1 .. Len(old) : old[j] = new[j]
  <2>1. \A j \in 1 .. Len(old) - 1 + 1 : SubSeq(new, 1, Len(old))[j] = new[1 + j - 1]
    BY <1>1, <1>2, PartOfSequence
  <2> QED
    BY <1>1, <1>2, <2>1
<1>4. \A j \in 1 .. Len(d) : d[j] = new[j]
  BY <1>1, <1>2, <1>3 DEF Prefix
<1> QED
  BY <1>1, <1>2, <1>4 DEF Prefix

(* A beginning as long as the whole is the whole.                          *)
LEMMA WholeVersion ==
  ASSUME NEW now \in Seq(Bytes), NEW v \in Seq(Bytes), Prefix(now, v), Len(now) = Len(v)
  PROVE  now = v
BY DEF Prefix

(* Old bytes, then new ones to the end of the file.                        *)
LEMMA WholeMixture ==
  ASSUME NEW d \in Seq(Bytes), NEW old \in Seq(Bytes), NEW new \in Seq(Bytes),
         NEW k \in 0 .. Len(old), Mixed(d, old, new, k), Len(d) >= Len(new)
  PROVE  d = SubSeq(old, 1, k) \o SubSeq(new, k + 1, Len(new))
<1> DEFINE one == SubSeq(old, 1, k)
           two == SubSeq(new, k + 1, Len(new))
<1>1. k \in Nat /\ Len(old) \in Nat /\ Len(new) \in Nat /\ Len(d) \in Nat /\ k <= Len(old)
  OBVIOUS
<1>2. one \in Seq(Bytes) /\ Len(one) = k /\ \A j \in 1 .. k : one[j] = old[j]
  <2>1. /\ one \in Seq(Bytes)
        /\ Len(one) = IF 1 <= k THEN k - 1 + 1 ELSE 0
        /\ \A j \in 1 .. k - 1 + 1 : one[j] = old[1 + j - 1]
    BY <1>1, PartOfSequence
  <2> HIDE DEF one
  <2> QED
    BY <1>1, <2>1
<1>3. /\ two \in Seq(Bytes)
      /\ Len(two) = IF k + 1 <= Len(new) THEN Len(new) - k ELSE 0
      /\ \A j \in 1 .. Len(new) - k : two[j] = new[k + j]
  <2>1. k + 1 \in Nat /\ k + 1 >= 1
    BY <1>1
  <2>2. /\ two \in Seq(Bytes)
        /\ Len(two) = IF k + 1 <= Len(new) THEN Len(new) - (k + 1) + 1 ELSE 0
        /\ \A j \in 1 .. Len(new) - (k + 1) + 1 : two[j] = new[k + 1 + j - 1]
    BY <1>1, <2>1, PartOfSequence
  <2> HIDE DEF two
  <2> QED
    BY <1>1, <2>2
<1> HIDE DEF one, two
<1>4. /\ one \o two \in Seq(Bytes) /\ Len(one \o two) = k + Len(two)
      /\ \A j \in 1 .. k : (one \o two)[j] = one[j]
      /\ \A j \in 1 .. Len(two) : (one \o two)[k + j] = two[j]
  <2>1. /\ one \o two \in Seq(Bytes) /\ Len(one \o two) = Len(one) + Len(two)
        /\ \A j \in 1 .. Len(one) : (one \o two)[j] = one[j]
        /\ \A j \in 1 .. Len(two) : (one \o two)[Len(one) + j] = two[j]
    <3>1. one \in Seq(Bytes) /\ two \in Seq(Bytes)
      BY <1>2, <1>3
    <3> QED
      BY <3>1, Concatenation
  <2> QED
    BY <1>2, <2>1
<1>5. Len(d) = k + Len(two)
  BY <1>1, <1>3 DEF Mixed
<1>6. \A j \in 1 .. k : d[j] = (one \o two)[j]
  BY <1>2, <1>4 DEF Mixed
<1>7. \A j \in k + 1 .. Len(d) : d[j] = (one \o two)[j]
  <2> SUFFICES ASSUME NEW j \in k + 1 .. Len(d) PROVE d[j] = (one \o two)[j]
    OBVIOUS
  <2> DEFINE i == j - k
  <2>1. i \in 1 .. Len(two) /\ i \in 1 .. Len(new) - k /\ k + i = j
    BY <1>1, <1>3, <1>5
  <2>2. d[j] = new[j]
    BY DEF Mixed
  <2> HIDE DEF i
  <2>3. (one \o two)[k + i] = new[k + i]
    BY <1>3, <1>4, <2>1
  <2> QED
    BY <2>1, <2>2, <2>3
<1>8. Prefix(d, one \o two) /\ Len(d) = Len(one \o two)
  <2> SUFFICES ASSUME NEW j \in 1 .. Len(d) PROVE d[j] = (one \o two)[j]
    BY <1>4, <1>5 DEF Prefix
  <2>1. k <= Len(d)
    BY DEF Mixed
  <2>2. j \in 1 .. k \/ j \in k + 1 .. Len(d)
    BY <1>1, <2>1
  <2> QED
    BY <1>6, <1>7, <2>2
<1>9. d = one \o two
  BY <1>4, <1>8, WholeVersion
<1> QED
  BY <1>9 DEF one, two

(* A change keeps the invariant of a run that reads.                       *)
LEMMA ReadInvChange ==
  ASSUME TypeOK, NEW r \in Runs, ReadInv(r), NEW new \in Contents, Change(new)
  PROVE  ReadInv(r)'
<1> SUFFICES ASSUME Reading(r)'
             PROVE  ReadInv(r)'
  BY DEF ReadInv
<1> DEFINE cur == inode.bytes
           vs == versions[r]
           ws == Append(vs, new)
<1>1. /\ Reading(r) /\ inode'.bytes = new /\ versions'[r] = ws
      /\ pos'[r] = pos[r] /\ digested'[r] = digested[r] /\ misread'[r] = misread[r]
  BY DEF Change, Reading, runVars, File, TypeOK
<1>2. /\ vs \in Seq(Contents) /\ Len(vs) \in Nat /\ Len(vs) >= 1 /\ vs[Len(vs)] = cur
  BY <1>1 DEF ReadInv, TypeOK
<1>3. /\ ws \in Seq(Contents) /\ Len(ws) = Len(vs) + 1 /\ ws[Len(vs) + 1] = new
      /\ \A i \in 1 .. Len(vs) : ws[i] = vs[i]
  BY <1>2, AppendProperties
<1>8. Len(vs) = 1 => ws[1] = cur /\ ws[2] = new
  <2> HIDE DEF ws, vs, cur
  <2> QED
    BY <1>2, <1>3
<1>4. /\ digested[r] \in Seq(Bytes) /\ new \in Seq(Bytes) /\ cur \in Seq(Bytes)
      /\ Len(digested[r]) = pos[r] /\ pos[r] \in Nat
  BY ContentsAreSequences, ChunkProperties
<1>5. ASSUME ~misread[r], OnlyAppends(ws)
      PROVE  Prefix(digested[r], new)
  <2>1. OnlyAppends(vs) /\ Extends(new, cur)
    BY <1>2, <1>5, AppendedVersion
  <2>2. Prefix(digested[r], cur)
    BY <1>1, <1>5, <2>1 DEF ReadInv
  <2> QED
    BY <1>4, <2>1, <2>2, LongerPrefix
<1>6. ASSUME ~misread[r], Len(ws) = 2
      PROVE  \E k \in ReadEnds(ws[1]) : Mixed(digested[r], ws[1], ws[2], k)
  <2>1. Len(vs) = 1 /\ ws[1] = cur /\ ws[2] = new
    <3> HIDE DEF ws, vs, cur
    <3>1. Len(vs) = 1
      <4> DEFINE before == Len(vs)
                 after == Len(ws)
      <4>1. before \in Nat /\ after = before + 1 /\ after = 2
        BY <1>2, <1>3, <1>6
      <4> HIDE DEF before, after
      <4>2. before = 1
        BY <4>1
      <4> QED
        BY <4>2 DEF before
    <3> QED
      BY <1>8, <3>1
  <2>2. Prefix(digested[r], cur) /\ Aligned(pos[r], filled[r], cur)
    BY <1>1, <1>6, <2>1, OneVersion DEF ReadInv
  <2>3. pos[r] \in ReadEnds(cur)
    BY <1>4, <2>2 DEF ReadEnds, Aligned
  <2>4. Mixed(digested[r], cur, new, pos[r])
    BY <1>4, <2>2 DEF Mixed, Prefix
  <2> QED
    BY <2>1, <2>3, <2>4
<1>7. Len(ws) # 1 /\ Len(ws) >= 1 /\ ws[Len(ws)] = new
  BY <1>2, <1>3
<1> HIDE DEF ws
<1> QED
  BY <1>1, <1>5, <1>6, <1>7 DEF ReadInv

---------------------------------------------------------------------------

(* After the last read: the whole file, or the whole of a mixture.         *)
DoneInv(r) ==
  /\ pc[r] = "final" \/ hex_hash[r] # NoHash
  /\ ~misread[r]
  => /\ OnlyAppends(versions[r]) => digested[r] = versions[r][Len(versions[r])]
     /\ Len(versions[r]) = 2 =>
          \E k \in ReadEnds(versions[r][1]) :
             digested[r] = SubSeq(versions[r][1], 1, k)
                             \o SubSeq(versions[r][2], k + 1, Len(versions[r][2]))

(* A run has printed its hash when it has ended, and its exit code is the  *)
(* comparison's.                                                           *)
HashInv(r) ==
  hex_hash[r] # NoHash =>
    /\ pc[r] = "exited" /\ hex_hash[r] = hash_to_hex(digested[r])
    /\ code[r] = IF expected[r] = NoHash \/ SameText(hash_to_hex(digested[r]), expected[r])
                 THEN 0 ELSE 1

StartInv(r) == pc[r] \in {"idle", "fopen", "new_ctx"} => pos[r] = 0 /\ filled[r] = 0

(* What a run has to release at each of its calls.                         *)
HeldInv(r) ==
  held[r] = IF pc[r] = "new_ctx" THEN {"file"}
            ELSE IF pc[r] \in {"fread", "final"} THEN {"file", "ctx"} ELSE {}

RunInv(r) == ReadInv(r) /\ DoneInv(r) /\ HashInv(r) /\ StartInv(r) /\ HeldInv(r)

IInv == TypeOK /\ \A r \in Runs : RunInv(r)

LEMMA RunInvInit == Init => \A r \in Runs : RunInv(r)
BY DEF Init, RunInv, ReadInv, DoneInv, HashInv, StartInv, HeldInv, Reading

(* A run and the history of its reading are left alone.                    *)
Same(r) ==
  /\ pc'[r] = pc[r] /\ expected'[r] = expected[r] /\ pos'[r] = pos[r] /\ filled'[r] = filled[r]
  /\ digested'[r] = digested[r] /\ held'[r] = held[r] /\ hex_hash'[r] = hex_hash[r]
  /\ code'[r] = code[r]
SameHistory(r) == versions'[r] = versions[r] /\ misread'[r] = misread[r]

LEMMA RunInvSame ==
  ASSUME NEW r \in Runs, RunInv(r), Same(r), SameHistory(r), inode' = inode
  PROVE  RunInv(r)'
<1>1. ReadInv(r)'
  BY DEF RunInv, ReadInv, Same, SameHistory, Reading
<1>2. DoneInv(r)'
  BY DEF RunInv, DoneInv, Same, SameHistory
<1>3. HashInv(r)' /\ StartInv(r)' /\ HeldInv(r)'
  BY DEF RunInv, HashInv, StartInv, HeldInv, Same
<1> QED
  BY <1>1, <1>2, <1>3 DEF RunInv, SameHistory

LEMMA RunInvChange ==
  ASSUME TypeOK, NEW r \in Runs, RunInv(r), NEW new \in Contents, Change(new)
  PROVE  RunInv(r)'
<1>1. Same(r)
  BY DEF Change, runVars, Same
<1>2. ~Reading(r) => SameHistory(r)
  BY DEF Change, SameHistory, TypeOK
<1>3. DoneInv(r)'
  BY <1>1, <1>2 DEF RunInv, DoneInv, HashInv, Same, SameHistory, Reading
<1>4. HashInv(r)' /\ StartInv(r)' /\ HeldInv(r)'
  BY <1>1 DEF RunInv, HashInv, StartInv, HeldInv, Same
<1>5. ReadInv(r)'
  BY ReadInvChange DEF RunInv
<1> QED
  BY <1>3, <1>4, <1>5 DEF RunInv

(* Steps of a run that is not reading, to fopen or to its end.             *)
LEMMA RunInvEnds ==
  ASSUME NEW r \in Runs, RunInv(r), hex_hash[r] = NoHash, hex_hash'[r] = NoHash,
         pc'[r] \in {"fopen", "exited"}, pc'[r] = "fopen" => pos'[r] = 0 /\ filled'[r] = 0,
         held'[r] = {}, SameHistory(r)
  PROVE  RunInv(r)'
BY DEF RunInv, ReadInv, DoneInv, HashInv, StartInv, HeldInv, Reading, SameHistory

LEMMA RunInvFopen ==
  ASSUME TypeOK, NEW r \in Runs, RunInv(r), Fopen(r)
  PROVE  RunInv(r)'
<1>1. /\ pc[r] = "fopen" /\ hex_hash[r] = NoHash /\ held[r] = {} /\ pos[r] = 0 /\ filled[r] = 0
  BY DEF Fopen, RunInv, HashInv, HeldInv, StartInv
<1>2. CASE inode.kind = "none"
  <2>1. /\ pc'[r] = "exited" /\ hex_hash'[r] = NoHash /\ held'[r] = {} /\ SameHistory(r)
    BY <1>1, <1>2 DEF Fopen, Exit, TypeOK, SameHistory
  <2> QED
    BY <1>1, <2>1, RunInvEnds
<1>3. CASE inode.kind # "none"
  <2>1. /\ pc'[r] = "new_ctx" /\ held'[r] = {"file"} /\ versions'[r] = <<inode.bytes>>
        /\ pos'[r] = 0 /\ filled'[r] = 0 /\ digested'[r] = digested[r] /\ hex_hash'[r] = NoHash
        /\ inode' = inode
    BY <1>1, <1>3 DEF Fopen, TypeOK
  <2>2. /\ inode.bytes \in Seq(Bytes) /\ Len(digested[r]) = 0 /\ digested[r] \in Seq(Bytes)
    BY <1>1, ChunkProperties
  <2>3. Len(inode.bytes) \in Nat
    BY <2>2
  <2>4. 0 \in 0 .. 0 /\ 0 = 0 * BUFFER_SIZE
    BY BufferAssumption
  <2>5. Prefix(digested[r], inode.bytes) /\ Aligned(0, 0, inode.bytes)
    BY <2>2, <2>3, <2>4 DEF Prefix, Aligned
  <2>6. ReadInv(r)'
    <3>1. Len(<<inode.bytes>>) = 1 /\ <<inode.bytes>>[1] = inode.bytes
      OBVIOUS
    <3> QED
      BY <2>1, <2>5, <3>1 DEF ReadInv
  <2> QED
    BY <2>1, <2>6 DEF RunInv, DoneInv, HashInv, StartInv, HeldInv
<1> QED
  BY <1>2, <1>3

(* A read keeps a run at the end of a read.                                *)
LEMMA AlignedStep ==
  ASSUME TypeOK, NEW r \in Runs, Aligned(pos[r], filled[r], inode.bytes)
  PROVE  LET n == Len(Chunk(r)) IN
         Aligned(pos[r] + n, IF filled[r] + n = BUFFER_SIZE THEN 0 ELSE filled[r] + n,
                 inode.bytes)
<1> DEFINE n == Len(Chunk(r))
           next == IF filled[r] + n = BUFFER_SIZE THEN 0 ELSE filled[r] + n
<1>1. /\ pos[r] \in Nat /\ n \in Nat /\ Len(inode.bytes) \in Nat
      /\ pos[r] <= Len(inode.bytes) => pos[r] + n <= Len(inode.bytes)
      /\ pos[r] <= Len(inode.bytes) /\ filled[r] + n < BUFFER_SIZE =>
           pos[r] + n = Len(inode.bytes)
      /\ filled[r] \in Nat /\ filled[r] + n <= BUFFER_SIZE
  BY ChunkProperties
<1> HIDE DEF n
<1>2. pos[r] <= Len(inode.bytes) /\ pos[r] + n <= Len(inode.bytes)
  BY <1>1 DEF Aligned
<1>3. ASSUME pos[r] + n = Len(inode.bytes)
      PROVE  Aligned(pos[r] + n, next, inode.bytes)
  BY <1>2, <1>3 DEF Aligned
<1>4. ASSUME pos[r] + n # Len(inode.bytes)
      PROVE  Aligned(pos[r] + n, next, inode.bytes)
  <2>1. filled[r] + n = BUFFER_SIZE /\ pos[r] # Len(inode.bytes)
    BY <1>1, <1>2, <1>4, BufferAssumption
  <2>2. filled[r] = 0 /\ n = BUFFER_SIZE
    BY <1>1, <2>1, BufferAssumption DEF Aligned
  <2>3. PICK i \in 0 .. pos[r] : pos[r] = i * BUFFER_SIZE
    BY <2>1 DEF Aligned
  <2>4. i + 1 \in 0 .. pos[r] + n
    BY <1>1, <2>2, BufferAssumption
  <2>5. i * BUFFER_SIZE + BUFFER_SIZE = (i + 1) * BUFFER_SIZE
    BY BufferAssumption
  <2>6. pos[r] + n = (i + 1) * BUFFER_SIZE
    BY <2>2, <2>3, <2>5
  <2>7. next = 0
    BY <2>1
  <2> QED
    BY <1>2, <2>4, <2>6, <2>7 DEF Aligned
<1> QED
  BY <1>3, <1>4 DEF n

(* A read that delivers bytes keeps the invariant of a run that reads.     *)
LEMMA ReadInvFread ==
  ASSUME TypeOK, NEW r \in Runs, ReadInv(r), Reading(r), ~misread[r],
         NEW now \in Seq(Bytes), Len(now) = pos[r] + Len(Chunk(r)),
         \A j \in 1 .. pos[r] : now[j] = digested[r][j],
         \A j \in pos[r] + 1 .. pos[r] + Len(Chunk(r)) : now[j] = inode.bytes[j]
  PROVE  /\ OnlyAppends(versions[r]) => Prefix(now, inode.bytes)
         /\ Len(versions[r]) = 2 =>
              \E k \in ReadEnds(versions[r][1]) : Mixed(now, versions[r][1], versions[r][2], k)
<1> DEFINE n == Len(Chunk(r))
           old == versions[r][1]
           new == versions[r][2]
<1>1. /\ pos[r] \in Nat /\ n \in Nat /\ Len(digested[r]) = pos[r] /\ Len(inode.bytes) \in Nat
      /\ pos[r] <= Len(inode.bytes) => pos[r] + n <= Len(inode.bytes)
      /\ pos[r] > Len(inode.bytes) => n = 0
  BY ChunkProperties
<1>2. Len(now) = pos[r] + n /\ \A j \in pos[r] + 1 .. pos[r] + n : now[j] = inode.bytes[j]
  OBVIOUS
<1> HIDE DEF n
<1>3. ASSUME OnlyAppends(versions[r])
      PROVE  Prefix(now, inode.bytes)
  <2>1. Prefix(digested[r], inode.bytes)
    BY <1>3 DEF ReadInv
  <2>2. \A j \in 1 .. pos[r] + n : now[j] = inode.bytes[j]
    BY <1>1, <1>2, <2>1 DEF Prefix
  <2> QED
    BY <1>1, <1>2, <2>1, <2>2 DEF Prefix
<1>4. ASSUME Len(versions[r]) = 2
      PROVE  \E k \in ReadEnds(old) : Mixed(now, old, new, k)
  <2>1. PICK k \in ReadEnds(old) : Mixed(digested[r], old, new, k)
    BY <1>4 DEF ReadInv
  <2>2. new = inode.bytes
    BY <1>4 DEF ReadInv
  <2>3. k \in Nat /\ k <= pos[r]
    BY <1>1, <2>1 DEF ReadEnds, Mixed
  <2>4. \A j \in 1 .. k : now[j] = old[j]
    BY <1>1, <2>1, <2>3 DEF Mixed
  <2>5. \A j \in k + 1 .. pos[r] + n : now[j] = new[j]
    <3> SUFFICES ASSUME NEW j \in k + 1 .. pos[r] + n PROVE now[j] = new[j]
      OBVIOUS
    <3>1. CASE j \in pos[r] + 1 .. pos[r] + n
      BY <1>2, <2>2, <3>1
    <3>2. CASE j \in k + 1 .. pos[r]
      <4>1. j \in 1 .. pos[r] /\ j \in k + 1 .. Len(digested[r])
        BY <1>1, <2>3, <3>2
      <4> QED
        BY <2>1, <4>1 DEF Mixed
    <3> QED
      BY <1>1, <2>3, <3>1, <3>2
  <2>6. pos[r] + n = k \/ pos[r] + n <= Len(new)
    BY <1>1, <2>1, <2>2, <2>3 DEF Mixed
  <2>7. Mixed(now, old, new, k)
    BY <1>1, <1>2, <2>3, <2>4, <2>5, <2>6 DEF Mixed
  <2> QED
    BY <2>1, <2>7
<1> QED
  BY <1>3, <1>4

(* At the end of the file what was digested is whole.                      *)
LEMMA WholeAtEnd ==
  ASSUME TypeOK, NEW r \in Runs, ReadInv(r), Reading(r), ~misread[r], Len(Chunk(r)) = 0
  PROVE  /\ OnlyAppends(versions[r]) => digested[r] = versions[r][Len(versions[r])]
         /\ Len(versions[r]) = 2 =>
              \E k \in ReadEnds(versions[r][1]) :
                 digested[r] = SubSeq(versions[r][1], 1, k)
                                 \o SubSeq(versions[r][2], k + 1, Len(versions[r][2]))
<1> DEFINE old == versions[r][1]
           new == versions[r][2]
<1>1. /\ pos[r] \in Nat /\ Len(digested[r]) = pos[r] /\ digested[r] \in Seq(Bytes)
      /\ inode.bytes \in Seq(Bytes) /\ Len(inode.bytes) \in Nat
      /\ pos[r] >= Len(inode.bytes)
  BY ChunkProperties
<1>2. ASSUME OnlyAppends(versions[r])
      PROVE  digested[r] = inode.bytes
  <2>1. Prefix(digested[r], inode.bytes)
    BY <1>2 DEF ReadInv
  <2>2. Len(digested[r]) = Len(inode.bytes)
    BY <1>1, <2>1 DEF Prefix
  <2> QED
    BY <1>1, <2>1, <2>2, WholeVersion
<1>3. ASSUME Len(versions[r]) = 2
      PROVE  \E k \in ReadEnds(old) :
                digested[r] = SubSeq(old, 1, k) \o SubSeq(new, k + 1, Len(new))
  <2>1. PICK k \in ReadEnds(old) : Mixed(digested[r], old, new, k)
    BY <1>3 DEF ReadInv
  <2>2. new = inode.bytes
    BY <1>3 DEF ReadInv
  <2>3. old \in Seq(Bytes)
    <3>1. versions[r] \in Seq(Contents) /\ 1 \in 1 .. Len(versions[r])
      BY <1>3 DEF TypeOK
    <3>2. old \in Contents
      BY <3>1
    <3> QED
      BY <3>2, ContentsAreSequences
  <2>4. k \in 0 .. Len(old)
    BY <2>1 DEF ReadEnds
  <2>5. digested[r] = SubSeq(old, 1, k) \o SubSeq(new, k + 1, Len(new))
    <3> HIDE DEF old, new
    <3> QED
      BY <1>1, <2>1, <2>2, <2>3, <2>4, WholeMixture
  <2> QED
    BY <2>1, <2>5
<1>4. versions[r][Len(versions[r])] = inode.bytes
  BY DEF ReadInv
<1> QED
  BY <1>2, <1>3, <1>4

LEMMA RunInvFread ==
  ASSUME TypeOK, NEW r \in Runs, RunInv(r), Fread(r)
  PROVE  RunInv(r)'
<1> DEFINE now == digested[r] \o Chunk(r)
           n == Len(Chunk(r))
           next == IF filled[r] + n = BUFFER_SIZE THEN 0 ELSE filled[r] + n
<1>1. /\ now \in Seq(Bytes) /\ Len(now) = pos[r] + n /\ n \in Nat
      /\ \A j \in 1 .. pos[r] : now[j] = digested[r][j]
      /\ \A j \in pos[r] + 1 .. pos[r] + n : now[j] = inode.bytes[j]
  <2>1. n \in 0 .. Len(Chunk(r)) /\ SubSeq(Chunk(r), 1, n) = Chunk(r) /\ n \in Nat
    BY WholeChunk, ChunkProperties
  <2> DEFINE part == SubSeq(Chunk(r), 1, n)
  <2>2. LET piece == digested[r] \o part
        IN  /\ piece \in Seq(Bytes) /\ Len(piece) = pos[r] + n
            /\ \A j \in 1 .. pos[r] : piece[j] = digested[r][j]
            /\ \A j \in pos[r] + 1 .. pos[r] + n : piece[j] = inode.bytes[j]
    <3> HIDE DEF n
    <3> QED
      BY <2>1, ReadTypes
  <2>3. digested[r] \o part = now
    BY <2>1
  <2> HIDE DEF now, part, n
  <2> QED
    BY <2>1, <2>2, <2>3
<1>3. /\ pc[r] = "fread" /\ pc'[r] = AfterChunk(r) /\ pos'[r] = pos[r] + n /\ filled'[r] = next
      /\ digested'[r] = now /\ held'[r] = held[r] /\ hex_hash'[r] = hex_hash[r]
      /\ SameHistory(r) /\ inode' = inode
  BY DEF Fread, Consume, TypeOK, SameHistory, history
<1>4. Reading(r) /\ hex_hash[r] = NoHash /\ ReadInv(r)
  BY <1>3 DEF Reading, RunInv, HashInv
<1>5. Len(versions[r]) = 1 /\ ~misread[r] => Aligned(pos[r] + n, next, inode.bytes)
  BY <1>4, AlignedStep DEF ReadInv
<1> HIDE DEF now, next
<1>6. ~misread[r] =>
        /\ OnlyAppends(versions[r]) => Prefix(now, inode.bytes)
        /\ Len(versions[r]) = 2 =>
             \E k \in ReadEnds(versions[r][1]) : Mixed(now, versions[r][1], versions[r][2], k)
  BY <1>1, <1>4, ReadInvFread
<1>7. ReadInv(r)'
  BY <1>3, <1>4, <1>5, <1>6 DEF ReadInv, SameHistory
<1>8. DoneInv(r)'
  <2> SUFFICES ASSUME pc'[r] = "final", ~misread[r]
               PROVE  DoneInv(r)'
    BY <1>3, <1>4 DEF DoneInv, SameHistory
  <2>1. Chunk(r) = <<>>
    BY <1>3 DEF AfterChunk
  <2>2. n = 0 /\ now = digested[r]
    <3>1. digested[r] \in Seq(Bytes)
      BY ChunkProperties
    <3>2. n = 0
      BY <2>1, EmptyTypes
    <3>4. Len(now) = pos[r] /\ pos[r] = Len(digested[r]) /\ pos[r] \in Nat
      BY <1>1, <3>2, ChunkProperties
    <3>5. Prefix(now, digested[r])
      BY <1>1, <3>4 DEF Prefix
    <3>3. now = digested[r]
      BY <1>1, <3>1, <3>4, <3>5, WholeVersion
    <3> QED
      BY <3>2, <3>3
  <2> QED
    <3>1. Len(Chunk(r)) = 0
      BY <2>2 DEF n
    <3>2. /\ OnlyAppends(versions[r]) => digested[r] = versions[r][Len(versions[r])]
          /\ Len(versions[r]) = 2 =>
               \E k \in ReadEnds(versions[r][1]) :
                  digested[r] = SubSeq(versions[r][1], 1, k)
                                  \o SubSeq(versions[r][2], k + 1, Len(versions[r][2]))
      BY <1>4, <2>2, <3>1, WholeAtEnd DEF SameHistory
    <3> QED
      BY <1>3, <2>2, <3>2 DEF DoneInv, SameHistory
<1>9. HashInv(r)' /\ StartInv(r)' /\ HeldInv(r)'
  BY <1>3, <1>4 DEF RunInv, HashInv, StartInv, HeldInv, AfterChunk
<1> QED
  BY <1>7, <1>8, <1>9 DEF RunInv

LEMMA RunInvFreadFails ==
  ASSUME TypeOK, NEW r \in Runs, RunInv(r), FreadFails(r)
  PROVE  RunInv(r)'
<1>1. /\ pc[r] = "fread" /\ pc'[r] \in {"final", "fread"} /\ held'[r] = held[r]
      /\ hex_hash'[r] = hex_hash[r] /\ misread'[r] = TRUE /\ versions'[r] = versions[r]
      /\ inode' = inode
  BY DEF FreadFails, Consume, TypeOK
<1>2. Reading(r) /\ hex_hash[r] = NoHash
  BY <1>1 DEF Reading, RunInv, HashInv
<1> QED
  BY <1>1, <1>2 DEF RunInv, ReadInv, DoneInv, HashInv, StartInv, HeldInv

LEMMA RunInvReport ==
  ASSUME TypeOK, NEW r \in Runs, RunInv(r), Report(r)
  PROVE  RunInv(r)'
<1>1. /\ pc[r] = "final" /\ pc'[r] = "exited" /\ held'[r] = held[r] \ {"ctx", "file"}
      /\ hex_hash'[r] = hash_to_hex(digested[r]) /\ expected'[r] = expected[r]
      /\ digested'[r] = digested[r] /\ SameHistory(r)
      /\ code'[r] = IF expected[r] = NoHash \/ SameText(hash_to_hex(digested[r]), expected[r])
                    THEN 0 ELSE 1
  BY DEF Report, Exit, Release, TypeOK, SameHistory, history
<1>2. HeldInv(r)'
  BY <1>1 DEF RunInv, HeldInv
<1>3. DoneInv(r)'
  BY <1>1 DEF RunInv, DoneInv, SameHistory
<1> QED
  BY <1>1, <1>2, <1>3 DEF RunInv, ReadInv, HashInv, StartInv, Reading, SameHistory

---------------------------------------------------------------------------

(* The steps of a run keep its invariant, and leave the others alone.      *)
LEMMA RunInvOwn ==
  ASSUME TypeOK, NEW r \in Runs, RunInv(r),
         \/ Usage(r) \/ Start(r) \/ Fopen(r) \/ NewContext(r)
         \/ Fread(r) \/ FreadFails(r) \/ DigestFails(r) \/ Report(r)
  PROVE  RunInv(r)'
<1>1. CASE Usage(r)
  <2>1. hex_hash[r] = NoHash /\ held[r] = {}
    BY <1>1 DEF Usage, RunInv, HashInv, HeldInv
  <2>2. pc'[r] = "exited" /\ hex_hash'[r] = NoHash /\ held'[r] = {} /\ SameHistory(r)
    BY <1>1, <2>1 DEF Usage, Exit, TypeOK, SameHistory, history
  <2> QED
    BY <2>1, <2>2, RunInvEnds
<1>2. CASE Start(r)
  <2>1. hex_hash[r] = NoHash /\ held[r] = {} /\ pos[r] = 0 /\ filled[r] = 0
    BY <1>2 DEF Start, RunInv, HashInv, HeldInv, StartInv
  <2>2. /\ pc'[r] = "fopen" /\ hex_hash'[r] = NoHash /\ held'[r] = {} /\ pos'[r] = 0
        /\ filled'[r] = 0 /\ SameHistory(r)
    BY <1>2, <2>1 DEF Start, TypeOK, SameHistory, history
  <2> QED
    BY <2>1, <2>2, RunInvEnds
<1>3. CASE NewContext(r)
  <2>1. pc[r] = "new_ctx" /\ hex_hash[r] = NoHash /\ held[r] = {"file"}
    BY <1>3 DEF NewContext, RunInv, HashInv, HeldInv
  <2>2. CASE pc'[r] = "fread"
    <3>1. /\ held'[r] = {"file", "ctx"} /\ hex_hash'[r] = NoHash /\ SameHistory(r)
          /\ pos'[r] = pos[r] /\ filled'[r] = filled[r] /\ digested'[r] = digested[r]
          /\ inode' = inode
      BY <1>3, <2>1, <2>2 DEF NewContext, Exit, TypeOK, SameHistory, history
    <3>2. ReadInv(r)'
      BY <2>1, <2>2, <3>1 DEF RunInv, ReadInv, Reading, SameHistory
    <3> QED
      BY <2>2, <3>1, <3>2 DEF RunInv, DoneInv, HashInv, StartInv, HeldInv, SameHistory
  <2>3. CASE pc'[r] # "fread"
    <3>1. held' = [held EXCEPT ![r] = @ \ {"file"}] /\ pc'[r] = "exited"
      BY <1>3, <2>3 DEF NewContext, Exit, Release, TypeOK
    <3>2. held'[r] = {}
      BY <2>1, <3>1 DEF TypeOK
    <3>3. hex_hash'[r] = NoHash /\ SameHistory(r)
      BY <1>3, <2>1 DEF NewContext, TypeOK, SameHistory, history
    <3> QED
      BY <2>1, <3>1, <3>2, <3>3, RunInvEnds
  <2> QED
    BY <2>2, <2>3
<1>4. CASE DigestFails(r)
  <2>1. hex_hash[r] = NoHash /\ held[r] = {"file", "ctx"}
    BY <1>4 DEF DigestFails, RunInv, HashInv, HeldInv
  <2>2. held' = [held EXCEPT ![r] = @ \ {"ctx", "file"}]
    BY <1>4 DEF DigestFails, Release
  <2>3. held'[r] = {}
    BY <2>1, <2>2 DEF TypeOK
  <2>4. pc'[r] = "exited" /\ hex_hash'[r] = NoHash /\ SameHistory(r)
    BY <1>4, <2>1 DEF DigestFails, Exit, TypeOK, SameHistory, history
  <2> QED
    BY <2>1, <2>3, <2>4, RunInvEnds
<1> QED
  BY <1>1, <1>2, <1>3, <1>4, RunInvFopen, RunInvFread, RunInvFreadFails, RunInvReport

LEMMA OtherRuns ==
  ASSUME TypeOK, NEW r \in Runs, NEW q \in Runs, q # r,
         \/ Usage(r) \/ Start(r) \/ Fopen(r) \/ NewContext(r)
         \/ Fread(r) \/ FreadFails(r) \/ DigestFails(r) \/ Report(r)
  PROVE  Same(q) /\ SameHistory(q) /\ inode' = inode
<1>1. CASE Usage(r)
  BY <1>1 DEF Usage, Exit, TypeOK, Same, SameHistory, history
<1>2. CASE Start(r)
  BY <1>2 DEF Start, TypeOK, Same, SameHistory, history
<1>3. CASE Fopen(r)
  BY <1>3 DEF Fopen, Exit, TypeOK, Same, SameHistory
<1>4. CASE NewContext(r)
  BY <1>4 DEF NewContext, Exit, Release, TypeOK, Same, SameHistory, history
<1>5. CASE Fread(r)
  BY <1>5 DEF Fread, Consume, TypeOK, Same, SameHistory, history
<1>6. CASE FreadFails(r)
  BY <1>6 DEF FreadFails, Consume, TypeOK, Same, SameHistory
<1>7. CASE DigestFails(r)
  BY <1>7 DEF DigestFails, Exit, Release, TypeOK, Same, SameHistory, history
<1>8. CASE Report(r)
  BY <1>8 DEF Report, Exit, Release, TypeOK, Same, SameHistory, history
<1> QED
  BY <1>1, <1>2, <1>3, <1>4, <1>5, <1>6, <1>7, <1>8

LEMMA IInvNext == IInv /\ [Next]_vars => IInv'
<1> SUFFICES ASSUME IInv, [Next]_vars, NEW q \in Runs PROVE RunInv(q)'
  BY TypeNext DEF IInv
<1>1. TypeOK /\ TypeOK' /\ RunInv(q)
  BY TypeNext DEF IInv
<1>2. CASE Write
  BY <1>1, <1>2, RunInvChange DEF Write
<1>4. CASE Truncate
  BY <1>1, <1>4, EmptyTypes, RunInvChange DEF Truncate
<1>5. ASSUME NEW r \in Runs,
             \/ Usage(r) \/ Start(r) \/ Fopen(r) \/ NewContext(r)
             \/ Fread(r) \/ FreadFails(r) \/ DigestFails(r) \/ Report(r)
      PROVE  RunInv(q)'
  <2>1. CASE q = r
    BY <1>1, <1>5, <2>1, RunInvOwn
  <2>2. CASE q # r
    BY <1>1, <1>5, <2>2, OtherRuns, RunInvSame
  <2> QED
    BY <2>1, <2>2
<1>6. CASE UNCHANGED vars
  BY <1>1, <1>6, RunInvSame DEF vars, runVars, history, Same, SameHistory
<1> QED
  BY <1>2, <1>4, <1>5, <1>6 DEF Next, AllOver

LEMMA IInvHolds == Spec => []IInv
<1>1. Init => IInv
  BY TypeInit, RunInvInit DEF IInv
<1> QED
  BY <1>1, IInvNext, PTL DEF Spec

(* Results                                                                 *)

(* Every variable stays in its domain: no run consumes more bytes than a   *)
(* file can have (the loop of calculate_file_hash).                        *)
THEOREM FileTypeCorrect == Spec => []TypeOK
<1>1. IInv => TypeOK
  BY DEF IInv
<1> QED
  BY <1>1, IInvHolds, PTL

LEMMA DoneIfHashed ==
  ASSUME IInv, NEW r \in Runs, Hashed(r)
  PROVE  /\ OnlyAppends(versions[r]) => hex_hash[r].digits = versions[r][Len(versions[r])]
         /\ Len(versions[r]) = 2 =>
              \E k \in ReadEnds(versions[r][1]) :
                 hex_hash[r].digits = SubSeq(versions[r][1], 1, k)
                                        \o SubSeq(versions[r][2], k + 1, Len(versions[r][2]))
<1>1. DoneInv(r) /\ HashInv(r)
  BY DEF IInv, RunInv
<1>2. hex_hash[r].digits = digested[r]
  BY <1>1 DEF HashInv, hash_to_hex, Hashed
<1> QED
  BY <1>1, <1>2 DEF DoneInv, Hashed

(* calculate_file_hash beside any number of appends of any size: the hash  *)
(* is that of the whole file as it was when its end was read.              *)
THEOREM GrowingFilesHashedWhole == Spec => []AppendsHashedWhole
<1>1. IInv => AppendsHashedWhole
  BY DoneIfHashed DEF AppendsHashedWhole
<1> QED
  BY <1>1, IInvHolds, PTL

(* calculate_file_hash beside one change of any size: old bytes up to the  *)
(* end of some read, new ones from there on, whatever the buffer size.     *)
THEOREM OneChangeSeenFromOneRead == Spec => []OneChangeFromOneReadOn
<1>1. IInv => OneChangeFromOneReadOn
  BY DoneIfHashed DEF OneChangeFromOneReadOn
<1> QED
  BY <1>1, IInvHolds, PTL

(* A clean run hashed the one content there was.                           *)
LEMMA CleanRun ==
  ASSUME IInv, NEW r \in Runs, Clean(r)
  PROVE  versions[r] = <<hex_hash[r].digits>>
<1>1. Hashed(r) /\ Len(versions[r]) = 1
  BY DEF Clean
<1>2. versions[r][1] = hex_hash[r].digits
  BY <1>1, OneVersion, DoneIfHashed
<1>3. versions[r] \in Seq(Contents)
  BY DEF IInv, TypeOK
<1> QED
  BY <1>1, <1>2, <1>3

(* main's -c: exit code 0 if and only if the file is what it was when the  *)
(* given hash was printed.                                                 *)
THEOREM ChecksDecide == Spec => []CheckDecides
<1>1. IInv => CheckDecides
  <2> SUFFICES ASSUME IInv, NEW q \in Runs, NEW r \in Runs, Clean(q), Clean(r),
                      expected[r] # NoHash, expected[r].digits = hex_hash[q].digits
               PROVE  code[r] = 0 <=> versions[r] = versions[q]
    BY DEF CheckDecides
  <2>1. versions[q] = <<hex_hash[q].digits>> /\ versions[r] = <<hex_hash[r].digits>>
    BY CleanRun
  <2>2. HashInv(r) /\ hex_hash[r] # NoHash
    BY DEF IInv, RunInv, Clean, Hashed
  <2>3. code[r] = 0 <=> hex_hash[r].digits = hex_hash[q].digits
    BY <2>2 DEF HashInv, SameText
  <2> QED
    BY <2>1, <2>3
<1> QED
  BY <1>1, IInvHolds, PTL

(* Every way out of calculate_file_hash closes the file and frees the      *)
(* digest context.                                                         *)
THEOREM ReturnsReleaseAll == Spec => []ReturnReleasesAll
<1>1. IInv => ReturnReleasesAll
  BY DEF IInv, RunInv, HeldInv, ReturnReleasesAll
<1> QED
  BY <1>1, IInvHolds, PTL
==========================================================================
