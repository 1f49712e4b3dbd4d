-------------------------- MODULE FileIntegrity --------------------------
(***************************************************************************)
(* 01_hash_integrity/file_integrity.c: executions of file_integrity that   *)
(* hash one file buffer by buffer, or hash it and compare with a hash an   *)
(* earlier execution printed, while other programs write the file.         *)
(*                                                                         *)
(* fread asks the system for the rest of its buffer until the buffer is    *)
(* full, the file ends or a read fails.  A read and a write of any size    *)
(* are atomic to each other, as POSIX has it; nothing longer is.           *)
(*                                                                         *)
(* SHA-256 is ideal: a digest is identified with the bytes digested.  What *)
(* main prints is the digest's hexadecimal text, which a user may hand     *)
(* back in the other letter case.                                          *)
(***************************************************************************)
EXTENDS Naturals, Sequences, FiniteSets

CONSTANTS
  Runs,         \* executions of file_integrity
  Bytes,        \* what one byte of the file can be
  BUFFER_SIZE,  \* bytes one fread asks for
  MaxLength,    \* bound: length of the file
  MaxWrites,    \* bound: changes of the file by other programs
  MaxErrors     \* bound: reads that fail

ASSUME BufferAssumption == BUFFER_SIZE \in Nat \ {0}
ASSUME BoundsAssumption == MaxLength \in Nat /\ MaxWrites \in Nat /\ MaxErrors \in Nat

NoFile    == [kind |-> "none", bytes |-> <<>>]
Directory == [kind |-> "dir", bytes |-> <<>>]
File(s)   == [kind |-> "file", bytes |-> s]

Contents == UNION {[1..n -> Bytes] : n \in 0..MaxLength}
Inodes   == {NoFile, Directory} \cup {File(s) : s \in Contents}

VARIABLES
  inode,     \* what is at the file's path
  written,   \* changes by other programs so far
  errors,    \* failed reads so far
  pc,        \* run: next call to make
  expected,  \* run: argument of -c, or NoHash in hash mode
  pos,       \* run: bytes of the file consumed
  filled,    \* run: bytes already in the buffer fread is filling
  digested,  \* run: bytes given to EVP_DigestUpdate
  held,      \* run: resources not yet released
  hex_hash,  \* run: the text it printed as its hash, or NoHash
  code,      \* run: exit code, 2 while it runs
  versions,  \* history: the file when the run opened it and after each change
             \* until the run had read to its end
  misread    \* history: a read of the run failed

runVars == <<pc, expected, pos, filled, digested, held, hex_hash, code>>
history == <<versions, misread>>
vars    == <<inode, written, errors, runVars, history>>

NoHash == [digits |-> <<>>, case |-> "none"]
Cases  == {"lower", "upper"}

Texts == {[digits |-> s, case |-> c] : s \in Contents, c \in Cases}

Reading(r) == pc[r] \in {"new_ctx", "fread"}

Init ==
  /\ inode \in Inodes
  /\ written = 0 /\ errors = 0
  /\ pc = [r \in Runs |-> "idle"]
  /\ expected = [r \in Runs |-> NoHash]
  /\ pos = [r \in Runs |-> 0] /\ filled = [r \in Runs |-> 0]
  /\ digested = [r \in Runs |-> <<>>]
  /\ held = [r \in Runs |-> {}]
  /\ hex_hash = [r \in Runs |-> NoHash]
  /\ code = [r \in Runs |-> 2]
  /\ versions = [r \in Runs |-> <<>>]
  /\ misread = [r \in Runs |-> FALSE]

---------------------------------------------------------------------------
(* Other programs                                                          *)

Change(new) ==
  /\ written < MaxWrites
  /\ inode' = File(new)
  /\ written' = written + 1
  /\ versions' = [r \in Runs |-> IF Reading(r) THEN Append(versions[r], new) ELSE versions[r]]
  /\ UNCHANGED <<errors, runVars, misread>>

(* One write, of any bytes at any place; it does not shorten the file.     *)
Write ==
  /\ inode.kind = "file"
  /\ \E new \in Contents \ {inode.bytes} : Len(new) >= Len(inode.bytes) /\ Change(new)

\* fopen(.., "w"): empties the file, or creates it.
Truncate == inode.kind # "dir" /\ Change(<<>>)

---------------------------------------------------------------------------
(* main and calculate_file_hash                                            *)

Exit(r, c) ==
  /\ pc' = [pc EXCEPT ![r] = "exited"]
  /\ code' = [code EXCEPT ![r] = c]

Release(r, which) == held' = [held EXCEPT ![r] = @ \ which]

(* No argument, or -c without exactly a path and a hash.                   *)
Usage(r) ==
  /\ pc[r] = "idle"
  /\ Exit(r, 1)
  /\ UNCHANGED <<inode, written, errors, expected, pos, filled, digested, held, hex_hash, history>>

(* A user checks against a hash some run printed, in either letter case.   *)
Printed == {hex_hash[q] : q \in {q \in Runs : hex_hash[q] # NoHash}}
Given   == {[h EXCEPT !.case = c] : h \in Printed, c \in Cases}

Start(r) ==
  /\ pc[r] = "idle"
  /\ \E e \in {NoHash} \cup Given :
       expected' = [expected EXCEPT ![r] = e]
  /\ pc' = [pc EXCEPT ![r] = "fopen"]
  /\ UNCHANGED <<inode, written, errors, pos, filled, digested, held, hex_hash, code, history>>

(* fopen(.., "rb") succeeds on a directory too.                            *)
Fopen(r) ==
  /\ pc[r] = "fopen"
  /\ IF inode.kind = "none"
       THEN Exit(r, 1) /\ UNCHANGED <<held, versions>>
       ELSE /\ held' = [held EXCEPT ![r] = {"file"}]
            /\ pc' = [pc EXCEPT ![r] = "new_ctx"]
            /\ versions' = [versions EXCEPT ![r] = <<inode.bytes>>]
            /\ UNCHANGED code
  /\ UNCHANGED <<inode, written, errors, expected, pos, filled, digested, hex_hash, misread>>

(* EVP_MD_CTX_new and EVP_DigestInit_ex; either may fail.                  *)
NewContext(r) ==
  /\ pc[r] = "new_ctx"
  /\ \/ /\ pc' = [pc EXCEPT ![r] = "fread"]
        /\ held' = [held EXCEPT ![r] = @ \cup {"ctx"}]
        /\ UNCHANGED code
     \/ /\ Exit(r, 1)
        /\ Release(r, {"file"})
  /\ UNCHANGED <<inode, written, errors, expected, pos, filled, digested, hex_hash, history>>

Rest(r) == SubSeq(inode.bytes, pos[r] + 1, Len(inode.bytes))

(* What one read delivers: the rest of the buffer, or of the file.         *)
Chunk(r) ==
  LET room == BUFFER_SIZE - filled[r]
  IN  SubSeq(Rest(r), 1, IF Len(Rest(r)) < room THEN Len(Rest(r)) ELSE room)

(* EVP_DigestUpdate of a buffer, or EVP_DigestFinal_ex, fails: both the    *)
(* context and the file are released.                                      *)
DigestFails(r) ==
  /\ pc[r] \in {"fread", "final"}
  /\ pc[r] = "fread" => filled[r] = 0 /\ pos[r] # 0
  /\ Exit(r, 1)
  /\ Release(r, {"ctx", "file"})
  /\ UNCHANGED <<inode, written, errors, expected, pos, filled, digested, hex_hash, history>>

\* Mutant: if (fread(..) > 0) in place of the loop.
AfterOneChunk(r) == "final"

\* Mutant: the loop ends at the size the file had when it was opened.
AtOldSize(r) ==
  IF Chunk(r) = <<>> \/ pos[r] + Len(Chunk(r)) >= Len(versions[r][1]) THEN "final" ELSE "fread"

(* A read that delivers nothing has met the end of the file, and the end   *)
(* stays: what is in the buffer is digested and the loop is over.          *)
AfterChunk(r) == IF Chunk(r) = <<>> THEN "final" ELSE "fread"

Consume(r, part) ==
  /\ digested' = [digested EXCEPT ![r] = @ \o part]
  /\ pos' = [pos EXCEPT ![r] = @ + Len(part)]

(* One read of fread; EVP_DigestUpdate takes what the buffer holds when it *)
(* is full or the file is at its end.                                      *)
Fread(r) ==
  /\ pc[r] = "fread" /\ inode.kind = "file"
  /\ Consume(r, Chunk(r))
  /\ filled' = [filled EXCEPT ![r] =
                  IF @ + Len(Chunk(r)) = BUFFER_SIZE THEN 0 ELSE @ + Len(Chunk(r))]
  /\ pc' = [pc EXCEPT ![r] = AfterChunk(r)]
  /\ UNCHANGED <<inode, written, errors, expected, held, hex_hash, code, history>>

(* A read that fails, after n bytes, ends the fread before its buffer is   *)
(* full, and is not told from the end of the file: the loop goes on if the *)
(* buffer had bytes and ends if it had none.  Every read of a directory    *)
(* fails.                                                                  *)
FreadFails(r) ==
  /\ pc[r] = "fread"
  /\ inode.kind # "dir" => errors < MaxErrors
  /\ errors' = IF inode.kind = "dir" THEN errors ELSE errors + 1
  /\ \E n \in 0..Len(Chunk(r)) :
       /\ filled[r] + n < BUFFER_SIZE
       /\ Consume(r, SubSeq(Chunk(r), 1, n))
       /\ pc' = [pc EXCEPT ![r] = IF filled[r] + n = 0 THEN "final" ELSE "fread"]
  /\ filled' = [filled EXCEPT ![r] = 0]
  /\ misread' = [misread EXCEPT ![r] = TRUE]
  /\ UNCHANGED <<inode, written, expected, held, hex_hash, code, versions>>

hash_to_hex(hash) == [digits |-> hash, case |-> "lower"]

\* Mutant: strcmp in place of strcasecmp.
SameLetters(a, b) == a = b

(* strcasecmp(..) == 0 *)
SameText(a, b) == a.digits = b.digits

(* EVP_DigestFinal_ex, the releases, and main's answer.                    *)
Report(r) ==
  /\ pc[r] = "final"
  /\ Release(r, {"ctx", "file"})
  /\ hex_hash' = [hex_hash EXCEPT ![r] = hash_to_hex(digested[r])]
  /\ Exit(r, IF expected[r] = NoHash \/ SameText(hash_to_hex(digested[r]), expected[r])
             THEN 0 ELSE 1)
  /\ UNCHANGED <<inode, written, errors, expected, pos, filled, digested, history>>

---------------------------------------------------------------------------

AllOver == (\A r \in Runs : pc[r] = "exited") /\ UNCHANGED vars

Next ==
  \/ Write \/ Truncate
  \/ \E r \in Runs :
       \/ Usage(r) \/ Start(r) \/ Fopen(r) \/ NewContext(r)
       \/ Fread(r) \/ FreadFails(r) \/ DigestFails(r) \/ Report(r)
  \/ AllOver

Spec == Init /\ [][Next]_vars

---------------------------------------------------------------------------
(* Properties                                                              *)

(* Every variable stays in its domain.                                     *)
TypeOK ==
  /\ inode \in Inodes
  /\ written \in 0..MaxWrites /\ errors \in 0..MaxErrors
  /\ pc \in [Runs -> {"idle", "fopen", "new_ctx", "fread", "final", "exited"}]
  /\ expected \in [Runs -> Texts \cup {NoHash}]
  /\ pos \in [Runs -> 0..MaxLength] /\ digested \in [Runs -> Contents]
  /\ \A r \in Runs : pos[r] = Len(digested[r])
  /\ held \in [Runs -> SUBSET {"file", "ctx"}]
  /\ hex_hash \in [Runs -> Texts \cup {NoHash}]
  /\ code \in [Runs -> {0, 1, 2}]
  /\ filled \in [Runs -> 0..(BUFFER_SIZE - 1)]
  /\ versions \in [Runs -> Seq(Contents)] /\ misread \in [Runs -> BOOLEAN]

(* The run hashed the file to its end without a bad read.                  *)
Hashed(r) == hex_hash[r] # NoHash /\ ~misread[r]

(* ... and nobody changed the file meanwhile.                              *)
Clean(r) == Hashed(r) /\ Len(versions[r]) = 1

(* A check against the hash an earlier run printed, both clean, succeeds   *)
(* if the file is the same as then, and only then -- whatever happened to  *)
(* it in between and in whichever case the hash was typed.                 *)
CheckDecides ==
  \A q, r \in Runs :
    (/\ Clean(q) /\ Clean(r)
     /\ expected[r] # NoHash /\ expected[r].digits = hex_hash[q].digits)
      => (code[r] = 0 <=> versions[r] = versions[q])

Extends(new, old) == Len(old) <= Len(new) /\ SubSeq(new, 1, Len(old)) = old

(* The file only grew.                                                     *)
OnlyAppends(vs) == \A i \in 2..Len(vs) : Extends(vs[i], vs[i - 1])

(* A run beside programs that append to the file, however often and        *)
(* however much at once (a log that is being written): the hash is that of *)
(* the whole file as it was when its end was read.                         *)
AppendsHashedWhole ==
  \A r \in Runs :
    Hashed(r) /\ OnlyAppends(versions[r])
      => hex_hash[r].digits = versions[r][Len(versions[r])]

(* Where a read of a file with these bytes can have ended.                 *)
ReadEnds(bytes) ==
  {k \in 0..Len(bytes) : k = Len(bytes) \/ \E n \in 0..k : k = n * BUFFER_SIZE}

(* A run beside one change of any size, a truncation included: up to the   *)
(* end of some read the bytes digested are the old ones, from there on the *)
(* new ones.  A hash of a mixture is possible, but of no other mixture.    *)
OneChangeFromOneReadOn ==
  \A r \in Runs :
    Hashed(r) /\ Len(versions[r]) = 2 =>
      LET old == versions[r][1]
          new == versions[r][2]
      IN  \E k \in ReadEnds(old) :
            hex_hash[r].digits = SubSeq(old, 1, k) \o SubSeq(new, k + 1, Len(new))

(* The file is closed and the digest context freed on every way out.       *)
ReturnReleasesAll == \A r \in Runs : pc[r] = "exited" => held[r] = {}

(* "@return 0 on success, -1 on failure": a hash is delivered only for a   *)
(* file that was there and was read to its end.                            *)
ZeroMeansHashed == \A r \in Runs : hex_hash[r] # NoHash => ~misread[r]

==========================================================================
