---------------------------- MODULE ByteLoops -----------------------------
(***************************************************************************)
(* Two loops over byte arrays, statement by statement: verify_mac of       *)
(* 01_hash_integrity/hmac_demo.c (compare_hashes of file_integrity.c is    *)
(* the same loop), and count_bit_differences of avalanche.c.               *)
(*                                                                         *)
(* A byte is the set of the positions of its 1 bits, so ^ is the symmetric *)
(* difference, |= the union, and & 1 asks for position 0.                  *)
(***************************************************************************)
EXTENDS Integers, FiniteSets

CONSTANTS
  Width,     \* bits of a byte (8 in the code)
  Length     \* bytes of an array (32 in the code)

ASSUME LoopAssumption == Width \in Nat /\ Length \in Nat

Bits   == 0 .. Width - 1
Arrays == [0 .. Length - 1 -> SUBSET Bits]

VARIABLES
  loop,        \* "none", where a loop is, or which function has returned
  a, b,        \* the two arrays
  i,           \* index into them
  result,      \* of verify_mac
  xor_val, diff_count,  \* of count_bit_differences
  ret          \* what the function returned

loopVars == <<loop, a, b, i, result, xor_val, diff_count, ret>>

Zeros == [j \in 0 .. Length - 1 |-> {}]

LoopInit ==
  /\ loop = "none"
  /\ a = Zeros /\ b = Zeros
  /\ i = 0 /\ result = {} /\ xor_val = {} /\ diff_count = 0 /\ ret = 0

Returned == loop \in {"none", "verified", "counted"}

\* Mutant: | in place of ^.
BitOr(x, y) == x \cup y

Xor(x, y) == (x \ y) \cup (y \ x)

Call(x, y, function) ==
  /\ Returned
  /\ a' = x /\ b' = y
  /\ loop' = function
  /\ i' = 0 /\ result' = {} /\ xor_val' = {} /\ diff_count' = 0 /\ ret' = 0

---------------------------------------------------------------------------
(* verify_mac                                                              *)

verify_mac(x, y) == Call(x, y, "verify_mac")

\* Mutant: = in place of |=.
Overwrite(r, x) == x

Accumulate(r, x) == r \cup x

CompareByte ==
  /\ loop = "verify_mac" /\ i < Length
  /\ result' = Accumulate(result, Xor(a[i], b[i]))
  /\ i' = i + 1
  /\ UNCHANGED <<loop, a, b, xor_val, diff_count, ret>>

ReturnVerdict ==
  /\ loop = "verify_mac" /\ i = Length
  /\ ret' = IF result = {} THEN 0 ELSE -1
  /\ loop' = "verified"
  /\ UNCHANGED <<a, b, i, result, xor_val, diff_count>>

---------------------------------------------------------------------------
(* count_bit_differences                                                   *)

count_bit_differences(x, y) == Call(x, y, "bytes")

NextByte ==
  /\ loop = "bytes" /\ i < Length
  /\ xor_val' = Xor(a[i], b[i])
  /\ loop' = "bits"
  /\ UNCHANGED <<a, b, i, result, diff_count, ret>>

\* Mutant: no xor_val >>= 1.
NoShift(x) == x

ShiftRight(x) == {k - 1 : k \in x \ {0}}

CountBit ==
  /\ loop = "bits" /\ xor_val # {}
  /\ diff_count' = IF 0 \in xor_val THEN diff_count + 1 ELSE diff_count
  /\ xor_val' = ShiftRight(xor_val)
  /\ UNCHANGED <<loop, a, b, i, result, ret>>

ByteDone ==
  /\ loop = "bits" /\ xor_val = {}
  /\ i' = i + 1
  /\ loop' = "bytes"
  /\ UNCHANGED <<a, b, result, xor_val, diff_count, ret>>

ReturnCount ==
  /\ loop = "bytes" /\ i = Length
  /\ ret' = diff_count
  /\ loop' = "counted"
  /\ UNCHANGED <<a, b, i, result, xor_val, diff_count>>

LoopStep ==
  \/ CompareByte \/ ReturnVerdict
  \/ NextByte \/ CountBit \/ ByteDone \/ ReturnCount

\* The caller has used what was returned.
Leave == loop \in {"verified", "counted"} /\ Call(Zeros, Zeros, "none")

LoopNext ==
  \/ \E x, y \in Arrays : verify_mac(x, y) \/ count_bit_differences(x, y)
  \/ LoopStep
  \/ Leave

LoopSpec == LoopInit /\ [][LoopNext]_loopVars

---------------------------------------------------------------------------
(* Properties                                                              *)

(* Every variable of the loops stays in its domain.                        *)
LoopTypeOK ==
  /\ loop \in {"none", "verify_mac", "verified", "bytes", "bits", "counted"}
  /\ a \in Arrays /\ b \in Arrays
  /\ i \in 0 .. Length
  /\ loop = "bits" => i < Length
  /\ result \subseteq Bits /\ xor_val \subseteq Bits
  /\ diff_count \in Nat /\ ret \in Int

(* verify_mac returns 0 exactly for equal arrays: a difference in any byte *)
(* survives the bytes after it, and it is looked for in every byte,        *)
(* wherever the first difference is.                                       *)
VerifyMacDecides ==
  /\ loop = "verified" => ret = IF a = b THEN 0 ELSE -1
  /\ loop = "verified" => i = Length

(* count_bit_differences returns the number of positions at which the two  *)
(* arrays differ.                                                          *)
Differences ==
  {d \in (0 .. Length - 1) \X Bits : d[2] \in a[d[1]] <=> d[2] \notin b[d[1]]}
CountIsDistance == loop = "counted" => ret = Cardinality(Differences)

===========================================================================
