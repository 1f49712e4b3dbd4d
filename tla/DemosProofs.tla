---------------------------- MODULE DemosProofs ----------------------------
(***************************************************************************)
(* Proofs about the demonstration programs, for any number of flipped bits *)
(* and tests, bytes of any width and arrays of any length: what the byte   *)
(* loops return, what the programs' verdicts rest on, what they show and   *)
(* in which order they write their files.                                  *)
(***************************************************************************)
EXTENDS Demos, FiniteSetTheorems, TLAPS

---------------------------------------------------------------------------

(* Part 1.  The byte loops, for bytes of any width and arrays of any      *)
(* length.                                                                 *)

(* The differences in the first n bytes.                                   *)
Seen(n) == {d \in Differences : d[1] < n}

(* What the loops know half way: verify_mac whether the bytes before i are *)
(* equal, count_bit_differences how many differences they hold, of which   *)
(* those left in xor_val are not counted yet.                              *)
Known ==
  /\ loop = "verify_mac" => (result = {} <=> \A j \in 0 .. i - 1 : a[j] = b[j])
  /\ loop = "bytes" => diff_count = Cardinality(Seen(i))
  /\ loop = "bits" => diff_count + Cardinality(xor_val) = Cardinality(Seen(i + 1))

LoopInv == LoopTypeOK /\ Known /\ VerifyMacDecides /\ CountIsDistance

---------------------------------------------------------------------------
(* The operators                                                           *)

LEMMA BitsFinite ==
  ASSUME NEW S, S \subseteq Bits
  PROVE  IsFiniteSet(S) /\ Cardinality(S) \in Nat
PROOF
<1>1. IsFiniteSet(Bits)
  BY LoopAssumption, FS_Interval DEF Bits
<1> QED
  BY <1>1, FS_Subset, FS_CardinalityType

LEMMA XorIsBits ==
  ASSUME NEW x \in SUBSET Bits, NEW y \in SUBSET Bits
  PROVE  Xor(x, y) \subseteq Bits /\ (Xor(x, y) = {} <=> x = y)
  BY DEF Xor

LEMMA ShiftIsBits ==
  ASSUME NEW x \in SUBSET Bits
  PROVE  ShiftRight(x) \subseteq Bits
  BY LoopAssumption DEF ShiftRight, Bits

(* Shifting drops position 0 and keeps the number of the other ones.       *)
LEMMA ShiftCounts ==
  ASSUME NEW x \in SUBSET Bits
  PROVE  Cardinality(ShiftRight(x)) =
           IF 0 \in x THEN Cardinality(x) - 1 ELSE Cardinality(x)
PROOF
<1> DEFINE rest == x \ {0}
           down == [k \in rest |-> k - 1]
<1>1. rest \subseteq 1 .. Width - 1
  BY LoopAssumption DEF Bits
<1>2. down \in Bijection(rest, ShiftRight(x))
  <2>1. down \in [rest -> ShiftRight(x)]
    BY DEF ShiftRight
  <2>2. \A j, k \in rest : down[j] = down[k] => j = k
    BY <1>1
  <2>3. \A t \in ShiftRight(x) : \E k \in rest : down[k] = t
    BY DEF ShiftRight
  <2> HIDE DEF down, rest
  <2> QED
    BY <2>1, <2>2, <2>3 DEF Bijection, Injection, Surjection, IsInjective
<1>3. IsFiniteSet(x)
  BY BitsFinite
<1>4. /\ IsFiniteSet(rest)
      /\ Cardinality(rest) = IF 0 \in x THEN Cardinality(x) - 1 ELSE Cardinality(x)
  BY <1>3, FS_RemoveElement
<1>5. ExistsBijection(rest, ShiftRight(x))
  BY <1>2 DEF ExistsBijection
<1> HIDE DEF rest
<1> QED
  BY <1>4, <1>5, FS_Bijection

LEMMA DifferencesFinite ==
  ASSUME NEW S, S \subseteq Differences
  PROVE  IsFiniteSet(S) /\ Cardinality(S) \in Nat
PROOF
<1>1. IsFiniteSet(0 .. Length - 1) /\ IsFiniteSet(Bits)
  BY LoopAssumption, FS_Interval DEF Bits
<1>2. IsFiniteSet((0 .. Length - 1) \X Bits)
  BY <1>1, FS_Product
<1>3. S \in SUBSET ((0 .. Length - 1) \X Bits)
  BY DEF Differences
<1> QED
  BY <1>2, <1>3, FS_Subset, FS_CardinalityType

(* The differences in one byte more are those of the byte's ^.             *)
LEMMA SeenGrows ==
  ASSUME LoopTypeOK, i < Length
  PROVE  Cardinality(Seen(i + 1)) = Cardinality(Seen(i)) + Cardinality(Xor(a[i], b[i]))
PROOF
<1> DEFINE x == Xor(a[i], b[i])
           new == {i} \X x
<1>1. i \in 0 .. Length - 1 /\ a[i] \subseteq Bits /\ b[i] \subseteq Bits /\ x \subseteq Bits
  BY LoopAssumption, XorIsBits DEF LoopTypeOK, Arrays
<1>2. \A k : k \in x <=> (k \in a[i] <=> k \notin b[i])
             /\ k \in Bits
  BY <1>1 DEF Xor
<1>3. Seen(i + 1) = Seen(i) \cup new
  <2>1. ASSUME NEW d \in Seen(i + 1) PROVE d \in Seen(i) \cup new
    <3>1. d \in Differences /\ d[1] < i + 1 /\ d[1] \in 0 .. Length - 1 /\ d[2] \in Bits
          /\ d = <<d[1], d[2]>> /\ (d[2] \in a[d[1]] <=> d[2] \notin b[d[1]])
      BY <2>1 DEF Seen, Differences
    <3>2. CASE d[1] < i
      BY <3>1, <3>2 DEF Seen
    <3>3. CASE d[1] = i
      <4>1. d[2] \in x
        BY <3>1, <3>3, <1>2
      <4> QED
        BY <3>1, <3>3, <4>1
    <3> QED
      BY <3>1, <3>2, <3>3, <1>1
  <2>2. ASSUME NEW d \in Seen(i) PROVE d \in Seen(i + 1)
    BY <2>2, <1>1 DEF Seen, Differences
  <2>3. ASSUME NEW d \in new PROVE d \in Seen(i + 1)
    <3>1. PICK k \in x : d = <<i, k>>
      BY <2>3
    <3> HIDE DEF x
    <3>2. d \in (0 .. Length - 1) \X Bits /\ d[1] = i /\ d[2] = k
      BY <3>1, <1>1
    <3>3. d \in Differences
      BY <3>2, <1>2 DEF Differences
    <3> QED
      BY <3>2, <3>3, <1>1 DEF Seen
  <2> QED
    BY <2>1, <2>2, <2>3
<1>4. Seen(i) \cap new = {}
  BY <1>1 DEF Seen
<1>5. IsFiniteSet(new) /\ Cardinality(new) = Cardinality(x)
  <2>1. IsFiniteSet({i}) /\ Cardinality({i}) = 1
    BY FS_Singleton
  <2>2. IsFiniteSet(x) /\ Cardinality(x) \in Nat
    BY <1>1, BitsFinite
  <2> HIDE DEF x
  <2>3. IsFiniteSet(new) /\ Cardinality(new) = 1 * Cardinality(x)
    BY <2>1, <2>2, FS_Product
  <2> QED
    BY <2>2, <2>3
<1>6. IsFiniteSet(Seen(i)) /\ Cardinality(Seen(i)) \in Nat
  BY DifferencesFinite DEF Seen
<1>7. Cardinality(x) \in Nat
  BY <1>1, BitsFinite
<1>8. Cardinality(Seen(i) \cap new) = 0
  BY <1>4, FS_EmptySet
<1> HIDE DEF x, new
<1>9. Cardinality(Seen(i) \cup new) =
        Cardinality(Seen(i)) + Cardinality(new) - Cardinality(Seen(i) \cap new)
  BY <1>5, <1>6, FS_Union
<1>10. Cardinality(Seen(i + 1)) = Cardinality(Seen(i)) + Cardinality(x)
  <2>1. Cardinality(Seen(i + 1)) = Cardinality(Seen(i) \cup new)
    BY <1>3, Zenon
  <2>2. Cardinality(Seen(i)) + Cardinality(new) - Cardinality(Seen(i) \cap new)
          = Cardinality(Seen(i)) + Cardinality(x) - 0
    BY <1>5, <1>8, Zenon
  <2>3. Cardinality(Seen(i)) + Cardinality(x) - 0 = Cardinality(Seen(i)) + Cardinality(x)
    BY <1>6, <1>7
  <2> QED
    BY <2>1, <2>2, <2>3, <1>9, Zenon
<1> QED
  BY <1>10 DEF x

---------------------------------------------------------------------------
(* The invariant                                                           *)

LEMMA LoopInvInit == LoopInit => LoopInv
  BY LoopAssumption DEF LoopInit, LoopInv, LoopTypeOK, Known, VerifyMacDecides,
     CountIsDistance, Zeros, Arrays

LEMMA LoopInvNext == LoopInv /\ [LoopNext]_loopVars => LoopInv'
PROOF
<1> SUFFICES ASSUME LoopInv, [LoopNext]_loopVars PROVE LoopInv'
  OBVIOUS
<1> USE LoopAssumption
<1>1. LoopTypeOK /\ Known /\ VerifyMacDecides /\ CountIsDistance
  BY DEF LoopInv
<1>2. ASSUME NEW x \in Arrays, NEW y \in Arrays, verify_mac(x, y) PROVE LoopInv'
  BY <1>1, <1>2 DEF verify_mac, Call, LoopInv, LoopTypeOK, Known, VerifyMacDecides,
     CountIsDistance
<1>3. ASSUME NEW x \in Arrays, NEW y \in Arrays, count_bit_differences(x, y) PROVE LoopInv'
  <2>1. Seen(0)' = {}
    BY DEF Seen, Differences
  <2>2. Cardinality(Seen(0)') = 0
    BY <2>1, FS_EmptySet
  <2>3. i' = 0 /\ diff_count' = 0 /\ loop' = "bytes"
    BY <1>3 DEF count_bit_differences, Call
  <2>4. LoopTypeOK' /\ VerifyMacDecides' /\ CountIsDistance'
    BY <1>1, <1>3 DEF count_bit_differences, Call, LoopTypeOK, VerifyMacDecides, CountIsDistance
  <2>5. Known'
    BY <2>2, <2>3 DEF Known
  <2> QED
    BY <2>4, <2>5 DEF LoopInv
<1>4. CASE CompareByte
  <2>1. i \in 0 .. Length - 1 /\ a[i] \subseteq Bits /\ b[i] \subseteq Bits
    BY <1>1, <1>4 DEF CompareByte, LoopTypeOK, Arrays
  <2>2. Xor(a[i], b[i]) \subseteq Bits /\ (Xor(a[i], b[i]) = {} <=> a[i] = b[i])
    BY <2>1, XorIsBits
  <2>3. result' = result \cup Xor(a[i], b[i]) /\ i' = i + 1
        /\ loop = "verify_mac" /\ loop' = "verify_mac"
        /\ UNCHANGED <<a, b, xor_val, diff_count, ret>>
    BY <1>4 DEF CompareByte, Accumulate
  <2>4. LoopTypeOK'
    BY <1>1, <2>1, <2>2, <2>3 DEF LoopTypeOK
  <2>5. Known'
    <3>1. result' = {} <=> (result = {} /\ a[i] = b[i])
      BY <2>2, <2>3
    <3>2. result = {} <=> \A j \in 0 .. i - 1 : a[j] = b[j]
      BY <1>1, <2>3 DEF Known
    <3>3. (\A j \in 0 .. i : a[j] = b[j]) <=> (\A j \in 0 .. i - 1 : a[j] = b[j]) /\ a[i] = b[i]
      BY <2>1
    <3>4. i' - 1 = i
      BY <2>1, <2>3
    <3>5. result' = {} <=> \A j \in 0 .. i' - 1 : a'[j] = b'[j]
      BY <3>1, <3>2, <3>3, <3>4, <2>3
    <3> QED
      BY <3>5, <2>3 DEF Known
  <2> QED
    BY <2>3, <2>4, <2>5 DEF LoopInv, VerifyMacDecides, CountIsDistance
<1>5. CASE ReturnVerdict
  <2>1. loop = "verify_mac" /\ i = Length /\ ret' = (IF result = {} THEN 0 ELSE -1)
        /\ loop' = "verified" /\ UNCHANGED <<a, b, i, result, xor_val, diff_count>>
    BY <1>5 DEF ReturnVerdict
  <2>2. result = {} <=> \A j \in 0 .. Length - 1 : a[j] = b[j]
    BY <1>1, <2>1 DEF Known
  <2>3. a = b <=> \A j \in 0 .. Length - 1 : a[j] = b[j]
    BY <1>1 DEF LoopTypeOK, Arrays
  <2>4. ret' = IF a = b THEN 0 ELSE -1
    BY <2>1, <2>2, <2>3
  <2>5. LoopTypeOK'
    BY <1>1, <2>1, <2>4 DEF LoopTypeOK
  <2> QED
    BY <2>1, <2>4, <2>5 DEF LoopInv, Known, VerifyMacDecides, CountIsDistance
<1>6. CASE NextByte
  <2>1. loop = "bytes" /\ i < Length /\ xor_val' = Xor(a[i], b[i]) /\ loop' = "bits"
        /\ UNCHANGED <<a, b, i, result, diff_count, ret>>
    BY <1>6 DEF NextByte
  <2>2. a[i] \subseteq Bits /\ b[i] \subseteq Bits
    BY <1>1, <2>1 DEF LoopTypeOK, Arrays
  <2>3. LoopTypeOK'
    BY <1>1, <2>1, <2>2, XorIsBits DEF LoopTypeOK
  <2>4. diff_count + Cardinality(Xor(a[i], b[i])) = Cardinality(Seen(i + 1))
    BY <1>1, <2>1, SeenGrows DEF Known
  <2>5. Seen(i + 1)' = Seen(i + 1)
    BY <2>1 DEF Seen, Differences
  <2>6. diff_count' + Cardinality(xor_val') = Cardinality(Seen(i + 1)')
    BY <2>1, <2>4, <2>5
  <2>7. Known'
    BY <2>1, <2>6 DEF Known
  <2> QED
    BY <2>1, <2>3, <2>7 DEF LoopInv, VerifyMacDecides, CountIsDistance
<1>7. CASE CountBit
  <2>1. loop = "bits" /\ loop' = "bits" /\ xor_val' = ShiftRight(xor_val)
        /\ diff_count' = (IF 0 \in xor_val THEN diff_count + 1 ELSE diff_count)
        /\ UNCHANGED <<loop, a, b, i, result, ret>>
    BY <1>7 DEF CountBit
  <2>2. xor_val \in SUBSET Bits /\ diff_count \in Nat
    BY <1>1 DEF LoopTypeOK
  <2>3. LoopTypeOK'
    BY <1>1, <2>1, <2>2, ShiftIsBits DEF LoopTypeOK
  <2>4. diff_count + Cardinality(xor_val) = Cardinality(Seen(i + 1))
    BY <1>1, <2>1 DEF Known
  <2>5. Seen(i + 1)' = Seen(i + 1)
    BY <2>1 DEF Seen, Differences
  <2>6. Cardinality(xor_val) \in Nat
    BY <2>2, BitsFinite
  <2>7. diff_count' + Cardinality(xor_val') = diff_count + Cardinality(xor_val)
    BY <2>1, <2>2, <2>6, ShiftCounts
  <2>8. Known'
    BY <2>1, <2>4, <2>5, <2>7 DEF Known
  <2> QED
    BY <2>1, <2>3, <2>8 DEF LoopInv, VerifyMacDecides, CountIsDistance
<1>8. CASE ByteDone
  <2>1. loop = "bits" /\ xor_val = {} /\ i' = i + 1 /\ loop' = "bytes"
        /\ UNCHANGED <<a, b, result, xor_val, diff_count, ret>>
    BY <1>8 DEF ByteDone
  <2>2. LoopTypeOK'
    BY <1>1, <2>1 DEF LoopTypeOK
  <2>3. diff_count + Cardinality(xor_val) = Cardinality(Seen(i + 1)) /\ diff_count \in Nat
    BY <1>1, <2>1 DEF Known, LoopTypeOK
  <2>4. diff_count = Cardinality(Seen(i + 1))
    BY <2>1, <2>3, FS_EmptySet
  <2>5. Seen(i)' = Seen(i + 1)
    BY <2>1 DEF Seen, Differences
  <2>6. Known'
    BY <2>1, <2>4, <2>5 DEF Known
  <2> QED
    BY <2>1, <2>2, <2>6 DEF LoopInv, VerifyMacDecides, CountIsDistance
<1>9. CASE ReturnCount
  <2>1. loop = "bytes" /\ i = Length /\ ret' = diff_count /\ loop' = "counted"
        /\ UNCHANGED <<a, b, i, result, xor_val, diff_count>>
    BY <1>9 DEF ReturnCount
  <2>2. LoopTypeOK'
    BY <1>1, <2>1 DEF LoopTypeOK
  <2>3. diff_count = Cardinality(Seen(Length))
    BY <1>1, <2>1 DEF Known
  <2>4. Seen(Length) = Differences
    BY DEF Seen, Differences
  <2>5. Differences' = Differences
    BY <2>1 DEF Differences
  <2>6. CountIsDistance'
    BY <2>1, <2>3, <2>4, <2>5 DEF CountIsDistance
  <2> QED
    BY <2>1, <2>2, <2>6 DEF LoopInv, Known, VerifyMacDecides
<1>10. CASE Leave
  BY <1>1, <1>10 DEF Leave, Call, Zeros, Arrays, LoopInv, LoopTypeOK, Known, VerifyMacDecides,
     CountIsDistance
<1>11. CASE UNCHANGED loopVars
  BY <1>1, <1>11 DEF loopVars, LoopInv, LoopTypeOK, Known, VerifyMacDecides,
     CountIsDistance, Seen, Differences
<1> QED
  BY <1>2, <1>3, <1>4, <1>5, <1>6, <1>7, <1>8, <1>9, <1>10, <1>11 DEF LoopNext, LoopStep

---------------------------------------------------------------------------
(* What the loops return                                                            *)

LEMMA LoopInvHolds == LoopSpec => []LoopInv
  BY LoopInvInit, LoopInvNext, PTL DEF LoopSpec

(* The variables of the loops stay in their domains, i inside the arrays.  *)
THEOREM LoopsTypeCorrect == LoopSpec => []LoopTypeOK
  BY LoopInvHolds, PTL DEF LoopInv

(* verify_mac decides equality, for macs of every length.                  *)
THEOREM LoopsVerify == LoopSpec => []VerifyMacDecides
  BY LoopInvHolds, PTL DEF LoopInv

(* count_bit_differences counts the differing positions, for bytes of      *)
(* every width and arrays of every length.                                 *)
THEOREM LoopsCount == LoopSpec => []CountIsDistance
  BY LoopInvHolds, PTL DEF LoopInv

---------------------------------------------------------------------------

(* Part 2.  What one step does to a program.                               *)

(* While a loop runs, or its result is to be used, the program stands at   *)
(* the call, and the arrays are equal just if the values are.              *)
LoopLink ==
  loop # "none" =>
    /\ pc \in DOMAIN Script(prog) /\ Now.kind = "loop"
    /\ (a = b) <=> (Vals[1] = Vals[2])

Base == LoopInv /\ LoopLink /\ prog \in Programs /\ DOMAIN mem = Names(prog)

(* What a step does to a program, given the names a statement reads and    *)
(* writes: none of it, a call that succeeds with a value, a call that      *)
(* fails, a comparison.                                                    *)
Unmoved == UNCHANGED <<pc, mem, missed, tainted, verdicts>>

Succeeds(ins, outs, value) ==
  /\ pc' = pc + 1 /\ UNCHANGED verdicts
  /\ DOMAIN mem' = DOMAIN mem
  /\ \A n \in DOMAIN mem : mem'[n] = IF n \in outs THEN value ELSE mem[n]
  /\ missed' = missed \ outs
  /\ tainted' = IF ins \cap tainted = {} THEN tainted \ outs ELSE tainted \cup outs

Misses(outs) ==
  /\ pc' = pc + 1 /\ UNCHANGED <<mem, verdicts>>
  /\ missed' = missed \cup outs /\ tainted' = tainted \cup outs

Shows ==
  /\ pc' = pc + 1 /\ UNCHANGED <<mem, missed, tainted, verdicts>>

Judges(ins, outcome) ==
  /\ pc' = pc + 1 /\ UNCHANGED <<mem, missed, tainted>>
  /\ verdicts' = Append(verdicts, [outcome |-> outcome,
                                   made    |-> ins \cap missed = {},
                                   clean   |-> ins \cap tainted = {}])

---------------------------------------------------------------------------
(* The operators                                                           *)

(* What a statement reads, by the number of its arguments.                 *)
LEMMA OneArgument ==
  ASSUME NEW x, Now.ins = <<x>>
  PROVE  Vals = <<mem[x]>> /\ Vals[1] = mem[x] /\ ToSet(Now.ins) = {x} /\ DOMAIN Vals = {1}
BY DEF Vals, ToSet

LEMMA TwoArguments ==
  ASSUME NEW x, NEW y, Now.ins = <<x, y>>
  PROVE  /\ Vals = <<mem[x], mem[y]>> /\ Vals[1] = mem[x] /\ Vals[2] = mem[y]
         /\ ToSet(Now.ins) = {x, y} /\ DOMAIN Vals = {1, 2}
BY DEF Vals, ToSet

LEMMA ThreeArguments ==
  ASSUME NEW x, NEW y, NEW z, Now.ins = <<x, y, z>>
  PROVE  /\ Vals[1] = mem[x] /\ Vals[2] = mem[y] /\ Vals[3] = mem[z]
         /\ ToSet(Now.ins) = {x, y, z} /\ DOMAIN Vals = {1, 2, 3}
BY DEF Vals, ToSet

LEMMA Assigned ==
  ASSUME NEW value, Assign(value), pc' = pc + 1, UNCHANGED verdicts
  PROVE  Succeeds(ToSet(Now.ins), Now.outs, value)
BY DEF Assign, Succeeds

(* A step executes the statement at pc, or leaves the program where it is. *)
LEMMA Moves ==
  ASSUME Base, [Next]_vars
  PROVE  /\ prog' = prog
         /\ \/ Unmoved
            \/ /\ pc \in DOMAIN Script(prog)
               /\ \/ CallSucceeds \/ CallFails \/ ChangeBuffer \/ ShowBuffers
                  \/ FOpen \/ FWrite \/ Judge \/ LeaveLoop
<1>1. CallSucceeds => pc \in DOMAIN Script(prog) /\ prog' = prog
  BY DEF CallSucceeds, At
<1>2. CallFails => pc \in DOMAIN Script(prog) /\ prog' = prog
  BY DEF CallFails, At
<1>3. ChangeBuffer \/ ShowBuffers \/ FOpen \/ FWrite => pc \in DOMAIN Script(prog) /\ prog' = prog
  BY DEF ChangeBuffer, ShowBuffers, FOpen, FWrite, At
<1>4. Judge => pc \in DOMAIN Script(prog) /\ prog' = prog
  BY DEF Judge, At, Conclude
<1>5. LeaveLoop => pc \in DOMAIN Script(prog) /\ prog' = prog
  BY DEF LeaveLoop, Leave, Conclude, Base, LoopLink
<1>6. Crash \/ Return \/ Kill => Unmoved /\ prog' = prog
  BY DEF Crash, Return, Kill, Unmoved
<1>7. EnterLoop \/ UNCHANGED demoVars => Unmoved /\ prog' = prog
  BY DEF EnterLoop, Unmoved, demoVars
<1>8. UNCHANGED vars => UNCHANGED demoVars
  BY DEF vars
<1> QED
  BY <1>1, <1>2, <1>3, <1>4, <1>5, <1>6, <1>7, <1>8 DEF Next, Step

(* Only the statement's own kind of step executes it.                      *)
LEMMA CallMoves ==
  ASSUME Base, [Next]_vars, Now.kind \in {"dropped", "bare", "or_skip", "or_exit"}
  PROVE  prog' = prog /\ (Unmoved \/ CallSucceeds \/ CallFails)
<1>1. Now.kind \notin {"change", "show", "fopen", "fwrite", "compare", "loop"}
  OBVIOUS
<1>2. ~ChangeBuffer /\ ~ShowBuffers /\ ~FOpen /\ ~FWrite /\ ~Judge
  BY <1>1 DEF ChangeBuffer, ShowBuffers, FOpen, FWrite, Judge, At
<1>3. ~LeaveLoop
  BY <1>1 DEF LeaveLoop, Leave, Base, LoopLink
<1> QED
  BY <1>2, <1>3, Moves

LEMMA VerifyMoves ==
  ASSUME Base, [Next]_vars, Now.kind = "verify"
  PROVE  prog' = prog /\ (Unmoved \/ CallSucceeds \/ CallFails)
<1>1. Now.kind \notin {"change", "show", "fopen", "fwrite", "compare", "loop"}
  OBVIOUS
<1>2. ~ChangeBuffer /\ ~ShowBuffers /\ ~FOpen /\ ~FWrite /\ ~Judge
  BY <1>1 DEF ChangeBuffer, ShowBuffers, FOpen, FWrite, Judge, At
<1>3. ~LeaveLoop
  BY <1>1 DEF LeaveLoop, Leave, Base, LoopLink
<1> QED
  BY <1>2, <1>3, Moves

LEMMA OtherMoves ==
  ASSUME Base, [Next]_vars, pc \in DOMAIN Script(prog), Now.kind \notin Calls
  PROVE  /\ prog' = prog
         /\ Now.kind = "change"  => Unmoved \/ ChangeBuffer
         /\ Now.kind = "show"    => Unmoved \/ ShowBuffers
         /\ Now.kind = "fopen"   => Unmoved \/ FOpen
         /\ Now.kind = "fwrite"  => Unmoved \/ FWrite
         /\ Now.kind = "compare" => Unmoved \/ Judge
         /\ Now.kind = "loop"    => Unmoved \/ LeaveLoop
<1>1. ~CallSucceeds /\ ~CallFails
  BY DEF CallSucceeds, CallFails, At
<1>2. /\ ChangeBuffer => Now.kind = "change"
      /\ ShowBuffers  => Now.kind = "show"
      /\ FOpen        => Now.kind = "fopen"
      /\ FWrite       => Now.kind = "fwrite"
      /\ Judge        => Now.kind = "compare"
  BY DEF ChangeBuffer, ShowBuffers, FOpen, FWrite, Judge, At
<1>3. LeaveLoop => Now.kind = "loop"
  BY DEF LeaveLoop, Leave, Base, LoopLink
<1>4. /\ "change" # "show" /\ "change" # "fopen" /\ "change" # "fwrite" /\ "change" # "compare"
      /\ "change" # "loop" /\ "show" # "fopen" /\ "show" # "fwrite" /\ "show" # "compare"
      /\ "show" # "loop" /\ "fopen" # "fwrite" /\ "fopen" # "compare" /\ "fopen" # "loop"
      /\ "fwrite" # "compare" /\ "fwrite" # "loop" /\ "compare" # "loop"
  OBVIOUS
<1> QED
  BY <1>1, <1>2, <1>3, <1>4, Moves

(* The statements, by their kind.                                          *)
Plain(fn) == fn \notin {"decrypt", "derive", "verify"}

LEMMA Call1 ==
  ASSUME Base, [Next]_vars, NEW kind \in {"dropped", "bare"}, NEW fn, Plain(fn), NEW x, NEW outs,
         Now = Statement(kind, fn, <<x>>, outs)
  PROVE  /\ prog' = prog
         /\ \/ Unmoved \/ Misses(outs)
            \/ mem[x] # Null /\ Succeeds({x}, outs, <<fn, <<mem[x]>>>>)
<1>1. Now.kind = kind /\ Now.fn = fn /\ Now.ins = <<x>> /\ Now.outs = outs
  BY DEF Statement
<1>2. Vals = <<mem[x]>> /\ Vals[1] = mem[x] /\ ToSet(Now.ins) = {x} /\ DOMAIN Vals = {1}
  BY <1>1, OneArgument
<1>3. Result = <<fn, <<mem[x]>>>>
  BY <1>1, <1>2 DEF Result, Plain
<1>4. CallSucceeds => mem[x] # Null /\ Succeeds({x}, outs, <<fn, <<mem[x]>>>>)
  BY <1>1, <1>2, <1>3, Assigned DEF CallSucceeds, Possible
<1>5. CallFails => Misses(outs)
  BY <1>1 DEF CallFails, Misses, Skipped
<1> QED
  BY <1>1, <1>4, <1>5, CallMoves

LEMMA Call2 ==
  ASSUME Base, [Next]_vars, NEW kind \in {"dropped", "bare"}, NEW fn, Plain(fn),
         NEW x, NEW y, NEW outs,
         Now = Statement(kind, fn, <<x, y>>, outs)
  PROVE  /\ prog' = prog
         /\ \/ Unmoved \/ Misses(outs)
            \/ /\ mem[x] # Null /\ mem[y] # Null
               /\ Succeeds({x, y}, outs, <<fn, <<mem[x], mem[y]>>>>)
<1>1. Now.kind = kind /\ Now.fn = fn /\ Now.ins = <<x, y>> /\ Now.outs = outs
  BY DEF Statement
<1>2. /\ Vals = <<mem[x], mem[y]>> /\ Vals[1] = mem[x] /\ Vals[2] = mem[y]
      /\ ToSet(Now.ins) = {x, y} /\ DOMAIN Vals = {1, 2}
  BY <1>1, TwoArguments
<1>3. Result = <<fn, <<mem[x], mem[y]>>>>
  BY <1>1, <1>2 DEF Result, Plain
<1>4. CallSucceeds => /\ mem[x] # Null /\ mem[y] # Null
                      /\ Succeeds({x, y}, outs, <<fn, <<mem[x], mem[y]>>>>)
  BY <1>1, <1>2, <1>3, Assigned DEF CallSucceeds, Possible
<1>5. CallFails => Misses(outs)
  BY <1>1 DEF CallFails, Misses, Skipped
<1> QED
  BY <1>1, <1>4, <1>5, CallMoves

LEMMA Call3 ==
  ASSUME Base, [Next]_vars, NEW kind \in {"dropped", "bare"}, NEW fn, Plain(fn),
         NEW x, NEW y, NEW z, NEW outs, Now = Statement(kind, fn, <<x, y, z>>, outs)
  PROVE  /\ prog' = prog
         /\ \/ Unmoved \/ Misses(outs)
            \/ /\ mem[x] # Null /\ mem[y] # Null /\ mem[z] # Null
               /\ Succeeds({x, y, z}, outs, <<fn, <<mem[x], mem[y], mem[z]>>>>)
<1>1. Now.kind = kind /\ Now.fn = fn /\ Now.ins = <<x, y, z>> /\ Now.outs = outs
  BY DEF Statement
<1>2. /\ Vals = <<mem[x], mem[y], mem[z]>>
      /\ Vals[1] = mem[x] /\ Vals[2] = mem[y] /\ Vals[3] = mem[z]
      /\ ToSet(Now.ins) = {x, y, z} /\ DOMAIN Vals = {1, 2, 3}
  BY <1>1, ThreeArguments DEF Vals
<1>3. Result = <<fn, <<mem[x], mem[y], mem[z]>>>>
  BY <1>1, <1>2 DEF Result, Plain
<1>4. CallSucceeds => /\ mem[x] # Null /\ mem[y] # Null /\ mem[z] # Null
                      /\ Succeeds({x, y, z}, outs, <<fn, <<mem[x], mem[y], mem[z]>>>>)
  BY <1>1, <1>2, <1>3, Assigned DEF CallSucceeds, Possible
<1>5. CallFails => Misses(outs)
  BY <1>1 DEF CallFails, Misses, Skipped
<1> QED
  BY <1>1, <1>4, <1>5, CallMoves

(* EVP_PKEY_decrypt takes only what was encrypted with the key.            *)
LEMMA CallDecrypt ==
  ASSUME Base, [Next]_vars, NEW x, NEW y, NEW outs,
         Now = Dropped("decrypt", <<x, y>>, outs)
  PROVE  /\ prog' = prog
         /\ \/ Unmoved \/ Misses(outs)
            \/ /\ mem[x] # Null /\ mem[y][1] = "encrypt" /\ mem[y][2][1] = mem[x]
               /\ Succeeds({x, y}, outs, mem[y][2][2])
<1>1. Now.kind = "dropped" /\ Now.fn = "decrypt" /\ Now.ins = <<x, y>> /\ Now.outs = outs
  BY DEF Dropped, Statement
<1>2. /\ Vals[1] = mem[x] /\ Vals[2] = mem[y]
      /\ ToSet(Now.ins) = {x, y} /\ DOMAIN Vals = {1, 2}
  BY <1>1, TwoArguments
<1>3. Result = mem[y][2][2]
  BY <1>1, <1>2 DEF Result
<1>4. CallSucceeds => /\ mem[x] # Null /\ mem[y][1] = "encrypt" /\ mem[y][2][1] = mem[x]
                      /\ Succeeds({x, y}, outs, mem[y][2][2])
  BY <1>1, <1>2, <1>3, Assigned DEF CallSucceeds, Possible
<1>5. CallFails => Misses(outs)
  BY <1>1 DEF CallFails, Misses, Skipped
<1> QED
  BY <1>1, <1>4, <1>5, CallMoves

(* EVP_PKEY_derive gives both sides the same secret.                       *)
LEMMA CallDerive ==
  ASSUME Base, [Next]_vars, NEW x, NEW y, NEW outs,
         Now = Dropped("derive", <<x, y>>, outs)
  PROVE  /\ prog' = prog
         /\ \/ Unmoved \/ Misses(outs)
            \/ /\ mem[x] # Null /\ mem[y] # Null
               /\ Succeeds({x, y}, outs, <<"derive", {mem[x], mem[y]}>>)
<1>1. Now.kind = "dropped" /\ Now.fn = "derive" /\ Now.ins = <<x, y>> /\ Now.outs = outs
  BY DEF Dropped, Statement
<1>2. /\ Vals[1] = mem[x] /\ Vals[2] = mem[y]
      /\ ToSet(Now.ins) = {x, y} /\ DOMAIN Vals = {1, 2}
  BY <1>1, TwoArguments
<1>3. ToSet(Vals) = {mem[x], mem[y]}
  BY <1>2 DEF ToSet
<1>4. Result = <<"derive", {mem[x], mem[y]}>>
  BY <1>1, <1>3 DEF Result
<1>5. CallSucceeds => /\ mem[x] # Null /\ mem[y] # Null
                      /\ Succeeds({x, y}, outs, <<"derive", {mem[x], mem[y]}>>)
  BY <1>1, <1>2, <1>4, Assigned DEF CallSucceeds, Possible
<1>6. CallFails => Misses(outs)
  BY <1>1 DEF CallFails, Misses, Skipped
<1> QED
  BY <1>1, <1>5, <1>6, CallMoves

(* EVP_DigestVerify always leaves a result.                                *)
LEMMA CallVerify ==
  ASSUME Base, [Next]_vars, NEW x, NEW y, Now = DigestVerify(x, y)
  PROVE  /\ prog' = prog
         /\ \/ Unmoved
            \/ /\ pc' = pc + 1 /\ UNCHANGED verdicts
               /\ mem' = [mem EXCEPT !["result"] = <<"error">>]
               /\ missed' = missed \cup {"result"} /\ tainted' = tainted \cup {"result"}
            \/ /\ mem[x] # Null /\ mem["signature"] # Null
               /\ Succeeds({"signature", x, y}, {"result"},
                           IF mem["signature"] = <<"sign", <<mem[x], mem[y]>>>>
                           THEN <<"valid">> ELSE <<"invalid">>)
<1> DEFINE valid == IF mem["signature"] = <<"sign", <<mem[x], mem[y]>>>>
                    THEN <<"valid">> ELSE <<"invalid">>
<1>1. /\ Now.kind = "verify" /\ Now.fn = "verify" /\ Now.ins = <<"signature", x, y>>
      /\ Now.outs = {"result"}
  BY DEF DigestVerify, Statement
<1>2. /\ Vals[1] = mem["signature"] /\ Vals[2] = mem[x] /\ Vals[3] = mem[y]
      /\ ToSet(Now.ins) = {"signature", x, y} /\ DOMAIN Vals = {1, 2, 3}
  BY <1>1, ThreeArguments
<1>3. Result = valid
  BY <1>1, <1>2 DEF Result
<1> HIDE DEF valid
<1>4. CallSucceeds => /\ mem[x] # Null /\ mem["signature"] # Null
                      /\ Succeeds({"signature", x, y}, {"result"}, valid)
  BY <1>1, <1>2, <1>3, Assigned DEF CallSucceeds, Possible
<1>5. CallFails =>
        /\ pc' = pc + 1 /\ UNCHANGED verdicts
        /\ mem' = [mem EXCEPT !["result"] = <<"error">>]
        /\ missed' = missed \cup {"result"} /\ tainted' = tainted \cup {"result"}
  BY <1>1 DEF CallFails, Skipped
<1> QED
  BY <1>1, <1>4, <1>5, VerifyMoves DEF valid

(* A checked call that fails passes over the statement after it, or ends   *)
(* the program.                                                            *)
LEMMA CallOrSkip ==
  ASSUME Base, [Next]_vars, pc \in Nat, NEW x, NEW out, Now = calculate_sha256(x, out)
  PROVE  /\ prog' = prog
         /\ \/ Unmoved
            \/ Succeeds({x}, {out}, <<"sha256", <<mem[x]>>>>)
            \/ /\ pc' = pc + 2 /\ UNCHANGED <<mem, verdicts>>
               /\ missed' = missed \cup {out} /\ tainted' = tainted \cup {out}
<1>1. Now.kind = "or_skip" /\ Now.fn = "sha256" /\ Now.ins = <<x>> /\ Now.outs = {out}
  BY DEF calculate_sha256, OrSkip, Statement
<1>2. Vals = <<mem[x]>> /\ ToSet(Now.ins) = {x}
  BY <1>1, OneArgument
<1>3. Result = <<"sha256", <<mem[x]>>>>
  BY <1>1, <1>2 DEF Result
<1>4. CallSucceeds => Succeeds({x}, {out}, <<"sha256", <<mem[x]>>>>)
  BY <1>1, <1>2, <1>3, Assigned DEF CallSucceeds
<1>5. CallFails =>
        /\ pc' = pc + 2 /\ UNCHANGED <<mem, verdicts>>
        /\ missed' = missed \cup {out} /\ tainted' = tainted \cup {out}
  BY <1>1 DEF CallFails, Skipped
<1> QED
  BY <1>1, <1>4, <1>5, CallMoves

LEMMA CallOrExit ==
  ASSUME Base, [Next]_vars, NEW fn, Plain(fn), NEW x, NEW y, NEW outs,
         Now = OrExit(fn, <<x, y>>, outs)
  PROVE  /\ prog' = prog
         /\ \/ Unmoved
            \/ /\ mem[x] # Null /\ mem[y] # Null
               /\ Succeeds({x, y}, outs, <<fn, <<mem[x], mem[y]>>>>)
            \/ /\ code' = 1 /\ UNCHANGED <<pc, mem, verdicts>>
               /\ missed' = missed \cup outs /\ tainted' = tainted \cup outs
<1>1. Now.kind = "or_exit" /\ Now.fn = fn /\ Now.ins = <<x, y>> /\ Now.outs = outs
  BY DEF OrExit, Statement
<1>2. /\ Vals = <<mem[x], mem[y]>> /\ Vals[1] = mem[x] /\ Vals[2] = mem[y]
      /\ ToSet(Now.ins) = {x, y} /\ DOMAIN Vals = {1, 2}
  BY <1>1, TwoArguments
<1>3. Result = <<fn, <<mem[x], mem[y]>>>>
  BY <1>1, <1>2 DEF Result, Plain
<1>4. CallSucceeds => /\ mem[x] # Null /\ mem[y] # Null
                      /\ Succeeds({x, y}, outs, <<fn, <<mem[x], mem[y]>>>>)
  BY <1>1, <1>2, <1>3, Assigned DEF CallSucceeds, Possible
<1>5. CallFails =>
        /\ code' = 1 /\ UNCHANGED <<pc, mem, verdicts>>
        /\ missed' = missed \cup outs /\ tainted' = tainted \cup outs
  BY <1>1 DEF CallFails, Failure
<1> QED
  BY <1>1, <1>4, <1>5, CallMoves

LEMMA ChangeStep ==
  ASSUME Base, [Next]_vars, pc \in DOMAIN Script(prog), NEW fn, Plain(fn), NEW x, NEW y,
         Now = Change(fn, x, y)
  PROVE  prog' = prog /\ (Unmoved \/ Succeeds({x}, {y}, <<fn, <<mem[x]>>>>))
<1>1. Now.kind = "change" /\ Now.fn = fn /\ Now.ins = <<x>> /\ Now.outs = {y}
  BY DEF Change, Statement
<1>2. Vals = <<mem[x]>> /\ ToSet(Now.ins) = {x}
  BY <1>1, OneArgument
<1>3. Result = <<fn, <<mem[x]>>>>
  BY <1>1, <1>2 DEF Result, Plain
<1>4. ChangeBuffer => Succeeds({x}, {y}, <<fn, <<mem[x]>>>>)
  BY <1>1, <1>2, <1>3, Assigned DEF ChangeBuffer
<1> QED
  BY <1>1, <1>4, OtherMoves DEF Calls

LEMMA ShowStep ==
  ASSUME Base, [Next]_vars, pc \in DOMAIN Script(prog), NEW names, Now = Show(names)
  PROVE  prog' = prog /\ (Unmoved \/ Shows)
<1>1. Now.kind = "show"
  BY DEF Show, Statement
<1>2. ShowBuffers => Shows
  BY DEF ShowBuffers, Shows
<1> QED
  BY <1>1, <1>2, OtherMoves DEF Calls

LEMMA OpenStep ==
  ASSUME Base, [Next]_vars, pc \in DOMAIN Script(prog), NEW file, Now = Open(file)
  PROVE  prog' = prog /\ (Unmoved \/ Succeeds({}, {file}, Torn))
<1>1. Now.kind = "fopen" /\ Now.ins = <<>> /\ Now.outs = {file}
  BY DEF Open, Statement
<1>2. ToSet(Now.ins) = {}
  BY <1>1 DEF ToSet
<1>3. FOpen => Succeeds({}, {file}, Torn)
  BY <1>1, <1>2, Assigned DEF FOpen
<1> QED
  BY <1>1, <1>3, OtherMoves DEF Calls

LEMMA WriteStep ==
  ASSUME Base, [Next]_vars, pc \in DOMAIN Script(prog), NEW file, NEW x, Now = Write(file, x)
  PROVE  /\ prog' = prog
         /\ \/ Unmoved \/ Misses({file})
            \/ mem[x] # Null /\ Succeeds({x}, {file}, <<"pem", <<mem[x]>>>>)
<1>1. Now.kind = "fwrite" /\ Now.ins = <<x>> /\ Now.outs = {file}
  BY DEF Write, Statement
<1>2. Vals = <<mem[x]>> /\ Vals[1] = mem[x] /\ ToSet(Now.ins) = {x}
  BY <1>1, OneArgument
<1>3. FWrite => \/ Misses({file})
                \/ mem[x] # Null /\ Succeeds({x}, {file}, <<"pem", <<mem[x]>>>>)
  BY <1>1, <1>2, Assigned DEF FWrite, Misses
<1> QED
  BY <1>1, <1>3, OtherMoves DEF Calls

---------------------------------------------------------------------------
(* Comparisons                                                             *)

LEMMA Concluded ==
  ASSUME NEW outcome, Conclude(outcome)
  PROVE  Judges(ToSet(Now.ins), outcome)
BY DEF Conclude, Judges

LEMMA CompareStep ==
  ASSUME Base, [Next]_vars, pc \in DOMAIN Script(prog), NEW x, NEW y, Now = Compare(x, y)
  PROVE  /\ prog' = prog
         /\ \/ Unmoved
            \/ \E outcome \in BOOLEAN : /\ Judges({x, y}, outcome)
                                        /\ outcome <=> mem[x] = mem[y]
<1>1. Now.kind = "compare" /\ Now.fn = "all" /\ Now.ins = <<x, y>>
  BY DEF Compare, Statement
<1>2. Vals[1] = mem[x] /\ Vals[2] = mem[y] /\ ToSet(Now.ins) = {x, y}
  BY <1>1, TwoArguments
<1>3. Outcomes = {mem[x] = mem[y]}
  BY <1>1, <1>2 DEF Outcomes
<1>4. ASSUME Judge
      PROVE  \E outcome \in BOOLEAN : /\ Judges({x, y}, outcome)
                                      /\ outcome <=> mem[x] = mem[y]
  <2>1. PICK outcome \in {mem[x] = mem[y]} : Conclude(outcome)
    BY <1>3, <1>4 DEF Judge
  <2> QED
    BY <2>1, <1>2, Concluded
<1> QED
  BY <1>1, <1>4, OtherMoves DEF Calls

(* memcmp of as many bytes as a length says that may be uninitialised.     *)
LEMMA CompareUpToStep ==
  ASSUME Base, [Next]_vars, pc \in DOMAIN Script(prog), NEW x, NEW y, NEW z,
         Now = CompareUpTo(x, y, z)
  PROVE  /\ prog' = prog
         /\ \/ Unmoved
            \/ \E outcome \in BOOLEAN :
                 /\ Judges({x, y, z}, outcome)
                 /\ mem[z][1] \notin Stacks => (outcome <=> mem[x] = mem[y])
<1>1. Now.kind = "compare" /\ Now.fn = "up_to" /\ Now.ins = <<x, y, z>>
  BY DEF CompareUpTo, Statement
<1>2. Vals[1] = mem[x] /\ Vals[2] = mem[y] /\ Vals[3] = mem[z] /\ ToSet(Now.ins) = {x, y, z}
  BY <1>1, ThreeArguments
<1>3. Outcomes = IF mem[z][1] \in Stacks THEN BOOLEAN ELSE {mem[x] = mem[y]}
  BY <1>1, <1>2 DEF Outcomes
<1>4. ASSUME Judge
      PROVE  \E outcome \in BOOLEAN :
                 /\ Judges({x, y, z}, outcome)
                 /\ mem[z][1] \notin Stacks => (outcome <=> mem[x] = mem[y])
  <2>1. PICK outcome \in Outcomes : Conclude(outcome)
    BY <1>4 DEF Judge
  <2>2. Judges({x, y, z}, outcome)
    BY <2>1, <1>2, Concluded
  <2>3. outcome \in BOOLEAN /\ (mem[z][1] \notin Stacks => outcome = (mem[x] = mem[y]))
    BY <2>1, <1>3, Zenon
  <2> QED
    BY <2>2, <2>3
<1> QED
  BY <1>1, <1>4, OtherMoves DEF Calls

LEMMA CompareBlockStep ==
  ASSUME Base, [Next]_vars, pc \in DOMAIN Script(prog), NEW x, NEW n \in {2, 4},
         Now = CompareBlock1(x, n)
  PROVE  /\ prog' = prog
         /\ \/ Unmoved
            \/ \E outcome \in BOOLEAN :
                 /\ Judges({x}, outcome)
                 /\ outcome <=> Block(mem[x], 1) = Block(mem[x], n)
<1> DEFINE same == Block(mem[x], 1) = Block(mem[x], n)
<1>1. /\ Now.kind = "compare"
      /\ Now.fn = (IF n = 2 THEN "blocks_1_2" ELSE "blocks_1_4")
      /\ Now.ins = <<x>>
  BY DEF CompareBlock1, Statement
<1>2. Vals[1] = mem[x] /\ ToSet(Now.ins) = {x}
  BY <1>1, OneArgument
<1>3. Outcomes = {same}
  <2>1. CASE n = 2
    BY <1>1, <1>2, <2>1 DEF Outcomes
  <2>2. CASE n = 4
    BY <1>1, <1>2, <2>2 DEF Outcomes
  <2> QED
    BY <2>1, <2>2
<1>4. ASSUME Judge
      PROVE  \E outcome \in BOOLEAN : Judges({x}, outcome) /\ (outcome <=> same)
  <2>1. PICK outcome \in {same} : Conclude(outcome)
    BY <1>3, <1>4 DEF Judge
  <2> QED
    BY <2>1, <1>2, Concluded
<1> QED
  BY <1>1, <1>4, OtherMoves DEF Calls

LEMMA IsValidStep ==
  ASSUME Base, [Next]_vars, pc \in DOMAIN Script(prog), Now = IsValid
  PROVE  /\ prog' = prog
         /\ \/ Unmoved
            \/ \E outcome \in BOOLEAN : /\ Judges({"result"}, outcome)
                                        /\ outcome <=> mem["result"] = <<"valid">>
<1>1. Now.kind = "compare" /\ Now.fn = "valid" /\ Now.ins = <<"result">>
  BY DEF IsValid, Statement
<1>2. Vals[1] = mem["result"] /\ ToSet(Now.ins) = {"result"}
  BY <1>1, OneArgument
<1>3. Outcomes = {mem["result"] = <<"valid">>}
  BY <1>1, <1>2 DEF Outcomes, IsOne
<1>4. ASSUME Judge
      PROVE  \E outcome \in BOOLEAN : /\ Judges({"result"}, outcome)
                                      /\ outcome <=> mem["result"] = <<"valid">>
  <2>1. PICK outcome \in {mem["result"] = <<"valid">>} : Conclude(outcome)
    BY <1>3, <1>4 DEF Judge
  <2> QED
    BY <2>1, <1>2, Concluded
<1> QED
  BY <1>1, <1>4, OtherMoves DEF Calls

LEMMA TerminateStep ==
  ASSUME Base, [Next]_vars, pc \in DOMAIN Script(prog), NEW x, Now = Terminate(x)
  PROVE  /\ prog' = prog
         /\ \/ Unmoved
            \/ \E outcome \in BOOLEAN : /\ Judges({x}, outcome)
                                        /\ outcome <=> mem[x] # <<"dec_len">>
<1> DEFINE inside == mem[x] # <<"dec_len">>
<1>1. Now.kind = "compare" /\ Now.fn = "inside" /\ Now.ins = <<x>>
  BY DEF Terminate, Statement
<1>2. Vals[1] = mem[x] /\ ToSet(Now.ins) = {x}
  BY <1>1, OneArgument
<1>3. Outcomes = {inside}
  BY <1>1, <1>2 DEF Outcomes
<1>4. ASSUME Judge
      PROVE  \E outcome \in BOOLEAN : Judges({x}, outcome) /\ (outcome <=> inside)
  <2>1. PICK outcome \in {inside} : Conclude(outcome)
    BY <1>3, <1>4 DEF Judge
  <2> QED
    BY <2>1, <1>2, Concluded
<1> QED
  BY <1>1, <1>4, OtherMoves DEF Calls

(* Both loops tell whether the arrays are equal, hence the values.         *)
LEMMA LoopEquality ==
  ASSUME LoopInv, loop \in {"verified", "counted"}
  PROVE  (ret = 0) <=> (a = b)
<1>1. a \in Arrays /\ b \in Arrays /\ ret \in Int
  BY DEF LoopInv, LoopTypeOK
<1>0. ASSUME \A j \in 0 .. Length - 1 : a[j] = b[j]
      PROVE  a = b
  <2>1. a = [j \in 0 .. Length - 1 |-> a[j]] /\ b = [j \in 0 .. Length - 1 |-> b[j]]
    BY <1>1, Zenon DEF Arrays
  <2>2. [j \in 0 .. Length - 1 |-> a[j]] = [j \in 0 .. Length - 1 |-> b[j]]
    BY <1>0, Zenon
  <2> QED
    BY <2>1, <2>2, Zenon
<1>2. CASE loop = "verified"
  BY <1>2 DEF LoopInv, VerifyMacDecides
<1>3. CASE loop = "counted"
  <2>1. ret = Cardinality(Differences)
    BY <1>3 DEF LoopInv, CountIsDistance
  <2>2. IsFiniteSet(Differences)
    BY DifferencesFinite
  <2>3. Cardinality(Differences) = 0 <=> Differences = {}
    BY <2>2, FS_EmptySet
  <2>4. a = b => Differences = {}
    BY DEF Differences
  <2>5. ASSUME Differences = {}
        PROVE  a = b
    <3>1. ASSUME NEW j \in 0 .. Length - 1
          PROVE  a[j] = b[j]
      <4>1. a[j] \subseteq Bits /\ b[j] \subseteq Bits
        BY <1>1 DEF Arrays
      <4>2. ASSUME NEW k \in Bits, ~(k \in a[j] <=> k \in b[j])
            PROVE  FALSE
        <5>1. <<j, k>> \in Differences
          BY <4>2 DEF Differences
        <5> QED
          BY <5>1, <2>5
      <4> QED
        BY <4>1, <4>2
    <3>2. \A j \in 0 .. Length - 1 : a[j] = b[j]
      BY <3>1
    <3> QED
      BY <3>2, <1>0
  <2> QED
    BY <2>1, <2>3, <2>4, <2>5
<1> QED
  BY <1>2, <1>3

LEMMA LoopStepped ==
  ASSUME Base, [Next]_vars, pc \in DOMAIN Script(prog), NEW fn, NEW x, NEW y, Now = Loop(fn, x, y)
  PROVE  /\ prog' = prog
         /\ \/ Unmoved
            \/ \E outcome \in BOOLEAN : /\ Judges({x, y}, outcome)
                                        /\ outcome <=> mem[x] = mem[y]
<1>1. Now.kind = "loop" /\ Now.ins = <<x, y>>
  BY DEF Loop, Statement
<1>2. Vals[1] = mem[x] /\ Vals[2] = mem[y] /\ ToSet(Now.ins) = {x, y}
  BY <1>1, TwoArguments
<1>3. ASSUME LeaveLoop
      PROVE  Judges({x, y}, ret = 0) /\ (ret = 0 <=> mem[x] = mem[y])
  <2>1. loop \in {"verified", "counted"} /\ Conclude(ret = 0)
    BY <1>3 DEF LeaveLoop, Leave
  <2>2. ret = 0 <=> mem[x] = mem[y]
    BY <1>2, <2>1, LoopEquality DEF Base, LoopLink
  <2>3. Judges({x, y}, ret = 0)
    BY <1>2, <2>1, Concluded
  <2> QED
    BY <2>2, <2>3
<1>4. (ret = 0) \in BOOLEAN
  OBVIOUS
<1>5. LeaveLoop => \E outcome \in BOOLEAN : /\ Judges({x, y}, outcome)
                                            /\ outcome <=> mem[x] = mem[y]
  BY <1>3, <1>4
<1> QED
  BY <1>1, <1>5, OtherMoves DEF Calls

---------------------------------------------------------------------------
(* The verdicts                                                            *)

Verdict == [outcome : BOOLEAN, made : BOOLEAN, clean : BOOLEAN]

Claim(p, v) ==
  v.outcome => /\ p \in {"rsa_encrypt", "rsa_sign", "ecdsa_sign"} => v.clean
               /\ p = "key_derivation" => v.made

Sound ==
  /\ verdicts \in Seq(Verdict)
  /\ \A k \in DOMAIN verdicts : /\ verdicts[k].clean => verdicts[k].outcome = Documented(prog)[k]
                                /\ Claim(prog, verdicts[k])

LEMMA StaysSound ==
  ASSUME Sound, prog' = prog, verdicts' = verdicts
  PROVE  Sound' /\ Len(verdicts') = Len(verdicts)
BY DEF Sound, Claim

LEMMA JudgedSound ==
  ASSUME Sound, prog' = prog, NEW ins, NEW outcome \in BOOLEAN, Judges(ins, outcome),
         ins \cap tainted = {} => outcome = Documented(prog)[Len(verdicts) + 1],
         outcome => /\ prog \in {"rsa_encrypt", "rsa_sign", "ecdsa_sign"} => ins \cap tainted = {}
                    /\ prog = "key_derivation" => ins \cap missed = {}
  PROVE  Sound' /\ Len(verdicts') = Len(verdicts) + 1
<1> DEFINE v == [outcome |-> outcome, made |-> ins \cap missed = {},
        clean |-> ins \cap tainted = {}]
<1>1. v \in Verdict /\ v.outcome = outcome /\ v.clean = (ins \cap tainted = {})
      /\ v.made = (ins \cap missed = {})
  BY DEF Verdict
<1>2. verdicts' = Append(verdicts, v) /\ verdicts \in Seq(Verdict)
  BY DEF Judges, Sound
<1> HIDE DEF v
<1>3. /\ verdicts' \in Seq(Verdict) /\ Len(verdicts') = Len(verdicts) + 1
      /\ DOMAIN verdicts' = 1 .. Len(verdicts) + 1 /\ DOMAIN verdicts = 1 .. Len(verdicts)
      /\ verdicts'[Len(verdicts) + 1] = v
      /\ \A k \in 1 .. Len(verdicts) : verdicts'[k] = verdicts[k]
      /\ Len(verdicts) \in Nat
  BY <1>1, <1>2
<1>4. Claim(prog, v) /\ (v.clean => v.outcome = Documented(prog)[Len(verdicts) + 1])
  BY <1>1 DEF Claim
<1>5. ASSUME NEW k \in DOMAIN verdicts'
      PROVE  /\ verdicts'[k].clean => verdicts'[k].outcome = Documented(prog)[k]
             /\ Claim(prog, verdicts'[k])
  <2>1. CASE k \in 1 .. Len(verdicts)
    BY <1>3, <2>1 DEF Sound, Claim
  <2>2. CASE k = Len(verdicts) + 1
    BY <1>3, <1>4, <2>2 DEF Claim
  <2> QED
    BY <1>3, <2>1, <2>2
<1> QED
  BY <1>3, <1>5 DEF Sound

---------------------------------------------------------------------------
(* The scripts                                                             *)

LEMMA ScriptOf ==
  /\ Script("hash_demo") = hash_demo /\ Script("avalanche") = avalanche
  /\ Script("hmac_demo") = hmac_demo /\ Script("key_derivation") = key_derivation
  /\ Script("ecb_vs_cbc") = ecb_vs_cbc /\ Script("rsa_keygen") = rsa_keygen
  /\ Script("rsa_encrypt") = rsa_encrypt /\ Script("ecdh_exchange") = ecdh_exchange
  /\ Script("rsa_sign") = rsa_sign /\ Script("ecdsa_sign") = ecdsa_sign
  /\ Script("self_cert") = self_cert /\ Script("cmac_demo") = cmac_demo
BY DEF Script

LEMMA NamesHas ==
  ASSUME NEW p, NEW k \in DOMAIN Script(p)
  PROVE  /\ \A j \in DOMAIN Script(p)[k].ins : Script(p)[k].ins[j] \in Names(p)
         /\ Script(p)[k].kind \in Calls =>
              Script(p)[k].outs \subseteq Names(p) /\ Script(p)[k].outs \subseteq Unwritten(p)
         /\ Script(p)[k].kind \in {"change", "fopen"} => Script(p)[k].outs \subseteq Names(p)
         /\ Script(p)[k].kind = "fopen" => Script(p)[k].outs \subseteq Files(p)
<1>1. /\ Script(p)[k].kind \in Calls => Script(p)[k].outs \subseteq Unwritten(p)
      /\ Script(p)[k].kind = "fopen" => Script(p)[k].outs \subseteq Files(p)
  BY DEF Unwritten, Files, Outs
<1>2. Script(p)[k].kind \in Calls \cup {"change", "fopen"} => Script(p)[k].outs \subseteq Names(p)
  BY DEF Names, Outs
<1>3. \A j \in DOMAIN Script(p)[k].ins : Script(p)[k].ins[j] \in Names(p)
  BY DEF Names, ToSet
<1> QED
  BY <1>1, <1>2, <1>3

Unset(name) == {Zero, <<"junk", name>>}

LEMMA Beginning ==
  ASSUME Init
  PROVE  /\ pc = 1 /\ verdicts = <<>> /\ code = 2
         /\ tainted = Unwritten(prog) /\ missed = Unwritten(prog)
         /\ DOMAIN mem = Names(prog)
         /\ \A name \in Names(prog) :
              /\ name \in Objects => mem[name] = Null
              /\ name \in Files(prog) \ Objects => mem[name] = Old
              /\ name \notin Objects \cup Files(prog) \cup Unwritten(prog) => mem[name] = <<name>>
              /\ name \in Preset \ (Objects \cup Files(prog)) => mem[name] = <<name>>
              /\ name \in Unwritten(prog) \ (Objects \cup Files(prog) \cup Preset) =>
                   mem[name] \in Unset(name)
<1>1. PICK stack \in Stacks : mem = [name \in Names(prog) |-> Initially(prog, stack, name)]
  BY DEF Init
<1>2. \A name \in Names(prog) : mem[name] = Initially(prog, stack, name)
  BY <1>1
<1>3. DOMAIN mem = Names(prog)
  BY <1>1
<1> QED
  BY <1>2, <1>3 DEF Init, Initially, Unset

(* The machine keeps the loops' invariant and their link to the values.    *)
LEMMA BaseInit == Init => Base
<1> SUFFICES ASSUME Init PROVE Base
  OBVIOUS
<1>1. LoopInv
  BY LoopInvInit DEF Init
<1>2. LoopLink
  BY DEF Init, LoopInit, LoopLink
<1>3. prog \in Programs
  BY DEF Init
<1> QED
  BY <1>1, <1>2, <1>3, Beginning DEF Base

LEMMA LoopsMove == [Next]_vars => [LoopNext]_loopVars
<1>1. CallSucceeds \/ CallFails \/ Crash \/ ChangeBuffer \/ ShowBuffers \/ FOpen \/ FWrite
      \/ Judge \/ Return \/ Kill \/ UNCHANGED vars => UNCHANGED loopVars
  BY DEF CallSucceeds, CallFails, Crash, ChangeBuffer, ShowBuffers, FOpen, FWrite, Judge,
         Return, Kill, vars
<1>2. EnterLoop => LoopNext
  BY SampleAssumption DEF EnterLoop, LoopNext
<1>3. LoopStep \/ LeaveLoop => LoopNext
  BY DEF LoopNext, LeaveLoop
<1> QED
  BY <1>1, <1>2, <1>3 DEF Next, Step

LEMMA LinkKept ==
  ASSUME Base, [Next]_vars
  PROVE  LoopLink'
<1>1. CASE EnterLoop
  BY <1>1 DEF EnterLoop, At, demoVars, LoopLink, Now, Vals, verify_mac, count_bit_differences,
     Call
<1>2. CASE LoopStep /\ UNCHANGED demoVars
  <2>1. loop # "none" /\ UNCHANGED <<a, b>>
    BY <1>2 DEF LoopStep, CompareByte, ReturnVerdict, NextByte, CountBit, ByteDone, ReturnCount
  <2> QED
    BY <1>2, <2>1 DEF Base, LoopLink, demoVars, Now, Vals
<1>3. CASE LeaveLoop
  BY <1>3 DEF LeaveLoop, Leave, Call, LoopLink
<1>4. CASE Crash \/ Return \/ Kill \/ UNCHANGED vars
  <2>1. UNCHANGED <<loop, a, b, prog, pc, mem>>
    BY <1>4 DEF Crash, Return, Kill, vars, loopVars, demoVars
  <2> QED
    BY <2>1 DEF Base, LoopLink, Now, Vals
<1>5. CASE CallSucceeds \/ CallFails \/ ChangeBuffer \/ ShowBuffers \/ FOpen \/ FWrite \/ Judge
  <2>1. loop' = loop
    BY <1>5 DEF CallSucceeds, CallFails, ChangeBuffer, ShowBuffers, FOpen, FWrite, Judge, loopVars
  <2>2. Now.kind # "loop"
    BY <1>5 DEF CallSucceeds, CallFails, ChangeBuffer, ShowBuffers, FOpen, FWrite, Judge, At,
       Calls
  <2> QED
    BY <2>1, <2>2 DEF Base, LoopLink
<1> QED
  BY <1>1, <1>2, <1>3, <1>4, <1>5 DEF Next, Step

LEMMA NamesKept ==
  ASSUME Base, [Next]_vars
  PROVE  DOMAIN mem' = DOMAIN mem
<1>1. CASE Unmoved
  BY <1>1 DEF Unmoved
<1>2. CASE CallSucceeds \/ ChangeBuffer \/ FOpen \/ FWrite
  BY <1>2 DEF CallSucceeds, ChangeBuffer, FOpen, FWrite, Assign
<1>3. CASE CallFails
  BY <1>3 DEF CallFails
<1>4. CASE ShowBuffers \/ Judge \/ LeaveLoop
  BY <1>4 DEF ShowBuffers, Judge, LeaveLoop, Conclude
<1> QED
  BY <1>1, <1>2, <1>3, <1>4, Moves

LEMMA BaseNext ==
  ASSUME Base, [Next]_vars
  PROVE  Base' /\ prog' = prog
<1>1. LoopInv'
  BY LoopInvNext, LoopsMove DEF Base
<1>2. prog' = prog
  BY Moves
<1> QED
  BY <1>1, <1>2, LinkKept, NamesKept DEF Base

(* A step executes at most the statement at pc; a checked call that fails  *)
(* passes over one more.                                                   *)
LEMMA Strides ==
  ASSUME Base, [Next]_vars, pc \in Nat
  PROVE  /\ pc' \in {pc, pc + 1} \/ (Now.kind = "or_skip" /\ pc' = pc + 2)
         /\ Now.kind \notin {"compare", "loop"} => verdicts' = verdicts
<1>1. CASE Unmoved
  BY <1>1 DEF Unmoved
<1>2. CASE CallSucceeds \/ ChangeBuffer \/ FOpen \/ FWrite \/ ShowBuffers
  BY <1>2 DEF CallSucceeds, ChangeBuffer, FOpen, FWrite, ShowBuffers
<1>3. CASE CallFails
  <2>1. verdicts' = verdicts /\ (pc' = pc \/ pc' = pc + Skipped(Now.kind))
    BY <1>3 DEF CallFails
  <2> QED
    BY <2>1 DEF Skipped
<1>4. CASE Judge
  BY <1>4 DEF Judge, Conclude, At
<1>5. CASE LeaveLoop
  <2>1. pc' = pc + 1 /\ Now.kind = "loop"
    BY <1>5 DEF LeaveLoop, Leave, Conclude, Base, LoopLink
  <2> QED
    BY <2>1
<1> QED
  BY <1>1, <1>2, <1>3, <1>4, <1>5, Moves

(* A program ends at the end of its script.                                *)
Ended == code = 0 => pc \notin DOMAIN Script(prog)

LEMMA EndedKept ==
  ASSUME Base, Ended, [Next]_vars
  PROVE  Ended'
<1>0. prog' = prog
  BY Moves
<1>1. CASE Return
  BY <1>1 DEF Return, Ended
<1>2. CASE Crash \/ Kill
  BY <1>2 DEF Crash, Kill, Ended
<1>3. CASE CallFails
  BY <1>3 DEF CallFails, Ended, At, Failure
<1>4. CASE CallSucceeds \/ ChangeBuffer \/ FOpen \/ FWrite \/ ShowBuffers \/ Judge
  BY <1>4 DEF CallSucceeds, ChangeBuffer, FOpen, FWrite, ShowBuffers, Judge, Conclude, At, Ended
<1>5. CASE EnterLoop \/ UNCHANGED demoVars
  BY <1>5 DEF EnterLoop, demoVars, Ended
<1>6. CASE LeaveLoop
  <2>1. pc \in DOMAIN Script(prog) /\ code' = code
    BY <1>6 DEF LeaveLoop, Leave, Conclude, Base, LoopLink
  <2> QED
    BY <2>1 DEF Ended
<1>7. UNCHANGED vars => UNCHANGED demoVars
  BY DEF vars
<1> QED
  BY <1>1, <1>2, <1>3, <1>4, <1>5, <1>6, <1>7 DEF Next, Step

(* What the statements are made of.                                        *)
Made(s, kind, outs) == s.kind = kind /\ s.outs = outs

LEMMA Fields ==
  /\ \A fn, ins, outs : Made(Dropped(fn, ins, outs), "dropped", outs)
  /\ \A fn, ins, outs : Made(Bare(fn, ins, outs), "bare", outs)
  /\ \A fn, ins, outs : Made(OrExit(fn, ins, outs), "or_exit", outs)
  /\ \A x, y : Made(calculate_sha256(x, y), "or_skip", {y})
  /\ \A x, y : Made(DigestVerify(x, y), "verify", {"result"})
  /\ \A fn, x, y : Made(Change(fn, x, y), "change", {y})
  /\ \A names : Made(Show(names), "show", {})
  /\ \A x, y : Made(Compare(x, y), "compare", {})
  /\ \A x, y, z : Made(CompareUpTo(x, y, z), "compare", {})
  /\ \A x, n : Made(CompareBlock1(x, n), "compare", {})
  /\ Made(IsValid, "compare", {})
  /\ \A x : Made(Terminate(x), "compare", {})
  /\ \A fn, x, y : Made(Loop(fn, x, y), "loop", {})
  /\ \A x : Made(Open(x), "fopen", {x})
  /\ \A x, y : Made(Write(x, y), "fwrite", {x})
BY DEF Made, Dropped, Bare, OrExit, calculate_sha256, OrSkip, DigestVerify, Change, Show, Compare,
   CompareUpTo, CompareBlock1, IsValid, Terminate, Loop, Open, Write, Statement

---------------------------------------------------------------------------
(* Facts about a name: it is an input that no statement writes; it holds   *)
(* the value the program means it to have, unless it is tainted.           *)
Given(name) == name \in DOMAIN mem \ tainted /\ mem[name] = <<name>>
Is(name, value) == name \in DOMAIN mem /\ (name \in tainted \/ mem[name] = value)

LEMMA Inputs ==
  ASSUME Init, NEW name \in Names(prog), name \notin Objects \cup Unwritten(prog) \cup Files(prog)
  PROVE  Given(name)
BY Beginning DEF Given

LEMMA Outputs ==
  ASSUME Init, NEW name \in Unwritten(prog), name \in Names(prog)
  PROVE  name \in DOMAIN mem /\ name \in tainted /\ name \in missed
BY Beginning

---------------------------------------------------------------------------
(* What the programs' own text says                                        *)

LEMMA Documents ==
  /\ Documented("hmac_demo")[1] = TRUE /\ Documented("hmac_demo")[2] = FALSE
  /\ Documented("hmac_demo")[3] = FALSE
  /\ Documented("key_derivation")[1] = TRUE /\ Documented("key_derivation")[2] = FALSE
  /\ Documented("ecb_vs_cbc")[1] = TRUE /\ Documented("ecb_vs_cbc")[2] = TRUE
  /\ Documented("ecb_vs_cbc")[3] = FALSE /\ Documented("ecb_vs_cbc")[4] = FALSE
  /\ Documented("rsa_encrypt")[1] = TRUE /\ Documented("rsa_encrypt")[2] = TRUE
  /\ Documented("ecdh_exchange")[1] = TRUE
  /\ Documented("rsa_sign")[1] = TRUE /\ Documented("rsa_sign")[2] = FALSE
  /\ Documented("ecdsa_sign")[1] = TRUE
  /\ Documented("cmac_demo")[1] = TRUE /\ Documented("cmac_demo")[2] = FALSE
BY DEF Documented

LEMMA DocumentLengths ==
  /\ Len(Documented("hash_demo")) = 0 /\ Len(Documented("hmac_demo")) = 3
  /\ Len(Documented("key_derivation")) = 2 /\ Len(Documented("ecb_vs_cbc")) = 4
  /\ Len(Documented("rsa_keygen")) = 0 /\ Len(Documented("rsa_encrypt")) = 2
  /\ Len(Documented("ecdh_exchange")) = 1 /\ Len(Documented("rsa_sign")) = 2
  /\ Len(Documented("ecdsa_sign")) = 1 /\ Len(Documented("self_cert")) = 0
  /\ Len(Documented("cmac_demo")) = 2
BY DEF Documented

LEMMA JudgedTrue == 
  ASSUME Sound, prog' = prog, NEW ins, NEW outcome \in BOOLEAN, Judges(ins, outcome),
         Documented(prog)[Len(verdicts) + 1] = TRUE,
         ins \cap tainted = {} => outcome,
         outcome => /\ prog \in {"rsa_encrypt", "rsa_sign", "ecdsa_sign"} => ins \cap tainted = {}
                    /\ prog = "key_derivation" => ins \cap missed = {}
  PROVE  Sound' /\ Len(verdicts') = Len(verdicts) + 1
<1>1. ins \cap tainted = {} => outcome = Documented(prog)[Len(verdicts) + 1]
  <2>1. outcome => outcome = TRUE
    OBVIOUS
  <2> QED BY <2>1, Zenon
<1>3. QED
  BY <1>1, JudgedSound, Zenon

LEMMA JudgedFalse == 
  ASSUME Sound, prog' = prog, NEW ins, NEW outcome \in BOOLEAN, Judges(ins, outcome),
         Documented(prog)[Len(verdicts) + 1] = FALSE,
         ins \cap tainted = {} => ~outcome,
         outcome => /\ prog \in {"rsa_encrypt", "rsa_sign", "ecdsa_sign"} => ins \cap tainted = {}
                    /\ prog = "key_derivation" => ins \cap missed = {}
  PROVE  Sound' /\ Len(verdicts') = Len(verdicts) + 1
<1>1. ins \cap tainted = {} => outcome = Documented(prog)[Len(verdicts) + 1]
  <2>1. ~outcome => outcome = FALSE
    OBVIOUS
  <2> QED BY <2>1, Zenon
<1>3. QED
  BY <1>1, JudgedSound, Zenon

(* A name holds the value unless it is tainted, and then one of the others.*)
Holds(name, value, others) ==
  /\ name \in DOMAIN mem
  /\ IF name \in tainted THEN mem[name] \in others ELSE mem[name] = value

---------------------------------------------------------------------------

(* Part 3.  The programs.  For each: its statements, what it writes, its   *)
(* invariant, and that every step keeps it and the verdicts sound.         *)

LEMMA HashDemoScript ==
  /\ DOMAIN Script("hash_demo") = 1 .. 16
  /\ \A n \in 1 .. 16 :
       /\ n % 2 = 0 => Script("hash_demo")[n] = Show(<<"hash">>)
       /\ n % 2 # 0 /\ n < 10 =>
            Script("hash_demo")[n] = calculate_sha256(test_strings[(n + 1) \div 2], "hash")
       /\ n % 2 # 0 /\ n >= 10 =>
              Script("hash_demo")[n] = Dropped("sha256", <<"same_input">>, {"hash"})
BY ScriptOf DEF hash_demo, sha256

LEMMA HashDemoKinds ==
  ASSUME NEW n \in DOMAIN Script("hash_demo")
  PROVE  /\ Script("hash_demo")[n].kind \in {"show", "or_skip", "dropped"}
         /\ Script("hash_demo")[n].kind = "or_skip" => n % 2 # 0 /\ n < 10
<1>1. n \in 1 .. 16
  BY HashDemoScript
<1> QED
  BY <1>1, HashDemoScript, Fields DEF Made

HashDemoInv == pc \in 1 .. 17 /\ Len(verdicts) = 0

LEMMA HashDemoInit ==
  ASSUME Init
  PROVE  HashDemoInv
BY Beginning DEF HashDemoInv

LEMMA HashDemoNext ==
  ASSUME Base, Sound, prog = "hash_demo", HashDemoInv, [Next]_vars
  PROVE  HashDemoInv' /\ Sound'
<1>0. prog' = prog /\ pc \in Nat
  BY Moves DEF HashDemoInv
<1>1. CASE pc \in 1 .. 16
  <2>1. Now.kind \in {"show", "or_skip", "dropped"} /\ (Now.kind = "or_skip" => pc < 10)
    BY <1>1, HashDemoScript, HashDemoKinds DEF Now
  <2>2. verdicts' = verdicts /\ (pc' \in {pc, pc + 1} \/ (Now.kind = "or_skip" /\ pc' = pc + 2))
    BY <1>0, <2>1, Strides
  <2> QED
    BY <1>0, <1>1, <2>1, <2>2, StaysSound, SMTT(60) DEF HashDemoInv
<1>2. CASE pc = 17
  <2>1. Unmoved
    BY <1>2, HashDemoScript, Moves
  <2> QED
    BY <1>0, <2>1, StaysSound DEF Unmoved, HashDemoInv
<1> QED
  BY <1>1, <1>2 DEF HashDemoInv

(* avalanche's statements come in rounds: after the first two, four for    *)
(* every bit that is flipped, then five for every test.                    *)
LastFlip == 2 + 4 * Flips
AtFlip(n) == (n - 3) % 4
AtTest(n) == (n - LastFlip - 1) % 5

(* How many comparisons are behind a program that stands at n.             *)
Compared(n) ==
  IF n = 1 THEN 0
  ELSE IF n <= LastFlip THEN (n - 2) \div 4
  ELSE Flips + ((n - LastFlip - 1) \div 5)

LEMMA FlipRounds ==
  ASSUME NEW n \in 3 .. LastFlip
  PROVE  /\ AtFlip(n) \in 0 .. 3
         /\ AtFlip(n) < 3 => n < LastFlip /\ AtFlip(n + 1) = AtFlip(n) + 1
         /\ AtFlip(n) = 3 /\ n < LastFlip => AtFlip(n + 1) = 0
         /\ AtFlip(n) # 2 => Compared(n + 1) = Compared(n)
         /\ AtFlip(n) = 2 => Compared(n + 1) = Compared(n) + 1 /\ Compared(n) + 1 \in 1 .. Flips
<1> USE RoundsAssumption
<1>1. PICK q \in Nat, r \in 0 .. 3 : n = 3 + 4 * q + r
  <2>1. n - 3 \in Nat
    OBVIOUS
  <2>2. /\ (n - 3) \div 4 \in Nat /\ (n - 3) % 4 \in 0 .. 3
        /\ n - 3 = 4 * ((n - 3) \div 4) + ((n - 3) % 4)
    BY <2>1
  <2> QED
    BY <2>2
<1>2. AtFlip(n) = r
  BY <1>1 DEF AtFlip
<1>3. r < 3 => AtFlip(n + 1) = r + 1
  BY <1>1 DEF AtFlip
<1>4. r = 3 => AtFlip(n + 1) = 0
  BY <1>1 DEF AtFlip
<1>5. r < 3 => n < LastFlip
  BY <1>1 DEF LastFlip
<1>6. Compared(n) = IF r = 3 THEN q + 1 ELSE q
  BY <1>1 DEF Compared, LastFlip
<1>7. Compared(n + 1) = IF r < 2 THEN q ELSE q + 1
  BY <1>1 DEF Compared, LastFlip
<1>8. q + 1 \in 1 .. Flips
  BY <1>1 DEF LastFlip
<1> QED
  BY <1>1, <1>2, <1>3, <1>4, <1>5, <1>6, <1>7, <1>8

LEMMA TestRounds ==
  ASSUME NEW n \in LastFlip + 1 .. LastFlip + 5 * Tests
  PROVE  /\ AtTest(n) \in 0 .. 4
         /\ AtTest(n) < 4 => n < LastFlip + 5 * Tests /\ AtTest(n + 1) = AtTest(n) + 1
         /\ AtTest(n) = 4 => AtTest(n + 1) = 0
         /\ AtTest(n) # 4 => Compared(n + 1) = Compared(n)
         /\ AtTest(n) = 4 => Compared(n + 1) = Compared(n) + 1
         /\ Compared(n) + 1 \in 1 .. Flips + Tests
<1> USE RoundsAssumption
<1>1. PICK q \in Nat, r \in 0 .. 4 : n - LastFlip - 1 = 5 * q + r
  <2> DEFINE m == n - LastFlip - 1
  <2>1. m \in Nat
    BY DEF LastFlip
  <2> HIDE DEF m
  <2>2. m \div 5 \in Nat /\ m % 5 \in 0 .. 4 /\ m = 5 * (m \div 5) + (m % 5)
    BY <2>1
  <2> QED
    BY <2>2 DEF m
<1>2. AtTest(n) = r
  BY <1>1 DEF AtTest
<1>3. AtTest(n + 1) = IF r = 4 THEN 0 ELSE r + 1
  BY <1>1 DEF AtTest, LastFlip
<1>4. r < 4 => n < LastFlip + 5 * Tests
  BY <1>1 DEF LastFlip
<1>5. Compared(n) = Flips + q
  BY <1>1 DEF Compared, LastFlip
<1>6. Compared(n + 1) = IF r = 4 THEN Flips + q + 1 ELSE Flips + q
  BY <1>1 DEF Compared, LastFlip
<1>7. Flips + q + 1 \in 1 .. Flips + Tests
  BY <1>1 DEF LastFlip
<1> QED
  BY <1>1, <1>2, <1>3, <1>4, <1>5, <1>6, <1>7

LEMMA AvalancheScript ==
  /\ DOMAIN Script("avalanche") = 1 .. LastFlip + 5 * Tests
  /\ Script("avalanche")[1] = Dropped("sha256", <<"original">>, {"hash_original"})
  /\ Script("avalanche")[2] = Show(<<"hash_original">>)
  /\ \A n \in 3 .. LastFlip : Script("avalanche")[n] = flip_round[1 + AtFlip(n)]
  /\ \A n \in LastFlip + 1 .. LastFlip + 5 * Tests :
       Script("avalanche")[n] = test_round[1 + AtTest(n)]
<1> USE RoundsAssumption
<1>1. Script("avalanche") =
        [n \in 1 .. LastFlip + 5 * Tests |->
           IF n = 1 THEN sha256("original", "hash_original")
           ELSE IF n = 2 THEN Show(<<"hash_original">>)
           ELSE IF n <= LastFlip THEN flip_round[1 + AtFlip(n)]
           ELSE test_round[1 + AtTest(n)]]
  BY ScriptOf DEF avalanche, LastFlip, AtFlip, AtTest
<1>2. LastFlip \in Nat /\ LastFlip >= 2
  BY DEF LastFlip
<1> QED
  BY <1>1, <1>2 DEF sha256

LEMMA FlipStatements ==
  ASSUME NEW n \in 3 .. LastFlip
  PROVE  /\ n \in DOMAIN Script("avalanche")
         /\ AtFlip(n) = 0 => Script("avalanche")[n] = Change("flip", "original", "modified")
         /\ AtFlip(n) = 1 =>
                Script("avalanche")[n] = Dropped("sha256", <<"modified">>, {"hash_modified"})
         /\ AtFlip(n) = 2 =>
                Script("avalanche")[n] = Loop("count_bit_differences", "hash_original",
                    "hash_modified")
         /\ AtFlip(n) = 3 => Script("avalanche")[n] = Show(<<"hash_modified">>)
<1>1. n \in DOMAIN Script("avalanche") /\ Script("avalanche")[n] = flip_round[1 + AtFlip(n)]
  BY AvalancheScript, RoundsAssumption DEF LastFlip
<1>2. /\ flip_round[1] = Change("flip", "original", "modified")
      /\ flip_round[2] = Dropped("sha256", <<"modified">>, {"hash_modified"})
      /\ flip_round[3] = Loop("count_bit_differences", "hash_original", "hash_modified")
      /\ flip_round[4] = Show(<<"hash_modified">>)
  BY DEF flip_round, Differ, sha256
<1> QED
  BY <1>1, <1>2

LEMMA TestStatements ==
  ASSUME NEW n \in LastFlip + 1 .. LastFlip + 5 * Tests
  PROVE  /\ n \in DOMAIN Script("avalanche")
         /\ AtTest(n) = 0 => Script("avalanche")[n] = Change("next", "test_data", "test_data")
         /\ AtTest(n) = 1 =>
                Script("avalanche")[n] = Dropped("sha256", <<"test_data">>, {"hash_original"})
         /\ AtTest(n) = 2 => Script("avalanche")[n] = Change("flip", "test_data", "test_modified")
         /\ AtTest(n) = 3 =>
                Script("avalanche")[n] = Dropped("sha256", <<"test_modified">>, {"hash_modified"})
         /\ AtTest(n) = 4 =>
                Script("avalanche")[n] = Loop("count_bit_differences", "hash_original",
                    "hash_modified")
<1>1. n \in DOMAIN Script("avalanche") /\ Script("avalanche")[n] = test_round[1 + AtTest(n)]
  BY AvalancheScript, RoundsAssumption DEF LastFlip
<1>2. /\ test_round[1] = Change("next", "test_data", "test_data")
      /\ test_round[2] = Dropped("sha256", <<"test_data">>, {"hash_original"})
      /\ test_round[3] = Change("flip", "test_data", "test_modified")
      /\ test_round[4] = Dropped("sha256", <<"test_modified">>, {"hash_modified"})
      /\ test_round[5] = Loop("count_bit_differences", "hash_original", "hash_modified")
  BY DEF test_round, Differ, sha256
<1> QED
  BY <1>1, <1>2

LEMMA AvalancheWrites ==
  /\ Unwritten("avalanche") \subseteq {"hash_original", "hash_modified"}
  /\ Files("avalanche") = {}
<1>1. ASSUME NEW k \in DOMAIN Script("avalanche")
      PROVE  /\ Script("avalanche")[k].kind \in Calls =>
                  Script("avalanche")[k].outs \subseteq {"hash_original", "hash_modified"}
             /\ Script("avalanche")[k].kind # "fopen"
  <2>1. CASE k = 1 \/ k = 2
    BY <2>1, AvalancheScript, Fields DEF Made, Calls
  <2>2. CASE k \in 3 .. LastFlip
    <3>1. AtFlip(k) = 0 \/ AtFlip(k) = 1 \/ AtFlip(k) = 2 \/ AtFlip(k) = 3
      BY <2>2, FlipRounds
    <3> QED
      BY <2>2, <3>1, FlipStatements, Fields DEF Made, Calls
  <2>3. CASE k \in LastFlip + 1 .. LastFlip + 5 * Tests
    <3>1. AtTest(k) = 0 \/ AtTest(k) = 1 \/ AtTest(k) = 2 \/ AtTest(k) = 3 \/ AtTest(k) = 4
      BY <2>3, TestRounds
    <3> QED
      BY <2>3, <3>1, TestStatements, Fields DEF Made, Calls
  <2> QED
    BY <2>1, <2>2, <2>3, AvalancheScript, RoundsAssumption DEF LastFlip
<1> QED
  BY <1>1 DEF Unwritten, Files, Outs

(* What the names hold at the statements of a round.                       *)
FlipFacts ==
  /\ pc \in 2 .. LastFlip => Is("hash_original", <<"sha256", <<<<"original">>>>>>)
  /\ pc \in 3 .. LastFlip =>
       /\ AtFlip(pc) = 1 => mem["modified"] = <<"flip", <<<<"original">>>>>>
       /\ AtFlip(pc) = 2 => Is("hash_modified", <<"sha256", <<<<"flip", <<<<"original">>>>>>>>>>)

TestFacts ==
  pc \in LastFlip + 1 .. LastFlip + 5 * Tests =>
    /\ AtTest(pc) \in 1 .. 4 => mem["test_data"][1] = "next"
    /\ AtTest(pc) \in 2 .. 4 => Is("hash_original", <<"sha256", <<mem["test_data"]>>>>)
    /\ AtTest(pc) \in 3 .. 4 => mem["test_modified"] = <<"flip", <<mem["test_data"]>>>>
    /\ AtTest(pc) = 4 => Is("hash_modified", <<"sha256", <<mem["test_modified"]>>>>)

AvalancheInv ==
  /\ pc \in 1 .. LastFlip + 5 * Tests + 1
  /\ {"original", "modified", "test_data", "test_modified"} \cap tainted = {}
  /\ mem["original"] = <<"original">>
  /\ FlipFacts /\ TestFacts
  /\ Len(verdicts) = Compared(pc)

LEMMA AvalancheInit ==
  ASSUME Init, prog = "avalanche"
  PROVE  AvalancheInv
<1>1. "original" \in Names(prog)
  BY AvalancheScript, NamesHas, RoundsAssumption DEF Dropped, Statement, LastFlip
<1>2. pc = 1 /\ verdicts = <<>> /\ tainted = Unwritten(prog) /\ mem["original"] = <<"original">>
  BY <1>1, AvalancheWrites, Beginning DEF Objects
<1> QED
  BY <1>2, AvalancheWrites, RoundsAssumption
  DEF AvalancheInv, FlipFacts, TestFacts, LastFlip, Compared

LEMMA AvalancheDocuments ==
  ASSUME NEW k \in 1 .. Flips + Tests
  PROVE  Documented("avalanche")[k] = FALSE
BY DEF Documented

LEMMA AvalancheLength == Len(Documented("avalanche")) = Flips + Tests
<1>1. Documented("avalanche") = [k \in 1 .. Flips + Tests |-> FALSE]
  BY DEF Documented
<1>2. ASSUME NEW n \in Nat, NEW v
      PROVE  Len([k \in 1 .. n |-> v]) = n
  OBVIOUS
<1>3. Flips + Tests \in Nat
  BY RoundsAssumption
<1> QED
  BY <1>1, <1>2, <1>3, Zenon

(* A comparison in avalanche must come out unequal.                        *)
LEMMA AvalancheJudged ==
  ASSUME Base, Sound, prog = "avalanche", prog' = prog, pc \in Nat,
         Len(verdicts) = Compared(pc), Compared(pc) + 1 \in 1 .. Flips + Tests,
         "hash_original" \in tainted \/ "hash_modified" \in tainted
           \/ mem["hash_original"] # mem["hash_modified"],
         NEW outcome \in BOOLEAN, Judges({"hash_original", "hash_modified"}, outcome),
         outcome <=> mem["hash_original"] = mem["hash_modified"]
  PROVE  Sound' /\ Len(verdicts') = Compared(pc) + 1
<1>1. Documented(prog)[Len(verdicts) + 1] = FALSE
  BY AvalancheDocuments, Zenon
<1>2. {"hash_original", "hash_modified"} \cap tainted = {} => ~outcome
  OBVIOUS
<1> QED
  BY <1>1, <1>2, JudgedFalse

LEMMA AvalancheStays ==
  ASSUME AvalancheInv, Sound, Unmoved, prog' = prog
  PROVE  AvalancheInv' /\ Sound'
<1>1. Sound' /\ Len(verdicts') = Len(verdicts)
  BY StaysSound DEF Unmoved
<1>2. FlipFacts' /\ TestFacts'
  BY DEF AvalancheInv, Unmoved, FlipFacts, TestFacts, Is
<1> QED
  BY <1>1, <1>2 DEF AvalancheInv, Unmoved

LEMMA AvalancheFirst ==
  ASSUME Base, Sound, prog = "avalanche", AvalancheInv, [Next]_vars, pc \in {1, 2}
  PROVE  AvalancheInv' /\ Sound'
<1> USE RoundsAssumption
<1>0. /\ Now = Script("avalanche")[pc] /\ pc \in DOMAIN Script(prog)
      /\ DOMAIN mem = Names("avalanche") /\ prog' = prog
  BY AvalancheScript, Moves DEF Now, LastFlip, Base
<1>1. "original" \in DOMAIN mem /\ "hash_original" \in DOMAIN mem
  BY <1>0, AvalancheScript, NamesHas DEF Dropped, Statement, LastFlip, Calls
<1>2. CASE pc = 1
  <2>1. Now = Dropped("sha256", <<"original">>, {"hash_original"})
    BY <1>0, <1>2, AvalancheScript
  <2>2. Unmoved \/ Misses({"hash_original"})
        \/ Succeeds({"original"}, {"hash_original"}, <<"sha256", <<mem["original"]>>>>)
    BY <2>1, Call1 DEF Dropped, Plain
  <2>3. ASSUME \/ Misses({"hash_original"})
               \/ Succeeds({"original"}, {"hash_original"}, <<"sha256", <<mem["original"]>>>>)
        PROVE  AvalancheInv' /\ Sound'
    <3>1. Sound' /\ Len(verdicts') = Len(verdicts) /\ pc' = 2
      BY <1>0, <1>2, <2>3, StaysSound DEF Misses, Succeeds
    <3>2. Compared(2) = Compared(1) /\ 2 <= LastFlip
      BY DEF Compared, LastFlip
    <3>3. Is("hash_original", <<"sha256", <<<<"original">>>>>>)'
      BY <1>1, <2>3 DEF AvalancheInv, Is, Misses, Succeeds
    <3>4. {"original", "modified", "test_data", "test_modified"} \cap tainted' = {}
          /\ mem'["original"] = <<"original">>
      BY <1>1, <2>3 DEF AvalancheInv, Misses, Succeeds
    <3>5. FlipFacts' /\ TestFacts'
      BY <3>1, <3>2, <3>3 DEF FlipFacts, TestFacts, LastFlip
    <3> QED
      BY <1>2, <3>1, <3>2, <3>4, <3>5 DEF AvalancheInv, LastFlip
  <2> QED
    BY <1>0, <2>2, <2>3, AvalancheStays
<1>3. CASE pc = 2
  <2>1. Now = Show(<<"hash_original">>)
    BY <1>0, <1>3, AvalancheScript
  <2>2. Unmoved \/ Shows
    BY <1>0, <2>1, ShowStep
  <2>3. ASSUME Shows
        PROVE  AvalancheInv' /\ Sound'
    <3>1. Sound' /\ Len(verdicts') = Len(verdicts) /\ pc' = 3 /\ UNCHANGED <<mem, tainted>>
      BY <1>0, <1>3, <2>3, StaysSound DEF Shows
    <3>2. Compared(3) = Compared(2) /\ AtFlip(3) = 0 /\ AtTest(LastFlip + 1) = 0 /\ LastFlip >= 2
      BY DEF Compared, LastFlip, AtFlip, AtTest
    <3>3. FlipFacts'
      <4>1. pc' \in 2 .. LastFlip => Is("hash_original", <<"sha256", <<<<"original">>>>>>)'
        BY <1>3, <3>1, <3>2 DEF AvalancheInv, FlipFacts, Is
      <4> QED
        BY <3>1, <3>2, <4>1 DEF FlipFacts
    <3>4. TestFacts'
      BY <3>1, <3>2 DEF TestFacts, LastFlip
    <3> QED
      BY <1>3, <3>1, <3>2, <3>3, <3>4 DEF AvalancheInv, LastFlip
  <2> QED
    BY <1>0, <2>2, <2>3, AvalancheStays
<1> QED
  BY <1>2, <1>3

LEMMA AvalancheFlips ==
  ASSUME Base, Sound, prog = "avalanche", AvalancheInv, [Next]_vars, pc \in 3 .. LastFlip
  PROVE  AvalancheInv' /\ Sound'
<1> USE RoundsAssumption
<1>0. /\ Now = Script("avalanche")[pc] /\ pc \in DOMAIN Script(prog) /\ prog' = prog
      /\ DOMAIN mem = Names("avalanche") /\ pc \in Nat /\ LastFlip \in Nat /\ LastFlip >= 2
  BY FlipStatements, Moves DEF Now, Base, LastFlip
<1>1. {"original", "hash_original"} \subseteq DOMAIN mem
  BY <1>0, AvalancheScript, NamesHas DEF Dropped, Statement, LastFlip, Calls
<1>2. /\ {"original", "modified", "test_data", "test_modified"} \cap tainted = {}
      /\ mem["original"] = <<"original">>
      /\ Is("hash_original", <<"sha256", <<<<"original">>>>>>)
      /\ AtFlip(pc) = 1 => mem["modified"] = <<"flip", <<<<"original">>>>>>
      /\ AtFlip(pc) = 2 => Is("hash_modified", <<"sha256", <<<<"flip", <<<<"original">>>>>>>>>>)
      /\ Len(verdicts) = Compared(pc)
  BY DEF AvalancheInv, FlipFacts
<1>3. AtTest(LastFlip + 1) = 0
  BY <1>0 DEF AtTest
<1>4. ASSUME Sound', pc' = pc + 1, Len(verdicts') = Compared(pc + 1),
             {"original", "modified", "test_data", "test_modified"} \cap tainted' = {},
             mem'["original"] = <<"original">>,
             Is("hash_original", <<"sha256", <<<<"original">>>>>>)',
             AtFlip(pc) = 0 => mem'["modified"] = <<"flip", <<<<"original">>>>>>,
             AtFlip(pc) = 1 =>
               Is("hash_modified", <<"sha256", <<<<"flip", <<<<"original">>>>>>>>>>)'
      PROVE  AvalancheInv' /\ Sound'
  <2>1. FlipFacts'
    <3>1. pc' \in 3 .. LastFlip => \/ AtFlip(pc) < 3 /\ AtFlip(pc') = AtFlip(pc) + 1
                                   \/ AtFlip(pc') = 0
      BY <1>0, <1>4, FlipRounds
    <3>2. AtFlip(pc) \in 0 .. 3
      BY FlipRounds
    <3> QED
      BY <1>4, <3>1, <3>2 DEF FlipFacts
  <2>2. TestFacts'
    <3>1. pc' \in LastFlip + 1 .. LastFlip + 5 * Tests => pc' = LastFlip + 1
      BY <1>0, <1>4
    <3> QED
      BY <1>3, <3>1 DEF TestFacts
  <2> QED
    BY <1>0, <1>4, <2>1, <2>2 DEF AvalancheInv
<1>5. CASE AtFlip(pc) = 0
  <2>1. Now = Change("flip", "original", "modified")
    BY <1>0, <1>5, FlipStatements
  <2>2. "modified" \in DOMAIN mem
    BY <1>0, <2>1, NamesHas, Fields DEF Made
  <2>3. Unmoved \/ Succeeds({"original"}, {"modified"}, <<"flip", <<mem["original"]>>>>)
    BY <1>0, <2>1, ChangeStep DEF Plain
  <2>4. ASSUME Succeeds({"original"}, {"modified"}, <<"flip", <<mem["original"]>>>>)
        PROVE  AvalancheInv' /\ Sound'
    <3>1. Sound' /\ Len(verdicts') = Len(verdicts) /\ pc' = pc + 1
      BY <1>0, <2>4, StaysSound DEF Succeeds
    <3>2. /\ {"original", "modified", "test_data", "test_modified"} \cap tainted' = {}
          /\ mem'["original"] = <<"original">>
          /\ Is("hash_original", <<"sha256", <<<<"original">>>>>>)'
          /\ mem'["modified"] = <<"flip", <<<<"original">>>>>>
      BY <1>1, <1>2, <2>2, <2>4 DEF Succeeds, Is
    <3> QED
      BY <1>2, <1>4, <1>5, <3>1, <3>2, FlipRounds
  <2> QED
    BY <1>0, <2>3, <2>4, AvalancheStays
<1>6. CASE AtFlip(pc) = 1
  <2>1. Now = Dropped("sha256", <<"modified">>, {"hash_modified"})
    BY <1>0, <1>6, FlipStatements
  <2>2. {"modified", "hash_modified"} \subseteq DOMAIN mem
    BY <1>0, <2>1, NamesHas DEF Dropped, Statement, Calls
  <2>3. Unmoved \/ Misses({"hash_modified"})
        \/ Succeeds({"modified"}, {"hash_modified"}, <<"sha256", <<mem["modified"]>>>>)
    BY <2>1, Call1 DEF Dropped, Plain
  <2>4. ASSUME \/ Misses({"hash_modified"})
               \/ Succeeds({"modified"}, {"hash_modified"}, <<"sha256", <<mem["modified"]>>>>)
        PROVE  AvalancheInv' /\ Sound'
    <3>1. Sound' /\ Len(verdicts') = Len(verdicts) /\ pc' = pc + 1
      BY <1>0, <2>4, StaysSound DEF Succeeds, Misses
    <3>2. /\ {"original", "modified", "test_data", "test_modified"} \cap tainted' = {}
          /\ mem'["original"] = <<"original">>
          /\ Is("hash_original", <<"sha256", <<<<"original">>>>>>)'
          /\ Is("hash_modified", <<"sha256", <<<<"flip", <<<<"original">>>>>>>>>>)'
      BY <1>1, <1>2, <1>6, <2>2, <2>4 DEF Succeeds, Misses, Is
    <3> QED
      BY <1>2, <1>4, <1>6, <3>1, <3>2, FlipRounds
  <2> QED
    BY <1>0, <2>3, <2>4, AvalancheStays
<1>7. CASE AtFlip(pc) = 2
  <2>1. Now = Loop("count_bit_differences", "hash_original", "hash_modified")
    BY <1>0, <1>7, FlipStatements
  <2>2. \/ Unmoved
        \/ \E outcome \in BOOLEAN : /\ Judges({"hash_original", "hash_modified"}, outcome)
                                    /\ outcome <=> mem["hash_original"] = mem["hash_modified"]
    BY <1>0, <2>1, LoopStepped, Zenon
  <2>3. ASSUME NEW outcome \in BOOLEAN, Judges({"hash_original", "hash_modified"}, outcome),
               outcome <=> mem["hash_original"] = mem["hash_modified"]
        PROVE  AvalancheInv' /\ Sound'
    <3>1. \/ "hash_original" \in tainted \/ "hash_modified" \in tainted
          \/ mem["hash_original"] # mem["hash_modified"]
      BY <1>2, <1>7 DEF Is
    <3>2. Compared(pc + 1) = Compared(pc) + 1 /\ Compared(pc) + 1 \in 1 .. Flips + Tests
      BY <1>7, FlipRounds
    <3>3. Sound' /\ Len(verdicts') = Compared(pc + 1)
      BY <1>0, <1>2, <2>3, <3>1, <3>2, AvalancheJudged
    <3> QED
      BY <1>2, <1>4, <1>7, <2>3, <3>3 DEF Judges, Is
  <2> QED
    BY <1>0, <2>2, <2>3, AvalancheStays
<1>8. CASE AtFlip(pc) = 3
  <2>1. Now = Show(<<"hash_modified">>)
    BY <1>0, <1>8, FlipStatements
  <2>2. Unmoved \/ Shows
    BY <1>0, <2>1, ShowStep
  <2>3. ASSUME Shows
        PROVE  AvalancheInv' /\ Sound'
    <3>1. Sound' /\ Len(verdicts') = Len(verdicts)
      BY <1>0, <2>3, StaysSound DEF Shows
    <3> QED
      BY <1>2, <1>4, <1>8, <2>3, <3>1, FlipRounds DEF Shows, Is
  <2> QED
    BY <1>0, <2>2, <2>3, AvalancheStays
<1> QED
  BY <1>5, <1>6, <1>7, <1>8, FlipRounds

LEMMA AvalancheTests ==
  ASSUME Base, Sound, prog = "avalanche", AvalancheInv, [Next]_vars,
         pc \in LastFlip + 1 .. LastFlip + 5 * Tests
  PROVE  AvalancheInv' /\ Sound'
<1> USE RoundsAssumption
<1>0. /\ Now = Script("avalanche")[pc] /\ pc \in DOMAIN Script(prog) /\ prog' = prog
      /\ DOMAIN mem = Names("avalanche") /\ pc \in Nat /\ LastFlip \in Nat /\ LastFlip >= 2
  BY TestStatements, Moves DEF Now, Base, LastFlip
<1>1. {"original", "hash_original"} \subseteq DOMAIN mem
  BY <1>0, AvalancheScript, NamesHas DEF Dropped, Statement, LastFlip, Calls
<1>2. /\ {"original", "modified", "test_data", "test_modified"} \cap tainted = {}
      /\ mem["original"] = <<"original">>
      /\ AtTest(pc) \in 1 .. 4 => mem["test_data"][1] = "next"
      /\ AtTest(pc) \in 2 .. 4 => Is("hash_original", <<"sha256", <<mem["test_data"]>>>>)
      /\ AtTest(pc) \in 3 .. 4 => mem["test_modified"] = <<"flip", <<mem["test_data"]>>>>
      /\ AtTest(pc) = 4 => Is("hash_modified", <<"sha256", <<mem["test_modified"]>>>>)
      /\ Len(verdicts) = Compared(pc)
  BY DEF AvalancheInv, TestFacts
<1>3. ASSUME Sound', pc' = pc + 1, Len(verdicts') = Compared(pc + 1),
             {"original", "modified", "test_data", "test_modified"} \cap tainted' = {},
             mem'["original"] = <<"original">>,
             AtTest(pc) \in 0 .. 3 => mem'["test_data"][1] = "next",
             AtTest(pc) \in 1 .. 3 => Is("hash_original", <<"sha256", <<mem["test_data"]>>>>)',
             AtTest(pc) \in 2 .. 3 => mem'["test_modified"] = <<"flip", <<mem'["test_data"]>>>>,
             AtTest(pc) = 3 => Is("hash_modified", <<"sha256", <<mem["test_modified"]>>>>)'
      PROVE  AvalancheInv' /\ Sound'
  <2>1. FlipFacts'
    BY <1>0, <1>3 DEF FlipFacts
  <2>2. TestFacts'
    <3>1. \/ AtTest(pc) < 4 /\ AtTest(pc') = AtTest(pc) + 1
          \/ AtTest(pc') = 0
      BY <1>0, <1>3, TestRounds
    <3>2. AtTest(pc) \in 0 .. 4
      BY TestRounds
    <3> QED
      BY <1>3, <3>1, <3>2 DEF TestFacts
  <2> QED
    BY <1>0, <1>3, <2>1, <2>2 DEF AvalancheInv
<1>4. CASE AtTest(pc) = 0
  <2>1. Now = Change("next", "test_data", "test_data")
    BY <1>0, <1>4, TestStatements
  <2>2. "test_data" \in DOMAIN mem
    BY <1>0, <2>1, NamesHas, Fields DEF Made
  <2>3. Unmoved \/ Succeeds({"test_data"}, {"test_data"}, <<"next", <<mem["test_data"]>>>>)
    BY <1>0, <2>1, ChangeStep DEF Plain
  <2>4. ASSUME Succeeds({"test_data"}, {"test_data"}, <<"next", <<mem["test_data"]>>>>)
        PROVE  AvalancheInv' /\ Sound'
    <3>1. Sound' /\ Len(verdicts') = Len(verdicts) /\ pc' = pc + 1
      BY <1>0, <2>4, StaysSound DEF Succeeds
    <3>2. /\ {"original", "modified", "test_data", "test_modified"} \cap tainted' = {}
          /\ mem'["original"] = <<"original">>
          /\ mem'["test_data"] = <<"next", <<mem["test_data"]>>>>
      BY <1>1, <1>2, <2>2, <2>4 DEF Succeeds
    <3> QED
      BY <1>2, <1>3, <1>4, <3>1, <3>2, TestRounds
  <2> QED
    BY <1>0, <2>3, <2>4, AvalancheStays
<1>5. CASE AtTest(pc) = 1
  <2>1. Now = Dropped("sha256", <<"test_data">>, {"hash_original"})
    BY <1>0, <1>5, TestStatements
  <2>2. {"test_data", "hash_original"} \subseteq DOMAIN mem
    BY <1>0, <2>1, NamesHas DEF Dropped, Statement, Calls
  <2>3. Unmoved \/ Misses({"hash_original"})
        \/ Succeeds({"test_data"}, {"hash_original"}, <<"sha256", <<mem["test_data"]>>>>)
    BY <2>1, Call1 DEF Dropped, Plain
  <2>4. ASSUME \/ Misses({"hash_original"})
               \/ Succeeds({"test_data"}, {"hash_original"}, <<"sha256", <<mem["test_data"]>>>>)
        PROVE  AvalancheInv' /\ Sound'
    <3>1. Sound' /\ Len(verdicts') = Len(verdicts) /\ pc' = pc + 1
      BY <1>0, <2>4, StaysSound DEF Succeeds, Misses
    <3>2. /\ {"original", "modified", "test_data", "test_modified"} \cap tainted' = {}
          /\ mem'["original"] = <<"original">> /\ mem'["test_data"] = mem["test_data"]
          /\ Is("hash_original", <<"sha256", <<mem["test_data"]>>>>)'
      BY <1>1, <1>2, <2>2, <2>4 DEF Succeeds, Misses, Is
    <3> QED
      BY <1>2, <1>3, <1>5, <3>1, <3>2, TestRounds
  <2> QED
    BY <1>0, <2>3, <2>4, AvalancheStays
<1>6. CASE AtTest(pc) = 2
  <2>1. Now = Change("flip", "test_data", "test_modified")
    BY <1>0, <1>6, TestStatements
  <2>2. {"test_data", "test_modified"} \subseteq DOMAIN mem
    BY <1>0, <2>1, NamesHas DEF Change, Statement
  <2>3. Unmoved \/ Succeeds({"test_data"}, {"test_modified"}, <<"flip", <<mem["test_data"]>>>>)
    BY <1>0, <2>1, ChangeStep DEF Plain
  <2>4. ASSUME Succeeds({"test_data"}, {"test_modified"}, <<"flip", <<mem["test_data"]>>>>)
        PROVE  AvalancheInv' /\ Sound'
    <3>1. Sound' /\ Len(verdicts') = Len(verdicts) /\ pc' = pc + 1
      BY <1>0, <2>4, StaysSound DEF Succeeds
    <3>2. /\ {"original", "modified", "test_data", "test_modified"} \cap tainted' = {}
          /\ mem'["original"] = <<"original">> /\ mem'["test_data"] = mem["test_data"]
          /\ Is("hash_original", <<"sha256", <<mem["test_data"]>>>>)'
          /\ mem'["test_modified"] = <<"flip", <<mem["test_data"]>>>>
      BY <1>1, <1>2, <1>6, <2>2, <2>4 DEF Succeeds, Is
    <3> QED
      BY <1>2, <1>3, <1>6, <3>1, <3>2, TestRounds
  <2> QED
    BY <1>0, <2>3, <2>4, AvalancheStays
<1>7. CASE AtTest(pc) = 3
  <2>1. Now = Dropped("sha256", <<"test_modified">>, {"hash_modified"})
    BY <1>0, <1>7, TestStatements
  <2>2. {"test_modified", "hash_modified"} \subseteq DOMAIN mem
    BY <1>0, <2>1, NamesHas DEF Dropped, Statement, Calls
  <2>3. Unmoved \/ Misses({"hash_modified"})
        \/ Succeeds({"test_modified"}, {"hash_modified"}, <<"sha256", <<mem["test_modified"]>>>>)
    BY <2>1, Call1 DEF Dropped, Plain
  <2>4. ASSUME \/ Misses({"hash_modified"})
               \/ Succeeds({"test_modified"}, {"hash_modified"},
                           <<"sha256", <<mem["test_modified"]>>>>)
        PROVE  AvalancheInv' /\ Sound'
    <3>1. Sound' /\ Len(verdicts') = Len(verdicts) /\ pc' = pc + 1
      BY <1>0, <2>4, StaysSound DEF Succeeds, Misses
    <3>2. "test_data" \in DOMAIN mem
      <4>1. LastFlip + 1 \in LastFlip + 1 .. LastFlip + 5 * Tests
        BY <1>0
      <4>2. Script("avalanche")[LastFlip + 1] = Change("next", "test_data", "test_data")
            /\ LastFlip + 1 \in DOMAIN Script("avalanche")
        BY <4>1, TestStatements, <1>0 DEF AtTest
      <4> QED
        BY <1>0, <4>2, NamesHas, Fields DEF Made
    <3>3. /\ {"original", "modified", "test_data", "test_modified"} \cap tainted' = {}
          /\ mem'["original"] = <<"original">> /\ mem'["test_data"] = mem["test_data"]
          /\ mem'["test_modified"] = mem["test_modified"]
          /\ Is("hash_original", <<"sha256", <<mem["test_data"]>>>>)'
          /\ Is("hash_modified", <<"sha256", <<mem["test_modified"]>>>>)'
      BY <1>1, <1>2, <1>7, <2>2, <2>4, <3>2 DEF Succeeds, Misses, Is
    <3> QED
      BY <1>2, <1>3, <1>7, <3>1, <3>3, TestRounds
  <2> QED
    BY <1>0, <2>3, <2>4, AvalancheStays
<1>8. CASE AtTest(pc) = 4
  <2>1. Now = Loop("count_bit_differences", "hash_original", "hash_modified")
    BY <1>0, <1>8, TestStatements
  <2>2. \/ Unmoved
        \/ \E outcome \in BOOLEAN : /\ Judges({"hash_original", "hash_modified"}, outcome)
                                    /\ outcome <=> mem["hash_original"] = mem["hash_modified"]
    BY <1>0, <2>1, LoopStepped, Zenon
  <2>3. ASSUME NEW outcome \in BOOLEAN, Judges({"hash_original", "hash_modified"}, outcome),
               outcome <=> mem["hash_original"] = mem["hash_modified"]
        PROVE  AvalancheInv' /\ Sound'
    <3>1. \/ "hash_original" \in tainted \/ "hash_modified" \in tainted
          \/ mem["hash_original"] # mem["hash_modified"]
      BY <1>2, <1>8 DEF Is
    <3>2. Compared(pc + 1) = Compared(pc) + 1 /\ Compared(pc) + 1 \in 1 .. Flips + Tests
      BY <1>8, TestRounds
    <3>3. Sound' /\ Len(verdicts') = Compared(pc + 1)
      BY <1>0, <1>2, <2>3, <3>1, <3>2, AvalancheJudged
    <3> QED
      BY <1>2, <1>3, <1>8, <2>3, <3>3 DEF Judges
  <2> QED
    BY <1>0, <2>2, <2>3, AvalancheStays
<1> QED
  <2>1. AtTest(pc) \in 0 .. 4
    BY TestRounds
  <2> QED
    BY <2>1, <1>4, <1>5, <1>6, <1>7, <1>8

LEMMA AvalancheNext ==
  ASSUME Base, Sound, prog = "avalanche", AvalancheInv, [Next]_vars
  PROVE  AvalancheInv' /\ Sound'
<1>1. CASE pc = LastFlip + 5 * Tests + 1
  <2>1. pc \notin DOMAIN Script(prog)
    BY <1>1, AvalancheScript, RoundsAssumption DEF LastFlip
  <2> QED
    BY <2>1, Moves, AvalancheStays
<1> QED
  BY <1>1, AvalancheFirst, AvalancheFlips, AvalancheTests, RoundsAssumption,
     SMTT(60) DEF AvalancheInv, LastFlip

---------------------------------------------------------------------------
(* hmac_demo.                                                              *)

LEMMA HmacDemoScript ==
  /\ DOMAIN Script("hmac_demo") = 1 .. 12
  /\ Script("hmac_demo")[1] = Dropped("hmac", <<"key1", "message">>, {"mac"})
  /\ Script("hmac_demo")[2] = Show(<<"mac">>)
  /\ Script("hmac_demo")[3] = Dropped("hmac", <<"key2", "message">>, {"mac"})
  /\ Script("hmac_demo")[4] = Show(<<"mac">>)
  /\ Script("hmac_demo")[5] = Dropped("hmac", <<"key1", "message">>, {"original_mac"})
  /\ Script("hmac_demo")[6] = Show(<<"original_mac">>)
  /\ Script("hmac_demo")[7] = Dropped("hmac", <<"key1", "message">>, {"verify_mac_buf"})
  /\ Script("hmac_demo")[8] = Loop("verify_mac", "original_mac", "verify_mac_buf")
  /\ Script("hmac_demo")[9] = Dropped("hmac", <<"key1", "tampered">>, {"verify_mac_buf"})
  /\ Script("hmac_demo")[10] = Loop("verify_mac", "original_mac", "verify_mac_buf")
  /\ Script("hmac_demo")[11] = Dropped("hmac", <<"key2", "message">>, {"verify_mac_buf"})
  /\ Script("hmac_demo")[12] = Loop("verify_mac", "original_mac", "verify_mac_buf")
BY ScriptOf DEF hmac_demo, calculate_hmac_sha256, VerifyMac

LEMMA HmacDemoWrites ==
  /\ Unwritten("hmac_demo") \subseteq {"mac", "original_mac", "verify_mac_buf"}
  /\ Files("hmac_demo") \subseteq {}
<1>1. ASSUME NEW k \in DOMAIN Script("hmac_demo")
      PROVE  /\ Script("hmac_demo")[k].kind \in Calls =>
                  Script("hmac_demo")[k].outs
                    \subseteq {"mac", "original_mac", "verify_mac_buf"}
             /\ Script("hmac_demo")[k].kind = "fopen" =>
                  Script("hmac_demo")[k].outs \subseteq {}
  <2>1. k \in 1 .. 12
    BY HmacDemoScript
  <2> QED
    BY <2>1, HmacDemoScript, Fields DEF Made, Calls
<1> QED
  BY <1>1 DEF Unwritten, Files, Outs

HmacDemoInv ==
  /\ pc \in 1 .. 13
  /\ Given("key1") /\ Given("key2") /\ Given("message") /\ Given("tampered")
  /\ Is("original_mac", <<"hmac", <<<<"key1">>, <<"message">>>>>>)
  /\ "verify_mac_buf" \in DOMAIN mem
  /\ pc <= 5 => "original_mac" \in tainted
  /\ pc = 8  => Is("verify_mac_buf", <<"hmac", <<<<"key1">>, <<"message">>>>>>)
  /\ pc = 10 => Is("verify_mac_buf", <<"hmac", <<<<"key1">>, <<"tampered">>>>>>)
  /\ pc = 12 => Is("verify_mac_buf", <<"hmac", <<<<"key2">>, <<"message">>>>>>)
  /\ Len(verdicts) = IF pc <= 8 THEN 0 ELSE IF pc <= 10 THEN 1 ELSE IF pc <= 12 THEN 2 ELSE 3

LEMMA HmacDemoInit ==
  ASSUME Init, prog = "hmac_demo"
  PROVE  HmacDemoInv
<1> USE HmacDemoScript
<1>1. /\ Unwritten(prog) \subseteq {"mac", "original_mac", "verify_mac_buf"}
      /\ Files(prog) \subseteq {}
  BY HmacDemoWrites
<1>2. {"key1", "key2", "message", "tampered"} \subseteq Names(prog)
  BY NamesHas DEF Dropped, Statement
<1>3. {"original_mac", "verify_mac_buf"} \subseteq Names(prog) \cap Unwritten(prog)
  BY NamesHas, Fields DEF Made, Calls
<1>4. Given("key1") /\ Given("key2") /\ Given("message") /\ Given("tampered")
  BY <1>1, <1>2, Inputs DEF Objects
<1>5. \A name \in {"original_mac", "verify_mac_buf"} :
        /\ name \in DOMAIN mem \cap tainted \cap missed
        /\ mem[name] \in Unset(name)
  BY <1>1, <1>3, Beginning DEF Objects, Preset
<1> QED
  BY <1>4, <1>5, Beginning DEF HmacDemoInv, Is

LEMMA HmacDemoNext ==
  ASSUME Base, Sound, prog = "hmac_demo", HmacDemoInv, [Next]_vars
  PROVE  HmacDemoInv' /\ Sound'
<1>0. /\ Now = Script(prog)[pc]
      /\ pc \in DOMAIN Script(prog) <=> pc \in 1 .. 12
  BY HmacDemoScript DEF Now
<1>1. CASE pc = 1
  <2>1. pc \in DOMAIN Script(prog) /\ Now = Dropped("hmac", <<"key1", "message">>, {"mac"})
    BY <1>0, <1>1, HmacDemoScript
  <2>2. /\ prog' = prog
        /\ \/ Unmoved \/ Misses({"mac"})
           \/ /\ mem["key1"] # Null /\ mem["message"] # Null
              /\ Succeeds({"key1", "message"}, {"mac"},
                     <<"hmac", <<mem["key1"], mem["message"]>>>>)
    BY <2>1, Call2 DEF Dropped, Plain
  <2>3. Sound' /\ Len(verdicts') = Len(verdicts)
    BY <2>2, StaysSound DEF Unmoved, Misses, Succeeds
  <2> QED
    BY <1>1, <2>2, <2>3 DEF HmacDemoInv, Given, Is, Unmoved, Misses, Succeeds
<1>2. CASE pc = 2
  <2>1. pc \in DOMAIN Script(prog) /\ Now = Show(<<"mac">>)
    BY <1>0, <1>2, HmacDemoScript
  <2>2. /\ prog' = prog
        /\ Unmoved \/ Shows
    BY <2>1, ShowStep
  <2>3. Sound' /\ Len(verdicts') = Len(verdicts)
    BY <2>2, StaysSound DEF Unmoved, Shows
  <2> QED
    BY <1>2, <2>2, <2>3 DEF HmacDemoInv, Given, Is, Unmoved, Shows
<1>3. CASE pc = 3
  <2>1. pc \in DOMAIN Script(prog) /\ Now = Dropped("hmac", <<"key2", "message">>, {"mac"})
    BY <1>0, <1>3, HmacDemoScript
  <2>2. /\ prog' = prog
        /\ \/ Unmoved \/ Misses({"mac"})
           \/ /\ mem["key2"] # Null /\ mem["message"] # Null
              /\ Succeeds({"key2", "message"}, {"mac"},
                     <<"hmac", <<mem["key2"], mem["message"]>>>>)
    BY <2>1, Call2 DEF Dropped, Plain
  <2>3. Sound' /\ Len(verdicts') = Len(verdicts)
    BY <2>2, StaysSound DEF Unmoved, Misses, Succeeds
  <2> QED
    BY <1>3, <2>2, <2>3 DEF HmacDemoInv, Given, Is, Unmoved, Misses, Succeeds
<1>4. CASE pc = 4
  <2>1. pc \in DOMAIN Script(prog) /\ Now = Show(<<"mac">>)
    BY <1>0, <1>4, HmacDemoScript
  <2>2. /\ prog' = prog
        /\ Unmoved \/ Shows
    BY <2>1, ShowStep
  <2>3. Sound' /\ Len(verdicts') = Len(verdicts)
    BY <2>2, StaysSound DEF Unmoved, Shows
  <2> QED
    BY <1>4, <2>2, <2>3 DEF HmacDemoInv, Given, Is, Unmoved, Shows
<1>5. CASE pc = 5
  <2>1. pc \in DOMAIN Script(prog) /\ Now = Dropped("hmac", <<"key1", "message">>,
            {"original_mac"})
    BY <1>0, <1>5, HmacDemoScript
  <2>2. /\ prog' = prog
        /\ \/ Unmoved \/ Misses({"original_mac"})
           \/ /\ mem["key1"] # Null /\ mem["message"] # Null
              /\ Succeeds({"key1", "message"}, {"original_mac"},
                     <<"hmac", <<mem["key1"], mem["message"]>>>>)
    BY <2>1, Call2 DEF Dropped, Plain
  <2>3. Sound' /\ Len(verdicts') = Len(verdicts)
    BY <2>2, StaysSound DEF Unmoved, Misses, Succeeds
  <2> QED
    BY <1>5, <2>2, <2>3 DEF HmacDemoInv, Given, Is, Unmoved, Misses, Succeeds
<1>6. CASE pc = 6
  <2>1. pc \in DOMAIN Script(prog) /\ Now = Show(<<"original_mac">>)
    BY <1>0, <1>6, HmacDemoScript
  <2>2. /\ prog' = prog
        /\ Unmoved \/ Shows
    BY <2>1, ShowStep
  <2>3. Sound' /\ Len(verdicts') = Len(verdicts)
    BY <2>2, StaysSound DEF Unmoved, Shows
  <2> QED
    BY <1>6, <2>2, <2>3 DEF HmacDemoInv, Given, Is, Unmoved, Shows
<1>7. CASE pc = 7
  <2>1. pc \in DOMAIN Script(prog) /\ Now = Dropped("hmac", <<"key1", "message">>,
            {"verify_mac_buf"})
    BY <1>0, <1>7, HmacDemoScript
  <2>2. /\ prog' = prog
        /\ \/ Unmoved \/ Misses({"verify_mac_buf"})
           \/ /\ mem["key1"] # Null /\ mem["message"] # Null
              /\ Succeeds({"key1", "message"}, {"verify_mac_buf"},
                     <<"hmac", <<mem["key1"], mem["message"]>>>>)
    BY <2>1, Call2 DEF Dropped, Plain
  <2>3. Sound' /\ Len(verdicts') = Len(verdicts)
    BY <2>2, StaysSound DEF Unmoved, Misses, Succeeds
  <2> QED
    BY <1>7, <2>2, <2>3 DEF HmacDemoInv, Given, Is, Unmoved, Misses, Succeeds
<1>8. CASE pc = 8
  <2>1. pc \in DOMAIN Script(prog) /\ Now = Loop("verify_mac", "original_mac", "verify_mac_buf")
    BY <1>0, <1>8, HmacDemoScript
  <2>2. /\ prog' = prog
        /\ \/ Unmoved
           \/ \E outcome \in BOOLEAN :
                /\ Judges({"original_mac", "verify_mac_buf"}, outcome)
                /\ outcome <=> mem["original_mac"] = mem["verify_mac_buf"]
    BY <2>1, LoopStepped, Zenon
  <2>3. CASE Unmoved
    BY <2>2, <2>3, StaysSound DEF Unmoved, HmacDemoInv, Given, Is
  <2>4. ASSUME NEW outcome \in BOOLEAN, Judges({"original_mac", "verify_mac_buf"}, outcome),
               outcome <=> mem["original_mac"] = mem["verify_mac_buf"]
        PROVE  HmacDemoInv' /\ Sound'
    <3>1. Len(verdicts) + 1 = 1
      BY <1>8 DEF HmacDemoInv
    <3>2. Documented(prog)[Len(verdicts) + 1] = TRUE
      BY <3>1, Documents, Zenon
    <3>3. {"original_mac", "verify_mac_buf"} \cap tainted = {} => outcome
      BY <1>8, <2>4 DEF HmacDemoInv, Given, Is
    <3>5. Sound' /\ Len(verdicts') = 1
      BY <2>2, <2>4, <3>1, <3>2, <3>3, JudgedTrue
    <3> QED
      BY <1>8, <2>4, <3>5 DEF Judges, HmacDemoInv, Given, Is
  <2> QED
    BY <2>2, <2>3, <2>4
<1>9. CASE pc = 9
  <2>1. pc \in DOMAIN Script(prog) /\ Now = Dropped("hmac", <<"key1", "tampered">>,
            {"verify_mac_buf"})
    BY <1>0, <1>9, HmacDemoScript
  <2>2. /\ prog' = prog
        /\ \/ Unmoved \/ Misses({"verify_mac_buf"})
           \/ /\ mem["key1"] # Null /\ mem["tampered"] # Null
              /\ Succeeds({"key1", "tampered"}, {"verify_mac_buf"},
                     <<"hmac", <<mem["key1"], mem["tampered"]>>>>)
    BY <2>1, Call2 DEF Dropped, Plain
  <2>3. Sound' /\ Len(verdicts') = Len(verdicts)
    BY <2>2, StaysSound DEF Unmoved, Misses, Succeeds
  <2> QED
    BY <1>9, <2>2, <2>3 DEF HmacDemoInv, Given, Is, Unmoved, Misses, Succeeds
<1>10. CASE pc = 10
  <2>1. pc \in DOMAIN Script(prog) /\ Now = Loop("verify_mac", "original_mac", "verify_mac_buf")
    BY <1>0, <1>10, HmacDemoScript
  <2>2. /\ prog' = prog
        /\ \/ Unmoved
           \/ \E outcome \in BOOLEAN :
                /\ Judges({"original_mac", "verify_mac_buf"}, outcome)
                /\ outcome <=> mem["original_mac"] = mem["verify_mac_buf"]
    BY <2>1, LoopStepped, Zenon
  <2>3. CASE Unmoved
    BY <2>2, <2>3, StaysSound DEF Unmoved, HmacDemoInv, Given, Is
  <2>4. ASSUME NEW outcome \in BOOLEAN, Judges({"original_mac", "verify_mac_buf"}, outcome),
               outcome <=> mem["original_mac"] = mem["verify_mac_buf"]
        PROVE  HmacDemoInv' /\ Sound'
    <3>1. Len(verdicts) + 1 = 2
      BY <1>10 DEF HmacDemoInv
    <3>2. Documented(prog)[Len(verdicts) + 1] = FALSE
      BY <3>1, Documents, Zenon
    <3>3. {"original_mac", "verify_mac_buf"} \cap tainted = {} => ~outcome
      BY <1>10, <2>4 DEF HmacDemoInv, Given, Is
    <3>5. Sound' /\ Len(verdicts') = 2
      BY <2>2, <2>4, <3>1, <3>2, <3>3, JudgedFalse
    <3> QED
      BY <1>10, <2>4, <3>5 DEF Judges, HmacDemoInv, Given, Is
  <2> QED
    BY <2>2, <2>3, <2>4
<1>11. CASE pc = 11
  <2>1. pc \in DOMAIN Script(prog) /\ Now = Dropped("hmac", <<"key2", "message">>,
            {"verify_mac_buf"})
    BY <1>0, <1>11, HmacDemoScript
  <2>2. /\ prog' = prog
        /\ \/ Unmoved \/ Misses({"verify_mac_buf"})
           \/ /\ mem["key2"] # Null /\ mem["message"] # Null
              /\ Succeeds({"key2", "message"}, {"verify_mac_buf"},
                     <<"hmac", <<mem["key2"], mem["message"]>>>>)
    BY <2>1, Call2 DEF Dropped, Plain
  <2>3. Sound' /\ Len(verdicts') = Len(verdicts)
    BY <2>2, StaysSound DEF Unmoved, Misses, Succeeds
  <2> QED
    BY <1>11, <2>2, <2>3 DEF HmacDemoInv, Given, Is, Unmoved, Misses, Succeeds
<1>12. CASE pc = 12
  <2>1. pc \in DOMAIN Script(prog) /\ Now = Loop("verify_mac", "original_mac", "verify_mac_buf")
    BY <1>0, <1>12, HmacDemoScript
  <2>2. /\ prog' = prog
        /\ \/ Unmoved
           \/ \E outcome \in BOOLEAN :
                /\ Judges({"original_mac", "verify_mac_buf"}, outcome)
                /\ outcome <=> mem["original_mac"] = mem["verify_mac_buf"]
    BY <2>1, LoopStepped, Zenon
  <2>3. CASE Unmoved
    BY <2>2, <2>3, StaysSound DEF Unmoved, HmacDemoInv, Given, Is
  <2>4. ASSUME NEW outcome \in BOOLEAN, Judges({"original_mac", "verify_mac_buf"}, outcome),
               outcome <=> mem["original_mac"] = mem["verify_mac_buf"]
        PROVE  HmacDemoInv' /\ Sound'
    <3>1. Len(verdicts) + 1 = 3
      BY <1>12 DEF HmacDemoInv
    <3>2. Documented(prog)[Len(verdicts) + 1] = FALSE
      BY <3>1, Documents, Zenon
    <3>3. {"original_mac", "verify_mac_buf"} \cap tainted = {} => ~outcome
      BY <1>12, <2>4 DEF HmacDemoInv, Given, Is
    <3>5. Sound' /\ Len(verdicts') = 3
      BY <2>2, <2>4, <3>1, <3>2, <3>3, JudgedFalse
    <3> QED
      BY <1>12, <2>4, <3>5 DEF Judges, HmacDemoInv, Given, Is
  <2> QED
    BY <2>2, <2>3, <2>4
<1>13. CASE pc = 13
  <2>1. prog' = prog /\ Unmoved
    BY <1>0, <1>13, Moves
  <2> QED
    BY <2>1, StaysSound DEF Unmoved, HmacDemoInv, Given, Is
<1> QED
  BY <1>1, <1>2, <1>3, <1>4, <1>5, <1>6, <1>7, <1>8, <1>9, <1>10, <1>11, <1>12, <1>13
     DEF HmacDemoInv

---------------------------------------------------------------------------
(* key_derivation.                                                         *)

LEMMA KeyDerivationScript ==
  /\ DOMAIN Script("key_derivation") = 1 .. 10
  /\ Script("key_derivation")[1] = Dropped("random", <<"salting">>, {"salt"})
  /\ Script("key_derivation")[2] = OrExit("pbkdf2", <<"password", "salt">>, {"derived_key"})
  /\ Script("key_derivation")[3] = Show(<<"derived_key">>)
  /\ Script("key_derivation")[4] = Dropped("pbkdf2", <<"password", "salt">>, {"key2"})
  /\ Script("key_derivation")[5] = Compare("derived_key", "key2")
  /\ Script("key_derivation")[6] = Dropped("random", <<"salting_again">>, {"salt2"})
  /\ Script("key_derivation")[7] = Dropped("pbkdf2", <<"password", "salt2">>, {"key3"})
  /\ Script("key_derivation")[8] = Compare("derived_key", "key3")
  /\ Script("key_derivation")[9] = Dropped("pbkdf2", <<"password2", "salt">>, {"key4"})
  /\ Script("key_derivation")[10] = Show(<<"derived_key", "key4">>)
BY ScriptOf DEF key_derivation, RandBytes, derive_key_pbkdf2

LEMMA KeyDerivationWrites ==
  /\ Unwritten("key_derivation")
         \subseteq {"salt", "derived_key", "key2", "salt2", "key3", "key4"}
  /\ Files("key_derivation") \subseteq {}
<1>1. ASSUME NEW k \in DOMAIN Script("key_derivation")
      PROVE  /\ Script("key_derivation")[k].kind \in Calls =>
                  Script("key_derivation")[k].outs
                    \subseteq {"salt", "derived_key", "key2", "salt2", "key3", "key4"}
             /\ Script("key_derivation")[k].kind # "fopen"
  <2>1. k \in 1 .. 10
    BY KeyDerivationScript
  <2> QED
    BY <2>1, KeyDerivationScript, Fields DEF Made, Calls
<1> QED
  BY <1>1 DEF Unwritten, Files, Outs

KeyDerivationInv ==
  /\ pc \in 1 .. 11
  /\ Given("salting") /\ Given("salting_again") /\ Given("password") /\ Given("password2")
  /\ Is("salt", <<"random", <<<<"salting">>>>>>)
  /\ Is("salt2", <<"random", <<<<"salting_again">>>>>>)
  /\ Is("derived_key", <<"pbkdf2", <<<<"password">>, <<"random", <<<<"salting">>>>>>>>>>)
  /\ Is("key2", <<"pbkdf2", <<<<"password">>, <<"random", <<<<"salting">>>>>>>>>>)
  /\ Is("key3", <<"pbkdf2", <<<<"password">>, <<"random", <<<<"salting_again">>>>>>>>>>)
  /\ pc >= 3 => "derived_key" \notin missed /\ mem["derived_key"][1] = "pbkdf2"
  /\ pc <= 4 => "key2" \in missed
  /\ pc <= 7 => "key3" \in missed
  /\ "key2" \in missed => mem["key2"] \in Unset("key2")
  /\ "key3" \in missed => mem["key3"] \in Unset("key3")
  /\ Len(verdicts) = IF pc <= 5 THEN 0 ELSE IF pc <= 8 THEN 1 ELSE 2

LEMMA KeyDerivationInit ==
  ASSUME Init, prog = "key_derivation"
  PROVE  KeyDerivationInv
<1> USE KeyDerivationScript
<1>1. /\ Unwritten(prog) \subseteq {"salt", "derived_key", "key2", "salt2", "key3", "key4"}
      /\ Files(prog) \subseteq {}
  BY KeyDerivationWrites
<1>2. {"salting", "password", "salting_again", "password2"} \subseteq Names(prog)
  BY NamesHas DEF Dropped, OrExit, Statement
<1>3. {"salt", "derived_key", "key2", "salt2", "key3"} \subseteq Names(prog) \cap Unwritten(prog)
  BY NamesHas, Fields DEF Made, Calls
<1>4. Given("salting") /\ Given("password") /\ Given("salting_again") /\ Given("password2")
  BY <1>1, <1>2, Inputs DEF Objects
<1>5. \A name \in {"salt", "derived_key", "key2", "salt2", "key3"} :
        /\ name \in DOMAIN mem \cap tainted \cap missed
        /\ mem[name] \in Unset(name)
  BY <1>1, <1>3, Beginning DEF Objects, Preset
<1> QED
  BY <1>4, <1>5, Beginning DEF KeyDerivationInv, Is

LEMMA KeyDerivationNext ==
  ASSUME Base, Sound, prog = "key_derivation", KeyDerivationInv, [Next]_vars
  PROVE  KeyDerivationInv' /\ Sound'
<1>0. /\ Now = Script(prog)[pc]
      /\ pc \in DOMAIN Script(prog) <=> pc \in 1 .. 10
  BY KeyDerivationScript DEF Now
<1>1. CASE pc = 1
  <2>1. pc \in DOMAIN Script(prog) /\ Now = Dropped("random", <<"salting">>, {"salt"})
    BY <1>0, <1>1, KeyDerivationScript
  <2>2. /\ prog' = prog
        /\ \/ Unmoved \/ Misses({"salt"})
           \/ /\ mem["salting"] # Null
              /\ Succeeds({"salting"}, {"salt"}, <<"random", <<mem["salting"]>>>>)
    BY <2>1, Call1 DEF Dropped, Plain
  <2>3. Sound' /\ Len(verdicts') = Len(verdicts)
    BY <2>2, StaysSound DEF Unmoved, Misses, Succeeds
  <2> QED
    BY <1>1, <2>2, <2>3 DEF KeyDerivationInv, Given, Is, Unmoved, Misses, Succeeds
<1>2. CASE pc = 2
  <2>1. pc \in DOMAIN Script(prog) /\ Now = OrExit("pbkdf2", <<"password", "salt">>,
            {"derived_key"})
    BY <1>0, <1>2, KeyDerivationScript
  <2>2. /\ prog' = prog
        /\ \/ Unmoved
           \/ /\ Succeeds({"password", "salt"}, {"derived_key"},
                     <<"pbkdf2", <<mem["password"], mem["salt"]>>>>)
           \/ /\ UNCHANGED <<pc, mem, verdicts>>
              /\ missed' = missed \cup {"derived_key"} /\ tainted' = tainted \cup {"derived_key"}
    <3>1. Plain("pbkdf2")
      BY DEF Plain
    <3>2. /\ prog' = prog
          /\ \/ Unmoved
             \/ /\ mem["password"] # Null /\ mem["salt"] # Null
                /\ Succeeds({"password", "salt"}, {"derived_key"},
                       <<"pbkdf2", <<mem["password"], mem["salt"]>>>>)
             \/ /\ code' = 1 /\ UNCHANGED <<pc, mem, verdicts>>
                /\ missed' = missed \cup {"derived_key"}
                /\ tainted' = tainted \cup {"derived_key"}
      BY <2>1, <3>1, CallOrExit, ZenonT(60)
    <3> QED
      BY <3>2
  <2>3. Sound' /\ Len(verdicts') = Len(verdicts)
    BY <2>2, StaysSound DEF Unmoved, Succeeds
  <2> QED
    BY <1>2, <2>2, <2>3 DEF KeyDerivationInv, Given, Is, Unmoved, Succeeds
<1>3. CASE pc = 3
  <2>1. pc \in DOMAIN Script(prog) /\ Now = Show(<<"derived_key">>)
    BY <1>0, <1>3, KeyDerivationScript
  <2>2. /\ prog' = prog
        /\ Unmoved \/ Shows
    BY <2>1, ShowStep
  <2>3. Sound' /\ Len(verdicts') = Len(verdicts)
    BY <2>2, StaysSound DEF Unmoved, Shows
  <2> QED
    BY <1>3, <2>2, <2>3 DEF KeyDerivationInv, Given, Is, Unmoved, Shows
<1>4. CASE pc = 4
  <2>1. pc \in DOMAIN Script(prog) /\ Now = Dropped("pbkdf2", <<"password", "salt">>, {"key2"})
    BY <1>0, <1>4, KeyDerivationScript
  <2>2. /\ prog' = prog
        /\ \/ Unmoved \/ Misses({"key2"})
           \/ /\ mem["password"] # Null /\ mem["salt"] # Null
              /\ Succeeds({"password", "salt"}, {"key2"},
                     <<"pbkdf2", <<mem["password"], mem["salt"]>>>>)
    BY <2>1, Call2 DEF Dropped, Plain
  <2>3. Sound' /\ Len(verdicts') = Len(verdicts)
    BY <2>2, StaysSound DEF Unmoved, Misses, Succeeds
  <2> QED
    BY <1>4, <2>2, <2>3 DEF KeyDerivationInv, Given, Is, Unmoved, Misses, Succeeds
<1>5. CASE pc = 5
  <2>1. pc \in DOMAIN Script(prog) /\ Now = Compare("derived_key", "key2")
    BY <1>0, <1>5, KeyDerivationScript
  <2>2. /\ prog' = prog
        /\ \/ Unmoved
           \/ \E outcome \in BOOLEAN :
                /\ Judges({"derived_key", "key2"}, outcome)
                /\ outcome <=> mem["derived_key"] = mem["key2"]
    BY <2>1, CompareStep, Zenon
  <2>3. CASE Unmoved
    BY <2>2, <2>3, StaysSound DEF Unmoved, KeyDerivationInv, Given, Is
  <2>4. ASSUME NEW outcome \in BOOLEAN, Judges({"derived_key", "key2"}, outcome),
               outcome <=> mem["derived_key"] = mem["key2"]
        PROVE  KeyDerivationInv' /\ Sound'
    <3>1. Len(verdicts) + 1 = 1
      BY <1>5 DEF KeyDerivationInv
    <3>2. Documented(prog)[Len(verdicts) + 1] = TRUE
      BY <3>1, Documents, Zenon
    <3>3. {"derived_key", "key2"} \cap tainted = {} => outcome
      BY <1>5, <2>4 DEF KeyDerivationInv, Given, Is, Unset, Zero
    <3>4. outcome => {"derived_key", "key2"} \cap missed = {}
      BY <1>5, <2>4 DEF KeyDerivationInv, Given, Is, Unset, Zero
    <3>5. Sound' /\ Len(verdicts') = 1
      BY <2>2, <2>4, <3>1, <3>2, <3>3, <3>4, JudgedTrue
    <3> QED
      BY <1>5, <2>4, <3>5 DEF Judges, KeyDerivationInv, Given, Is
  <2> QED
    BY <2>2, <2>3, <2>4
<1>6. CASE pc = 6
  <2>1. pc \in DOMAIN Script(prog) /\ Now = Dropped("random", <<"salting_again">>, {"salt2"})
    BY <1>0, <1>6, KeyDerivationScript
  <2>2. /\ prog' = prog
        /\ \/ Unmoved \/ Misses({"salt2"})
           \/ /\ mem["salting_again"] # Null
              /\ Succeeds({"salting_again"}, {"salt2"}, <<"random", <<mem["salting_again"]>>>>)
    BY <2>1, Call1 DEF Dropped, Plain
  <2>3. Sound' /\ Len(verdicts') = Len(verdicts)
    BY <2>2, StaysSound DEF Unmoved, Misses, Succeeds
  <2> QED
    BY <1>6, <2>2, <2>3 DEF KeyDerivationInv, Given, Is, Unmoved, Misses, Succeeds
<1>7. CASE pc = 7
  <2>1. pc \in DOMAIN Script(prog) /\ Now = Dropped("pbkdf2", <<"password", "salt2">>, {"key3"})
    BY <1>0, <1>7, KeyDerivationScript
  <2>2. /\ prog' = prog
        /\ \/ Unmoved \/ Misses({"key3"})
           \/ /\ mem["password"] # Null /\ mem["salt2"] # Null
              /\ Succeeds({"password", "salt2"}, {"key3"},
                     <<"pbkdf2", <<mem["password"], mem["salt2"]>>>>)
    BY <2>1, Call2 DEF Dropped, Plain
  <2>3. Sound' /\ Len(verdicts') = Len(verdicts)
    BY <2>2, StaysSound DEF Unmoved, Misses, Succeeds
  <2> QED
    BY <1>7, <2>2, <2>3 DEF KeyDerivationInv, Given, Is, Unmoved, Misses, Succeeds
<1>8. CASE pc = 8
  <2>1. pc \in DOMAIN Script(prog) /\ Now = Compare("derived_key", "key3")
    BY <1>0, <1>8, KeyDerivationScript
  <2>2. /\ prog' = prog
        /\ \/ Unmoved
           \/ \E outcome \in BOOLEAN :
                /\ Judges({"derived_key", "key3"}, outcome)
                /\ outcome <=> mem["derived_key"] = mem["key3"]
    BY <2>1, CompareStep, Zenon
  <2>3. CASE Unmoved
    BY <2>2, <2>3, StaysSound DEF Unmoved, KeyDerivationInv, Given, Is
  <2>4. ASSUME NEW outcome \in BOOLEAN, Judges({"derived_key", "key3"}, outcome),
               outcome <=> mem["derived_key"] = mem["key3"]
        PROVE  KeyDerivationInv' /\ Sound'
    <3>1. Len(verdicts) + 1 = 2
      BY <1>8 DEF KeyDerivationInv
    <3>2. Documented(prog)[Len(verdicts) + 1] = FALSE
      BY <3>1, Documents, Zenon
    <3>3. {"derived_key", "key3"} \cap tainted = {} => ~outcome
      BY <1>8, <2>4 DEF KeyDerivationInv, Given, Is, Unset, Zero
    <3>4. outcome => {"derived_key", "key3"} \cap missed = {}
      BY <1>8, <2>4 DEF KeyDerivationInv, Given, Is, Unset, Zero
    <3>5. Sound' /\ Len(verdicts') = 2
      BY <2>2, <2>4, <3>1, <3>2, <3>3, <3>4, JudgedFalse
    <3> QED
      BY <1>8, <2>4, <3>5 DEF Judges, KeyDerivationInv, Given, Is
  <2> QED
    BY <2>2, <2>3, <2>4
<1>9. CASE pc = 9
  <2>1. pc \in DOMAIN Script(prog) /\ Now = Dropped("pbkdf2", <<"password2", "salt">>, {"key4"})
    BY <1>0, <1>9, KeyDerivationScript
  <2>2. /\ prog' = prog
        /\ \/ Unmoved \/ Misses({"key4"})
           \/ /\ mem["password2"] # Null /\ mem["salt"] # Null
              /\ Succeeds({"password2", "salt"}, {"key4"},
                     <<"pbkdf2", <<mem["password2"], mem["salt"]>>>>)
    BY <2>1, Call2 DEF Dropped, Plain
  <2>3. Sound' /\ Len(verdicts') = Len(verdicts)
    BY <2>2, StaysSound DEF Unmoved, Misses, Succeeds
  <2> QED
    BY <1>9, <2>2, <2>3 DEF KeyDerivationInv, Given, Is, Unmoved, Misses, Succeeds
<1>10. CASE pc = 10
  <2>1. pc \in DOMAIN Script(prog) /\ Now = Show(<<"derived_key", "key4">>)
    BY <1>0, <1>10, KeyDerivationScript
  <2>2. /\ prog' = prog
        /\ Unmoved \/ Shows
    BY <2>1, ShowStep
  <2>3. Sound' /\ Len(verdicts') = Len(verdicts)
    BY <2>2, StaysSound DEF Unmoved, Shows
  <2> QED
    BY <1>10, <2>2, <2>3 DEF KeyDerivationInv, Given, Is, Unmoved, Shows
<1>11. CASE pc = 11
  <2>1. prog' = prog /\ Unmoved
    BY <1>0, <1>11, Moves
  <2> QED
    BY <2>1, StaysSound DEF Unmoved, KeyDerivationInv, Given, Is
<1> QED
  BY <1>1, <1>2, <1>3, <1>4, <1>5, <1>6, <1>7, <1>8, <1>9, <1>10, <1>11 DEF KeyDerivationInv

---------------------------------------------------------------------------
(* ecb_vs_cbc.                                                             *)

LEMMA EcbVsCbcScript ==
  /\ DOMAIN Script("ecb_vs_cbc") = 1 .. 10
  /\ Script("ecb_vs_cbc")[1] = Dropped("random", <<"a_key">>, {"key"})
  /\ Script("ecb_vs_cbc")[2] = Dropped("random", <<"an_iv">>, {"iv"})
  /\ Script("ecb_vs_cbc")[3] = Bare("ecb", <<"key", "plaintext">>, {"ciphertext_ecb"})
  /\ Script("ecb_vs_cbc")[4] = Show(<<"ciphertext_ecb">>)
  /\ Script("ecb_vs_cbc")[5] = CompareBlock1("ciphertext_ecb", 2)
  /\ Script("ecb_vs_cbc")[6] = CompareBlock1("ciphertext_ecb", 4)
  /\ Script("ecb_vs_cbc")[7] = Bare("cbc", <<"key", "iv", "plaintext">>, {"ciphertext_cbc"})
  /\ Script("ecb_vs_cbc")[8] = Show(<<"ciphertext_cbc">>)
  /\ Script("ecb_vs_cbc")[9] = CompareBlock1("ciphertext_cbc", 2)
  /\ Script("ecb_vs_cbc")[10] = CompareBlock1("ciphertext_cbc", 4)
BY ScriptOf DEF ecb_vs_cbc, RandBytes, aes_ecb_encrypt, aes_cbc_encrypt

LEMMA EcbVsCbcWrites ==
  /\ Unwritten("ecb_vs_cbc") \subseteq {"key", "iv", "ciphertext_ecb", "ciphertext_cbc"}
  /\ Files("ecb_vs_cbc") \subseteq {}
<1>1. ASSUME NEW k \in DOMAIN Script("ecb_vs_cbc")
      PROVE  /\ Script("ecb_vs_cbc")[k].kind \in Calls =>
                  Script("ecb_vs_cbc")[k].outs
                    \subseteq {"key", "iv", "ciphertext_ecb", "ciphertext_cbc"}
             /\ Script("ecb_vs_cbc")[k].kind = "fopen" =>
                  Script("ecb_vs_cbc")[k].outs \subseteq {}
  <2>1. k \in 1 .. 10
    BY EcbVsCbcScript
  <2> QED
    BY <2>1, EcbVsCbcScript, Fields DEF Made, Calls
<1> QED
  BY <1>1 DEF Unwritten, Files, Outs

EcbVsCbcInv ==
  /\ pc \in 1 .. 11
  /\ {"key", "iv", "plaintext", "ciphertext_ecb", "ciphertext_cbc"} \subseteq DOMAIN mem
  /\ "ciphertext_ecb" \in tainted \/ mem["ciphertext_ecb"][1] = "ecb"
  /\ "ciphertext_cbc" \in tainted \/ mem["ciphertext_cbc"][1] = "cbc"
  /\ Len(verdicts) = IF pc <= 5 THEN 0 ELSE IF pc = 6 THEN 1 ELSE IF pc <= 9 THEN 2
                     ELSE IF pc = 10 THEN 3 ELSE 4

LEMMA EcbVsCbcInit ==
  ASSUME Init, prog = "ecb_vs_cbc"
  PROVE  EcbVsCbcInv
<1> USE EcbVsCbcScript
<1>1. /\ Unwritten(prog) \subseteq {"key", "iv", "ciphertext_ecb", "ciphertext_cbc"}
      /\ Files(prog) \subseteq {}
  BY EcbVsCbcWrites
<1>2. {"plaintext"} \subseteq Names(prog)
  BY NamesHas DEF Bare, Statement
<1>3. {"key", "iv", "ciphertext_ecb", "ciphertext_cbc"} \subseteq Names(prog) \cap Unwritten(prog)
  BY NamesHas, Fields DEF Made, Calls
<1> QED
  BY <1>1, <1>2, <1>3, Beginning DEF EcbVsCbcInv, Objects, Preset

LEMMA EcbVsCbcNext ==
  ASSUME Base, Sound, prog = "ecb_vs_cbc", EcbVsCbcInv, [Next]_vars
  PROVE  EcbVsCbcInv' /\ Sound'
<1>0. /\ Now = Script(prog)[pc]
      /\ pc \in DOMAIN Script(prog) <=> pc \in 1 .. 10
  BY EcbVsCbcScript DEF Now
<1>1. CASE pc = 1
  <2>1. pc \in DOMAIN Script(prog) /\ Now = Dropped("random", <<"a_key">>, {"key"})
    BY <1>0, <1>1, EcbVsCbcScript
  <2>2. /\ prog' = prog
        /\ \/ Unmoved \/ Misses({"key"})
           \/ /\ mem["a_key"] # Null
              /\ Succeeds({"a_key"}, {"key"}, <<"random", <<mem["a_key"]>>>>)
    BY <2>1, Call1 DEF Dropped, Plain
  <2>3. Sound' /\ Len(verdicts') = Len(verdicts)
    BY <2>2, StaysSound DEF Unmoved, Misses, Succeeds
  <2> QED
    BY <1>1, <2>2, <2>3 DEF EcbVsCbcInv, Unmoved, Misses, Succeeds
<1>2. CASE pc = 2
  <2>1. pc \in DOMAIN Script(prog) /\ Now = Dropped("random", <<"an_iv">>, {"iv"})
    BY <1>0, <1>2, EcbVsCbcScript
  <2>2. /\ prog' = prog
        /\ \/ Unmoved \/ Misses({"iv"})
           \/ /\ mem["an_iv"] # Null
              /\ Succeeds({"an_iv"}, {"iv"}, <<"random", <<mem["an_iv"]>>>>)
    BY <2>1, Call1 DEF Dropped, Plain
  <2>3. Sound' /\ Len(verdicts') = Len(verdicts)
    BY <2>2, StaysSound DEF Unmoved, Misses, Succeeds
  <2> QED
    BY <1>2, <2>2, <2>3 DEF EcbVsCbcInv, Unmoved, Misses, Succeeds
<1>3. CASE pc = 3
  <2>1. pc \in DOMAIN Script(prog) /\ Now = Bare("ecb", <<"key", "plaintext">>,
            {"ciphertext_ecb"})
    BY <1>0, <1>3, EcbVsCbcScript
  <2>2. /\ prog' = prog
        /\ \/ Unmoved \/ Misses({"ciphertext_ecb"})
           \/ /\ mem["key"] # Null /\ mem["plaintext"] # Null
              /\ Succeeds({"key", "plaintext"}, {"ciphertext_ecb"},
                     <<"ecb", <<mem["key"], mem["plaintext"]>>>>)
    BY <2>1, Call2 DEF Bare, Plain
  <2>3. Sound' /\ Len(verdicts') = Len(verdicts)
    BY <2>2, StaysSound DEF Unmoved, Misses, Succeeds
  <2> QED
    BY <1>3, <2>2, <2>3 DEF EcbVsCbcInv, Unmoved, Misses, Succeeds
<1>4. CASE pc = 4
  <2>1. pc \in DOMAIN Script(prog) /\ Now = Show(<<"ciphertext_ecb">>)
    BY <1>0, <1>4, EcbVsCbcScript
  <2>2. /\ prog' = prog
        /\ Unmoved \/ Shows
    BY <2>1, ShowStep
  <2>3. Sound' /\ Len(verdicts') = Len(verdicts)
    BY <2>2, StaysSound DEF Unmoved, Shows
  <2> QED
    BY <1>4, <2>2, <2>3 DEF EcbVsCbcInv, Unmoved, Shows
<1>5. CASE pc = 5
  <2>1. pc \in DOMAIN Script(prog) /\ Now = CompareBlock1("ciphertext_ecb", 2)
    BY <1>0, <1>5, EcbVsCbcScript
  <2>2. /\ prog' = prog
        /\ \/ Unmoved
           \/ \E outcome \in BOOLEAN :
                /\ Judges({"ciphertext_ecb"}, outcome)
                /\ outcome <=> Block(mem["ciphertext_ecb"], 1) = Block(mem["ciphertext_ecb"], 2)
    BY <2>1, CompareBlockStep, Zenon
  <2>3. CASE Unmoved
    BY <2>2, <2>3, StaysSound DEF Unmoved, EcbVsCbcInv
  <2>4. ASSUME NEW outcome \in BOOLEAN, Judges({"ciphertext_ecb"}, outcome),
               outcome <=> Block(mem["ciphertext_ecb"], 1) = Block(mem["ciphertext_ecb"], 2)
        PROVE  EcbVsCbcInv' /\ Sound'
    <3>1. Len(verdicts) + 1 = 1
      BY <1>5 DEF EcbVsCbcInv
    <3>2. Documented(prog)[Len(verdicts) + 1] = TRUE
      BY <3>1, Documents, Zenon
    <3>3. {"ciphertext_ecb"} \cap tainted = {} => outcome
      BY <1>5, <2>4 DEF EcbVsCbcInv, Block, Zero, pattern
    <3>5. Sound' /\ Len(verdicts') = 1
      BY <2>2, <2>4, <3>1, <3>2, <3>3, JudgedTrue
    <3> QED
      BY <1>5, <2>4, <3>5 DEF Judges, EcbVsCbcInv
  <2> QED
    BY <2>2, <2>3, <2>4
<1>6. CASE pc = 6
  <2>1. pc \in DOMAIN Script(prog) /\ Now = CompareBlock1("ciphertext_ecb", 4)
    BY <1>0, <1>6, EcbVsCbcScript
  <2>2. /\ prog' = prog
        /\ \/ Unmoved
           \/ \E outcome \in BOOLEAN :
                /\ Judges({"ciphertext_ecb"}, outcome)
                /\ outcome <=> Block(mem["ciphertext_ecb"], 1) = Block(mem["ciphertext_ecb"], 4)
    BY <2>1, CompareBlockStep, Zenon
  <2>3. CASE Unmoved
    BY <2>2, <2>3, StaysSound DEF Unmoved, EcbVsCbcInv
  <2>4. ASSUME NEW outcome \in BOOLEAN, Judges({"ciphertext_ecb"}, outcome),
               outcome <=> Block(mem["ciphertext_ecb"], 1) = Block(mem["ciphertext_ecb"], 4)
        PROVE  EcbVsCbcInv' /\ Sound'
    <3>1. Len(verdicts) + 1 = 2
      BY <1>6 DEF EcbVsCbcInv
    <3>2. Documented(prog)[Len(verdicts) + 1] = TRUE
      BY <3>1, Documents, Zenon
    <3>3. {"ciphertext_ecb"} \cap tainted = {} => outcome
      BY <1>6, <2>4 DEF EcbVsCbcInv, Block, Zero, pattern
    <3>5. Sound' /\ Len(verdicts') = 2
      BY <2>2, <2>4, <3>1, <3>2, <3>3, JudgedTrue
    <3> QED
      BY <1>6, <2>4, <3>5 DEF Judges, EcbVsCbcInv
  <2> QED
    BY <2>2, <2>3, <2>4
<1>7. CASE pc = 7
  <2>1. pc \in DOMAIN Script(prog) /\ Now = Bare("cbc", <<"key", "iv", "plaintext">>,
            {"ciphertext_cbc"})
    BY <1>0, <1>7, EcbVsCbcScript
  <2>2. /\ prog' = prog
        /\ \/ Unmoved \/ Misses({"ciphertext_cbc"})
           \/ /\ mem["key"] # Null /\ mem["iv"] # Null /\ mem["plaintext"] # Null
              /\ Succeeds({"key", "iv", "plaintext"}, {"ciphertext_cbc"},
                     <<"cbc", <<mem["key"], mem["iv"], mem["plaintext"]>>>>)
    BY <2>1, Call3 DEF Bare, Plain
  <2>3. Sound' /\ Len(verdicts') = Len(verdicts)
    BY <2>2, StaysSound DEF Unmoved, Misses, Succeeds
  <2> QED
    BY <1>7, <2>2, <2>3 DEF EcbVsCbcInv, Unmoved, Misses, Succeeds
<1>8. CASE pc = 8
  <2>1. pc \in DOMAIN Script(prog) /\ Now = Show(<<"ciphertext_cbc">>)
    BY <1>0, <1>8, EcbVsCbcScript
  <2>2. /\ prog' = prog
        /\ Unmoved \/ Shows
    BY <2>1, ShowStep
  <2>3. Sound' /\ Len(verdicts') = Len(verdicts)
    BY <2>2, StaysSound DEF Unmoved, Shows
  <2> QED
    BY <1>8, <2>2, <2>3 DEF EcbVsCbcInv, Unmoved, Shows
<1>9. CASE pc = 9
  <2>1. pc \in DOMAIN Script(prog) /\ Now = CompareBlock1("ciphertext_cbc", 2)
    BY <1>0, <1>9, EcbVsCbcScript
  <2>2. /\ prog' = prog
        /\ \/ Unmoved
           \/ \E outcome \in BOOLEAN :
                /\ Judges({"ciphertext_cbc"}, outcome)
                /\ outcome <=> Block(mem["ciphertext_cbc"], 1) = Block(mem["ciphertext_cbc"], 2)
    BY <2>1, CompareBlockStep, Zenon
  <2>3. CASE Unmoved
    BY <2>2, <2>3, StaysSound DEF Unmoved, EcbVsCbcInv
  <2>4. ASSUME NEW outcome \in BOOLEAN, Judges({"ciphertext_cbc"}, outcome),
               outcome <=> Block(mem["ciphertext_cbc"], 1) = Block(mem["ciphertext_cbc"], 2)
        PROVE  EcbVsCbcInv' /\ Sound'
    <3>1. Len(verdicts) + 1 = 3
      BY <1>9 DEF EcbVsCbcInv
    <3>2. Documented(prog)[Len(verdicts) + 1] = FALSE
      BY <3>1, Documents, Zenon
    <3>3. {"ciphertext_cbc"} \cap tainted = {} => ~outcome
      BY <1>9, <2>4 DEF EcbVsCbcInv, Block, Zero, pattern
    <3>5. Sound' /\ Len(verdicts') = 3
      BY <2>2, <2>4, <3>1, <3>2, <3>3, JudgedFalse
    <3> QED
      BY <1>9, <2>4, <3>5 DEF Judges, EcbVsCbcInv
  <2> QED
    BY <2>2, <2>3, <2>4
<1>10. CASE pc = 10
  <2>1. pc \in DOMAIN Script(prog) /\ Now = CompareBlock1("ciphertext_cbc", 4)
    BY <1>0, <1>10, EcbVsCbcScript
  <2>2. /\ prog' = prog
        /\ \/ Unmoved
           \/ \E outcome \in BOOLEAN :
                /\ Judges({"ciphertext_cbc"}, outcome)
                /\ outcome <=> Block(mem["ciphertext_cbc"], 1) = Block(mem["ciphertext_cbc"], 4)
    BY <2>1, CompareBlockStep, Zenon
  <2>3. CASE Unmoved
    BY <2>2, <2>3, StaysSound DEF Unmoved, EcbVsCbcInv
  <2>4. ASSUME NEW outcome \in BOOLEAN, Judges({"ciphertext_cbc"}, outcome),
               outcome <=> Block(mem["ciphertext_cbc"], 1) = Block(mem["ciphertext_cbc"], 4)
        PROVE  EcbVsCbcInv' /\ Sound'
    <3>1. Len(verdicts) + 1 = 4
      BY <1>10 DEF EcbVsCbcInv
    <3>2. Documented(prog)[Len(verdicts) + 1] = FALSE
      BY <3>1, Documents, Zenon
    <3>3. {"ciphertext_cbc"} \cap tainted = {} => ~outcome
      BY <1>10, <2>4 DEF EcbVsCbcInv, Block, Zero, pattern
    <3>5. Sound' /\ Len(verdicts') = 4
      BY <2>2, <2>4, <3>1, <3>2, <3>3, JudgedFalse
    <3> QED
      BY <1>10, <2>4, <3>5 DEF Judges, EcbVsCbcInv
  <2> QED
    BY <2>2, <2>3, <2>4
<1>11. CASE pc = 11
  <2>1. prog' = prog /\ Unmoved
    BY <1>0, <1>11, Moves
  <2> QED
    BY <2>1, StaysSound DEF Unmoved, EcbVsCbcInv
<1> QED
  BY <1>1, <1>2, <1>3, <1>4, <1>5, <1>6, <1>7, <1>8, <1>9, <1>10, <1>11 DEF EcbVsCbcInv

---------------------------------------------------------------------------
(* ecdh_exchange.                                                          *)

LEMMA EcdhExchangeScript ==
  /\ DOMAIN Script("ecdh_exchange") = 1 .. 7
  /\ Script("ecdh_exchange")[1] = Dropped("keygen", <<"alice">>, {"alice_key"})
  /\ Script("ecdh_exchange")[2] = Dropped("keygen", <<"bob">>, {"bob_key"})
  /\ Script("ecdh_exchange")[3] =
       Dropped("secret_size", <<"alice_key", "bob_key">>, {"secret_len"})
  /\ Script("ecdh_exchange")[4] =
       Dropped("derive", <<"alice_key", "bob_key">>, {"alice_secret", "secret_len"})
  /\ Script("ecdh_exchange")[5] =
       Dropped("derive", <<"bob_key", "alice_key">>, {"bob_secret", "secret_len"})
  /\ Script("ecdh_exchange")[6] = Show(<<"alice_secret", "bob_secret">>)
  /\ Script("ecdh_exchange")[7] = CompareUpTo("alice_secret", "bob_secret", "secret_len")
BY ScriptOf DEF ecdh_exchange, Keygen

LEMMA EcdhExchangeWrites ==
  /\ Unwritten("ecdh_exchange")
         \subseteq {"alice_key", "bob_key", "secret_len", "alice_secret", "bob_secret"}
  /\ Files("ecdh_exchange") \subseteq {}
<1>1. ASSUME NEW k \in DOMAIN Script("ecdh_exchange")
      PROVE  /\ Script("ecdh_exchange")[k].kind \in Calls =>
                  Script("ecdh_exchange")[k].outs
                    \subseteq {"alice_key", "bob_key", "secret_len", "alice_secret", "bob_secret"}
             /\ Script("ecdh_exchange")[k].kind = "fopen" =>
                  Script("ecdh_exchange")[k].outs \subseteq {}
  <2>1. k \in 1 .. 7
    BY EcdhExchangeScript
  <2> QED
    BY <2>1, EcdhExchangeScript, Fields DEF Made, Calls
<1> QED
  BY <1>1 DEF Unwritten, Files, Outs

EcdhExchangeInv ==
  /\ pc \in 1 .. 8
  /\ Given("alice") /\ Given("bob")
  /\ Is("alice_key", <<"keygen", <<<<"alice">>>>>>)
  /\ Is("bob_key", <<"keygen", <<<<"bob">>>>>>)
  /\ Is("alice_secret",
        <<"derive", {<<"keygen", <<<<"alice">>>>>>, <<"keygen", <<<<"bob">>>>>>}>>)
  /\ Is("bob_secret",
        <<"derive", {<<"keygen", <<<<"alice">>>>>>, <<"keygen", <<<<"bob">>>>>>}>>)
  /\ "secret_len" \in DOMAIN mem
  /\ "secret_len" \in tainted \/ mem["secret_len"][1] \in {"secret_size", "derive"}
  /\ Len(verdicts) = IF pc <= 7 THEN 0 ELSE 1

LEMMA EcdhExchangeInit ==
  ASSUME Init, prog = "ecdh_exchange"
  PROVE  EcdhExchangeInv
<1> USE EcdhExchangeScript
<1>1. /\ Unwritten(prog)
             \subseteq {"alice_key", "bob_key", "secret_len", "alice_secret", "bob_secret"}
      /\ Files(prog) \subseteq {}
  BY EcdhExchangeWrites
<1>2. {"alice", "bob"} \subseteq Names(prog)
  BY NamesHas DEF Dropped, Statement
<1>3. {"alice_key", "bob_key", "secret_len", "alice_secret", "bob_secret"}
          \subseteq Names(prog) \cap Unwritten(prog)
  BY NamesHas, Fields DEF Made, Calls
<1> QED
  BY <1>1, <1>2, <1>3, Beginning DEF EcdhExchangeInv, Given, Is, Objects, Preset

LEMMA EcdhExchangeNext ==
  ASSUME Base, Sound, prog = "ecdh_exchange", EcdhExchangeInv, [Next]_vars
  PROVE  EcdhExchangeInv' /\ Sound'
<1>0. /\ Now = Script(prog)[pc]
      /\ pc \in DOMAIN Script(prog) <=> pc \in 1 .. 7
  BY EcdhExchangeScript DEF Now
<1>1. CASE pc = 1
  <2>1. pc \in DOMAIN Script(prog) /\ Now = Dropped("keygen", <<"alice">>, {"alice_key"})
    BY <1>0, <1>1, EcdhExchangeScript
  <2>2. /\ prog' = prog
        /\ \/ Unmoved \/ Misses({"alice_key"})
           \/ /\ mem["alice"] # Null
              /\ Succeeds({"alice"}, {"alice_key"}, <<"keygen", <<mem["alice"]>>>>)
    BY <2>1, Call1 DEF Dropped, Plain
  <2>3. Sound' /\ Len(verdicts') = Len(verdicts)
    BY <2>2, StaysSound DEF Unmoved, Misses, Succeeds
  <2> QED
    BY <1>1, <2>2, <2>3 DEF EcdhExchangeInv, Given, Is, Unmoved, Misses, Succeeds
<1>2. CASE pc = 2
  <2>1. pc \in DOMAIN Script(prog) /\ Now = Dropped("keygen", <<"bob">>, {"bob_key"})
    BY <1>0, <1>2, EcdhExchangeScript
  <2>2. /\ prog' = prog
        /\ \/ Unmoved \/ Misses({"bob_key"})
           \/ /\ mem["bob"] # Null
              /\ Succeeds({"bob"}, {"bob_key"}, <<"keygen", <<mem["bob"]>>>>)
    BY <2>1, Call1 DEF Dropped, Plain
  <2>3. Sound' /\ Len(verdicts') = Len(verdicts)
    BY <2>2, StaysSound DEF Unmoved, Misses, Succeeds
  <2> QED
    BY <1>2, <2>2, <2>3 DEF EcdhExchangeInv, Given, Is, Unmoved, Misses, Succeeds
<1>3. CASE pc = 3
  <2>1. pc \in DOMAIN Script(prog) /\ Now = Dropped("secret_size", <<"alice_key", "bob_key">>,
            {"secret_len"})
    BY <1>0, <1>3, EcdhExchangeScript
  <2>2. /\ prog' = prog
        /\ \/ Unmoved \/ Misses({"secret_len"})
           \/ /\ mem["alice_key"] # Null /\ mem["bob_key"] # Null
              /\ Succeeds({"alice_key", "bob_key"}, {"secret_len"},
                     <<"secret_size", <<mem["alice_key"], mem["bob_key"]>>>>)
    BY <2>1, Call2 DEF Dropped, Plain
  <2>3. Sound' /\ Len(verdicts') = Len(verdicts)
    BY <2>2, StaysSound DEF Unmoved, Misses, Succeeds
  <2> QED
    BY <1>3, <2>2, <2>3 DEF EcdhExchangeInv, Given, Is, Unmoved, Misses, Succeeds
<1>4. CASE pc = 4
  <2>1. pc \in DOMAIN Script(prog) /\ Now = Dropped("derive", <<"alice_key", "bob_key">>,
            {"alice_secret", "secret_len"})
    BY <1>0, <1>4, EcdhExchangeScript
  <2>2. /\ prog' = prog
        /\ \/ Unmoved \/ Misses({"alice_secret", "secret_len"})
           \/ Succeeds({"alice_key", "bob_key"}, {"alice_secret", "secret_len"},
                  <<"derive", {mem["alice_key"], mem["bob_key"]}>>)
    BY <2>1, CallDerive
  <2>3. Sound' /\ Len(verdicts') = Len(verdicts)
    BY <2>2, StaysSound DEF Unmoved, Misses, Succeeds
  <2> QED
    BY <1>4, <2>2, <2>3 DEF EcdhExchangeInv, Given, Is, Unmoved, Misses, Succeeds
<1>5. CASE pc = 5
  <2>1. pc \in DOMAIN Script(prog) /\ Now = Dropped("derive", <<"bob_key", "alice_key">>,
            {"bob_secret", "secret_len"})
    BY <1>0, <1>5, EcdhExchangeScript
  <2>2. /\ prog' = prog
        /\ \/ Unmoved \/ Misses({"bob_secret", "secret_len"})
           \/ Succeeds({"bob_key", "alice_key"}, {"bob_secret", "secret_len"},
                  <<"derive", {mem["bob_key"], mem["alice_key"]}>>)
    BY <2>1, CallDerive
  <2>3. Sound' /\ Len(verdicts') = Len(verdicts)
    BY <2>2, StaysSound DEF Unmoved, Misses, Succeeds
  <2> QED
    BY <1>5, <2>2, <2>3 DEF EcdhExchangeInv, Given, Is, Unmoved, Misses, Succeeds
<1>6. CASE pc = 6
  <2>1. pc \in DOMAIN Script(prog) /\ Now = Show(<<"alice_secret", "bob_secret">>)
    BY <1>0, <1>6, EcdhExchangeScript
  <2>2. /\ prog' = prog
        /\ Unmoved \/ Shows
    BY <2>1, ShowStep
  <2>3. Sound' /\ Len(verdicts') = Len(verdicts)
    BY <2>2, StaysSound DEF Unmoved, Shows
  <2> QED
    BY <1>6, <2>2, <2>3 DEF EcdhExchangeInv, Given, Is, Unmoved, Shows
<1>7. CASE pc = 7
  <2>1. pc \in DOMAIN Script(prog) /\ Now = CompareUpTo("alice_secret", "bob_secret",
            "secret_len")
    BY <1>0, <1>7, EcdhExchangeScript
  <2>2. /\ prog' = prog
        /\ \/ Unmoved
           \/ \E outcome \in BOOLEAN :
                /\ Judges({"alice_secret", "bob_secret", "secret_len"}, outcome)
                /\ mem["secret_len"][1] \notin Stacks =>
                       (outcome <=> mem["alice_secret"] = mem["bob_secret"])
    BY <2>1, CompareUpToStep, Zenon
  <2>3. CASE Unmoved
    BY <2>2, <2>3, StaysSound DEF Unmoved, EcdhExchangeInv, Given, Is
  <2>4. ASSUME NEW outcome \in BOOLEAN,
                   Judges({"alice_secret", "bob_secret", "secret_len"}, outcome),
               mem["secret_len"][1] \notin Stacks =>
                   (outcome <=> mem["alice_secret"] = mem["bob_secret"])
        PROVE  EcdhExchangeInv' /\ Sound'
    <3>1. Len(verdicts) + 1 = 1
      BY <1>7 DEF EcdhExchangeInv
    <3>2. Documented(prog)[Len(verdicts) + 1] = TRUE
      BY <3>1, Documents, Zenon
    <3>3. {"alice_secret", "bob_secret", "secret_len"} \cap tainted = {} => outcome
      BY <1>7, <2>4 DEF EcdhExchangeInv, Given, Is, Stacks
    <3>5. Sound' /\ Len(verdicts') = 1
      BY <2>2, <2>4, <3>1, <3>2, <3>3, JudgedTrue
    <3> QED
      BY <1>7, <2>4, <3>5 DEF Judges, EcdhExchangeInv, Given, Is
  <2> QED
    BY <2>2, <2>3, <2>4
<1>8. CASE pc = 8
  <2>1. prog' = prog /\ Unmoved
    BY <1>0, <1>8, Moves
  <2> QED
    BY <2>1, StaysSound DEF Unmoved, EcdhExchangeInv, Given, Is
<1> QED
  BY <1>1, <1>2, <1>3, <1>4, <1>5, <1>6, <1>7, <1>8 DEF EcdhExchangeInv

---------------------------------------------------------------------------
(* rsa_encrypt.                                                            *)

LEMMA RsaEncryptScript ==
  /\ DOMAIN Script("rsa_encrypt") = 1 .. 8
  /\ Script("rsa_encrypt")[1] = Dropped("keygen", <<"rsa">>, {"pkey"})
  /\ Script("rsa_encrypt")[2] = Dropped("encrypted_size", <<"pkey", "plaintext">>, {"ct_len"})
  /\ Script("rsa_encrypt")[3] =
       Dropped("encrypt", <<"pkey", "plaintext">>, {"ciphertext", "ct_len"})
  /\ Script("rsa_encrypt")[4] = Show(<<"ciphertext">>)
  /\ Script("rsa_encrypt")[5] =
       Dropped("decrypt", <<"pkey", "ciphertext">>, {"decrypted", "dec_len"})
  /\ Script("rsa_encrypt")[6] = Terminate("dec_len")
  /\ Script("rsa_encrypt")[7] = Show(<<"decrypted">>)
  /\ Script("rsa_encrypt")[8] = Compare("plaintext", "decrypted")
BY ScriptOf DEF rsa_encrypt, Keygen

LEMMA RsaEncryptWrites ==
  /\ Unwritten("rsa_encrypt") \subseteq {"pkey", "ct_len", "ciphertext", "decrypted", "dec_len"}
  /\ Files("rsa_encrypt") \subseteq {}
<1>1. ASSUME NEW k \in DOMAIN Script("rsa_encrypt")
      PROVE  /\ Script("rsa_encrypt")[k].kind \in Calls =>
                  Script("rsa_encrypt")[k].outs
                    \subseteq {"pkey", "ct_len", "ciphertext", "decrypted", "dec_len"}
             /\ Script("rsa_encrypt")[k].kind = "fopen" =>
                  Script("rsa_encrypt")[k].outs \subseteq {}
  <2>1. k \in 1 .. 8
    BY RsaEncryptScript
  <2> QED
    BY <2>1, RsaEncryptScript, Fields DEF Made, Calls
<1> QED
  BY <1>1 DEF Unwritten, Files, Outs

RsaEncryptInv ==
  /\ pc \in 1 .. 9
  /\ Given("rsa") /\ Given("plaintext")
  /\ Holds("pkey", <<"keygen", <<<<"rsa">>>>>>, {Null})
  /\ Holds("ciphertext", <<"encrypt", <<<<"keygen", <<<<"rsa">>>>>>, <<"plaintext">>>>>>,
           Unset("ciphertext"))
  /\ Holds("decrypted", <<"plaintext">>, Unset("decrypted"))
  /\ Holds("dec_len", <<"plaintext">>, {<<"dec_len">>})
  /\ pc <= 1 => "pkey" \in tainted
  /\ pc <= 3 => "ciphertext" \in tainted
  /\ pc <= 5 => "decrypted" \in tainted /\ "dec_len" \in tainted
  /\ Len(verdicts) = IF pc <= 6 THEN 0 ELSE IF pc <= 8 THEN 1 ELSE 2

LEMMA RsaEncryptInit ==
  ASSUME Init, prog = "rsa_encrypt"
  PROVE  RsaEncryptInv
<1> USE RsaEncryptScript
<1>1. /\ Unwritten(prog) \subseteq {"pkey", "ct_len", "ciphertext", "decrypted", "dec_len"}
      /\ Files(prog) \subseteq {}
  BY RsaEncryptWrites
<1>2. {"rsa", "plaintext"} \subseteq Names(prog)
  BY NamesHas DEF Dropped, Statement
<1>3. {"pkey", "ciphertext", "decrypted", "dec_len"} \subseteq Names(prog) \cap Unwritten(prog)
  BY NamesHas, Fields DEF Made, Calls
<1> QED
  BY <1>1, <1>2, <1>3, Beginning DEF RsaEncryptInv, Given, Holds, Objects, Preset

LEMMA RsaEncryptNext ==
  ASSUME Base, Sound, prog = "rsa_encrypt", RsaEncryptInv, [Next]_vars
  PROVE  RsaEncryptInv' /\ Sound'
<1>0. /\ Now = Script(prog)[pc]
      /\ pc \in DOMAIN Script(prog) <=> pc \in 1 .. 8
  BY RsaEncryptScript DEF Now
<1>1. CASE pc = 1
  <2>1. pc \in DOMAIN Script(prog) /\ Now = Dropped("keygen", <<"rsa">>, {"pkey"})
    BY <1>0, <1>1, RsaEncryptScript
  <2>2. /\ prog' = prog
        /\ \/ Unmoved \/ Misses({"pkey"})
           \/ /\ mem["rsa"] # Null
              /\ Succeeds({"rsa"}, {"pkey"}, <<"keygen", <<mem["rsa"]>>>>)
    BY <2>1, Call1 DEF Dropped, Plain
  <2>3. Sound' /\ Len(verdicts') = Len(verdicts)
    BY <2>2, StaysSound DEF Unmoved, Misses, Succeeds
  <2> QED
    BY <1>1, <2>2, <2>3 DEF RsaEncryptInv, Given, Holds, Unmoved, Misses, Succeeds
<1>2. CASE pc = 2
  <2>1. pc \in DOMAIN Script(prog) /\ Now = Dropped("encrypted_size", <<"pkey", "plaintext">>,
            {"ct_len"})
    BY <1>0, <1>2, RsaEncryptScript
  <2>2. /\ prog' = prog
        /\ \/ Unmoved \/ Misses({"ct_len"})
           \/ /\ mem["pkey"] # Null /\ mem["plaintext"] # Null
              /\ Succeeds({"pkey", "plaintext"}, {"ct_len"},
                     <<"encrypted_size", <<mem["pkey"], mem["plaintext"]>>>>)
    BY <2>1, Call2 DEF Dropped, Plain
  <2>3. Sound' /\ Len(verdicts') = Len(verdicts)
    BY <2>2, StaysSound DEF Unmoved, Misses, Succeeds
  <2> QED
    BY <1>2, <2>2, <2>3 DEF RsaEncryptInv, Given, Holds, Unmoved, Misses, Succeeds
<1>3. CASE pc = 3
  <2>1. pc \in DOMAIN Script(prog) /\ Now = Dropped("encrypt", <<"pkey", "plaintext">>,
            {"ciphertext", "ct_len"})
    BY <1>0, <1>3, RsaEncryptScript
  <2>2. /\ prog' = prog
        /\ \/ Unmoved \/ Misses({"ciphertext", "ct_len"})
           \/ /\ mem["pkey"] # Null /\ mem["plaintext"] # Null
              /\ Succeeds({"pkey", "plaintext"}, {"ciphertext", "ct_len"},
                     <<"encrypt", <<mem["pkey"], mem["plaintext"]>>>>)
    BY <2>1, Call2 DEF Dropped, Plain
  <2>3. Sound' /\ Len(verdicts') = Len(verdicts)
    BY <2>2, StaysSound DEF Unmoved, Misses, Succeeds
  <2> QED
    BY <1>3, <2>2, <2>3 DEF RsaEncryptInv, Given, Holds, Unmoved, Misses, Succeeds
<1>4. CASE pc = 4
  <2>1. pc \in DOMAIN Script(prog) /\ Now = Show(<<"ciphertext">>)
    BY <1>0, <1>4, RsaEncryptScript
  <2>2. /\ prog' = prog
        /\ Unmoved \/ Shows
    BY <2>1, ShowStep
  <2>3. Sound' /\ Len(verdicts') = Len(verdicts)
    BY <2>2, StaysSound DEF Unmoved, Shows
  <2> QED
    BY <1>4, <2>2, <2>3 DEF RsaEncryptInv, Given, Holds, Unmoved, Shows
<1>5. CASE pc = 5
  <2>1. pc \in DOMAIN Script(prog) /\ Now = Dropped("decrypt", <<"pkey", "ciphertext">>,
            {"decrypted", "dec_len"})
    BY <1>0, <1>5, RsaEncryptScript
  <2>2. /\ prog' = prog
        /\ \/ Unmoved \/ Misses({"decrypted", "dec_len"})
           \/ /\ mem["pkey"] # Null /\ mem["ciphertext"][1] = "encrypt"
              /\ Succeeds({"pkey", "ciphertext"}, {"decrypted", "dec_len"},
                     mem["ciphertext"][2][2])
    BY <2>1, CallDecrypt
  <2>3. Sound' /\ Len(verdicts') = Len(verdicts)
    BY <2>2, StaysSound DEF Unmoved, Misses, Succeeds
  <2> QED
    BY <1>5, <2>2, <2>3 DEF RsaEncryptInv, Given, Holds, Unmoved, Misses, Succeeds, Unset, Zero,
       Null
<1>6. CASE pc = 6
  <2>1. pc \in DOMAIN Script(prog) /\ Now = Terminate("dec_len")
    BY <1>0, <1>6, RsaEncryptScript
  <2>2. /\ prog' = prog
        /\ \/ Unmoved
           \/ \E outcome \in BOOLEAN :
                /\ Judges({"dec_len"}, outcome)
                /\ outcome <=> mem["dec_len"] # <<"dec_len">>
    BY <2>1, TerminateStep, Zenon
  <2>3. CASE Unmoved
    BY <2>2, <2>3, StaysSound DEF Unmoved, RsaEncryptInv, Given, Holds
  <2>4. ASSUME NEW outcome \in BOOLEAN, Judges({"dec_len"}, outcome),
               outcome <=> mem["dec_len"] # <<"dec_len">>
        PROVE  RsaEncryptInv' /\ Sound'
    <3>1. Len(verdicts) + 1 = 1
      BY <1>6 DEF RsaEncryptInv
    <3>2. Documented(prog)[Len(verdicts) + 1] = TRUE
      BY <3>1, Documents, Zenon
    <3>3. {"dec_len"} \cap tainted = {} => outcome
      BY <1>6, <2>4 DEF RsaEncryptInv, Given, Holds
    <3>4. outcome => {"dec_len"} \cap tainted = {}
      BY <1>6, <2>4 DEF RsaEncryptInv, Given, Holds
    <3>5. Sound' /\ Len(verdicts') = 1
      BY <2>2, <2>4, <3>1, <3>2, <3>3, <3>4, JudgedTrue
    <3> QED
      BY <1>6, <2>4, <3>5 DEF Judges, RsaEncryptInv, Given, Holds
  <2> QED
    BY <2>2, <2>3, <2>4
<1>7. CASE pc = 7
  <2>1. pc \in DOMAIN Script(prog) /\ Now = Show(<<"decrypted">>)
    BY <1>0, <1>7, RsaEncryptScript
  <2>2. /\ prog' = prog
        /\ Unmoved \/ Shows
    BY <2>1, ShowStep
  <2>3. Sound' /\ Len(verdicts') = Len(verdicts)
    BY <2>2, StaysSound DEF Unmoved, Shows
  <2> QED
    BY <1>7, <2>2, <2>3 DEF RsaEncryptInv, Given, Holds, Unmoved, Shows
<1>8. CASE pc = 8
  <2>1. pc \in DOMAIN Script(prog) /\ Now = Compare("plaintext", "decrypted")
    BY <1>0, <1>8, RsaEncryptScript
  <2>2. /\ prog' = prog
        /\ \/ Unmoved
           \/ \E outcome \in BOOLEAN :
                /\ Judges({"plaintext", "decrypted"}, outcome)
                /\ outcome <=> mem["plaintext"] = mem["decrypted"]
    BY <2>1, CompareStep, Zenon
  <2>3. CASE Unmoved
    BY <2>2, <2>3, StaysSound DEF Unmoved, RsaEncryptInv, Given, Holds
  <2>4. ASSUME NEW outcome \in BOOLEAN, Judges({"plaintext", "decrypted"}, outcome),
               outcome <=> mem["plaintext"] = mem["decrypted"]
        PROVE  RsaEncryptInv' /\ Sound'
    <3>1. Len(verdicts) + 1 = 2
      BY <1>8 DEF RsaEncryptInv
    <3>2. Documented(prog)[Len(verdicts) + 1] = TRUE
      BY <3>1, Documents, Zenon
    <3>3. {"plaintext", "decrypted"} \cap tainted = {} => outcome
      BY <1>8, <2>4 DEF RsaEncryptInv, Given, Holds, Unset, Zero
    <3>4. outcome => {"plaintext", "decrypted"} \cap tainted = {}
      BY <1>8, <2>4 DEF RsaEncryptInv, Given, Holds, Unset, Zero
    <3>5. Sound' /\ Len(verdicts') = 2
      BY <2>2, <2>4, <3>1, <3>2, <3>3, <3>4, JudgedTrue
    <3> QED
      BY <1>8, <2>4, <3>5 DEF Judges, RsaEncryptInv, Given, Holds
  <2> QED
    BY <2>2, <2>3, <2>4
<1>9. CASE pc = 9
  <2>1. prog' = prog /\ Unmoved
    BY <1>0, <1>9, Moves
  <2> QED
    BY <2>1, StaysSound DEF Unmoved, RsaEncryptInv, Given, Holds
<1> QED
  BY <1>1, <1>2, <1>3, <1>4, <1>5, <1>6, <1>7, <1>8, <1>9 DEF RsaEncryptInv

---------------------------------------------------------------------------
(* rsa_sign.                                                               *)

LEMMA RsaSignScript ==
  /\ DOMAIN Script("rsa_sign") = 1 .. 8
  /\ Script("rsa_sign")[1] = Dropped("keygen", <<"rsa">>, {"pkey"})
  /\ Script("rsa_sign")[2] = Bare("signature_size", <<"pkey", "document">>, {"sig_len"})
  /\ Script("rsa_sign")[3] = Dropped("sign", <<"pkey", "document">>, {"signature", "sig_len"})
  /\ Script("rsa_sign")[4] = Show(<<"signature">>)
  /\ Script("rsa_sign")[5] = DigestVerify("pkey", "document")
  /\ Script("rsa_sign")[6] = IsValid
  /\ Script("rsa_sign")[7] = DigestVerify("pkey", "tampered")
  /\ Script("rsa_sign")[8] = IsValid
BY ScriptOf DEF rsa_sign, Keygen, SignatureSize, Sign

LEMMA RsaSignWrites ==
  /\ Unwritten("rsa_sign") \subseteq {"pkey", "sig_len", "signature", "result"}
  /\ Files("rsa_sign") \subseteq {}
<1>1. ASSUME NEW k \in DOMAIN Script("rsa_sign")
      PROVE  /\ Script("rsa_sign")[k].kind \in Calls =>
                  Script("rsa_sign")[k].outs
                    \subseteq {"pkey", "sig_len", "signature", "result"}
             /\ Script("rsa_sign")[k].kind = "fopen" =>
                  Script("rsa_sign")[k].outs \subseteq {}
  <2>1. k \in 1 .. 8
    BY RsaSignScript
  <2> QED
    BY <2>1, RsaSignScript, Fields DEF Made, Calls
<1> QED
  BY <1>1 DEF Unwritten, Files, Outs

RsaSignInv ==
  /\ pc \in 1 .. 9
  /\ Given("rsa") /\ Given("document") /\ Given("tampered")
  /\ Holds("pkey", <<"keygen", <<<<"rsa">>>>>>, {Null})
  /\ Holds("signature", <<"sign", <<<<"keygen", <<<<"rsa">>>>>>, <<"document">>>>>>,
         Unset("signature"))
  /\ "result" \in DOMAIN mem
  /\ pc <= 1 => "pkey" \in tainted
  /\ pc <= 3 => "signature" \in tainted
  /\ pc = 6 => (mem["result"] = <<"valid">> <=> "result" \notin tainted)
  /\ pc = 8 => mem["result"] # <<"valid">>
  /\ Len(verdicts) = IF pc <= 6 THEN 0 ELSE IF pc <= 8 THEN 1 ELSE 2

LEMMA RsaSignInit ==
  ASSUME Init, prog = "rsa_sign"
  PROVE  RsaSignInv
<1> USE RsaSignScript
<1>1. /\ Unwritten(prog) \subseteq {"pkey", "sig_len", "signature", "result"}
      /\ Files(prog) \subseteq {}
  BY RsaSignWrites
<1>2. {"rsa", "document", "tampered"} \subseteq Names(prog)
  BY NamesHas DEF Dropped, Bare, DigestVerify, Statement
<1>3. {"pkey", "signature", "result"} \subseteq Names(prog) \cap Unwritten(prog)
  BY NamesHas, Fields DEF Made, Calls
<1> QED
  BY <1>1, <1>2, <1>3, Beginning DEF RsaSignInv, Given, Holds, Objects, Preset

LEMMA RsaSignNext ==
  ASSUME Base, Sound, prog = "rsa_sign", RsaSignInv, [Next]_vars
  PROVE  RsaSignInv' /\ Sound'
<1>0. /\ Now = Script(prog)[pc]
      /\ pc \in DOMAIN Script(prog) <=> pc \in 1 .. 8
  BY RsaSignScript DEF Now
<1>1. CASE pc = 1
  <2>1. pc \in DOMAIN Script(prog) /\ Now = Dropped("keygen", <<"rsa">>, {"pkey"})
    BY <1>0, <1>1, RsaSignScript
  <2>2. /\ prog' = prog
        /\ \/ Unmoved \/ Misses({"pkey"})
           \/ /\ mem["rsa"] # Null
              /\ Succeeds({"rsa"}, {"pkey"}, <<"keygen", <<mem["rsa"]>>>>)
    BY <2>1, Call1 DEF Dropped, Plain
  <2>3. Sound' /\ Len(verdicts') = Len(verdicts)
    BY <2>2, StaysSound DEF Unmoved, Misses, Succeeds
  <2> QED
    BY <1>1, <2>2, <2>3 DEF RsaSignInv, Given, Holds, Unmoved, Misses, Succeeds
<1>2. CASE pc = 2
  <2>1. pc \in DOMAIN Script(prog) /\ Now = Bare("signature_size", <<"pkey", "document">>,
            {"sig_len"})
    BY <1>0, <1>2, RsaSignScript
  <2>2. /\ prog' = prog
        /\ \/ Unmoved \/ Misses({"sig_len"})
           \/ /\ mem["pkey"] # Null /\ mem["document"] # Null
              /\ Succeeds({"pkey", "document"}, {"sig_len"},
                     <<"signature_size", <<mem["pkey"], mem["document"]>>>>)
    BY <2>1, Call2 DEF Bare, Plain
  <2>3. Sound' /\ Len(verdicts') = Len(verdicts)
    BY <2>2, StaysSound DEF Unmoved, Misses, Succeeds
  <2> QED
    BY <1>2, <2>2, <2>3 DEF RsaSignInv, Given, Holds, Unmoved, Misses, Succeeds
<1>3. CASE pc = 3
  <2>1. pc \in DOMAIN Script(prog) /\ Now = Dropped("sign", <<"pkey", "document">>,
            {"signature", "sig_len"})
    BY <1>0, <1>3, RsaSignScript
  <2>2. /\ prog' = prog
        /\ \/ Unmoved \/ Misses({"signature", "sig_len"})
           \/ /\ mem["pkey"] # Null /\ mem["document"] # Null
              /\ Succeeds({"pkey", "document"}, {"signature", "sig_len"},
                     <<"sign", <<mem["pkey"], mem["document"]>>>>)
    BY <2>1, Call2 DEF Dropped, Plain
  <2>3. Sound' /\ Len(verdicts') = Len(verdicts)
    BY <2>2, StaysSound DEF Unmoved, Misses, Succeeds
  <2> QED
    BY <1>3, <2>2, <2>3 DEF RsaSignInv, Given, Holds, Unmoved, Misses, Succeeds, Unset, Zero, Null
<1>4. CASE pc = 4
  <2>1. pc \in DOMAIN Script(prog) /\ Now = Show(<<"signature">>)
    BY <1>0, <1>4, RsaSignScript
  <2>2. /\ prog' = prog
        /\ Unmoved \/ Shows
    BY <2>1, ShowStep
  <2>3. Sound' /\ Len(verdicts') = Len(verdicts)
    BY <2>2, StaysSound DEF Unmoved, Shows
  <2> QED
    BY <1>4, <2>2, <2>3 DEF RsaSignInv, Given, Holds, Unmoved, Shows
<1>5. CASE pc = 5
  <2>1. pc \in DOMAIN Script(prog) /\ Now = DigestVerify("pkey", "document")
    BY <1>0, <1>5, RsaSignScript
  <2>2. /\ prog' = prog
        /\ \/ Unmoved
           \/ /\ pc' = pc + 1 /\ UNCHANGED verdicts
              /\ mem' = [mem EXCEPT !["result"] = <<"error">>]
              /\ missed' = missed \cup {"result"} /\ tainted' = tainted \cup {"result"}
           \/ /\ mem["pkey"] # Null /\ mem["signature"] # Null
              /\ Succeeds({"signature", "pkey", "document"}, {"result"},
                          IF mem["signature"] = <<"sign", <<mem["pkey"], mem["document"]>>>>
                          THEN <<"valid">> ELSE <<"invalid">>)
    BY <2>1, CallVerify
  <2>3. Sound' /\ Len(verdicts') = Len(verdicts)
    BY <2>2, StaysSound DEF Unmoved, Succeeds
  <2> QED
    BY <1>5, <2>2, <2>3 DEF RsaSignInv, Given, Holds, Unmoved, Succeeds, Unset, Zero, Null
<1>6. CASE pc = 6
  <2>1. pc \in DOMAIN Script(prog) /\ Now = IsValid
    BY <1>0, <1>6, RsaSignScript
  <2>2. /\ prog' = prog
        /\ \/ Unmoved
           \/ \E outcome \in BOOLEAN :
                /\ Judges({"result"}, outcome)
                /\ outcome <=> mem["result"] = <<"valid">>
    BY <2>1, IsValidStep, Zenon
  <2>3. CASE Unmoved
    BY <2>2, <2>3, StaysSound DEF Unmoved, RsaSignInv, Given, Holds
  <2>4. ASSUME NEW outcome \in BOOLEAN, Judges({"result"}, outcome),
               outcome <=> mem["result"] = <<"valid">>
        PROVE  RsaSignInv' /\ Sound'
    <3>1. Len(verdicts) + 1 = 1
      BY <1>6 DEF RsaSignInv
    <3>2. Documented(prog)[Len(verdicts) + 1] = TRUE
      BY <3>1, Documents, Zenon
    <3>3. {"result"} \cap tainted = {} => outcome
      BY <1>6, <2>4 DEF RsaSignInv, Given, Holds
    <3>4. outcome => {"result"} \cap tainted = {}
      BY <1>6, <2>4 DEF RsaSignInv, Given, Holds
    <3>5. Sound' /\ Len(verdicts') = 1
      BY <2>2, <2>4, <3>1, <3>2, <3>3, <3>4, JudgedTrue
    <3> QED
      BY <1>6, <2>4, <3>5 DEF Judges, RsaSignInv, Given, Holds
  <2> QED
    BY <2>2, <2>3, <2>4
<1>7. CASE pc = 7
  <2>1. pc \in DOMAIN Script(prog) /\ Now = DigestVerify("pkey", "tampered")
    BY <1>0, <1>7, RsaSignScript
  <2>2. /\ prog' = prog
        /\ \/ Unmoved
           \/ /\ pc' = pc + 1 /\ UNCHANGED verdicts
              /\ mem' = [mem EXCEPT !["result"] = <<"error">>]
              /\ missed' = missed \cup {"result"} /\ tainted' = tainted \cup {"result"}
           \/ /\ mem["pkey"] # Null /\ mem["signature"] # Null
              /\ Succeeds({"signature", "pkey", "tampered"}, {"result"},
                          IF mem["signature"] = <<"sign", <<mem["pkey"], mem["tampered"]>>>>
                          THEN <<"valid">> ELSE <<"invalid">>)
    BY <2>1, CallVerify
  <2>3. Sound' /\ Len(verdicts') = Len(verdicts)
    BY <2>2, StaysSound DEF Unmoved, Succeeds
  <2> QED
    BY <1>7, <2>2, <2>3 DEF RsaSignInv, Given, Holds, Unmoved, Succeeds, Unset, Zero, Null
<1>8. CASE pc = 8
  <2>1. pc \in DOMAIN Script(prog) /\ Now = IsValid
    BY <1>0, <1>8, RsaSignScript
  <2>2. /\ prog' = prog
        /\ \/ Unmoved
           \/ \E outcome \in BOOLEAN :
                /\ Judges({"result"}, outcome)
                /\ outcome <=> mem["result"] = <<"valid">>
    BY <2>1, IsValidStep, Zenon
  <2>3. CASE Unmoved
    BY <2>2, <2>3, StaysSound DEF Unmoved, RsaSignInv, Given, Holds
  <2>4. ASSUME NEW outcome \in BOOLEAN, Judges({"result"}, outcome),
               outcome <=> mem["result"] = <<"valid">>
        PROVE  RsaSignInv' /\ Sound'
    <3>1. Len(verdicts) + 1 = 2
      BY <1>8 DEF RsaSignInv
    <3>2. Documented(prog)[Len(verdicts) + 1] = FALSE
      BY <3>1, Documents, Zenon
    <3>3. {"result"} \cap tainted = {} => ~outcome
      BY <1>8, <2>4 DEF RsaSignInv, Given, Holds
    <3>4. outcome => {"result"} \cap tainted = {}
      BY <1>8, <2>4 DEF RsaSignInv, Given, Holds
    <3>5. Sound' /\ Len(verdicts') = 2
      BY <2>2, <2>4, <3>1, <3>2, <3>3, <3>4, JudgedFalse
    <3> QED
      BY <1>8, <2>4, <3>5 DEF Judges, RsaSignInv, Given, Holds
  <2> QED
    BY <2>2, <2>3, <2>4
<1>9. CASE pc = 9
  <2>1. prog' = prog /\ Unmoved
    BY <1>0, <1>9, Moves
  <2> QED
    BY <2>1, StaysSound DEF Unmoved, RsaSignInv, Given, Holds
<1> QED
  BY <1>1, <1>2, <1>3, <1>4, <1>5, <1>6, <1>7, <1>8, <1>9 DEF RsaSignInv

---------------------------------------------------------------------------
(* ecdsa_sign.                                                             *)

LEMMA EcdsaSignScript ==
  /\ DOMAIN Script("ecdsa_sign") = 1 .. 6
  /\ Script("ecdsa_sign")[1] = Dropped("keygen", <<"ec">>, {"pkey"})
  /\ Script("ecdsa_sign")[2] = Bare("signature_size", <<"pkey", "firmware">>, {"sig_len"})
  /\ Script("ecdsa_sign")[3] = Dropped("sign", <<"pkey", "firmware">>, {"signature", "sig_len"})
  /\ Script("ecdsa_sign")[4] = Show(<<"signature">>)
  /\ Script("ecdsa_sign")[5] = DigestVerify("pkey", "firmware")
  /\ Script("ecdsa_sign")[6] = IsValid
BY ScriptOf DEF ecdsa_sign, Keygen, SignatureSize, Sign

LEMMA EcdsaSignWrites ==
  /\ Unwritten("ecdsa_sign") \subseteq {"pkey", "sig_len", "signature", "result"}
  /\ Files("ecdsa_sign") \subseteq {}
<1>1. ASSUME NEW k \in DOMAIN Script("ecdsa_sign")
      PROVE  /\ Script("ecdsa_sign")[k].kind \in Calls =>
                  Script("ecdsa_sign")[k].outs
                    \subseteq {"pkey", "sig_len", "signature", "result"}
             /\ Script("ecdsa_sign")[k].kind = "fopen" =>
                  Script("ecdsa_sign")[k].outs \subseteq {}
  <2>1. k \in 1 .. 6
    BY EcdsaSignScript
  <2> QED
    BY <2>1, EcdsaSignScript, Fields DEF Made, Calls
<1> QED
  BY <1>1 DEF Unwritten, Files, Outs

EcdsaSignInv ==
  /\ pc \in 1 .. 7
  /\ Given("ec") /\ Given("firmware")
  /\ Holds("pkey", <<"keygen", <<<<"ec">>>>>>, {Null})
  /\ Holds("signature", <<"sign", <<<<"keygen", <<<<"ec">>>>>>, <<"firmware">>>>>>,
         Unset("signature"))
  /\ "result" \in DOMAIN mem
  /\ pc <= 1 => "pkey" \in tainted
  /\ pc <= 3 => "signature" \in tainted
  /\ pc = 6 => (mem["result"] = <<"valid">> <=> "result" \notin tainted)
  /\ Len(verdicts) = IF pc <= 6 THEN 0 ELSE 1

LEMMA EcdsaSignInit ==
  ASSUME Init, prog = "ecdsa_sign"
  PROVE  EcdsaSignInv
<1> USE EcdsaSignScript
<1>1. /\ Unwritten(prog) \subseteq {"pkey", "sig_len", "signature", "result"}
      /\ Files(prog) \subseteq {}
  BY EcdsaSignWrites
<1>2. {"ec", "firmware"} \subseteq Names(prog)
  BY NamesHas DEF Dropped, Bare, DigestVerify, Statement
<1>3. {"pkey", "signature", "result"} \subseteq Names(prog) \cap Unwritten(prog)
  BY NamesHas, Fields DEF Made, Calls
<1> QED
  BY <1>1, <1>2, <1>3, Beginning DEF EcdsaSignInv, Given, Holds, Objects, Preset

LEMMA EcdsaSignNext ==
  ASSUME Base, Sound, prog = "ecdsa_sign", EcdsaSignInv, [Next]_vars
  PROVE  EcdsaSignInv' /\ Sound'
<1>0. /\ Now = Script(prog)[pc]
      /\ pc \in DOMAIN Script(prog) <=> pc \in 1 .. 6
  BY EcdsaSignScript DEF Now
<1>1. CASE pc = 1
  <2>1. pc \in DOMAIN Script(prog) /\ Now = Dropped("keygen", <<"ec">>, {"pkey"})
    BY <1>0, <1>1, EcdsaSignScript
  <2>2. /\ prog' = prog
        /\ \/ Unmoved \/ Misses({"pkey"})
           \/ /\ mem["ec"] # Null
              /\ Succeeds({"ec"}, {"pkey"}, <<"keygen", <<mem["ec"]>>>>)
    BY <2>1, Call1 DEF Dropped, Plain
  <2>3. Sound' /\ Len(verdicts') = Len(verdicts)
    BY <2>2, StaysSound DEF Unmoved, Misses, Succeeds
  <2> QED
    BY <1>1, <2>2, <2>3 DEF EcdsaSignInv, Given, Holds, Unmoved, Misses, Succeeds
<1>2. CASE pc = 2
  <2>1. pc \in DOMAIN Script(prog) /\ Now = Bare("signature_size", <<"pkey", "firmware">>,
            {"sig_len"})
    BY <1>0, <1>2, EcdsaSignScript
  <2>2. /\ prog' = prog
        /\ \/ Unmoved \/ Misses({"sig_len"})
           \/ /\ mem["pkey"] # Null /\ mem["firmware"] # Null
              /\ Succeeds({"pkey", "firmware"}, {"sig_len"},
                     <<"signature_size", <<mem["pkey"], mem["firmware"]>>>>)
    BY <2>1, Call2 DEF Bare, Plain
  <2>3. Sound' /\ Len(verdicts') = Len(verdicts)
    BY <2>2, StaysSound DEF Unmoved, Misses, Succeeds
  <2> QED
    BY <1>2, <2>2, <2>3 DEF EcdsaSignInv, Given, Holds, Unmoved, Misses, Succeeds
<1>3. CASE pc = 3
  <2>1. pc \in DOMAIN Script(prog) /\ Now = Dropped("sign", <<"pkey", "firmware">>,
            {"signature", "sig_len"})
    BY <1>0, <1>3, EcdsaSignScript
  <2>2. /\ prog' = prog
        /\ \/ Unmoved \/ Misses({"signature", "sig_len"})
           \/ /\ mem["pkey"] # Null /\ mem["firmware"] # Null
              /\ Succeeds({"pkey", "firmware"}, {"signature", "sig_len"},
                     <<"sign", <<mem["pkey"], mem["firmware"]>>>>)
    BY <2>1, Call2 DEF Dropped, Plain
  <2>3. Sound' /\ Len(verdicts') = Len(verdicts)
    BY <2>2, StaysSound DEF Unmoved, Misses, Succeeds
  <2> QED
    BY <1>3, <2>2, <2>3 DEF EcdsaSignInv, Given, Holds, Unmoved, Misses, Succeeds, Unset, Zero,
       Null
<1>4. CASE pc = 4
  <2>1. pc \in DOMAIN Script(prog) /\ Now = Show(<<"signature">>)
    BY <1>0, <1>4, EcdsaSignScript
  <2>2. /\ prog' = prog
        /\ Unmoved \/ Shows
    BY <2>1, ShowStep
  <2>3. Sound' /\ Len(verdicts') = Len(verdicts)
    BY <2>2, StaysSound DEF Unmoved, Shows
  <2> QED
    BY <1>4, <2>2, <2>3 DEF EcdsaSignInv, Given, Holds, Unmoved, Shows
<1>5. CASE pc = 5
  <2>1. pc \in DOMAIN Script(prog) /\ Now = DigestVerify("pkey", "firmware")
    BY <1>0, <1>5, EcdsaSignScript
  <2>2. /\ prog' = prog
        /\ \/ Unmoved
           \/ /\ pc' = pc + 1 /\ UNCHANGED verdicts
              /\ mem' = [mem EXCEPT !["result"] = <<"error">>]
              /\ missed' = missed \cup {"result"} /\ tainted' = tainted \cup {"result"}
           \/ /\ mem["pkey"] # Null /\ mem["signature"] # Null
              /\ Succeeds({"signature", "pkey", "firmware"}, {"result"},
                          IF mem["signature"] = <<"sign", <<mem["pkey"], mem["firmware"]>>>>
                          THEN <<"valid">> ELSE <<"invalid">>)
    BY <2>1, CallVerify
  <2>3. Sound' /\ Len(verdicts') = Len(verdicts)
    BY <2>2, StaysSound DEF Unmoved, Succeeds
  <2> QED
    BY <1>5, <2>2, <2>3 DEF EcdsaSignInv, Given, Holds, Unmoved, Succeeds, Unset, Zero, Null
<1>6. CASE pc = 6
  <2>1. pc \in DOMAIN Script(prog) /\ Now = IsValid
    BY <1>0, <1>6, EcdsaSignScript
  <2>2. /\ prog' = prog
        /\ \/ Unmoved
           \/ \E outcome \in BOOLEAN :
                /\ Judges({"result"}, outcome)
                /\ outcome <=> mem["result"] = <<"valid">>
    BY <2>1, IsValidStep, Zenon
  <2>3. CASE Unmoved
    BY <2>2, <2>3, StaysSound DEF Unmoved, EcdsaSignInv, Given, Holds
  <2>4. ASSUME NEW outcome \in BOOLEAN, Judges({"result"}, outcome),
               outcome <=> mem["result"] = <<"valid">>
        PROVE  EcdsaSignInv' /\ Sound'
    <3>1. Len(verdicts) + 1 = 1
      BY <1>6 DEF EcdsaSignInv
    <3>2. Documented(prog)[Len(verdicts) + 1] = TRUE
      BY <3>1, Documents, Zenon
    <3>3. {"result"} \cap tainted = {} => outcome
      BY <1>6, <2>4 DEF EcdsaSignInv, Given, Holds
    <3>4. outcome => {"result"} \cap tainted = {}
      BY <1>6, <2>4 DEF EcdsaSignInv, Given, Holds
    <3>5. Sound' /\ Len(verdicts') = 1
      BY <2>2, <2>4, <3>1, <3>2, <3>3, <3>4, JudgedTrue
    <3> QED
      BY <1>6, <2>4, <3>5 DEF Judges, EcdsaSignInv, Given, Holds
  <2> QED
    BY <2>2, <2>3, <2>4
<1>7. CASE pc = 7
  <2>1. prog' = prog /\ Unmoved
    BY <1>0, <1>7, Moves
  <2> QED
    BY <2>1, StaysSound DEF Unmoved, EcdsaSignInv, Given, Holds
<1> QED
  BY <1>1, <1>2, <1>3, <1>4, <1>5, <1>6, <1>7 DEF EcdsaSignInv

---------------------------------------------------------------------------
(* cmac_demo.                                                              *)

LEMMA CmacDemoScript ==
  /\ DOMAIN Script("cmac_demo") = 1 .. 7
  /\ Script("cmac_demo")[1] = Bare("cmac", <<"key", "can_msg">>, {"mac", "mac_len"})
  /\ Script("cmac_demo")[2] = Show(<<"mac">>)
  /\ Script("cmac_demo")[3] = Bare("cmac", <<"key", "can_msg">>, {"verify_mac", "verify_len"})
  /\ Script("cmac_demo")[4] = Compare("mac", "verify_mac")
  /\ Script("cmac_demo")[5] = Change("flip", "can_msg", "can_msg")
  /\ Script("cmac_demo")[6] = Bare("cmac", <<"key", "can_msg">>, {"verify_mac", "verify_len"})
  /\ Script("cmac_demo")[7] = Compare("mac", "verify_mac")
BY ScriptOf DEF cmac_demo, calculate_cmac

LEMMA CmacDemoWrites ==
  /\ Unwritten("cmac_demo") \subseteq {"mac", "mac_len", "verify_mac", "verify_len"}
  /\ Files("cmac_demo") \subseteq {}
<1>1. ASSUME NEW k \in DOMAIN Script("cmac_demo")
      PROVE  /\ Script("cmac_demo")[k].kind \in Calls =>
                  Script("cmac_demo")[k].outs
                    \subseteq {"mac", "mac_len", "verify_mac", "verify_len"}
             /\ Script("cmac_demo")[k].kind = "fopen" =>
                  Script("cmac_demo")[k].outs \subseteq {}
  <2>1. k \in 1 .. 7
    BY CmacDemoScript
  <2> QED
    BY <2>1, CmacDemoScript, Fields DEF Made, Calls
<1> QED
  BY <1>1 DEF Unwritten, Files, Outs

CmacDemoInv ==
  /\ pc \in 1 .. 8
  /\ Given("key")
  /\ "can_msg" \in DOMAIN mem \ tainted
  /\ mem["can_msg"] = IF pc <= 5 THEN <<"can_msg">> ELSE <<"flip", <<<<"can_msg">>>>>>
  /\ Is("mac", <<"cmac", <<<<"key">>, <<"can_msg">>>>>>)
  /\ "verify_mac" \in DOMAIN mem
  /\ pc = 4 => Is("verify_mac", <<"cmac", <<<<"key">>, <<"can_msg">>>>>>)
  /\ pc = 7 => Is("verify_mac", <<"cmac", <<<<"key">>, <<"flip", <<<<"can_msg">>>>>>>>>>)
  /\ Len(verdicts) = IF pc <= 4 THEN 0 ELSE IF pc <= 7 THEN 1 ELSE 2

LEMMA CmacDemoInit ==
  ASSUME Init, prog = "cmac_demo"
  PROVE  CmacDemoInv
<1> USE CmacDemoScript
<1>1. /\ Unwritten(prog) \subseteq {"mac", "mac_len", "verify_mac", "verify_len"}
      /\ Files(prog) \subseteq {}
  BY CmacDemoWrites
<1>2. {"key", "can_msg"} \subseteq Names(prog)
  BY NamesHas DEF Bare, Statement
<1>3. {"mac", "verify_mac"} \subseteq Names(prog) \cap Unwritten(prog)
  BY NamesHas, Fields DEF Made, Calls
<1> QED
  BY <1>1, <1>2, <1>3, Beginning DEF CmacDemoInv, Given, Is, Objects, Preset

LEMMA CmacDemoNext ==
  ASSUME Base, Sound, prog = "cmac_demo", CmacDemoInv, [Next]_vars
  PROVE  CmacDemoInv' /\ Sound'
<1>0. /\ Now = Script(prog)[pc]
      /\ pc \in DOMAIN Script(prog) <=> pc \in 1 .. 7
  BY CmacDemoScript DEF Now
<1>1. CASE pc = 1
  <2>1. pc \in DOMAIN Script(prog) /\ Now = Bare("cmac", <<"key", "can_msg">>, {"mac", "mac_len"})
    BY <1>0, <1>1, CmacDemoScript
  <2>2. /\ prog' = prog
        /\ \/ Unmoved \/ Misses({"mac", "mac_len"})
           \/ /\ mem["key"] # Null /\ mem["can_msg"] # Null
              /\ Succeeds({"key", "can_msg"}, {"mac", "mac_len"},
                     <<"cmac", <<mem["key"], mem["can_msg"]>>>>)
    BY <2>1, Call2 DEF Bare, Plain
  <2>3. Sound' /\ Len(verdicts') = Len(verdicts)
    BY <2>2, StaysSound DEF Unmoved, Misses, Succeeds
  <2> QED
    BY <1>1, <2>2, <2>3 DEF CmacDemoInv, Given, Is, Unmoved, Misses, Succeeds
<1>2. CASE pc = 2
  <2>1. pc \in DOMAIN Script(prog) /\ Now = Show(<<"mac">>)
    BY <1>0, <1>2, CmacDemoScript
  <2>2. /\ prog' = prog
        /\ Unmoved \/ Shows
    BY <2>1, ShowStep
  <2>3. Sound' /\ Len(verdicts') = Len(verdicts)
    BY <2>2, StaysSound DEF Unmoved, Shows
  <2> QED
    BY <1>2, <2>2, <2>3 DEF CmacDemoInv, Given, Is, Unmoved, Shows
<1>3. CASE pc = 3
  <2>1. pc \in DOMAIN Script(prog) /\ Now = Bare("cmac", <<"key", "can_msg">>,
            {"verify_mac", "verify_len"})
    BY <1>0, <1>3, CmacDemoScript
  <2>2. /\ prog' = prog
        /\ \/ Unmoved \/ Misses({"verify_mac", "verify_len"})
           \/ /\ mem["key"] # Null /\ mem["can_msg"] # Null
              /\ Succeeds({"key", "can_msg"}, {"verify_mac", "verify_len"},
                     <<"cmac", <<mem["key"], mem["can_msg"]>>>>)
    BY <2>1, Call2 DEF Bare, Plain
  <2>3. Sound' /\ Len(verdicts') = Len(verdicts)
    BY <2>2, StaysSound DEF Unmoved, Misses, Succeeds
  <2> QED
    BY <1>3, <2>2, <2>3 DEF CmacDemoInv, Given, Is, Unmoved, Misses, Succeeds
<1>4. CASE pc = 4
  <2>1. pc \in DOMAIN Script(prog) /\ Now = Compare("mac", "verify_mac")
    BY <1>0, <1>4, CmacDemoScript
  <2>2. /\ prog' = prog
        /\ \/ Unmoved
           \/ \E outcome \in BOOLEAN :
                /\ Judges({"mac", "verify_mac"}, outcome)
                /\ outcome <=> mem["mac"] = mem["verify_mac"]
    BY <2>1, CompareStep, Zenon
  <2>3. CASE Unmoved
    BY <2>2, <2>3, StaysSound DEF Unmoved, CmacDemoInv, Given, Is
  <2>4. ASSUME NEW outcome \in BOOLEAN, Judges({"mac", "verify_mac"}, outcome),
               outcome <=> mem["mac"] = mem["verify_mac"]
        PROVE  CmacDemoInv' /\ Sound'
    <3>1. Len(verdicts) + 1 = 1
      BY <1>4 DEF CmacDemoInv
    <3>2. Documented(prog)[Len(verdicts) + 1] = TRUE
      BY <3>1, Documents, Zenon
    <3>3. {"mac", "verify_mac"} \cap tainted = {} => outcome
      BY <1>4, <2>4 DEF CmacDemoInv, Given, Is
    <3>5. Sound' /\ Len(verdicts') = 1
      BY <2>2, <2>4, <3>1, <3>2, <3>3, JudgedTrue
    <3> QED
      BY <1>4, <2>4, <3>5 DEF Judges, CmacDemoInv, Given, Is
  <2> QED
    BY <2>2, <2>3, <2>4
<1>5. CASE pc = 5
  <2>1. pc \in DOMAIN Script(prog) /\ Now = Change("flip", "can_msg", "can_msg")
    BY <1>0, <1>5, CmacDemoScript
  <2>2. /\ prog' = prog
        /\ Unmoved \/ Succeeds({"can_msg"}, {"can_msg"}, <<"flip", <<mem["can_msg"]>>>>)
    BY <2>1, ChangeStep DEF Plain
  <2>3. Sound' /\ Len(verdicts') = Len(verdicts)
    BY <2>2, StaysSound DEF Unmoved, Succeeds
  <2> QED
    BY <1>5, <2>2, <2>3 DEF CmacDemoInv, Given, Is, Unmoved, Succeeds
<1>6. CASE pc = 6
  <2>1. pc \in DOMAIN Script(prog) /\ Now = Bare("cmac", <<"key", "can_msg">>,
            {"verify_mac", "verify_len"})
    BY <1>0, <1>6, CmacDemoScript
  <2>2. /\ prog' = prog
        /\ \/ Unmoved \/ Misses({"verify_mac", "verify_len"})
           \/ /\ mem["key"] # Null /\ mem["can_msg"] # Null
              /\ Succeeds({"key", "can_msg"}, {"verify_mac", "verify_len"},
                     <<"cmac", <<mem["key"], mem["can_msg"]>>>>)
    BY <2>1, Call2 DEF Bare, Plain
  <2>3. Sound' /\ Len(verdicts') = Len(verdicts)
    BY <2>2, StaysSound DEF Unmoved, Misses, Succeeds
  <2> QED
    BY <1>6, <2>2, <2>3 DEF CmacDemoInv, Given, Is, Unmoved, Misses, Succeeds
<1>7. CASE pc = 7
  <2>1. pc \in DOMAIN Script(prog) /\ Now = Compare("mac", "verify_mac")
    BY <1>0, <1>7, CmacDemoScript
  <2>2. /\ prog' = prog
        /\ \/ Unmoved
           \/ \E outcome \in BOOLEAN :
                /\ Judges({"mac", "verify_mac"}, outcome)
                /\ outcome <=> mem["mac"] = mem["verify_mac"]
    BY <2>1, CompareStep, Zenon
  <2>3. CASE Unmoved
    BY <2>2, <2>3, StaysSound DEF Unmoved, CmacDemoInv, Given, Is
  <2>4. ASSUME NEW outcome \in BOOLEAN, Judges({"mac", "verify_mac"}, outcome),
               outcome <=> mem["mac"] = mem["verify_mac"]
        PROVE  CmacDemoInv' /\ Sound'
    <3>1. Len(verdicts) + 1 = 2
      BY <1>7 DEF CmacDemoInv
    <3>2. Documented(prog)[Len(verdicts) + 1] = FALSE
      BY <3>1, Documents, Zenon
    <3>3. {"mac", "verify_mac"} \cap tainted = {} => ~outcome
      BY <1>7, <2>4 DEF CmacDemoInv, Given, Is
    <3>5. Sound' /\ Len(verdicts') = 2
      BY <2>2, <2>4, <3>1, <3>2, <3>3, JudgedFalse
    <3> QED
      BY <1>7, <2>4, <3>5 DEF Judges, CmacDemoInv, Given, Is
  <2> QED
    BY <2>2, <2>3, <2>4
<1>8. CASE pc = 8
  <2>1. prog' = prog /\ Unmoved
    BY <1>0, <1>8, Moves
  <2> QED
    BY <2>1, StaysSound DEF Unmoved, CmacDemoInv, Given, Is
<1> QED
  BY <1>1, <1>2, <1>3, <1>4, <1>5, <1>6, <1>7, <1>8 DEF CmacDemoInv

---------------------------------------------------------------------------
(* rsa_keygen.                                                             *)

LEMMA RsaKeygenScript ==
  /\ DOMAIN Script("rsa_keygen") = 1 .. 5
  /\ Script("rsa_keygen")[1] = Dropped("keygen", <<"rsa">>, {"pkey"})
  /\ Script("rsa_keygen")[2] = Open("private_key.pem")
  /\ Script("rsa_keygen")[3] = Write("private_key.pem", "pkey")
  /\ Script("rsa_keygen")[4] = Open("public_key.pem")
  /\ Script("rsa_keygen")[5] = Write("public_key.pem", "pkey")
BY ScriptOf DEF rsa_keygen, Keygen

LEMMA RsaKeygenWrites ==
  /\ Unwritten("rsa_keygen") \subseteq {"pkey"}
  /\ Files("rsa_keygen") \subseteq {"private_key.pem", "public_key.pem"}
<1>1. ASSUME NEW k \in DOMAIN Script("rsa_keygen")
      PROVE  /\ Script("rsa_keygen")[k].kind \in Calls =>
                  Script("rsa_keygen")[k].outs
                    \subseteq {"pkey"}
             /\ Script("rsa_keygen")[k].kind = "fopen" =>
                  Script("rsa_keygen")[k].outs \subseteq {"private_key.pem", "public_key.pem"}
  <2>1. k \in 1 .. 5
    BY RsaKeygenScript
  <2> QED
    BY <2>1, RsaKeygenScript, Fields DEF Made, Calls
<1> QED
  BY <1>1 DEF Unwritten, Files, Outs

RsaKeygenInv ==
  /\ pc \in 1 .. 6
  /\ {"rsa", "pkey", "private_key.pem", "public_key.pem"} \subseteq DOMAIN mem
  /\ pc <= 2 => mem["private_key.pem"] = Old
  /\ pc = 3  => mem["private_key.pem"] = Torn
  /\ pc >= 4 => \/ mem["private_key.pem"] = <<"pem", <<mem["pkey"]>>>>
                 \/ (mem["private_key.pem"] = Torn /\ "private_key.pem" \in missed)
  /\ pc <= 4 => mem["public_key.pem"] = Old
  /\ pc = 5  => mem["public_key.pem"] = Torn
  /\ pc >= 6 => \/ mem["public_key.pem"] = <<"pem", <<mem["pkey"]>>>>
                 \/ mem["public_key.pem"] = Torn
  /\ Len(verdicts) = 0

LEMMA RsaKeygenInit ==
  ASSUME Init, prog = "rsa_keygen"
  PROVE  RsaKeygenInv
<1> USE RsaKeygenScript
<1>1. /\ Unwritten(prog) \subseteq {"pkey"}
      /\ Files(prog) \subseteq {"private_key.pem", "public_key.pem"}
  BY RsaKeygenWrites
<1>2. {"rsa"} \subseteq Names(prog)
  BY NamesHas DEF Dropped, Statement
<1>3. {"pkey"} \subseteq Names(prog) \cap Unwritten(prog)
  BY NamesHas, Fields DEF Made, Calls
<1>4. {"private_key.pem", "public_key.pem"} \subseteq Names(prog) \cap Files(prog)
  BY NamesHas, Fields DEF Made, Calls
<1> QED
  BY <1>1, <1>2, <1>3, <1>4, Beginning DEF RsaKeygenInv, Objects, Preset

LEMMA RsaKeygenNext ==
  ASSUME Base, Sound, prog = "rsa_keygen", RsaKeygenInv, [Next]_vars
  PROVE  RsaKeygenInv' /\ Sound'
<1>0. /\ Now = Script(prog)[pc]
      /\ pc \in DOMAIN Script(prog) <=> pc \in 1 .. 5
  BY RsaKeygenScript DEF Now
<1>1. CASE pc = 1
  <2>1. pc \in DOMAIN Script(prog) /\ Now = Dropped("keygen", <<"rsa">>, {"pkey"})
    BY <1>0, <1>1, RsaKeygenScript
  <2>2. /\ prog' = prog
        /\ \/ Unmoved \/ Misses({"pkey"})
           \/ /\ mem["rsa"] # Null
              /\ Succeeds({"rsa"}, {"pkey"}, <<"keygen", <<mem["rsa"]>>>>)
    BY <2>1, Call1 DEF Dropped, Plain
  <2>3. Sound' /\ Len(verdicts') = Len(verdicts)
    BY <2>2, StaysSound DEF Unmoved, Misses, Succeeds
  <2> QED
    BY <1>1, <2>2, <2>3 DEF RsaKeygenInv, Unmoved, Misses, Succeeds, Null
<1>2. CASE pc = 2
  <2>1. pc \in DOMAIN Script(prog) /\ Now = Open("private_key.pem")
    BY <1>0, <1>2, RsaKeygenScript
  <2>2. /\ prog' = prog
        /\ Unmoved \/ Succeeds({}, {"private_key.pem"}, Torn)
    BY <2>1, OpenStep
  <2>3. Sound' /\ Len(verdicts') = Len(verdicts)
    BY <2>2, StaysSound DEF Unmoved, Succeeds
  <2> QED
    BY <1>2, <2>2, <2>3 DEF RsaKeygenInv, Unmoved, Succeeds
<1>3. CASE pc = 3
  <2>1. pc \in DOMAIN Script(prog) /\ Now = Write("private_key.pem", "pkey")
    BY <1>0, <1>3, RsaKeygenScript
  <2>2. /\ prog' = prog
        /\ \/ Unmoved
           \/ Misses({"private_key.pem"})
           \/ Succeeds({"pkey"}, {"private_key.pem"}, <<"pem", <<mem["pkey"]>>>>)
    BY <2>1, WriteStep
  <2>3. Sound' /\ Len(verdicts') = Len(verdicts)
    BY <2>2, StaysSound DEF Unmoved, Misses, Succeeds
  <2> QED
    BY <1>3, <2>2, <2>3 DEF RsaKeygenInv, Unmoved, Misses, Succeeds
<1>4. CASE pc = 4
  <2>1. pc \in DOMAIN Script(prog) /\ Now = Open("public_key.pem")
    BY <1>0, <1>4, RsaKeygenScript
  <2>2. /\ prog' = prog
        /\ Unmoved \/ Succeeds({}, {"public_key.pem"}, Torn)
    BY <2>1, OpenStep
  <2>3. Sound' /\ Len(verdicts') = Len(verdicts)
    BY <2>2, StaysSound DEF Unmoved, Succeeds
  <2> QED
    BY <1>4, <2>2, <2>3 DEF RsaKeygenInv, Unmoved, Succeeds
<1>5. CASE pc = 5
  <2>1. pc \in DOMAIN Script(prog) /\ Now = Write("public_key.pem", "pkey")
    BY <1>0, <1>5, RsaKeygenScript
  <2>2. /\ prog' = prog
        /\ \/ Unmoved
           \/ Misses({"public_key.pem"})
           \/ Succeeds({"pkey"}, {"public_key.pem"}, <<"pem", <<mem["pkey"]>>>>)
    BY <2>1, WriteStep
  <2>3. Sound' /\ Len(verdicts') = Len(verdicts)
    BY <2>2, StaysSound DEF Unmoved, Misses, Succeeds
  <2> QED
    BY <1>5, <2>2, <2>3 DEF RsaKeygenInv, Unmoved, Misses, Succeeds
<1>6. CASE pc = 6
  <2>1. prog' = prog /\ Unmoved
    BY <1>0, <1>6, Moves
  <2> QED
    BY <2>1, StaysSound DEF Unmoved, RsaKeygenInv
<1> QED
  BY <1>1, <1>2, <1>3, <1>4, <1>5, <1>6 DEF RsaKeygenInv

---------------------------------------------------------------------------
(* self_cert.                                                              *)

LEMMA SelfCertScript ==
  /\ DOMAIN Script("self_cert") = 1 .. 6
  /\ Script("self_cert")[1] = Dropped("keygen", <<"ec">>, {"pkey"})
  /\ Script("self_cert")[2] = Bare("certificate", <<"pkey">>, {"x509"})
  /\ Script("self_cert")[3] = Open("ecu_cert.pem")
  /\ Script("self_cert")[4] = Write("ecu_cert.pem", "x509")
  /\ Script("self_cert")[5] = Open("ecu_key.pem")
  /\ Script("self_cert")[6] = Write("ecu_key.pem", "pkey")
BY ScriptOf DEF self_cert, Keygen

LEMMA SelfCertWrites ==
  /\ Unwritten("self_cert") \subseteq {"pkey", "x509"}
  /\ Files("self_cert") \subseteq {"ecu_cert.pem", "ecu_key.pem"}
<1>1. ASSUME NEW k \in DOMAIN Script("self_cert")
      PROVE  /\ Script("self_cert")[k].kind \in Calls =>
                  Script("self_cert")[k].outs
                    \subseteq {"pkey", "x509"}
             /\ Script("self_cert")[k].kind = "fopen" =>
                  Script("self_cert")[k].outs \subseteq {"ecu_cert.pem", "ecu_key.pem"}
  <2>1. k \in 1 .. 6
    BY SelfCertScript
  <2> QED
    BY <2>1, SelfCertScript, Fields DEF Made, Calls
<1> QED
  BY <1>1 DEF Unwritten, Files, Outs

SelfCertInv ==
  /\ pc \in 1 .. 7
  /\ {"ec", "pkey", "x509", "ecu_cert.pem", "ecu_key.pem"} \subseteq DOMAIN mem
  /\ pc <= 2 => mem["x509"] = Null
  /\ mem["x509"] = Null \/ mem["x509"] = <<"certificate", <<mem["pkey"]>>>>
  /\ pc <= 3 => mem["ecu_cert.pem"] = Old
  /\ pc = 4  => mem["ecu_cert.pem"] = Torn
  /\ pc >= 5 => \/ (mem["x509"] # Null /\ mem["ecu_cert.pem"] = <<"pem", <<mem["x509"]>>>>)
                 \/ (mem["ecu_cert.pem"] = Torn /\ "ecu_cert.pem" \in missed)
  /\ pc <= 5 => mem["ecu_key.pem"] = Old
  /\ pc = 6  => mem["ecu_key.pem"] = Torn
  /\ pc >= 7 => \/ mem["ecu_key.pem"] = <<"pem", <<mem["pkey"]>>>>
                 \/ mem["ecu_key.pem"] = Torn
  /\ Len(verdicts) = 0

LEMMA SelfCertInit ==
  ASSUME Init, prog = "self_cert"
  PROVE  SelfCertInv
<1> USE SelfCertScript
<1>1. /\ Unwritten(prog) \subseteq {"pkey", "x509"}
      /\ Files(prog) \subseteq {"ecu_cert.pem", "ecu_key.pem"}
  BY SelfCertWrites
<1>2. {"ec"} \subseteq Names(prog)
  BY NamesHas DEF Dropped, Statement
<1>3. {"pkey", "x509"} \subseteq Names(prog) \cap Unwritten(prog)
  BY NamesHas, Fields DEF Made, Calls
<1>4. {"ecu_cert.pem", "ecu_key.pem"} \subseteq Names(prog) \cap Files(prog)
  BY NamesHas, Fields DEF Made, Calls
<1> QED
  BY <1>1, <1>2, <1>3, <1>4, Beginning DEF SelfCertInv, Objects, Preset

LEMMA SelfCertNext ==
  ASSUME Base, Sound, prog = "self_cert", SelfCertInv, [Next]_vars
  PROVE  SelfCertInv' /\ Sound'
<1>0. /\ Now = Script(prog)[pc]
      /\ pc \in DOMAIN Script(prog) <=> pc \in 1 .. 6
  BY SelfCertScript DEF Now
<1>1. CASE pc = 1
  <2>1. pc \in DOMAIN Script(prog) /\ Now = Dropped("keygen", <<"ec">>, {"pkey"})
    BY <1>0, <1>1, SelfCertScript
  <2>2. /\ prog' = prog
        /\ \/ Unmoved \/ Misses({"pkey"})
           \/ /\ mem["ec"] # Null
              /\ Succeeds({"ec"}, {"pkey"}, <<"keygen", <<mem["ec"]>>>>)
    BY <2>1, Call1 DEF Dropped, Plain
  <2>3. Sound' /\ Len(verdicts') = Len(verdicts)
    BY <2>2, StaysSound DEF Unmoved, Misses, Succeeds
  <2> QED
    BY <1>1, <2>2, <2>3 DEF SelfCertInv, Unmoved, Misses, Succeeds
<1>2. CASE pc = 2
  <2>1. pc \in DOMAIN Script(prog) /\ Now = Bare("certificate", <<"pkey">>, {"x509"})
    BY <1>0, <1>2, SelfCertScript
  <2>2. /\ prog' = prog
        /\ \/ Unmoved \/ Misses({"x509"})
           \/ /\ mem["pkey"] # Null
              /\ Succeeds({"pkey"}, {"x509"}, <<"certificate", <<mem["pkey"]>>>>)
    BY <2>1, Call1 DEF Bare, Plain
  <2>3. Sound' /\ Len(verdicts') = Len(verdicts)
    BY <2>2, StaysSound DEF Unmoved, Misses, Succeeds
  <2> QED
    BY <1>2, <2>2, <2>3 DEF SelfCertInv, Unmoved, Misses, Succeeds, Null
<1>3. CASE pc = 3
  <2>1. pc \in DOMAIN Script(prog) /\ Now = Open("ecu_cert.pem")
    BY <1>0, <1>3, SelfCertScript
  <2>2. /\ prog' = prog
        /\ Unmoved \/ Succeeds({}, {"ecu_cert.pem"}, Torn)
    BY <2>1, OpenStep
  <2>3. Sound' /\ Len(verdicts') = Len(verdicts)
    BY <2>2, StaysSound DEF Unmoved, Succeeds
  <2> QED
    BY <1>3, <2>2, <2>3 DEF SelfCertInv, Unmoved, Succeeds
<1>4. CASE pc = 4
  <2>1. pc \in DOMAIN Script(prog) /\ Now = Write("ecu_cert.pem", "x509")
    BY <1>0, <1>4, SelfCertScript
  <2>2. /\ prog' = prog
        /\ \/ Unmoved
           \/ Misses({"ecu_cert.pem"})
           \/ /\ mem["x509"] # Null
              /\ Succeeds({"x509"}, {"ecu_cert.pem"}, <<"pem", <<mem["x509"]>>>>)
    BY <2>1, WriteStep
  <2>3. Sound' /\ Len(verdicts') = Len(verdicts)
    BY <2>2, StaysSound DEF Unmoved, Misses, Succeeds
  <2>4. CASE Unmoved \/ Misses({"ecu_cert.pem"})
    BY <1>4, <2>2, <2>3, <2>4 DEF SelfCertInv, Unmoved, Misses
  <2>5. CASE /\ mem["x509"] # Null
             /\ Succeeds({"x509"}, {"ecu_cert.pem"}, <<"pem", <<mem["x509"]>>>>)
    BY <1>4, <2>2, <2>3, <2>5 DEF SelfCertInv, Succeeds
  <2> QED
    BY <2>2, <2>4, <2>5
<1>5. CASE pc = 5
  <2>1. pc \in DOMAIN Script(prog) /\ Now = Open("ecu_key.pem")
    BY <1>0, <1>5, SelfCertScript
  <2>2. /\ prog' = prog
        /\ Unmoved \/ Succeeds({}, {"ecu_key.pem"}, Torn)
    BY <2>1, OpenStep
  <2>3. Sound' /\ Len(verdicts') = Len(verdicts)
    BY <2>2, StaysSound DEF Unmoved, Succeeds
  <2> QED
    BY <1>5, <2>2, <2>3 DEF SelfCertInv, Unmoved, Succeeds
<1>6. CASE pc = 6
  <2>1. pc \in DOMAIN Script(prog) /\ Now = Write("ecu_key.pem", "pkey")
    BY <1>0, <1>6, SelfCertScript
  <2>2. /\ prog' = prog
        /\ \/ Unmoved
           \/ Misses({"ecu_key.pem"})
           \/ Succeeds({"pkey"}, {"ecu_key.pem"}, <<"pem", <<mem["pkey"]>>>>)
    BY <2>1, WriteStep
  <2>3. Sound' /\ Len(verdicts') = Len(verdicts)
    BY <2>2, StaysSound DEF Unmoved, Misses, Succeeds
  <2>4. CASE Unmoved \/ Misses({"ecu_key.pem"})
    BY <1>6, <2>2, <2>3, <2>4 DEF SelfCertInv, Unmoved, Misses
  <2>5. CASE Succeeds({"pkey"}, {"ecu_key.pem"}, <<"pem", <<mem["pkey"]>>>>)
    BY <1>6, <2>2, <2>3, <2>5 DEF SelfCertInv, Succeeds
  <2> QED
    BY <2>2, <2>4, <2>5
<1>7. CASE pc = 7
  <2>1. prog' = prog /\ Unmoved
    BY <1>0, <1>7, Moves
  <2> QED
    BY <2>1, StaysSound DEF Unmoved, SelfCertInv
<1> QED
  BY <1>1, <1>2, <1>3, <1>4, <1>5, <1>6, <1>7 DEF SelfCertInv

---------------------------------------------------------------------------
(* Part 4.  The theorems.                                                  *)

ProgramInv ==
  /\ prog = "hash_demo"      => HashDemoInv
  /\ prog = "avalanche"      => AvalancheInv
  /\ prog = "hmac_demo"      => HmacDemoInv
  /\ prog = "key_derivation" => KeyDerivationInv
  /\ prog = "ecb_vs_cbc"     => EcbVsCbcInv
  /\ prog = "rsa_keygen"     => RsaKeygenInv
  /\ prog = "rsa_encrypt"    => RsaEncryptInv
  /\ prog = "ecdh_exchange"  => EcdhExchangeInv
  /\ prog = "rsa_sign"       => RsaSignInv
  /\ prog = "ecdsa_sign"     => EcdsaSignInv
  /\ prog = "self_cert"      => SelfCertInv
  /\ prog = "cmac_demo"      => CmacDemoInv

LEMMA ProgramInvInit == Init => ProgramInv
BY HashDemoInit, AvalancheInit, HmacDemoInit, KeyDerivationInit, EcbVsCbcInit, RsaKeygenInit,
   RsaEncryptInit, EcdhExchangeInit, RsaSignInit, EcdsaSignInit, SelfCertInit, CmacDemoInit
   DEF ProgramInv

LEMMA ProgramInvNext ==
  ASSUME Base, Sound, ProgramInv, [Next]_vars
  PROVE  ProgramInv' /\ Sound'
<1>1. prog' = prog /\ prog \in Programs
  BY Moves DEF Base
<1> QED
  BY <1>1, HashDemoNext, AvalancheNext, HmacDemoNext, KeyDerivationNext, EcbVsCbcNext,
     RsaKeygenNext, RsaEncryptNext, EcdhExchangeNext, RsaSignNext, EcdsaSignNext, SelfCertNext,
     CmacDemoNext DEF ProgramInv, Programs

DemoInv == Base /\ Ended /\ Sound /\ ProgramInv

LEMMA DemoInvInit == Init => DemoInv
<1> SUFFICES ASSUME Init PROVE DemoInv
  OBVIOUS
<1>1. Ended /\ Sound
  BY Beginning DEF Ended, Sound
<1> QED
  BY <1>1, BaseInit, ProgramInvInit DEF DemoInv

LEMMA DemoInvNext == DemoInv /\ [Next]_vars => DemoInv'
BY BaseNext, EndedKept, ProgramInvNext DEF DemoInv

LEMMA DemoInvHolds == Spec => []DemoInv
BY DemoInvInit, DemoInvNext, PTL DEF Spec

LEMMA AllCompared ==
  ASSUME DemoInv, code = 0
  PROVE  Len(verdicts) = Len(Documented(prog))
<1>1. pc \notin DOMAIN Script(prog) /\ prog \in Programs /\ ProgramInv
  BY DEF DemoInv, Ended, Base
<1>2. CASE prog = "hash_demo"
  BY <1>1, <1>2, HashDemoScript, DocumentLengths DEF ProgramInv, HashDemoInv
<1>3. CASE prog = "avalanche"
  <2>1. pc = LastFlip + 5 * Tests + 1 /\ Len(verdicts) = Compared(pc)
    <3>1. pc \in 1 .. LastFlip + 5 * Tests + 1 /\ Len(verdicts) = Compared(pc)
      BY <1>1, <1>3 DEF ProgramInv, AvalancheInv
    <3>2. pc \notin 1 .. LastFlip + 5 * Tests
      BY <1>1, <1>3, AvalancheScript
    <3>3. LastFlip \in Nat
      BY RoundsAssumption DEF LastFlip
    <3> QED
      BY <3>1, <3>2, <3>3, RoundsAssumption
  <2>2. Compared(LastFlip + 5 * Tests + 1) = Flips + Tests
    BY RoundsAssumption DEF Compared, LastFlip
  <2> QED
    BY <1>3, <2>1, <2>2, AvalancheLength
<1>4. CASE prog = "hmac_demo"
  BY <1>1, <1>4, HmacDemoScript, DocumentLengths DEF ProgramInv, HmacDemoInv
<1>5. CASE prog = "key_derivation"
  BY <1>1, <1>5, KeyDerivationScript, DocumentLengths DEF ProgramInv, KeyDerivationInv
<1>6. CASE prog = "ecb_vs_cbc"
  BY <1>1, <1>6, EcbVsCbcScript, DocumentLengths DEF ProgramInv, EcbVsCbcInv
<1>7. CASE prog = "rsa_keygen"
  BY <1>1, <1>7, RsaKeygenScript, DocumentLengths DEF ProgramInv, RsaKeygenInv
<1>8. CASE prog = "rsa_encrypt"
  BY <1>1, <1>8, RsaEncryptScript, DocumentLengths DEF ProgramInv, RsaEncryptInv
<1>9. CASE prog = "ecdh_exchange"
  BY <1>1, <1>9, EcdhExchangeScript, DocumentLengths DEF ProgramInv, EcdhExchangeInv
<1>10. CASE prog = "rsa_sign"
  BY <1>1, <1>10, RsaSignScript, DocumentLengths DEF ProgramInv, RsaSignInv
<1>11. CASE prog = "ecdsa_sign"
  BY <1>1, <1>11, EcdsaSignScript, DocumentLengths DEF ProgramInv, EcdsaSignInv
<1>12. CASE prog = "self_cert"
  BY <1>1, <1>12, SelfCertScript, DocumentLengths DEF ProgramInv, SelfCertInv
<1>13. CASE prog = "cmac_demo"
  BY <1>1, <1>13, CmacDemoScript, DocumentLengths DEF ProgramInv, CmacDemoInv
<1> QED
  BY <1>1, <1>2, <1>3, <1>4, <1>5, <1>6, <1>7, <1>8, <1>9, <1>10, <1>11, <1>12, <1>13
  DEF Programs

LEMMA WrittenInOrder ==
  ASSUME DemoInv
  PROVE  FilesInOrder
<1>1. prog \in Programs /\ ProgramInv
  BY DEF DemoInv, Base
<1>2. CASE prog = "rsa_keygen"
  <2>1. PairOf[1] = "private_key.pem" /\ PairOf[2] = "public_key.pem" /\ RsaKeygenInv
    BY <1>1, <1>2 DEF PairOf, ProgramInv
  <2>2. mem["public_key.pem"] # Old =>
          \/ mem["private_key.pem"][1] = "pem"
          \/ mem["private_key.pem"] = Torn /\ "private_key.pem" \in missed
    BY <2>1 DEF RsaKeygenInv
  <2>3. mem["private_key.pem"][1] = "pem" => mem["private_key.pem"] = <<"pem", <<mem["pkey"]>>>>
    BY <2>1 DEF RsaKeygenInv, Old, Torn
  <2>4. mem["public_key.pem"][1] = "pem" => mem["public_key.pem"] = <<"pem", <<mem["pkey"]>>>>
    BY <2>1 DEF RsaKeygenInv, Old, Torn
  <2>5. mem["private_key.pem"][1] = "pem" /\ mem["public_key.pem"][1] = "pem" =>
          mem["private_key.pem"][2][1] = mem["public_key.pem"][2][1]
    BY <2>3, <2>4
  <2> QED
    BY <2>1, <2>2, <2>5 DEF FilesInOrder
<1>3. CASE prog = "self_cert"
  <2>1. PairOf[1] = "ecu_cert.pem" /\ PairOf[2] = "ecu_key.pem" /\ SelfCertInv
    BY <1>1, <1>3 DEF PairOf, ProgramInv
  <2>2. mem["ecu_key.pem"] # Old =>
          \/ mem["ecu_cert.pem"][1] = "pem"
          \/ mem["ecu_cert.pem"] = Torn /\ "ecu_cert.pem" \in missed
    BY <2>1 DEF SelfCertInv
  <2>3. mem["ecu_cert.pem"][1] = "pem" =>
          mem["ecu_cert.pem"] = <<"pem", <<<<"certificate", <<mem["pkey"]>>>>>>>>
    BY <2>1 DEF SelfCertInv, Old, Torn
  <2>4. mem["ecu_key.pem"][1] = "pem" => mem["ecu_key.pem"] = <<"pem", <<mem["pkey"]>>>>
    BY <2>1 DEF SelfCertInv, Old, Torn
  <2>5. mem["ecu_cert.pem"][1] = "pem" /\ mem["ecu_key.pem"][1] = "pem" =>
          mem["ecu_cert.pem"][2][1] = <<"certificate", mem["ecu_key.pem"][2]>>
    BY <2>3, <2>4
  <2> QED
    BY <2>1, <2>2, <2>5 DEF FilesInOrder
<1>4. CASE prog \notin {"rsa_keygen", "self_cert"}
  <2>1. Files(prog) = {}
    <3>1. prog = "hash_demo" => Files(prog) = {}
      BY HashDemoKinds DEF Files, Outs
    <3> QED
      BY <1>1, <1>4, <3>1, AvalancheWrites, HmacDemoWrites, KeyDerivationWrites, EcbVsCbcWrites,
         RsaEncryptWrites, EcdhExchangeWrites, RsaSignWrites, EcdsaSignWrites, CmacDemoWrites
      DEF Programs
  <2> QED
    BY <2>1 DEF FilesInOrder
<1> QED
  BY <1>2, <1>3, <1>4

(* In the demonstration programs too, the variables of the byte loops stay *)
(* in their domains.                                                       *)
THEOREM DemosTypeCorrect == Spec => []LoopTypeOK
<1>1. DemoInv => LoopTypeOK
  BY DEF DemoInv, Base, LoopInv
<1> QED
  BY <1>1, DemoInvHolds, PTL

(* hmac_demo.c's verify_mac decides equality wherever the program calls it.*)
THEOREM DemosVerify == Spec => []VerifyMacDecides
<1>1. DemoInv => VerifyMacDecides
  BY DEF DemoInv, Base, LoopInv
<1> QED
  BY <1>1, DemoInvHolds, PTL

(* avalanche.c's count_bit_differences counts the differing positions in   *)
(* every round.                                                            *)
THEOREM DemosCount == Spec => []CountIsDistance
<1>1. DemoInv => CountIsDistance
  BY DEF DemoInv, Base, LoopInv
<1> QED
  BY <1>1, DemoInvHolds, PTL

(* Whatever library calls fail in one of the twelve programs: a comparison *)
(* that rests on none of them comes out as the program's text says, and a  *)
(* program that ends has made all its comparisons.                         *)
THEOREM VerdictsDocumented == Spec => []CleanVerdictsAreDocumented
<1>1. DemoInv => CleanVerdictsAreDocumented
  BY AllCompared DEF DemoInv, Sound, CleanVerdictsAreDocumented
<1> QED
  BY <1>1, DemoInvHolds, PTL

(* rsa_encrypt, rsa_sign, ecdsa_sign and key_derivation drop the results   *)
(* of their later calls, and yet confirm nothing that was not done.        *)
THEOREM ClaimsEarned == Spec => []ClaimsAreEarned
<1>1. DemoInv => ClaimsAreEarned
  BY DEF DemoInv, Sound, Claim, ClaimsAreEarned
<1> QED
  BY <1>1, DemoInvHolds, PTL

(* rsa_keygen and self_cert, killed anywhere, leave the second file alone  *)
(* until the first is complete or its write has failed, and two complete   *)
(* files are of one key.                                                   *)
THEOREM FilesWrittenInOrder == Spec => []FilesInOrder
<1>1. DemoInv => FilesInOrder
  BY WrittenInOrder
<1> QED
  BY <1>1, DemoInvHolds, PTL
============================================================================
