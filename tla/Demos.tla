------------------------------ MODULE Demos -------------------------------
(***************************************************************************)
(* The machine that executes one of the DemoPrograms.  Nearly all results  *)
(* of the library are dropped by these programs: a call that fails leaves  *)
(* its output as it was, be it what the stack happened to hold or the      *)
(* result of an earlier call, and the program prints it, compares it and   *)
(* says what the comparison shows.                                         *)
(*                                                                         *)
(* A value is a term: the library's functions are ideal, so equal results  *)
(* come from equal arguments.  verify_mac and count_bit_differences run    *)
(* through the loops of ByteLoops; memcmp is one step.                     *)
(***************************************************************************)
EXTENDS ByteLoops, DemoPrograms

CONSTANT Samples  \* what the first array of the byte loops may be

ASSUME SampleAssumption == Samples \subseteq Arrays

VARIABLES
  prog,      \* the program that runs
  pc,        \* its next statement
  mem,       \* the value of every name the program uses
  missed,    \* history: names whose last write failed, or is still to come
  tainted,   \* history: names whose value rests on such a one
  verdicts,  \* history: how every comparison came out, and what it rested on
  code       \* exit code: 0 or 1, 2 while it runs, 3 after a signal

demoVars == <<prog, pc, mem, missed, tainted, verdicts, code>>
vars     == <<loopVars, demoVars>>

---------------------------------------------------------------------------
(* Names and values                                                        *)

Null    == <<"NULL">>
Zero    == <<"zero">>
Old     == <<"old">>
Torn    == <<"torn">>
Objects == {"pkey", "alice_key", "bob_key", "x509"}
Preset  == {"dec_len", "mac_len"}  \* lengths with an initial value
Stacks  == {"zero", "junk"}        \* what uninitialised bytes may be

Outs(p, kinds) == UNION {s.outs : s \in {Script(p)[k] : k \in
                         {n \in DOMAIN Script(p) : Script(p)[n].kind \in kinds}}}
Calls    == {"dropped", "bare", "or_skip", "or_exit", "verify"}
Files(p) == Outs(p, {"fopen"})
Names(p) == Outs(p, Calls \cup {"change", "fopen"})
            \cup UNION {ToSet(Script(p)[k].ins) : k \in DOMAIN Script(p)}
Unwritten(p) == Outs(p, Calls)

Initially(p, stack, name) ==
  IF name \in Objects THEN Null
  ELSE IF name \in Files(p) THEN Old
  ELSE IF name \in Unwritten(p) \ Preset
       THEN (IF stack = "zero" THEN Zero ELSE <<"junk", name>>)
  ELSE <<name>>

Init ==
  /\ LoopInit
  /\ prog \in Programs
  /\ pc = 1
  /\ \E stack \in Stacks : mem = [name \in Names(prog) |-> Initially(prog, stack, name)]
  /\ missed = Unwritten(prog) /\ tainted = Unwritten(prog)
  /\ verdicts = <<>>
  /\ code = 2

Now  == Script(prog)[pc]
Vals == [k \in DOMAIN Now.ins |-> mem[Now.ins[k]]]

\* What the library computes; it refuses NULL and what does not decrypt.
Possible ==
  /\ \A k \in DOMAIN Vals : Vals[k] # Null
  /\ Now.fn = "decrypt" =>
       Vals[2][1] = "encrypt" /\ Vals[2][2][1] = Vals[1]

Result ==
  CASE Now.fn = "decrypt" -> Vals[2][2][2]
    [] Now.fn = "derive"  -> <<"derive", ToSet(Vals)>>
    [] Now.fn = "verify"  -> IF Vals[1] = <<"sign", <<Vals[2], Vals[3]>>>>
                             THEN <<"valid">> ELSE <<"invalid">>
    [] OTHER              -> <<Now.fn, Vals>>

---------------------------------------------------------------------------
(* Statements                                                              *)

At(kinds) == code = 2 /\ pc \in DOMAIN Script(prog) /\ Now.kind \in kinds

\* outs get the value; it rests on what the arguments rest on.
Assign(value) ==
  /\ mem' = [name \in DOMAIN mem |-> IF name \in Now.outs THEN value ELSE mem[name]]
  /\ missed' = missed \ Now.outs
  /\ tainted' = IF ToSet(Now.ins) \cap tainted = {} THEN tainted \ Now.outs
                ELSE tainted \cup Now.outs

CallSucceeds ==
  /\ At(Calls) /\ Possible
  /\ Assign(Result)
  /\ pc' = pc + 1
  /\ UNCHANGED <<loopVars, prog, verdicts, code>>

Failure == 1

\* The "else" of a checked call passes over the statement that prints.
Skipped(kind) == IF kind = "or_skip" THEN 2 ELSE 1

(* The result of verify is what the library returned, all others keep what *)
(* they had.                                                               *)
CallFails ==
  /\ At(Calls)
  /\ missed' = missed \cup Now.outs /\ tainted' = tainted \cup Now.outs
  /\ mem' = IF Now.kind = "verify" THEN [mem EXCEPT !["result"] = <<"error">>] ELSE mem
  /\ IF Now.kind = "or_exit"
       THEN code' = Failure /\ UNCHANGED pc
       ELSE pc' = pc + Skipped(Now.kind) /\ UNCHANGED code
  /\ UNCHANGED <<loopVars, prog, verdicts>>

\* A NULL context or FILE* inside the library.
Crash ==
  /\ At({"bare", "fopen"})
  /\ code' = 3
  /\ UNCHANGED <<loopVars, prog, pc, mem, missed, tainted, verdicts>>

ChangeBuffer ==
  /\ At({"change"})
  /\ Assign(Result)
  /\ pc' = pc + 1
  /\ UNCHANGED <<loopVars, prog, verdicts, code>>

ShowBuffers ==
  /\ At({"show"})
  /\ pc' = pc + 1
  /\ UNCHANGED <<loopVars, prog, mem, missed, tainted, verdicts, code>>

FOpen ==
  /\ At({"fopen"})
  /\ Assign(Torn)
  /\ pc' = pc + 1
  /\ UNCHANGED <<loopVars, prog, verdicts, code>>

(* PEM_write_* and fclose, with no result looked at: the object is in the  *)
(* file, or the file, empty since fopen, stays without a complete one.     *)
FWrite ==
  /\ At({"fwrite"})
  /\ \/ Vals[1] # Null /\ Assign(<<"pem", Vals>>)
     \/ /\ missed' = missed \cup Now.outs /\ tainted' = tainted \cup Now.outs
        /\ UNCHANGED mem
  /\ pc' = pc + 1
  /\ UNCHANGED <<loopVars, prog, verdicts, code>>

---------------------------------------------------------------------------
(* Comparisons                                                             *)

Conclude(outcome) ==
  /\ verdicts' = Append(verdicts, [outcome |-> outcome,
                                   made    |-> ToSet(Now.ins) \cap missed = {},
                                   clean   |-> ToSet(Now.ins) \cap tainted = {}])
  /\ pc' = pc + 1
  /\ UNCHANGED <<prog, mem, missed, tainted, code>>

Block(value, n) == IF value = Zero THEN <<value, 0>>
                   ELSE <<value, IF value[1] = "ecb" THEN pattern[n] ELSE n>>

\* Mutant: any result but 0 counts.
NotZero(value) == value # <<"invalid">>

\* "== 1"
IsOne(value) == value = <<"valid">>

\* memcmp over an uninitialised length compares any number of bytes.
Outcomes ==
  CASE Now.fn = "all"        -> {Vals[1] = Vals[2]}
    [] Now.fn = "up_to"      -> IF Vals[3][1] \in Stacks THEN BOOLEAN ELSE {Vals[1] = Vals[2]}
    [] Now.fn = "blocks_1_2" -> {Block(Vals[1], 1) = Block(Vals[1], 2)}
    [] Now.fn = "blocks_1_4" -> {Block(Vals[1], 1) = Block(Vals[1], 4)}
    [] Now.fn = "valid"      -> {IsOne(Vals[1])}
    [] Now.fn = "inside"     -> {Vals[1] # <<"dec_len">>}  \* not sizeof(decrypted)

Judge ==
  /\ At({"compare"})
  /\ \E outcome \in Outcomes : Conclude(outcome)
  /\ UNCHANGED loopVars

\* The bytes of equal values are equal, those of others are any two arrays
\* that differ.
EnterLoop ==
  /\ At({"loop"}) /\ loop = "none"
  /\ \E x \in Samples, y \in Arrays :
       /\ (x = y) <=> (Vals[1] = Vals[2])
       /\ IF Now.fn = "verify_mac" THEN verify_mac(x, y) ELSE count_bit_differences(x, y)
  /\ UNCHANGED demoVars

LeaveLoop ==
  /\ Leave
  /\ Conclude(ret = 0)

Return ==
  /\ code = 2 /\ pc \notin DOMAIN Script(prog)
  /\ code' = 0
  /\ UNCHANGED <<loopVars, prog, pc, mem, missed, tainted, verdicts>>

Step ==
  \/ CallSucceeds \/ CallFails \/ Crash
  \/ ChangeBuffer \/ ShowBuffers \/ FOpen \/ FWrite
  \/ Judge \/ EnterLoop \/ (LoopStep /\ UNCHANGED demoVars) \/ LeaveLoop
  \/ Return

\* A program that leaves files is killed.
Kill ==
  /\ code = 2 /\ Files(prog) # {}
  /\ code' = 3
  /\ UNCHANGED <<loopVars, prog, pc, mem, missed, tainted, verdicts>>

Next == Step \/ Kill

Spec == Init /\ [][Next]_vars

(* A program that runs is scheduled.                                       *)
FairSpec == Spec /\ WF_vars(Step)

---------------------------------------------------------------------------
(* Properties                                                              *)

(* What a program says about values that come from the library's results   *)
(* is what its text documents: only a failed call can make it say anything *)
(* else, and a program that runs to its end has made all its comparisons.  *)
CleanVerdictsAreDocumented ==
  /\ \A k \in DOMAIN verdicts : verdicts[k].clean =>
       verdicts[k].outcome = Documented(prog)[k]
  /\ code = 0 => Len(verdicts) = Len(Documented(prog))

(* Nothing in rsa_encrypt, rsa_sign, ecdsa_sign and key_derivation looks at *)
(* the results of the later calls, and yet what these programs confirm     *)
(* with a check mark was done: the decryption, the signature and the       *)
(* second derivation cannot fail unseen.  (In the other programs, where a  *)
(* buffer is used again or both sides may be unwritten, they can.)         *)
ClaimsAreEarned ==
  \A k \in DOMAIN verdicts : verdicts[k].outcome =>
    /\ prog \in {"rsa_encrypt", "rsa_sign", "ecdsa_sign"} => verdicts[k].clean
    /\ prog = "key_derivation" => verdicts[k].made

(* rsa_keygen and self_cert write two files and look at no result, and are *)
(* killed anywhere: the second file is not touched while the first is an   *)
(* old one, nor before the first is complete or its write has failed; and  *)
(* two complete new files are of one key.                                  *)
PairOf == IF prog = "rsa_keygen" THEN <<"private_key.pem", "public_key.pem">>
          ELSE <<"ecu_cert.pem", "ecu_key.pem">>
FilesInOrder ==
  Files(prog) # {} =>
    LET first == mem[PairOf[1]]  second == mem[PairOf[2]]
    IN  /\ second # Old => first[1] = "pem" \/ (first = Torn /\ PairOf[1] \in missed)
        /\ (first[1] = "pem" /\ second[1] = "pem") =>
             first[2][1] \in {second[2][1], <<"certificate", second[2]>>}

(* Every program comes to its end, the byte loops included.                *)
EveryDemoEnds == <>(code # 2)

===========================================================================
