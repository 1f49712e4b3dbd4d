--------------------------- MODULE DemoPrograms ---------------------------
(***************************************************************************)
(* The demonstration programs of examples 01, 02, 03, 04 and 07, each the  *)
(* sequence of its statements; Demos executes them.  A statement names the *)
(* buffers, objects and files it reads (ins) and writes (outs).  Text that *)
(* is printed whatever happened is left out.                               *)
(***************************************************************************)
EXTENDS Integers, SequencesExt

CONSTANTS
  Flips,  \* bound: bits that avalanche flips (8 in the code)
  Tests   \* bound: tests in its statistics (100 in the code)

ASSUME RoundsAssumption == Flips \in Nat /\ Tests \in Nat

Statement(kind, fn, ins, outs) == [kind |-> kind, fn |-> fn, ins |-> ins, outs |-> outs]

\* A library call whose result is dropped; one that passes on the NULL of an
\* allocation as well; one whose failure skips the next statement; one whose
\* failure is "return 1".
Dropped(fn, ins, outs) == Statement("dropped", fn, ins, outs)
Bare(fn, ins, outs)    == Statement("bare", fn, ins, outs)
OrSkip(fn, ins, outs)  == Statement("or_skip", fn, ins, outs)
OrExit(fn, ins, outs)  == Statement("or_exit", fn, ins, outs)

Change(fn, from, to)   == Statement("change", fn, <<from>>, {to})
Show(names)            == Statement("show", "", names, {})
Compare(x, y)          == Statement("compare", "all", <<x, y>>, {})
CompareUpTo(x, y, len) == Statement("compare", "up_to", <<x, y, len>>, {})
CompareBlock1(x, n)    ==
  Statement("compare", IF n = 2 THEN "blocks_1_2" ELSE "blocks_1_4", <<x>>, {})
IsValid                == Statement("compare", "valid", <<"result">>, {})
Terminate(len)         == Statement("compare", "inside", <<len>>, {})
Loop(fn, x, y)         == Statement("loop", fn, <<x, y>>, {})
Open(file)             == Statement("fopen", "", <<>>, {file})
Write(file, object)    == Statement("fwrite", "", <<object>>, {file})

---------------------------------------------------------------------------
(* 01_hash_integrity                                                       *)

calculate_sha256(data, hash) == OrSkip("sha256", <<data>>, {hash})

test_strings == <<"s1", "s2", "s3", "s4", "s5">>

sha256(data, hash) == Dropped("sha256", <<data>>, {hash})

\* Five hashes that are looked at and three that are not; each is shown.
hash_demo ==
  [n \in 1 .. 16 |-> IF n % 2 = 0 THEN Show(<<"hash">>)
                     ELSE IF n < 10 THEN calculate_sha256(test_strings[(n + 1) \div 2], "hash")
                     ELSE sha256("same_input", "hash")]

Differ == Loop("count_bit_differences", "hash_original", "hash_modified")

flip_round ==
  <<Change("flip", "original", "modified"), sha256("modified", "hash_modified"),
    Differ, Show(<<"hash_modified">>)>>

test_round ==
  <<Change("next", "test_data", "test_data"), sha256("test_data", "hash_original"),
    Change("flip", "test_data", "test_modified"), sha256("test_modified", "hash_modified"),
    Differ>>

\* One hash, a round for every flipped bit, then one for every test.
avalanche ==
  LET flips == 2 + 4 * Flips
  IN  [n \in 1 .. flips + 5 * Tests |->
         IF n = 1 THEN sha256("original", "hash_original")
         ELSE IF n = 2 THEN Show(<<"hash_original">>)
         ELSE IF n <= flips THEN flip_round[1 + ((n - 3) % 4)]
         ELSE test_round[1 + ((n - flips - 1) % 5)]]

calculate_hmac_sha256(key, data, mac) == Dropped("hmac", <<key, data>>, {mac})

VerifyMac == Loop("verify_mac", "original_mac", "verify_mac_buf")

\* Mutant: the third scenario uses the right key.
hmac_demo_one_key ==
  <<calculate_hmac_sha256("key1", "message", "mac"), Show(<<"mac">>),
    calculate_hmac_sha256("key2", "message", "mac"), Show(<<"mac">>),
    calculate_hmac_sha256("key1", "message", "original_mac"), Show(<<"original_mac">>),
    calculate_hmac_sha256("key1", "message", "verify_mac_buf"), VerifyMac,
    calculate_hmac_sha256("key1", "tampered", "verify_mac_buf"), VerifyMac,
    calculate_hmac_sha256("key1", "message", "verify_mac_buf"), VerifyMac>>

hmac_demo ==
  <<calculate_hmac_sha256("key1", "message", "mac"), Show(<<"mac">>),
    calculate_hmac_sha256("key2", "message", "mac"), Show(<<"mac">>),
    calculate_hmac_sha256("key1", "message", "original_mac"), Show(<<"original_mac">>),
    calculate_hmac_sha256("key1", "message", "verify_mac_buf"), VerifyMac,
    calculate_hmac_sha256("key1", "tampered", "verify_mac_buf"), VerifyMac,
    calculate_hmac_sha256("key2", "message", "verify_mac_buf"), VerifyMac>>

---------------------------------------------------------------------------
(* 02_aes_encryption                                                       *)

RandBytes(use, buffer) == Dropped("random", <<use>>, {buffer})

derive_key_pbkdf2(password, salt, key) == Dropped("pbkdf2", <<password, salt>>, {key})

key_derivation ==
  <<RandBytes("salting", "salt"),
    OrExit("pbkdf2", <<"password", "salt">>, {"derived_key"}), Show(<<"derived_key">>),
    derive_key_pbkdf2("password", "salt", "key2"), Compare("derived_key", "key2"),
    RandBytes("salting_again", "salt2"),
    derive_key_pbkdf2("password", "salt2", "key3"), Compare("derived_key", "key3"),
    derive_key_pbkdf2("password2", "salt", "key4"), Show(<<"derived_key", "key4">>)>>

aes_ecb_encrypt(key, plaintext, ciphertext) == Bare("ecb", <<key, plaintext>>, {ciphertext})
aes_cbc_encrypt(key, iv, plaintext, ciphertext) ==
  Bare("cbc", <<key, iv, plaintext>>, {ciphertext})

\* The blocks of the plaintext, in which 1, 2 and 4 are the same.
pattern == <<1, 1, 2, 1>>

ecb_vs_cbc ==
  <<RandBytes("a_key", "key"), RandBytes("an_iv", "iv"),
    aes_ecb_encrypt("key", "plaintext", "ciphertext_ecb"), Show(<<"ciphertext_ecb">>),
    CompareBlock1("ciphertext_ecb", 2), CompareBlock1("ciphertext_ecb", 4),
    aes_cbc_encrypt("key", "iv", "plaintext", "ciphertext_cbc"), Show(<<"ciphertext_cbc">>),
    CompareBlock1("ciphertext_cbc", 2), CompareBlock1("ciphertext_cbc", 4)>>

---------------------------------------------------------------------------
(* 03_asymmetric_crypto                                                    *)

Keygen(use, pkey) == Dropped("keygen", <<use>>, {pkey})

\* Mutant: the public key is saved first.
rsa_keygen_public_first ==
  <<Keygen("rsa", "pkey"),
    Open("public_key.pem"), Write("public_key.pem", "pkey"),
    Open("private_key.pem"), Write("private_key.pem", "pkey")>>

rsa_keygen ==
  <<Keygen("rsa", "pkey"),
    Open("private_key.pem"), Write("private_key.pem", "pkey"),
    Open("public_key.pem"), Write("public_key.pem", "pkey")>>

rsa_encrypt ==
  <<Keygen("rsa", "pkey"),
    Dropped("encrypted_size", <<"pkey", "plaintext">>, {"ct_len"}),
    Dropped("encrypt", <<"pkey", "plaintext">>, {"ciphertext", "ct_len"}),
    Show(<<"ciphertext">>),
    Dropped("decrypt", <<"pkey", "ciphertext">>, {"decrypted", "dec_len"}),
    Terminate("dec_len"), Show(<<"decrypted">>), Compare("plaintext", "decrypted")>>

ecdh_exchange ==
  <<Keygen("alice", "alice_key"), Keygen("bob", "bob_key"),
    Dropped("secret_size", <<"alice_key", "bob_key">>, {"secret_len"}),
    Dropped("derive", <<"alice_key", "bob_key">>, {"alice_secret", "secret_len"}),
    Dropped("derive", <<"bob_key", "alice_key">>, {"bob_secret", "secret_len"}),
    Show(<<"alice_secret", "bob_secret">>),
    CompareUpTo("alice_secret", "bob_secret", "secret_len")>>

---------------------------------------------------------------------------
(* 04_digital_signature                                                    *)

\* The size is asked for, then the signature is made.
SignatureSize(pkey, data) == Bare("signature_size", <<pkey, data>>, {"sig_len"})
Sign(pkey, data) == Dropped("sign", <<pkey, data>>, {"signature", "sig_len"})

DigestVerify(pkey, data) ==
  Statement("verify", "verify", <<"signature", pkey, data>>, {"result"})

rsa_sign ==
  <<Keygen("rsa", "pkey"), SignatureSize("pkey", "document"), Sign("pkey", "document"),
    Show(<<"signature">>),
    DigestVerify("pkey", "document"), IsValid,
    DigestVerify("pkey", "tampered"), IsValid>>

ecdsa_sign ==
  <<Keygen("ec", "pkey"), SignatureSize("pkey", "firmware"), Sign("pkey", "firmware"),
    Show(<<"signature">>), DigestVerify("pkey", "firmware"), IsValid>>

self_cert ==
  <<Keygen("ec", "pkey"), Bare("certificate", <<"pkey">>, {"x509"}),
    Open("ecu_cert.pem"), Write("ecu_cert.pem", "x509"),
    Open("ecu_key.pem"), Write("ecu_key.pem", "pkey")>>

---------------------------------------------------------------------------
(* 07_secoc_mac                                                            *)

calculate_cmac(key, data, mac, mac_len) == Bare("cmac", <<key, data>>, {mac, mac_len})

cmac_demo ==
  <<calculate_cmac("key", "can_msg", "mac", "mac_len"), Show(<<"mac">>),
    calculate_cmac("key", "can_msg", "verify_mac", "verify_len"), Compare("mac", "verify_mac"),
    Change("flip", "can_msg", "can_msg"),
    calculate_cmac("key", "can_msg", "verify_mac", "verify_len"), Compare("mac", "verify_mac")>>

---------------------------------------------------------------------------

Programs ==
  {"hash_demo", "avalanche", "hmac_demo", "key_derivation", "ecb_vs_cbc", "rsa_keygen",
   "rsa_encrypt", "ecdh_exchange", "rsa_sign", "ecdsa_sign", "self_cert", "cmac_demo"}

Script(program) ==
  CASE program = "hash_demo"      -> hash_demo
    [] program = "avalanche"      -> avalanche
    [] program = "hmac_demo"      -> hmac_demo
    [] program = "key_derivation" -> key_derivation
    [] program = "ecb_vs_cbc"     -> ecb_vs_cbc
    [] program = "rsa_keygen"     -> rsa_keygen
    [] program = "rsa_encrypt"    -> rsa_encrypt
    [] program = "ecdh_exchange"  -> ecdh_exchange
    [] program = "rsa_sign"       -> rsa_sign
    [] program = "ecdsa_sign"     -> ecdsa_sign
    [] program = "self_cert"      -> self_cert
    [] program = "cmac_demo"      -> cmac_demo

(* What the program's own text says its comparisons come to: TRUE stands   *)
(* for equal, valid or inside.                                             *)
Documented(program) ==
  CASE program = "avalanche"      -> [k \in 1 .. Flips + Tests |-> FALSE]
    [] program = "hmac_demo"      -> <<TRUE, FALSE, FALSE>>
    [] program = "key_derivation" -> <<TRUE, FALSE>>
    [] program = "ecb_vs_cbc"     -> <<TRUE, TRUE, FALSE, FALSE>>
    [] program = "rsa_encrypt"    -> <<TRUE, TRUE>>
    [] program = "ecdh_exchange"  -> <<TRUE>>
    [] program = "rsa_sign"       -> <<TRUE, FALSE>>
    [] program = "ecdsa_sign"     -> <<TRUE>>
    [] program = "cmac_demo"      -> <<TRUE, FALSE>>
    [] OTHER                      -> <<>>
===========================================================================
