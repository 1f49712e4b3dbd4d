------------------------------ MODULE Pkcs7 ------------------------------
(***************************************************************************)
(* add_pkcs7_padding and remove_pkcs7_padding of                           *)
(* 02_aes_encryption/aes_cbc.c, which show what the library's padding does *)
(* and which main does not call.  A buffer is a function from 0.. to       *)
(* bytes; a size_t counts modulo SizeMod, an unsigned char modulo 256.     *)
(***************************************************************************)
EXTENDS Integers

CONSTANTS
  AES_BLOCK_SIZE,
  SizeMod          \* 2^64 in the code

ASSUME BlockAssumption == AES_BLOCK_SIZE \in 1..255
ASSUME SizeAssumption == SizeMod \in Nat /\ SizeMod > 255

Byte == 0..255

---------------------------------------------------------------------------

\* Mutant: no block of padding for a message of whole blocks.
PaddingOrNone(len, block_size) == (block_size - (len % block_size)) % block_size

Padding(len, block_size) == block_size - (len % block_size)

\* What add_pkcs7_padding returns.
PaddedLength(len, block_size) == (len + Padding(len, block_size)) % SizeMod

\* What it leaves in data.
add_pkcs7_padding(data, len, block_size) ==
  LET padding == Padding(len, block_size)
  IN  [i \in DOMAIN data |-> IF i \in len .. len + padding - 1 THEN padding % 256 ELSE data[i]]

\* Mutant: the last byte is not compared with the block size.
PlausibleIfAny(padding) == padding # 0

Plausible(padding) == padding <= AES_BLOCK_SIZE /\ padding # 0

\* The difference is taken in size_t.
remove_pkcs7_padding(data, len) ==
  IF len = 0 \/ ~Plausible(data[len - 1]) THEN len
  ELSE (len - data[len - 1]) % SizeMod

---------------------------------------------------------------------------
(* Properties                                                              *)

(* What was padded is recovered: for every block size that the removal     *)
(* recognises, the length comes back and the message is still in place.    *)
RoundTripAt(data, len, block_size) ==
  LET padded == add_pkcs7_padding(data, len, block_size)
  IN  /\ remove_pkcs7_padding(padded, PaddedLength(len, block_size)) = len
      /\ \A i \in 0 .. len - 1 : padded[i] = data[i]

(* On whole blocks, whatever their last byte is, the removal yields a      *)
(* length inside the buffer; on less than a block the size_t difference    *)
(* may wrap around.                                                        *)
RemovalStaysInsideAt(data, len) ==
  len % AES_BLOCK_SIZE = 0 => remove_pkcs7_padding(data, len) \in 0 .. len

===========================================================================
