# Verification of the example programs of Automotiveknowledgebase

The repository is a Korean-language knowledge base on automotive security. Its
code is eight groups of C programs under `Cryptography/examples/`, written
against OpenSSL, that demonstrate what the chapters explain. This directory
holds TLA+ models of those programs, TLC configurations that check the models
on small instances, and TLAPS proofs of the main results for all instances.
Paths below are relative to `Cryptography/examples/` unless they say otherwise.

## Inventory

| Component | State it keeps | Operations | Talks to |
| --- | --- | --- | --- |
| `06_code_signing/sign_firmware` | three files: `signing_key.pem`, `public_key.pem`, `signed_firmware.bin` | make a key, write both keys, sign, write the package | the verifier, through the files |
| `06_code_signing/verify_firmware` | key, header, two buffers in memory | load the key, read the package in three reads, verify | the signer, through the files |
| `07_secoc_mac/secoc_sim` | a 32-bit counter at each end | build and authenticate a PDU; accept, or refuse as replayed or altered | transmitter and receiver, through PDUs |
| `08_tls_communication/tls_server` | `server_cert.pem`, `server_key.pem`; one listening and one connected socket | `--gen-cert`; bind, listen, accept, handshake, read, respond, close | the client over TCP/TLS |
| `08_tls_communication/tls_client` | one socket | connect, handshake, request, response, close | the server |
| `05_secure_boot_sim/secure_boot` | a root key and three stages in memory | sign the stages, boot them in a chain, change one, boot again | OpenSSL only |
| `01_hash_integrity/file_integrity` | none of its own; the file it reads | hash a file, or hash and compare with a given hash | other programs, through the file |
| `02_aes_encryption/aes_gcm`, `aes_cbc` | buffers, one cipher context at a time | encrypt, decrypt | OpenSSL only |
| `01`: `hash_demo`, `hmac_demo`, `avalanche`; `02`: `ecb_vs_cbc`, `key_derivation`; `07`: `cmac_demo` | buffers in memory | call the library, compare, say what the comparison shows | OpenSSL only |
| `03`: `rsa_keygen`, `rsa_encrypt`, `ecdh_exchange`; `04`: `rsa_sign`, `ecdsa_sign`, `self_cert` | buffers and keys in memory; two files each of `rsa_keygen` and `self_cert` | the same, and write a pair of PEM files | OpenSSL, the file system |
| `NasaCfs/`, `cfs_boot_sequence.md` | - | documentation of another project's program | - |

What is hard about this code, and what makes each part correct:

* **Shared files without locks or atomic replacement** (`06`, `01`): writers
  overlap, die between two calls, fail to write, and readers look while they
  write. Signing is correct if a verifier accepts only what a key's holder
  signed, and if a run nobody disturbs leaves what it managed to write and
  nothing older, which verifies if nothing failed. File hashing is correct if
  a check decides whether the file is what it was, and if what a concurrent
  writer can do to the hash has the limits the read loop gives it.
* **A pair in two files** (`08`, `03`, `04`): `--gen-cert` writes the key and
  then the certificate, a server loads the certificate and then the key, and
  either may run beside, or die beside, the other. Correct if a server never
  runs with two halves of different pairs, if a start beside an issued pair is
  not refused, and if a client sees the certificate of the key its server
  holds.
* **Freshness** (`07`): PDUs come again and come altered, and a MAC may fail to
  be computed at either end. The receiver is correct if what it accepts is what
  was sent, place by place, and if no refusal costs a genuine PDU its place.
* **Two processes over TCP** (`08`): contention for the port, half-dead peers,
  a queue that is dropped when the server exits, SIGPIPE. Correct if both ends
  agree on what happened and nobody waits for nobody.
* **Results that are not looked at** (everywhere): key generation, the calls of
  a signing and of a verification but the last, `CMAC_*`, `PEM_write_*`,
  `fwrite`, `fclose`, `bind`, `listen`, `fread`, `SSL_write`, `RAND_bytes`. The
  models let each of these fail, and the properties say what may follow.
* **Buffers that keep what they had** (`01` to `04`, `07`): a failed call leaves
  its output as it was, and the demonstrations print and compare it all the
  same. Correct, as far as these programs can be, if whatever rests on results
  is what the texts announce.
* **Error paths** (`01`, `02`, `06`): many returns, each with its own set of
  resources to release.

`PROJECT.json` lists the hazards line by line.

## Modules

### CodeSigning and FirmwareRelease

`CodeSigning` has one action per file operation of `sign_firmware`
(`Keygen`, `FopenPrivate`, `WritePrivate`, ..., `WritePayload`) and of
`verify_firmware` (`VLoadKey` to `VVerify`), for any set of executions of each
that overlap freely and may be killed (`KillSigner`, `KillVerifier`).

* Data is reduced to who produced it. A key is named after the run that
  generated it; each of the three regions of the package (header, signature,
  payload) holds the bytes of one run or `Junk`. ECDSA is ideal.
* Any call whose result is dropped may fail, and the program goes on. `sfailed`
  and `vfailed` remember which ones did, for the properties only. A failed
  `PEM_write_*` or `fclose` leaves the file as it was or `Torn` (`WritePem`). A
  failed `fwrite` or `fclose` of the package may have written any part of what
  was in stdio's buffer, and loses the rest (`WriteRegion`). A failed signing
  leaves the array unfilled; where only `EVP_DigestSignUpdate` failed, it holds
  a signature of the empty message (`signature`). That one fits a verification
  whose own Update failed (`EmptyValid`). Kills and failures together are
  bounded by `MaxFaults`, save the failures of the verifier's Update, which
  matter only beside one of the signer's.
* Regions move when signatures differ in length. `Clobbers` says when writing
  one region destroys a neighbour of another run, `Aligned` says when a
  verifier, with the header it has read, cuts a region as it was written.
* A PEM file is shorter than a stdio buffer, so it is written by `fclose`;
  between `fopen` and `fclose` it is empty (`Torn`). The package is
  modelled with a separate write per region and a separate read per region,
  which includes every outcome buffering can have, and more.
* Opening and reading the key in one step is exact because nothing deletes
  files. A `FILE*` that is NULL ends the program, which `KillSigner` covers;
  a NULL key makes verification fail or kills the program in the library
  (`KillVerifier`).
* `verify_firmware` looks at neither version nor algorithm, so the model's
  header has neither. `make clean` is not modelled.

`FirmwareRelease` is the promise: a run releases its firmware once, and a
verification answers "reject" or names a firmware that has been released. A
run whose Update failed releases a signature with nothing behind it
(`ReleaseHollow`), and only then may a verification pass something unchecked
(`PassUnchecked`). `Abstract` in `CodeSigning` is the refinement mapping.

### SecOC

One transmitter, one receiver and a bus that keeps its order, but may repeat,
alter and lose PDUs. `main` of `secoc_sim.c` is the behaviour `Send`,
`Receive`, `Replay`, `Receive`, `Tamper`, `Receive`; the model lets the two
ECUs run their statements again and again in any order. `Accept` is the
condition and body of lines 88 to 93; `Refuse` stands for the two refusals at
lines 101 and 116 and for the PDU that meets neither condition, about which
nothing is printed. The counters are integers modulo `Mod`, 2^32 in the code.
The truncated MAC is ideal: the pair it is computed from. All PDUs have the
same length, so the concatenation under the MAC is unambiguous. Loss is
external to the code.

No `CMAC_*` result is looked at. Where one fails in the transmitter
(`SendUnmade`), the PDU carries the four bytes the stack held: nobody's MAC, or
one computed earlier. Where one fails in the receiver, the PDU is compared with
such bytes and may be accepted (`AcceptBlind`, if its freshness is the expected
one) or refused (`RefuseBlind`). `blind` marks the places of the first kind:
`AcceptedWasSent` says that all the others hold what was sent there, so that a
failure spoils one place and does not shift the rest.

`MaxSends + MaxFaults < Mod` is an assumption, not a convenience: with `Mod`
PDUs under one key a counter value comes back and an old PDU is accepted again.

### TlsSession, CertStore, TlsService and OtaService

`TlsSession`: any number of servers and clients around one port. The TCP stack
is external and modelled as Linux behaves: an accept queue of backlog plus one,
data sent before a reset remains readable, a write to a closed peer provokes a
reset, a write after a reset fails or raises SIGPIPE (`BrokenPipe`), closing a
listening socket resets what is queued. With `SO_REUSEADDR` two servers may
both bind before either listens, and the second `listen` fails; a socket whose
bind failed is given some other port by `listen` and waits there (`astray`).
The handshake is the three flights of TLS 1.3; session tickets are left out.

`CertStore`: the two files of the pair. Every call of `--gen-cert` that touches
them is an action, and so is each of the two loads at the start of `main`. A
pair is named after the execution that generated it; between `fopen` and
`fclose` a file is `Torn`. No result of the key generation, of the signing or
of the writing is looked at, so a generation may leave no key, a key and no
certificate, or a file it failed to write (`WritePem`), which is as it was, or
`Torn`; `unsaved` remembers that. `Issued` is a generation that did have and
did write both. `Usable` is the library's own check that the key is the
certificate's; a load may fail by itself as well (`LoadFails`). The histories
`latest`, `alone` and `calm` say which generations and loadings nobody
disturbed.

`TlsService` composes the two: a server takes the steps of `TlsSession` only
once its pair is loaded (`Serve`), a refused server never reaches its socket,
and the client's end of the handshake shows it the certificate its server holds
(`Shows`). Generations go on beside running servers. `OtaService` is the
promise of the whole example: pairs are issued once, a vehicle meets at most
one backend, which holds an issued pair and shows its certificate, and gets at
most one response, afterwards. The mapping counts a pair as issued once its
certificate has been written and its key had been.

### SecureBoot and BootChain

`main` of `secure_boot.c`, call by call, with every library call free to fail.
Since nothing checks whether signing succeeded, a stage may carry no
signature, of length zero or of the length only asked for. A failed Update call
leaves the context with the empty message, in the signing as in a verification
(`Hashed`); two such failures fit together. `VerifyFinal` gives 1 only for a
signature that fits, and 0 or a negative number otherwise or on failure.
`BootChain` is the promise of a chain of trust, which both boots implement:
`up` is the number of stages running, `genuine` the set of stages whose image
is the one signed, `hollow` that of the stages whose signature is over nothing
and vouches for no image.

### FileIntegrity

Executions of `file_integrity` in either mode over one path that may be a
file, a directory or nothing, while other programs write and truncate it. One
write changes any bytes at once and may make the file longer (`Write`); it may
fall between any two reads of a run.

`fread` fills its buffer with as many reads as it takes: one read delivers what
the buffer has room for or the file has left (`Chunk`), the fread goes on after
a short one (`filled`), and a read that delivers nothing has met the end of the
file, which stays (stdio's end-of-file flag). The one assumption about the
system is that a read and a write are atomic to each other, as POSIX has it for
regular files; everything longer is interleaved. A rename over the path is not
modelled: a run that has opened the file keeps the old one.

Bytes and `BUFFER_SIZE` are small, so that a file takes several reads and may
end inside, at, or before a buffer boundary. SHA-256 is ideal: a digest is the
bytes digested, which lets the properties say of *which* bytes it is.
`versions` is the sequence of contents the file had while a run read it. A
check is given a hash that some run printed, in either letter case.

### AesGcm, AesCbc and Pkcs7

The functions drive one cipher context through their library calls; any call
may fail, after which the context is freed and an error returned. `AesGcm`
keeps what the context has been given and lets a tag fit only the ciphertext
and associated data it was computed for; main's buffers are variables since
decryption fills one before it knows whether to. A call that does not find what
it builds on fails (`InOrder`), and that is not the library's failure: calls in
another order would not leave the properties without cases. `RAND_bytes`, whose
result main drops, may leave key and IV unfilled: `failed` then starts as {0}.
`AesCbc` keeps lengths: what Update and Final put out, how much of each buffer
is written, the terminator of the decrypted text included, what is returned.

`Pkcs7` is the arithmetic of the two padding helpers of `aes_cbc.c`, over
buffers of bytes, with a `size_t` and an `unsigned char` of finite width.
`main` does not call them; its comment offers them as what the library does.
`AesCbc` extends the module, so that the helpers are compared with the
library's lengths for every ciphertext that is produced.

### DemoPrograms, Demos and ByteLoops

`DemoPrograms` gives each of the twelve demonstrations as the sequence of its
statements: a library call, with what happens to its result (dropped, dropped
on a NULL object, a failure that skips the next statement, a failure that
returns 1), a change of a buffer, a printout, a comparison, a write of a file.
`Documented` is what each comparison ought to say, from the program's own text.

`Demos` executes one of them. A value is a term, since the library is ideal:
equal results come from equal arguments. A call that fails leaves its outputs
as they were, and a write that fails leaves an empty file. The initial contents of uninitialised arrays are a choice: equal
bytes everywhere, or arrays that differ. A NULL object or `FILE*` may crash the
library; a program that leaves files may be killed at any statement. Printed
text that does not depend on a result is left out.

`ByteLoops` is `verify_mac` and `count_bit_differences` statement by statement,
a byte being the set of the positions of its 1 bits. `Demos` runs through it
where `hmac_demo` and `avalanche` call these functions. `compare_hashes` of
`file_integrity.c`, which nothing calls, is the loop of `verify_mac` word for
word.

### Mutants

The operators whose comment begins "Mutant" are not part of the models. Each
is a deliberately wrong version of the definition after it, and stands there
to confirm that the property named with it in `PROJECT.json` fails for it.

## Runs

| Run | Configuration | Shows |
| --- | --- | --- |
| `signing` | `MCCodeSigning.cfg` | two signers of different firmware, one verifier, one kill or failing call: all invariants and the refinement of `FirmwareRelease` (1,272,195 states) |
| `signing_readme` | `MCCodeSigningReadme.cfg` | violated: the README's commands do not verify |
| `secoc` | `MCSecOC.cfg` | five PDUs, two faults, the last PDU across the wrap: what is accepted was sent, no bridging of losses, what is reported as a replay before the wrap; everything arrives unless lost (398,865 states) |
| `tls` | `MCTlsSession.cfg` | two servers, three clients, two kills: safety |
| `tls_ends` | `MCTlsSessionEnds.cfg` | two servers, two clients, one kill: everybody ends |
| `tls_service` | `MCTlsService.cfg` | two generations of the pair with failing writes, two servers, one client, two kills: the pair that is loaded and shown; the refinement of `OtaService` (1,127,184 states) |
| `secure_boot` | `MCSecureBoot.cfg` | all failures of library calls; the refinement of `BootChain` (571 states) |
| `file_integrity` | `MCFileIntegrity.cfg` | two runs, two concurrent writes of any size: what a check decides, what is hashed beside writers (1,289,641 states) |
| `file_integrity_return` | `MCFileIntegrityReturn.cfg` | violated: 0 is returned after a failed read |
| `aes_gcm` | `MCAesGcm.cfg` | all failures of library calls: what is accepted and what is shown (276 states) |
| `aes_cbc` | `MCAesCbc.cfg` | all failures, messages around two block boundaries; the padding helpers against the library (377 states) |
| `demos` | `MCDemos.cfg` | the twelve demonstrations with all failures, kills where they leave files, the byte loops; everyone ends (27,321 states) |

### Bounds, and why they are enough

* `CodeSigning`: two signers are what it takes for files to mix, and two
  lengths of signature for regions to shift. A kill or a failing call may
  strike anywhere, and the second signer may start afterwards and repair what
  the first one left; a failing Update of the verifier comes on top, so that
  the two Updates that cancel out are reached. Verifiers do not influence
  anybody, so one is as good as many. The two runs may be exchanged
  (`SignerSymmetry`): no state holds a firmware, and each has its own. The
  theorems remove these bounds.
* `SecOC`: counters modulo 9 that start at 5, so that the fifth PDU carries a
  wrapped one, and three before it give the reports of replays, whose
  properties are about counters that have not wrapped, something to report. Two
  faults are any two of a loss, a replay, an alteration and a MAC that is not
  computed. The theorems hold for every modulus, 2^32 included, and any number
  of faults.
* `TlsSession`: two servers contend for the port, three clients fill the
  queue (which holds two) beside one that is being served. Two kills reach
  both ends of a session, or one end and a bystander. The theorems remove
  these bounds for safety; `tls_ends` has two clients and one kill.
* `TlsService`: two generations are what it takes for a file of one to meet a
  file of the other; two servers may hold one pair each; one client is enough,
  since a client is shown a certificate by its own server only. The theorems
  remove these bounds.
* `FileIntegrity`: three bytes with a buffer of two give files with no, one
  and two buffers, ending at and off the boundary; two byte values tell
  versions apart, since a write may change all three bytes at once; two writes
  are one more than `OneChangeFromOneReadOn` is about, and let a file grow
  twice. Reads that fail are those of a directory here, and one of any file in
  `file_integrity_return`: the properties are about runs without one. The
  theorems remove these bounds.
* `AesCbc`: message lengths before, at and after a block boundary; 68 is the
  length in the source. `SizeMod` is 2^16, which no length here comes near;
  `RoundTrip` and `RemovalIsInside` are about every width.
* `Demos`: arrays of two bytes of two bits are enough for a difference in an
  early byte and in a late bit; two of `avalanche`'s eight flips and one of its
  hundred tests, which are the same statements again. `DemosProofs` is about
  any number of both, and about arrays of any length and width.
* `SecureBoot`: a finite program without bounds. `AesGcm`: one length of
  message, the source's; the theorems are about every length.

Deadlock is checked except in `SecOC`, where the bounded transmitter stops,
`TlsSession` and `TlsService`, where all programs end, or a server waits for a
client that never comes, and `Demos`, where the program ends.

### Fairness

`secoc` assumes weak fairness of the receiver only: the code processes
each PDU it has. The transmitter and the bus need not do anything.
`tls_ends` assumes weak fairness of each program: the operating system
schedules it, a pending record is delivered, and a closed or reset connection
is noticed. Kills and SIGPIPE are never assumed to happen. A server in
`accept` has no timeout and may wait for ever; `ServersEnd` is therefore about
servers that have accepted a connection. `demos` assumes that a program that
runs is scheduled, one statement or loop step after the other.

## Findings

* `06_code_signing/README.md` passes file names to `sign_firmware`, which takes
  none and always writes `signed_firmware.bin`; the second command of the
  README exits with 1 (`signing_readme`).
* `calculate_file_hash` does not tell a read error from the end of the file,
  against its own comment; for a directory it returns the hash of no bytes
  (`file_integrity_return`).

Observations without a document that says otherwise: in `06` and in `05` an
Update that fails in the signing and one that fails in the verification cancel
out, and any payload or image is then accepted; a signer that could not write a
file goes on to the next one and exits with 0; a SecOC receiver that could not
compute a MAC may accept an altered PDU; after a wrap its replay report is wrong
either way, and after a loss it accepts nothing any more; a TLS client reports
success without a response; a second TLS server may wait on a port nobody
knows; `file_integrity` may print a hash of no content the file ever had;
`aes_cbc` drops the result of its
second encryption and prints the buffer and the length whether or not they
were assigned; `hmac_demo`, `ecdh_exchange` and others compare buffers that a
failed call may have left as they were, and then announce what the comparison
shows.

## Proofs

Eight modules hold proofs, checked by TLAPS for every value of the constants
under the named assumptions of the module they are about: that the sets of
programs and the markers are different things, that bounds are numbers,
programs finitely many where they are counted, buffers large enough for the
message (`AesCbc`) and, for `SecOC`, that `Start < Mod` and
`MaxSends + MaxFaults < Mod`.
`PROJECT.json` lists the theorems, each with the property it is about. Every
invariant and every step property of the passing runs is a theorem; the
properties that are only model-checked are listed at the end of this section.

| Module | Proves about |
| --- | --- |
| `CodeSigningProofs` | `CodeSigning`, and that it implements `FirmwareRelease` |
| `SecOCProofs` | `SecOC` |
| `TlsProofs` | `TlsSession`, `TlsService` with `CertStore`, and that the service implements `OtaService` |
| `SecureBootProofs` | `SecureBoot`, and that it implements `BootChain` |
| `FileIntegrityProofs` | `FileIntegrity` |
| `AesGcmProofs` | `AesGcm` |
| `AesCbcProofs` | `AesCbc` and `Pkcs7` |
| `DemosProofs` | `Demos`, `DemoPrograms` and `ByteLoops` |

**CodeSigning.** Type correctness comes first, one step per action.
`AcceptedIsAuthentic` is not inductive: the invariant behind it follows the
evidence backwards, from an accepting verifier to its buffers, to the regions
of the package, to how far the writer named there has come (`BytesHaveWriters`).
`FailuresTold` ties the history of failed calls to what a run goes on with: its
key, its signature, the place where it stopped writing. The two properties of
undisturbed runs rest on an invariant about the last signer as long as it is
alone: at each of its program counters it says what is in each file, given what
has failed so far, and that none of the others runs (`LatestFiles`).
`CalmVerificationAccepts` adds what a verifier has read so far while the release
stays in place (`CalmProgress`); it is an equivalence, so that the verification
of an incomplete release is shown to be refused, too. The refinement maps every
step to a release, an answer, or a stutter; the invariant of
`AcceptedIsAuthentic` is what makes the answering step one of `FirmwareRelease`.

**SecOC.** The invariant ties both counters to the lengths of the histories:
`tx_counter` is `Start + Len(sent)` and `rx_counter` is
`Start + Len(accepted)`, modulo `Mod`; every MAC on the bus is nobody's or that
of a PDU whose MAC was computed (`MacsAreSent`), so that a PDU whose MAC
verifies is one that was sent (`VerifiedIsSent`). The receiver may get ahead of
the transmitter, by one for every MAC it could not compute; from
`MaxSends + MaxFaults < Mod`, an index is determined by its counter value all
the same, and the PDU that is expected can only be the next one. The reports
need the order on the bus as well: before the wrap, and without losses, fresh
PDUs stand in the order sent and none is ahead of the receiver by more than
those in front of it.

**TlsSession.** The heart is a table, `Exchange`, of the ten situations two
living ends can be in while both are talking: where either is, and what is
under way in each direction. `SessionInv` says that an accepted connection
whose ends are alive is in one of them, or the client has left first (`Left`),
or the server has closed with the response in the client's hands or in its
queue (`Closed`). Every step leads from row to row; the failing reads and
writes need an end or a reset, which no row has. That gives `SessionsSucceed`,
and `ServersSurvive` as well, because SIGPIPE needs a reset connection. The
table starts with what `QueueInv` says of a connection before it is accepted,
and `ConnInv`, which says that a connection is queued once or has one server,
keeps other programs from interfering. `RecordInv` (what the records on the way
tell about their senders) gives `EndsAgree`, `WaitInv` (a client that is
connected is waited on, or has been told) gives `NobodyWaitsForNoOne`; both
hold for dead ends too.

**TlsService.** `PairInv`: a certificate on disk or in a server is that of a
generation that had it and wrote it, and likewise a key; a server that holds
both of one generation holds an issued pair, because the certificate is written
last. `LatestInv`: while the last generation is alone, each file is as its
program counter and its failed writes say. `CalmInv` carries that through a loading beside which no
generation starts. `PeerInv` and `ShownInv` tie the session to the pair: only
a loaded server has a connection, and what a client was shown is the key of
the server that has its connection. With these, every step of the composition
is one of `OtaService` or a stutter.

The session's own properties hold in the service as well
(`ServedSessionsSucceed`, `ServiceEndsAgree`, `ServiceWaitsHaveAnEnd`,
`ServiceServersSurvive`). A step of the service is a step of `TlsSession`, a
generation or a loading, which touch no connection, or a kill, which may hit a
generator; the invariant of `TlsSession` survives all of them, since it is
stated over `SessionTypes`, which leaves open what else can die. A refused
server is to the session one that never takes its first step.

**SecureBoot.** `Progress` says at each program counter which boot main is in
and how many of its stages have run; `RanSigned`, that each of them ran over
the image that carries a signature, unless neither signature nor verification
is over one; `Unfailed`, what the stages hold as long as
no call has failed. Neither property is inductive without them: what an exit code means is
decided several stages before it is given. For the refinement, a stage that
runs is one more stage up over a genuine image or a hollow signature, the change
of an image is the restart of the chain, and making keys and signatures, which
is over before the first stage runs, only changes which images are genuine and
which signatures hollow.

**AesGcm.** `ContextAsCalled` is the link between the cipher context and the
arguments of the function that drives it: when the tag is compared, the context
holds the ciphertext and associated data of this call, and the buffer has been
written from that ciphertext. `TagFirst` says that main comes to a decryption
only with the tag of the message. The two together make the comparison decide
authenticity. `SoFar`, that nothing is shown about a job before it is over and
that a job with a failed call has no length, does the same for what main shows.
`Unfailed` carries the results of the earlier calls, so that
`HonestRunShowsAll` can speak of them at the end.

**FileIntegrity.** `ReadInv` follows a run through its reads. As long as every
change was an append, what has been digested is the beginning of the file as it
is now. As long as there was no change, the reading is at the end of a buffer or
of the file; after one change, the digested bytes are the old content up to such
a place, `k`, and the new one from there on, and the run has passed the new end
only if it has read nothing since `k`. A write between two reads of one fread
falls at the end of the file as it was, since a read stops short of the buffer
only there; that is why `k` is in `ReadEnds`. `DoneInv` draws the conclusions at
the end of the file: `GrowingFilesHashedWhole` and `OneChangeSeenFromOneRead`.
`CheckDecides` follows, as a clean run has seen one content.

**AesCbc and Pkcs7.** `LengthsInv`: a returned length is the length of the
complete output, and that is how much is written, but for main's terminator; `ProgressInv`: main reaches a job only through complete ones.
`RoundTrip` and `RemovalIsInside` show that removing what was added gives length and message
back, for every message that leaves room in `size_t` and every block size up
to `AES_BLOCK_SIZE`, and that on whole blocks the removal stays inside the
buffer whatever the last byte is; `HelpersAgreeWithLibrary` and
`RemovalStaysInside` rest on them.

**ByteLoops.** `Known`: `result` is empty exactly if the arrays agree so far,
and `diff_count` plus the bits left in `xor_val` is the number of differences
so far. The cardinality of the set of differences is split byte by byte.

**Demos.** `DemoInv` has four parts. `Base` is the invariant of the byte loops,
and `LoopLink`: the arrays a loop runs over are equal exactly if the two values
the program compares are. `Sound` is what the verdicts given so far have to
satisfy, `Ended` that exit code 0 is given behind the last statement. None of this says what a buffer
holds, on which the next verdict depends; `ProgramInv` does, one invariant for
each of the twelve programs (`HmacDemoInv`, `RsaSignInv`, ...): from which
statement on a buffer holds which term unless it is tainted, and what holds of
it even then. `ClaimsAreEarned` is about the latter: a signature whose making
failed is no signature of the document, whatever the array held before. Part 2
of the module states once what each kind of statement does to a program, so
that the proofs of part 3 have one step per statement. `AvalancheInv` is by
position within a round, for any number of rounds. `FilesInOrder` needs in
addition that the key does not change between the two files.

Only model-checked:

* Liveness (`EverythingArrives`, `ClientsEnd`, `ServersEnd`, `EveryDemoEnds`),
  which is outside the prover's reach.
* `DocumentedWorkflow` and `ZeroMeansHashed`, which are violated.

## Not modelled

`make clean`; the text programs print, except where a property is about it;
what a printout of an uninitialised buffer looks like; TLS session tickets and
renegotiation; a file replaced by a rename while it is hashed; a server killed before its pair
is loaded (it has no effect on anybody); the cFS notes, whose program is not in the repository.

## What is left

1. The safety kernel of the liveness properties as theorems: a measure that
   every step of `Demos`, of the byte loops and of a TLS client decreases. That
   a fair program then ends would remain for TLC.
2. Liveness of `TlsService`: under the fairness of `tls_ends`, every client
   ends also where servers are refused for want of a pair.
3. Larger instances of `demos`, should the demonstrations grow: the bounds are
   constants.
