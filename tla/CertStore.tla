---------------------------- MODULE CertStore -----------------------------
(***************************************************************************)
(* 08_tls_communication/tls_server.c: "tls_server --gen-cert" writes a     *)
(* new server_key.pem and then a new server_cert.pem; "tls_server" loads   *)
(* the certificate and then the key, in the opposite order.  The two files *)
(* are neither locked nor replaced atomically, and a generation may be     *)
(* killed between any two of its calls.  No result of the generation's     *)
(* calls is looked at, so a write may fail, too, and the program go on.    *)
(*                                                                         *)
(* A key pair is named by the execution that generated it; a file holds    *)
(* the key or the certificate of a pair, or no complete PEM block.         *)
(***************************************************************************)
EXTENDS Naturals, FiniteSets

CONSTANTS
  Generators,  \* executions of tls_server --gen-cert
  Servers,     \* executions of tls_server
  MaxKills     \* bound: how many programs are killed

Absent == "absent"   \* no such file
Torn   == "torn"     \* a file without a complete PEM block
NoPair == "nopair"   \* a NULL or empty object

\* What is asked of the constants; TlsService assumes it.
StoreConstants ==
  /\ Generators \cap {Absent, Torn, NoPair} = {} /\ Generators \cap Servers = {}
  /\ MaxKills \in Nat /\ IsFiniteSet(Generators \cup Servers)

VARIABLES
  gpc,       \* generator: next call
  pkey,      \* generator: its key pair
  x509,      \* generator: the certificate it signed
  unsaved,   \* history: which of its two files a generator failed to write
  key_file,  \* file server_key.pem
  cert_file, \* file server_cert.pem
  lpc,       \* server: "cert", "key", "loaded", or "refused" after "return 1"
  cert,      \* server: the certificate in its SSL_CTX
  key,       \* server: the private key in its SSL_CTX
  dead,      \* programs ended by a signal
  killed,    \* those of them that were killed from outside
  latest,    \* history: the generator that started last
  alone,     \* history: generators no other one has run beside
  calm       \* history: the pair in place all through a server's loading,
             \* in which no call fails that could succeed

genVars   == <<gpc, pkey, x509, unsaved>>
loadVars  == <<lpc, cert, key>>
fileVars  == <<key_file, cert_file>>
signals   == <<dead, killed>>
genHistory == <<latest, alone, calm>>
storeVars == <<genVars, fileVars, loadVars, genHistory>>

GeneratorSteps == {"idle", "fopen_key", "write_key", "fopen_cert", "write_cert", "done"}

Init ==
  /\ gpc = [g \in Generators |-> "idle"]
  /\ pkey = [g \in Generators |-> NoPair]
  /\ x509 = [g \in Generators |-> NoPair]
  /\ unsaved = [g \in Generators |-> {}]
  /\ key_file = Absent /\ cert_file = Absent
  /\ lpc = [s \in Servers |-> "idle"]
  /\ cert = [s \in Servers |-> NoPair] /\ key = [s \in Servers |-> NoPair]
  /\ dead = {} /\ killed = {}
  /\ latest = NoPair /\ alone = {}
  /\ calm = [s \in Servers |-> NoPair]

---------------------------------------------------------------------------
(* tls_server --gen-cert: generate_self_signed_cert                        *)

Generating(g) == gpc[g] \notin {"idle", "done"} /\ g \notin dead
Loading(s)    == lpc[s] \in {"cert", "key"} /\ s \notin dead

GGoto(g, from, to) == /\ gpc[g] = from /\ g \notin dead
                      /\ gpc' = [gpc EXCEPT ![g] = to]

(* The key pair is generated, the certificate built and signed.  No result *)
(* is looked at: there may be no key, and with a key no signature.         *)
Generate(g) ==
  /\ GGoto(g, "idle", "fopen_key")
  /\ \E k \in {g, NoPair} : \E x \in {k, NoPair} :
       pkey' = [pkey EXCEPT ![g] = k] /\ x509' = [x509 EXCEPT ![g] = x]
  /\ latest' = g
  /\ alone' = IF \E h \in Generators : Generating(h)
              THEN {h \in alone : ~Generating(h)}
              ELSE alone \cup {g}
  /\ calm' = [s \in Servers |-> IF Loading(s) THEN NoPair ELSE calm[s]]
  /\ UNCHANGED <<unsaved, fileVars, loadVars, signals>>

(* PEM_write_* and fclose: the object is in the file, or the write failed  *)
(* -- without an object it always does -- and what the file held stays or  *)
(* is cut up.                                                              *)
WritePem(g, f, object, file) ==
  \/ /\ object # NoPair
     /\ file' = object
     /\ UNCHANGED unsaved
  \/ /\ file' \in {file, Torn}
     /\ unsaved' = [unsaved EXCEPT ![g] = @ \cup {f}]

(* fopen(.., "w") empties the file at once, fclose writes it in one piece. *)
FopenKey(g) ==
  /\ GGoto(g, "fopen_key", "write_key")
  /\ key_file' = Torn
  /\ UNCHANGED <<pkey, x509, unsaved, cert_file, loadVars, genHistory, signals>>

\* Mutant: server_key.pem is not flushed.
LoseKey(g) ==
  /\ GGoto(g, "write_key", "fopen_cert")
  /\ UNCHANGED <<pkey, x509, unsaved, fileVars, loadVars, genHistory, signals>>

WriteKey(g) ==
  /\ GGoto(g, "write_key", "fopen_cert")
  /\ WritePem(g, "key", pkey[g], key_file)
  /\ UNCHANGED <<pkey, x509, cert_file, loadVars, genHistory, signals>>

FopenCert(g) ==
  /\ GGoto(g, "fopen_cert", "write_cert")
  /\ cert_file' = Torn
  /\ UNCHANGED <<pkey, x509, unsaved, key_file, loadVars, genHistory, signals>>

WriteCert(g) ==
  /\ GGoto(g, "write_cert", "done")
  /\ WritePem(g, "cert", x509[g], cert_file)
  /\ UNCHANGED <<pkey, x509, key_file, loadVars, genHistory, signals>>

GeneratorStep(g) ==
  Generate(g) \/ FopenKey(g) \/ WriteKey(g) \/ FopenCert(g) \/ WriteCert(g)

(* Killed from outside, or by a NULL FILE* inside the library.             *)
KillGenerator(g) ==
  /\ Generating(g) /\ Cardinality(killed) < MaxKills
  /\ dead' = dead \cup {g} /\ killed' = killed \cup {g}
  /\ UNCHANGED storeVars

---------------------------------------------------------------------------
(* tls_server: the start of main                                           *)

LGoto(s, from, to) == /\ lpc[s] = from /\ s \notin dead
                      /\ lpc' = [lpc EXCEPT ![s] = to]

\* g had its key and its signature and wrote both files.
Issued(g) == gpc[g] = "done" /\ pkey[g] = g /\ x509[g] = g /\ unsaved[g] = {}

\* The last generation issued its pair and ran beside no other one.
Settled(g) == g = latest /\ g \in alone /\ Issued(g)

StartServer(s) ==
  /\ LGoto(s, "idle", "cert")
  /\ calm' = [calm EXCEPT ![s] = IF \E g \in Generators : Settled(g)
                                 THEN latest ELSE NoPair]
  /\ UNCHANGED <<genVars, fileVars, cert, key, signals, latest, alone>>

Readable(file) == file \notin {Absent, Torn}

(* A load may fail though the file is as it should be: no memory, no more  *)
(* descriptors.                                                            *)
LoadFails(s, loadable) ==
  calm' = IF loadable THEN [calm EXCEPT ![s] = NoPair] ELSE calm

(* SSL_CTX_use_certificate_file; on failure "return 1".                    *)
LoadCert(s) ==
  /\ \/ /\ Readable(cert_file)
        /\ LGoto(s, "cert", "key")
        /\ cert' = [cert EXCEPT ![s] = cert_file]
        /\ UNCHANGED calm
     \/ /\ LoadFails(s, Readable(cert_file))
        /\ LGoto(s, "cert", "refused")
        /\ UNCHANGED cert
  /\ UNCHANGED <<genVars, fileVars, key, latest, alone, signals>>

\* Mutant: a key is taken whatever certificate it is for.
AnyKey(s) == Readable(key_file)

(* The library takes a private key only if it is the certificate's.        *)
Usable(s) == Readable(key_file) /\ key_file = cert[s]

(* SSL_CTX_use_PrivateKey_file; on failure "return 1".                     *)
LoadKey(s) ==
  /\ \/ /\ Usable(s)
        /\ LGoto(s, "key", "loaded")
        /\ key' = [key EXCEPT ![s] = key_file]
        /\ UNCHANGED calm
     \/ /\ LoadFails(s, Usable(s))
        /\ LGoto(s, "key", "refused")
        /\ UNCHANGED key
  /\ UNCHANGED <<genVars, fileVars, cert, latest, alone, signals>>

LoaderStep(s) == StartServer(s) \/ LoadCert(s) \/ LoadKey(s)

Next ==
  \/ \E g \in Generators : GeneratorStep(g) \/ KillGenerator(g)
  \/ \E s \in Servers : LoaderStep(s)

Spec == Init /\ [][Next]_<<storeVars, signals>>

---------------------------------------------------------------------------
(* Properties                                                              *)

(* Every variable stays in its domain.                                     *)
StoreTypeOK ==
  /\ gpc \in [Generators -> GeneratorSteps]
  /\ pkey \in [Generators -> Generators \cup {NoPair}]
  /\ x509 \in [Generators -> Generators \cup {NoPair}]
  /\ unsaved \in [Generators -> SUBSET {"key", "cert"}]
  /\ key_file \in Generators \cup {Absent, Torn}
  /\ cert_file \in Generators \cup {Absent, Torn}
  /\ lpc \in [Servers -> {"idle", "cert", "key", "loaded", "refused"}]
  /\ cert \in [Servers -> Generators \cup {NoPair}]
  /\ key \in [Servers -> Generators \cup {NoPair}]
  /\ latest \in Generators \cup {NoPair}
  /\ alone \subseteq Generators
  /\ calm \in [Servers -> Generators \cup {NoPair}]

(* A server that gets past the loading holds the certificate and the key   *)
(* of one generation that issued its pair, however the two files, which it *)
(* reads in the opposite order, were rewritten, half written or not written*)
(* meanwhile.                                                              *)
LoadedPairMatches ==
  \A s \in Servers : lpc[s] = "loaded" =>
    key[s] = cert[s] /\ cert[s] \in Generators /\ Issued(cert[s])

(* After a last generation that ran beside no other one each file holds    *)
(* that generation's object, or is incomplete when there was no such       *)
(* object or its write failed: never a file of an earlier generation,      *)
(* whatever interrupted or overlapping ones had left before.               *)
UndisturbedPairInPlace ==
  \A g \in Generators : g = latest /\ g \in alone /\ gpc[g] = "done" =>
    /\ key_file = IF pkey[g] = g /\ "key" \notin unsaved[g] THEN g ELSE Torn
    /\ cert_file = IF x509[g] = g /\ "cert" \notin unsaved[g] THEN g ELSE Torn

(* "Generate it with --gen-cert first": a server started after a generation*)
(* that ran beside no other one and issued its pair, with no other one     *)
(* starting meanwhile, is refused only by a load that fails by itself.     *)
CalmServerLoads ==
  \A s \in Servers : calm[s] # NoPair => lpc[s] # "refused"

===========================================================================
