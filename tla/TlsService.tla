---------------------------- MODULE TlsService ----------------------------
(***************************************************************************)
(* 08_tls_communication as a whole: TlsSession's servers get to their      *)
(* sockets only past the loading of the pair that CertStore's generations  *)
(* leave in two files, the handshake shows the loaded certificate to the   *)
(* client, and pairs may be generated anew while servers are running.      *)
(***************************************************************************)
EXTENDS TlsSession

CONSTANT Generators  \* executions of tls_server --gen-cert

VARIABLES
  gpc, pkey, x509, unsaved, key_file, cert_file, lpc, cert, key,  \* of CertStore
  latest, alone, calm,
  shown  \* client: the certificate it was shown in the handshake

Store == INSTANCE CertStore

ASSUME GeneratorsAssumption ==
  Store!StoreConstants /\ Generators \cap (Clients \cup {"nobody"}) = {}

sessionVars == <<stack, server, client, served, answered>>
storeVars   == <<gpc, pkey, x509, unsaved, key_file, cert_file, lpc, cert, key,
                 latest, alone, calm>>
serviceVars == <<vars, storeVars, shown>>

ServiceInit ==
  /\ Init /\ Store!Init
  /\ shown = [c \in Clients |-> Store!NoPair]

---------------------------------------------------------------------------

(* --gen-cert, and the start of a server.                                  *)
Prepare ==
  /\ \/ \E g \in Generators : Store!GeneratorStep(g) \/ Store!KillGenerator(g)
     \/ \E s \in Servers : Store!StartServer(s)
  /\ UNCHANGED <<sessionVars, shown>>

Load(s) == (Store!LoadCert(s) \/ Store!LoadKey(s)) /\ UNCHANGED <<sessionVars, shown>>

\* Mutant: the failure of the loading is printed, but "return 1" is missing.
ServeAnyway(s) ==
  /\ lpc[s] \in {"loaded", "refused"} /\ ServerStep(s)
  /\ UNCHANGED <<storeVars, shown>>

(* From socket() on: a server whose pair was refused has returned 1.       *)
Serve(s) ==
  /\ lpc[s] = "loaded" /\ ServerStep(s)
  /\ UNCHANGED <<storeVars, shown>>

\* The server at the other end of c's connection.
Host(c) == CHOOSE s \in Servers : peer[s] = c

\* Mutant: the certificate is taken from the file when the client asks.
ShowsFile(c) ==
  /\ Finish(c)
  /\ shown' = [shown EXCEPT ![c] = cert_file]

(* SSL_connect returns 1 with the certificate of the server's flight, which*)
(* the client prints and does not judge (SSL_VERIFY_NONE).                 *)
Shows(c) ==
  /\ Finish(c)
  /\ shown' = [shown EXCEPT ![c] = cert[Host(c)]]

RunClient(c) ==
  /\ \/ Shows(c)
     \/ /\ \/ Connect(c) \/ ConnectFails(c) \/ Hello(c) \/ HandshakeFails(c)
           \/ WriteRequest(c) \/ ReadResponse(c) \/ NoResponse(c) \/ Leave(c)
        /\ UNCHANGED shown
  /\ UNCHANGED storeVars

Signal ==
  /\ \/ \E s \in Servers : lpc[s] \notin {"idle", "refused"} /\ KillServer(s)
     \/ \E c \in Clients : KillClient(c)
     \/ BrokenPipe
  /\ UNCHANGED <<storeVars, shown>>

ServiceNext ==
  \/ Prepare \/ Signal
  \/ \E s \in Servers : Load(s) \/ Serve(s)
  \/ \E c \in Clients : RunClient(c)

ServiceSpec == ServiceInit /\ [][ServiceNext]_serviceVars

---------------------------------------------------------------------------
(* Properties                                                              *)

(* The variables of both parts stay in their domains.                      *)
ServiceTypeOK ==
  /\ listener \in Servers \cup {NoOne}
  /\ Store!StoreTypeOK
  /\ shown \in [Clients -> Generators \cup {Store!NoPair}]
  /\ killed \subseteq dead /\ dead \subseteq Servers \cup Clients \cup Generators

LoadedPairMatches      == Store!LoadedPairMatches
UndisturbedPairInPlace == Store!UndisturbedPairInPlace
CalmServerLoads        == Store!CalmServerLoads

(* A client that completes the handshake was shown the pair its server     *)
(* loaded when it started, and every client of one server the same, also   *)
(* when pairs have been generated since.                                   *)
ShownIsServers ==
  \A c \in Clients : shown[c] # Store!NoPair =>
    \E s \in Servers : peer[s] = c /\ lpc[s] = "loaded" /\ shown[c] = key[s]

(* The service implements OtaService: a pair is issued when its            *)
(* certificate is on disk as its key is, and met when the handshake        *)
(* completes.                                                              *)
Promise == INSTANCE OtaService WITH
  Pairs    <- Generators,
  Vehicles <- Clients,
  issued   <- {g \in Generators : Store!Issued(g)},
  met      <- [c \in Clients |-> IF shown[c] = Store!NoPair THEN "nobody" ELSE shown[c]],
  informed <- answered

ImplementsService == Promise!Spec

===========================================================================
