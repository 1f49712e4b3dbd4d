---------------------------- MODULE TlsSession ----------------------------
(***************************************************************************)
(* 08_tls_communication: tls_server serves one TLS connection and exits;   *)
(* tls_client makes one.  Several of each may be running, any of them may  *)
(* be killed, and between them lies the TCP stack: one listening socket on *)
(* PORT with its queue, and per client one connection, named after it.     *)
(*                                                                         *)
(* The handshake is three records (ClientHello; the server's flight; the   *)
(* client's Finished), as two current OpenSSL ends negotiate it.  What the *)
(* stack does (refusal, queue, end of stream, reset, SIGPIPE) is external. *)
(***************************************************************************)
EXTENDS Naturals, Sequences, FiniteSets

CONSTANTS
  Servers,  \* executions of tls_server, past the loading of the certificate
  Clients,  \* executions of tls_client
  MaxKills  \* bound: how many programs are killed

NoOne == "noone"
Backlog == 1  \* second argument of listen; the queue holds one more

ASSUME NamesAssumption ==
  Servers \cap Clients = {} /\ NoOne \notin Servers \cup Clients
ASSUME BoundAssumption == MaxKills \in Nat /\ IsFiniteSet(Servers \cup Clients)

VARIABLES
  listener,  \* the server listening on PORT
  queue,     \* connections it has not accepted yet
  up, down,  \* per connection: records to the server, to the client
  upEnd,     \* per connection: the client's end is closed
  downEnd,   \* per connection: the server's end is closed
  reset,     \* per connection: it was reset
  spc,       \* server: next call
  bound,     \* server: its bind succeeded
  peer,      \* server: the connection it accepted
  cpc,       \* client: next call
  code,      \* client: exit code, 2 while it runs
  served,    \* history: connections whose request was read
  answered,  \* history: clients that got the response
  dead,      \* programs ended by a signal
  killed     \* those of them that were killed from outside

stack  == <<listener, queue, up, down, upEnd, downEnd, reset>>
server == <<spc, bound, peer>>
client == <<cpc, code>>
vars   == <<stack, server, client, served, answered, dead, killed>>

Init ==
  /\ listener = NoOne /\ queue = <<>>
  /\ up = [c \in Clients |-> <<>>] /\ down = [c \in Clients |-> <<>>]
  /\ upEnd = [c \in Clients |-> FALSE] /\ downEnd = [c \in Clients |-> FALSE]
  /\ reset = [c \in Clients |-> FALSE]
  /\ spc = [s \in Servers |-> "bind"]
  /\ bound = [s \in Servers |-> FALSE]
  /\ peer = [s \in Servers |-> NoOne]
  /\ cpc = [c \in Clients |-> "connect"]
  /\ code = [c \in Clients |-> 2]
  /\ served = {} /\ answered = {} /\ dead = {} /\ killed = {}

---------------------------------------------------------------------------
(* The TCP stack                                                           *)

Queued == {queue[i] : i \in DOMAIN queue}

\* A record written to a closed end is answered with a reset.
SendUp(c, m) ==
  IF reset[c] THEN UNCHANGED <<up, reset>>
  ELSE IF downEnd[c] THEN reset' = [reset EXCEPT ![c] = TRUE] /\ UNCHANGED up
  ELSE up' = [up EXCEPT ![c] = Append(@, m)] /\ UNCHANGED reset

SendDown(c, m) ==
  IF reset[c] THEN UNCHANGED <<down, reset>>
  ELSE IF upEnd[c] THEN reset' = [reset EXCEPT ![c] = TRUE] /\ UNCHANGED down
  ELSE down' = [down EXCEPT ![c] = Append(@, m)] /\ UNCHANGED reset

\* A read fails at the end of the stream; what came before is still read.
NoMore(q, ended, c) == \/ q = <<>> /\ (ended \/ reset[c])
                       \/ q # <<>> /\ Head(q) = "close_notify"

\* Closing with unread records resets the connection.
CloseUp(c) ==
  /\ upEnd' = [upEnd EXCEPT ![c] = TRUE]
  /\ reset' = [reset EXCEPT ![c] = @ \/ down[c] # <<>>]

---------------------------------------------------------------------------
(* tls_server                                                              *)

SGoto(s, from, to) == /\ spc[s] = from /\ s \notin dead
                      /\ spc' = [spc EXCEPT ![s] = to]

\* The result of bind is not looked at.  It fails when another socket
\* listens on PORT already.
Bind(s) ==
  /\ SGoto(s, "bind", "listen")
  /\ bound' = [bound EXCEPT ![s] = listener = NoOne]
  /\ UNCHANGED <<stack, peer, client, served, answered, dead, killed>>

\* Nor is that of listen.  Unbound, the socket listens on a port of the
\* stack's choice, where nobody will connect; bound beside a socket that
\* listens by now, it does not listen, accept fails and so does SSL_accept.
Listen(s) ==
  /\ IF ~bound[s]               THEN SGoto(s, "listen", "astray") /\ UNCHANGED listener
     ELSE IF listener # NoOne   THEN SGoto(s, "listen", "shutdown") /\ UNCHANGED listener
     ELSE SGoto(s, "listen", "accept") /\ listener' = s
  /\ UNCHANGED <<queue, up, down, upEnd, downEnd, reset, bound, peer, client,
                 served, answered, dead, killed>>

Accept(s) ==
  /\ SGoto(s, "accept", "client_hello")
  /\ queue # <<>>
  /\ peer' = [peer EXCEPT ![s] = Head(queue)]
  /\ queue' = Tail(queue)
  /\ UNCHANGED <<listener, up, down, upEnd, downEnd, reset, bound, client,
                 served, answered, dead, killed>>

\* The server reads the record m of its connection.
Reads(s, m) == /\ peer[s] # NoOne /\ up[peer[s]] # <<>> /\ Head(up[peer[s]]) = m
               /\ up' = [up EXCEPT ![peer[s]] = Tail(@)]

\* SSL_accept, up to the server's flight.
ServerFlight(s) ==
  /\ SGoto(s, "client_hello", "client_finished")
  /\ Reads(s, "client_hello")
  /\ SendDown(peer[s], "server_flight")
  /\ UNCHANGED <<listener, queue, upEnd, downEnd, bound, peer, client, served,
                 answered, dead, killed>>

\* Mutant: no SSL_read before the response.
EstablishedAnswers(s) ==
  /\ SGoto(s, "client_finished", "respond")
  /\ Reads(s, "client_finished")
  /\ UNCHANGED <<listener, queue, down, upEnd, downEnd, reset, bound, peer, client,
                 served, answered, dead, killed>>

\* SSL_accept returns 1.
Established(s) ==
  /\ SGoto(s, "client_finished", "read")
  /\ Reads(s, "client_finished")
  /\ UNCHANGED <<listener, queue, down, upEnd, downEnd, reset, bound, peer, client,
                 served, answered, dead, killed>>

ReadRequest(s) ==
  /\ SGoto(s, "read", "respond")
  /\ Reads(s, "request")
  /\ served' = served \cup {peer[s]}
  /\ UNCHANGED <<listener, queue, down, upEnd, downEnd, reset, bound, peer, client,
                 answered, dead, killed>>

\* Mutant: the server reads again until it has a request.
ReadsAgain(s) ==
  /\ \E step \in {"client_hello", "client_finished", "read"} : SGoto(s, step, step)
  /\ NoMore(up[peer[s]], upEnd[peer[s]], peer[s])
  /\ UNCHANGED <<stack, bound, peer, client, served, answered, dead, killed>>

\* SSL_accept or SSL_read fails: the server goes on to SSL_shutdown.
ReadFails(s) ==
  /\ \E step \in {"client_hello", "client_finished", "read"} : SGoto(s, step, "shutdown")
  /\ NoMore(up[peer[s]], upEnd[peer[s]], peer[s])
  /\ UNCHANGED <<stack, bound, peer, client, served, answered, dead, killed>>

\* Mutant: no SSL_write.
RespondNothing(s) ==
  /\ SGoto(s, "respond", "shutdown")
  /\ UNCHANGED <<stack, bound, peer, client, served, answered, dead, killed>>

Respond(s) ==
  /\ SGoto(s, "respond", "shutdown")
  /\ SendDown(peer[s], "response")
  /\ UNCHANGED <<listener, queue, up, upEnd, downEnd, bound, peer, client, served,
                 answered, dead, killed>>

\* Mutant: no SSL_shutdown and no close(client_fd).
ShutdownLater(s) ==
  /\ SGoto(s, "shutdown", "close")
  /\ UNCHANGED <<stack, bound, peer, client, served, answered, dead, killed>>

\* SSL_shutdown and close(client_fd).
Shutdown(s) ==
  /\ SGoto(s, "shutdown", "close")
  /\ LET c == peer[s] IN
       IF c = NoOne THEN UNCHANGED <<down, downEnd, reset>>
       ELSE /\ downEnd' = [downEnd EXCEPT ![c] = TRUE]
            /\ reset' = [reset EXCEPT ![c] = @ \/ upEnd[c] \/ up[c] # <<>>]
            /\ down' = IF reset[c] \/ upEnd[c] THEN down
                       ELSE [down EXCEPT ![c] = Append(@, "close_notify")]
  /\ UNCHANGED <<listener, queue, up, upEnd, bound, peer, client, served, answered, dead, killed>>

\* What becomes of the queue when the listening socket is closed.
StopListening(s) ==
  IF listener # s THEN UNCHANGED <<listener, queue>>
  ELSE listener' = NoOne /\ queue' = <<>>

CloseListener(s) ==
  /\ SGoto(s, "close", "exited")
  /\ StopListening(s)
  /\ reset' = [c \in Clients |-> reset[c] \/ (listener = s /\ c \in Queued)]
  /\ UNCHANGED <<up, down, upEnd, downEnd, bound, peer, client, served, answered, dead, killed>>

ServerStep(s) ==
  \/ Bind(s) \/ Listen(s) \/ Accept(s) \/ ServerFlight(s) \/ Established(s)
  \/ ReadRequest(s) \/ ReadFails(s) \/ Respond(s) \/ Shutdown(s) \/ CloseListener(s)

\* All its sockets are closed for it.
KillServer(s) ==
  /\ spc[s] # "exited" /\ s \notin dead /\ Cardinality(killed) < MaxKills
  /\ dead' = dead \cup {s} /\ killed' = killed \cup {s}
  /\ StopListening(s)
  /\ downEnd' = [c \in Clients |-> downEnd[c] \/ c = peer[s]]
  /\ reset' = [c \in Clients |-> \/ reset[c]
                                 \/ listener = s /\ c \in Queued
                                 \/ c = peer[s] /\ up[c] # <<>>]
  /\ UNCHANGED <<up, down, upEnd, server, client, served, answered>>

---------------------------------------------------------------------------
(* tls_client                                                              *)

CGoto(c, from, to) == /\ cpc[c] = from /\ c \notin dead
                      /\ cpc' = [cpc EXCEPT ![c] = to]

\* "return 1": the program ends and its socket with it.
Fails(c, from) ==
  /\ CGoto(c, from, "exited")
  /\ code' = [code EXCEPT ![c] = 1]
  /\ CloseUp(c)

Connect(c) ==
  /\ CGoto(c, "connect", "hello")
  /\ listener # NoOne /\ Len(queue) <= Backlog
  /\ queue' = Append(queue, c)
  /\ UNCHANGED <<listener, up, down, upEnd, downEnd, reset, server, code, served,
                 answered, dead, killed>>

\* Refused where nobody listens, timed out while the queue is full.
ConnectFails(c) ==
  /\ Fails(c, "connect")
  /\ listener = NoOne \/ Len(queue) > Backlog
  /\ UNCHANGED <<listener, queue, up, down, downEnd, server, served, answered, dead, killed>>

\* SSL_connect, up to the ClientHello.
Hello(c) ==
  /\ CGoto(c, "hello", "server_flight")
  /\ ~reset[c]
  /\ SendUp(c, "client_hello")
  /\ UNCHANGED <<listener, queue, down, upEnd, downEnd, server, code, served,
                 answered, dead, killed>>

\* SSL_connect returns 1 once Finished is written.
Finish(c) ==
  /\ CGoto(c, "server_flight", "write")
  /\ ~reset[c]
  /\ down[c] # <<>> /\ Head(down[c]) = "server_flight"
  /\ down' = [down EXCEPT ![c] = Tail(@)]
  /\ SendUp(c, "client_finished")
  /\ UNCHANGED <<listener, queue, upEnd, downEnd, server, code, served, answered, dead, killed>>

\* SSL_connect fails: a read finds the end or a write finds a reset.
HandshakeFails(c) ==
  /\ \/ Fails(c, "hello") /\ reset[c]
     \/ Fails(c, "server_flight") /\ (reset[c] \/ NoMore(down[c], downEnd[c], c))
  /\ UNCHANGED <<listener, queue, up, down, downEnd, server, served, answered, dead, killed>>

\* Mutant: the client does not wait for the response.
WriteAndLeave(c) ==
  /\ CGoto(c, "write", "shutdown")
  /\ SendUp(c, "request")
  /\ UNCHANGED <<listener, queue, down, upEnd, downEnd, server, code, served,
                 answered, dead, killed>>

\* The result of SSL_write is not looked at.
WriteRequest(c) ==
  /\ CGoto(c, "write", "read")
  /\ SendUp(c, "request")
  /\ UNCHANGED <<listener, queue, down, upEnd, downEnd, server, code, served,
                 answered, dead, killed>>

ReadResponse(c) ==
  /\ CGoto(c, "read", "shutdown")
  /\ down[c] # <<>> /\ Head(down[c]) = "response"
  /\ down' = [down EXCEPT ![c] = Tail(@)]
  /\ answered' = answered \cup {c}
  /\ UNCHANGED <<listener, queue, up, upEnd, downEnd, reset, server, code, served, dead, killed>>

\* Mutant: the client reads again until it has a response.
ReadForever(c) ==
  /\ CGoto(c, "read", "read")
  /\ NoMore(down[c], downEnd[c], c)
  /\ UNCHANGED <<stack, server, code, served, answered, dead, killed>>

\* Without a response the client reports a complete communication as well.
NoResponse(c) ==
  /\ CGoto(c, "read", "shutdown")
  /\ NoMore(down[c], downEnd[c], c)
  /\ UNCHANGED <<stack, server, code, served, answered, dead, killed>>

\* SSL_shutdown, close, "return 0".
Leave(c) ==
  /\ CGoto(c, "shutdown", "exited")
  /\ code' = [code EXCEPT ![c] = 0]
  /\ up' = IF reset[c] \/ downEnd[c] THEN up
           ELSE [up EXCEPT ![c] = Append(@, "close_notify")]
  /\ upEnd' = [upEnd EXCEPT ![c] = TRUE]
  /\ reset' = [reset EXCEPT ![c] = @ \/ downEnd[c] \/ down[c] # <<>>]
  /\ UNCHANGED <<listener, queue, down, downEnd, server, served, answered, dead, killed>>

ClientStep(c) ==
  \/ Connect(c) \/ ConnectFails(c) \/ Hello(c) \/ Finish(c) \/ HandshakeFails(c)
  \/ WriteRequest(c) \/ ReadResponse(c) \/ NoResponse(c) \/ Leave(c)

KillClient(c) ==
  /\ cpc[c] # "exited" /\ c \notin dead /\ Cardinality(killed) < MaxKills
  /\ dead' = dead \cup {c} /\ killed' = killed \cup {c}
  /\ CloseUp(c)
  /\ UNCHANGED <<listener, queue, up, down, downEnd, server, client, served, answered>>

\* A write on a reset connection may raise SIGPIPE, which nobody handles.
BrokenPipe ==
  /\ \/ \E s \in Servers \ dead : /\ spc[s] \in {"client_hello", "respond", "shutdown"}
                                  /\ peer[s] # NoOne /\ reset[peer[s]]
                                  /\ dead' = dead \cup {s}
                                  /\ downEnd' = [downEnd EXCEPT ![peer[s]] = TRUE]
                                  /\ StopListening(s)
                                  /\ reset' = [c \in Clients |->
                                       reset[c] \/ (listener = s /\ c \in Queued)]
                                  /\ UNCHANGED upEnd
     \/ \E c \in Clients \ dead : /\ cpc[c] \in {"hello", "server_flight", "write", "shutdown"}
                                  /\ reset[c]
                                  /\ dead' = dead \cup {c}
                                  /\ upEnd' = [upEnd EXCEPT ![c] = TRUE]
                                  /\ UNCHANGED <<listener, queue, downEnd, reset>>
  /\ UNCHANGED <<up, down, server, client, served, answered, killed>>

---------------------------------------------------------------------------

Next ==
  \/ \E s \in Servers : ServerStep(s) \/ KillServer(s)
  \/ \E c \in Clients : ClientStep(c) \/ KillClient(c)
  \/ BrokenPipe

Spec == Init /\ [][Next]_vars

(* Every program is scheduled; nobody has to be killed.                    *)
Fairness == /\ \A s \in Servers : WF_vars(ServerStep(s))
            /\ \A c \in Clients : WF_vars(ClientStep(c))
FairSpec == Spec /\ Fairness

---------------------------------------------------------------------------
(* Properties                                                              *)

ServerSteps == {"bind", "listen", "astray", "accept", "client_hello",
                "client_finished", "read", "respond", "shutdown", "close", "exited"}
ClientSteps == {"connect", "hello", "server_flight", "write", "read", "shutdown",
                "exited"}
UpRecords   == {"client_hello", "client_finished", "request", "close_notify"}
DownRecords == {"server_flight", "response", "close_notify"}

(* Every variable stays in its domain.                                     *)
TypeOK ==
  /\ listener \in Servers \cup {NoOne}
  /\ queue \in Seq(Clients)
  /\ up \in [Clients -> Seq(UpRecords)] /\ down \in [Clients -> Seq(DownRecords)]
  /\ upEnd \in [Clients -> BOOLEAN] /\ downEnd \in [Clients -> BOOLEAN]
  /\ reset \in [Clients -> BOOLEAN]
  /\ spc \in [Servers -> ServerSteps] /\ bound \in [Servers -> BOOLEAN]
  /\ peer \in [Servers -> Clients \cup {NoOne}]
  /\ cpc \in [Clients -> ClientSteps] /\ code \in [Clients -> {0, 1, 2}]
  /\ served \subseteq Clients /\ answered \subseteq Clients
  /\ killed \subseteq dead /\ dead \subseteq Servers \cup Clients

Ended(c) == cpc[c] = "exited" \/ c \in dead

(* Once a server has accepted a connection, and unless a signal ends one   *)
(* of the two, the client gets its response and exits with 0, whatever     *)
(* other servers and clients do meanwhile or become of.                    *)
SessionsSucceed ==
  \A s \in Servers \ dead, c \in Clients \ dead :
    (peer[s] = c /\ cpc[c] = "exited") => code[c] = 0 /\ c \in answered

(* The two ends agree: a response answers a request that was read, a       *)
(* client that exits with 1 was not served, and no two servers serve one.  *)
EndsAgree ==
  /\ answered \subseteq served
  /\ \A c \in Clients : code[c] = 1 => c \notin served
  /\ \A s, t \in Servers : peer[s] = peer[t] /\ peer[s] # NoOne => s = t

(* No client waits for a record from nobody: its connection is queued at a *)
(* listening server or held by a running one, or it has been told the end. *)
NobodyWaitsForNoOne ==
  \A c \in Clients \ dead : cpc[c] \in {"server_flight", "read"} =>
    \/ listener # NoOne /\ listener \notin dead /\ c \in Queued
    \/ \E s \in Servers \ dead : peer[s] = c /\ spc[s] \notin {"close", "exited"}
    \/ reset[c] \/ downEnd[c]

(* SIGPIPE ends a server only if its client was ended before: the order in *)
(* which both close an undisturbed session raises none.                    *)
ServersSurvive ==
  \A s \in (dead \ killed) \cap Servers : peer[s] \in dead

(* Every client ends, whatever happens to the servers.                     *)
ClientsEnd == \A c \in Clients : <>Ended(c)

(* A server that has accepted a connection ends, whatever happens to the   *)
(* client.                                                                 *)
ServersEnd ==
  \A s \in Servers : peer[s] # NoOne ~> (spc[s] = "exited" \/ s \in dead)

==========================================================================
