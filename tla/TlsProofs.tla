----------------------------- MODULE TlsProofs -----------------------------
(***************************************************************************)
(* Proofs about TlsSession and TlsService.  Part 1, for any number of      *)
(* servers, clients and kills: accepted sessions succeed, both ends agree  *)
(* about them, no client waits for nobody, and SIGPIPE ends no server      *)
(* whose client is alive.  Part 2, with any number of generations besides: *)
(* what a server loads, what a client is shown, and that the service       *)
(* implements OtaService.  Part 3: the service keeps what part 1 says of   *)
(* the sessions.                                                           *)
(***************************************************************************)
EXTENDS TlsService, TLAPS

(***************************************************************************)
(* Part 1: TlsSession                                                      *)
(***************************************************************************)

(* TypeOK but for the domain of dead, to which the service adds the        *)
(* generators.                                                             *)
SessionTypes ==
  /\ listener \in Servers \cup {NoOne}
  /\ queue \in Seq(Clients)
  /\ up \in [Clients -> Seq(UpRecords)] /\ down \in [Clients -> Seq(DownRecords)]
  /\ upEnd \in [Clients -> BOOLEAN] /\ downEnd \in [Clients -> BOOLEAN]
  /\ reset \in [Clients -> BOOLEAN]
  /\ spc \in [Servers -> ServerSteps] /\ bound \in [Servers -> BOOLEAN]
  /\ peer \in [Servers -> Clients \cup {NoOne}]
  /\ cpc \in [Clients -> ClientSteps] /\ code \in [Clients -> {0, 1, 2}]
  /\ served \subseteq Clients /\ answered \subseteq Clients
  /\ killed \subseteq dead

Holds(q, m) == \E i \in DOMAIN q : q[i] = m

Waiting == {"bind", "listen", "astray", "accept"}
Early   == {"connect", "hello", "server_flight"}

Alive(s, c) == s \notin dead /\ c \notin dead

(* A connection is queued once, or has one server, or neither.             *)
ConnInv ==
  /\ \A i, j \in DOMAIN queue : queue[i] = queue[j] => i = j
  /\ \A c \in Clients : cpc[c] = "connect" =>
       c \notin Queued /\ \A s \in Servers : peer[s] # c
  /\ \A s \in Servers : peer[s] # NoOne => peer[s] \notin Queued /\ spc[s] \notin Waiting
  /\ \A s, t \in Servers : peer[s] = peer[t] /\ peer[s] # NoOne => s = t
  /\ listener # NoOne => listener \notin dead

(* The records tell what their senders have done.                          *)
RecordInv ==
  /\ answered \subseteq served
  /\ \A s \in Servers : spc[s] = "respond" => peer[s] \in served
  /\ \A c \in Clients :
       /\ Holds(down[c], "response") => c \in served
       /\ code[c] = 1 => cpc[c] = "exited"
       /\ cpc[c] \in Early \/ code[c] = 1 => c \notin served /\ ~Holds(up[c], "request")

(* Whoever is connected is waited on, or has been told.                    *)
WaitInv ==
  \A c \in Clients \ dead : cpc[c] \notin {"connect", "exited"} =>
    \/ listener # NoOne /\ c \in Queued
    \/ \E s \in Servers \ dead : peer[s] = c /\ spc[s] \notin {"close", "exited"}
    \/ reset[c] \/ downEnd[c]

Open(c) == ~reset[c] /\ ~upEnd[c] /\ ~downEnd[c]

(* Before a server has taken it, a connection holds a ClientHello at most. *)
QueueInv ==
  \A c \in Clients \ dead :
    /\ cpc[c] = "connect" => Open(c) /\ up[c] = <<>> /\ down[c] = <<>>
    /\ c \in Queued =>
         /\ Open(c) /\ down[c] = <<>>
         /\ \/ cpc[c] = "hello" /\ up[c] = <<>>
            \/ cpc[c] = "server_flight" /\ up[c] = <<"client_hello">>

(* Where the two ends of a session are, and what is under way.             *)
Exchange(sp, cp, u, d) ==
  \/ sp = "client_hello"    /\ cp = "hello"         /\ u = <<>> /\ d = <<>>
  \/ sp = "client_hello"    /\ cp = "server_flight" /\ u = <<"client_hello">> /\ d = <<>>
  \/ sp = "client_finished" /\ cp = "server_flight" /\ u = <<>> /\ d = <<"server_flight">>
  \/ sp = "client_finished" /\ cp = "write" /\ u = <<"client_finished">> /\ d = <<>>
  \/ sp = "client_finished" /\ cp = "read"  /\ u = <<"client_finished", "request">> /\ d = <<>>
  \/ sp = "read"     /\ cp = "write"    /\ u = <<>>            /\ d = <<>>
  \/ sp = "read"     /\ cp = "read"     /\ u = <<"request">>   /\ d = <<>>
  \/ sp = "respond"  /\ cp = "read"     /\ u = <<>>            /\ d = <<>>
  \/ sp = "shutdown" /\ cp = "read"     /\ u = <<>>            /\ d = <<"response">>
  \/ sp = "shutdown" /\ cp = "shutdown" /\ u = <<>>            /\ d = <<>>

Left(s, c) ==
  /\ spc[s] = "shutdown" /\ cpc[c] = "exited"
  /\ down[c] = <<>> /\ ~reset[c] /\ ~downEnd[c]

Closed(s, c) ==
  /\ spc[s] \in {"close", "exited"}
  /\ \/ cpc[c] = "read" /\ down[c] = <<"response", "close_notify">>
     \/ cpc[c] \in {"shutdown", "exited"}

Session(s, c) ==
  /\ \/ Open(c) /\ Exchange(spc[s], cpc[c], up[c], down[c])
     \/ Left(s, c) \/ Closed(s, c)
  /\ cpc[c] \in {"shutdown", "exited"} => c \in answered
  /\ cpc[c] = "exited" => code[c] = 0

SessionInv ==
  \A s \in Servers, c \in Clients : Alive(s, c) /\ peer[s] = c => Session(s, c)

TlsInv == /\ SessionTypes /\ ConnInv /\ RecordInv /\ WaitInv /\ QueueInv /\ SessionInv
       /\ ServersSurvive

---------------------------------------------------------------------------

(* Head, Tail and Append on the short queues a session has.                *)
LEMMA Words ==
  ASSUME NEW x, NEW y
  PROVE  /\ Head(<<x>>) = x /\ Tail(<<x>>) = <<>> /\ <<x>> # <<>>
         /\ Head(<<x, y>>) = x /\ Tail(<<x, y>>) = <<y>> /\ <<x, y>> # <<>>
         /\ Append(<<>>, x) = <<x>> /\ Append(<<x>>, y) = <<x, y>>
<1> DEFINE q == Append(<<x>>, y)
           r == <<x, y>>
<1>1. q \in Seq({x, y}) /\ r \in Seq({x, y}) /\ Len(q) = 2 /\ Len(r) = 2
  OBVIOUS
<1>2. q[1] = x /\ q[2] = y /\ r[1] = x /\ r[2] = y
  OBVIOUS
<1>3. DOMAIN q = 1 .. 2 /\ DOMAIN r = 1 .. 2
  BY <1>1
<1>4. \A i \in 1 .. 2 : q[i] = r[i]
  <2>1. \A i \in 1 .. 2 : i = 1 \/ i = 2
    OBVIOUS
  <2> QED
    BY <1>2, <2>1
<1>5. q = [i \in 1 .. 2 |-> q[i]] /\ r = [i \in 1 .. 2 |-> r[i]]
  BY <1>1, <1>3
<1>6. q = r
  <2> HIDE DEF q, r
  <2>1. [i \in 1 .. 2 |-> q[i]] = [i \in 1 .. 2 |-> r[i]]
    BY <1>4, Zenon
  <2> QED
    BY <1>5, <2>1, Zenon
<1>7. x \in {x, y} /\ y \in {x, y}
  OBVIOUS
<1>8. /\ Head(<<x>>) = x /\ Tail(<<x>>) = <<>> /\ <<x>> # <<>> /\ Append(<<>>, x) = <<x>>
  BY <1>7
<1>9. /\ Head(<<x, y>>) = x /\ Tail(<<x, y>>) = <<y>> /\ <<x, y>> # <<>>
  BY <1>7
<1> QED
  BY <1>6, <1>8, <1>9 DEF q, r

---------------------------------------------------------------------------

(* What the operators of the stack and of the two programs change.         *)
LEMMA SendUpEffect ==
  ASSUME SessionTypes, NEW c \in Clients, NEW m \in UpRecords, SendUp(c, m)
  PROVE  /\ up' \in [Clients -> Seq(UpRecords)] /\ reset' \in [Clients -> BOOLEAN]
         /\ \A d \in Clients \ {c} : up'[d] = up[d] /\ reset'[d] = reset[d]
         /\ up'[c] = up[c] \/ up'[c] = Append(up[c], m)
         /\ ~reset[c] /\ ~downEnd[c] => up'[c] = Append(up[c], m) /\ ~reset'[c]
         /\ reset[c] => reset'[c]
<1>1. CASE reset[c]
  BY <1>1 DEF SendUp, SessionTypes
<1>2. CASE ~reset[c] /\ downEnd[c]
  BY <1>2 DEF SendUp, SessionTypes
<1>3. CASE ~reset[c] /\ ~downEnd[c]
  <2>1. up' = [up EXCEPT ![c] = Append(@, m)] /\ reset' = reset
    BY <1>3 DEF SendUp
  <2>2. Append(up[c], m) \in Seq(UpRecords)
    BY DEF SessionTypes
  <2> QED
    BY <1>3, <2>1, <2>2 DEF SessionTypes
<1> QED
  BY <1>1, <1>2, <1>3

LEMMA SendDownEffect ==
  ASSUME SessionTypes, NEW c \in Clients, NEW m \in DownRecords, SendDown(c, m)
  PROVE  /\ down' \in [Clients -> Seq(DownRecords)] /\ reset' \in [Clients -> BOOLEAN]
         /\ \A d \in Clients \ {c} : down'[d] = down[d] /\ reset'[d] = reset[d]
         /\ down'[c] = down[c] \/ down'[c] = Append(down[c], m)
         /\ ~reset[c] /\ ~upEnd[c] => down'[c] = Append(down[c], m) /\ ~reset'[c]
         /\ reset[c] => reset'[c]
<1>1. CASE reset[c]
  BY <1>1 DEF SendDown, SessionTypes
<1>2. CASE ~reset[c] /\ upEnd[c]
  BY <1>2 DEF SendDown, SessionTypes
<1>3. CASE ~reset[c] /\ ~upEnd[c]
  <2>1. down' = [down EXCEPT ![c] = Append(@, m)] /\ reset' = reset
    BY <1>3 DEF SendDown
  <2>2. Append(down[c], m) \in Seq(DownRecords)
    BY DEF SessionTypes
  <2> QED
    BY <1>3, <2>1, <2>2 DEF SessionTypes
<1> QED
  BY <1>1, <1>2, <1>3

LEMMA ReadsEffect ==
  ASSUME SessionTypes, NEW s \in Servers, NEW m, Reads(s, m)
  PROVE  /\ peer[s] \in Clients /\ up[peer[s]] # <<>> /\ Head(up[peer[s]]) = m
         /\ up' \in [Clients -> Seq(UpRecords)]
         /\ up'[peer[s]] = Tail(up[peer[s]])
         /\ \A d \in Clients \ {peer[s]} : up'[d] = up[d]
BY DEF Reads, SessionTypes

LEMMA SGotoEffect ==
  ASSUME SessionTypes, NEW s \in Servers, NEW from, NEW to \in ServerSteps, SGoto(s, from, to)
  PROVE  /\ spc[s] = from /\ s \notin dead
         /\ spc' \in [Servers -> ServerSteps] /\ spc'[s] = to
         /\ \A t \in Servers \ {s} : spc'[t] = spc[t]
BY DEF SGoto, SessionTypes

LEMMA CGotoEffect ==
  ASSUME SessionTypes, NEW c \in Clients, NEW from, NEW to \in ClientSteps, CGoto(c, from, to)
  PROVE  /\ cpc[c] = from /\ c \notin dead
         /\ cpc' \in [Clients -> ClientSteps] /\ cpc'[c] = to
         /\ \A d \in Clients \ {c} : cpc'[d] = cpc[d]
BY DEF CGoto, SessionTypes

LEMMA CloseUpEffect ==
  ASSUME SessionTypes, NEW c \in Clients, CloseUp(c)
  PROVE  /\ upEnd' \in [Clients -> BOOLEAN] /\ reset' \in [Clients -> BOOLEAN]
         /\ \A d \in Clients \ {c} : upEnd'[d] = upEnd[d] /\ reset'[d] = reset[d]
         /\ reset[c] => reset'[c]
BY DEF CloseUp, SessionTypes

LEMMA FailsEffect ==
  ASSUME SessionTypes, NEW c \in Clients, NEW from, Fails(c, from)
  PROVE  /\ cpc[c] = from /\ c \notin dead
         /\ cpc' \in [Clients -> ClientSteps] /\ cpc'[c] = "exited"
         /\ code' \in [Clients -> {0, 1, 2}] /\ code'[c] = 1
         /\ upEnd' \in [Clients -> BOOLEAN] /\ reset' \in [Clients -> BOOLEAN]
         /\ \A d \in Clients \ {c} :
              /\ cpc'[d] = cpc[d] /\ code'[d] = code[d]
              /\ upEnd'[d] = upEnd[d] /\ reset'[d] = reset[d]
         /\ reset[c] => reset'[c]
<1>1. CGoto(c, from, "exited") /\ CloseUp(c)
  BY DEF Fails
<1>2. "exited" \in ClientSteps
  BY DEF ClientSteps
<1>3. /\ code' \in [Clients -> {0, 1, 2}] /\ code'[c] = 1
      /\ \A d \in Clients \ {c} : code'[d] = code[d]
  BY DEF Fails, SessionTypes
<1> QED
  BY <1>1, <1>2, <1>3, CGotoEffect, CloseUpEffect

LEMMA StopListeningEffect ==
  ASSUME SessionTypes, NEW s \in Servers, StopListening(s)
  PROVE  /\ listener' \in Servers \cup {NoOne} /\ queue' \in Seq(Clients)
         /\ listener # s => listener' = listener /\ queue' = queue
         /\ listener = s => listener' = NoOne /\ queue' = <<>> /\ Queued' = {}
<1>1. CASE listener # s
  BY <1>1 DEF StopListening, SessionTypes
<1>2. CASE listener = s
  BY <1>2 DEF StopListening, Queued
<1> QED
  BY <1>1, <1>2

LEMMA QueueHead ==
  ASSUME SessionTypes, queue # <<>>
  PROVE  Head(queue) \in Clients /\ Tail(queue) \in Seq(Clients)
BY DEF SessionTypes

---------------------------------------------------------------------------
(* Type correctness                                                        *)

LEMMA TypeInit == Init => SessionTypes
BY DEF Init, SessionTypes, ServerSteps, ClientSteps

LEMMA TypeServerStep ==
  ASSUME SessionTypes, NEW s \in Servers, ServerStep(s)
  PROVE  SessionTypes'
<1> USE DEF ServerSteps, UpRecords, DownRecords
<1>1. CASE Bind(s)
  <2>1. spc' \in [Servers -> ServerSteps]
    BY <1>1, SGotoEffect DEF Bind
  <2>2. bound' \in [Servers -> BOOLEAN]
    BY <1>1 DEF Bind, SessionTypes
  <2> QED
    BY <1>1, <2>1, <2>2 DEF Bind, SessionTypes, stack, client
<1>2. CASE Listen(s)
  <2>1. spc' \in [Servers -> ServerSteps] /\ listener' \in Servers \cup {NoOne}
    BY <1>2, SGotoEffect DEF Listen, SessionTypes
  <2> QED
    BY <1>2, <2>1 DEF Listen, SessionTypes, client
<1>3. CASE Accept(s)
  <2>1. spc' \in [Servers -> ServerSteps]
    BY <1>3, SGotoEffect DEF Accept
  <2>2. peer' \in [Servers -> Clients \cup {NoOne}] /\ queue' \in Seq(Clients)
    BY <1>3, QueueHead DEF Accept, SessionTypes
  <2> QED
    BY <1>3, <2>1, <2>2 DEF Accept, SessionTypes, client
<1>4. CASE ServerFlight(s)
  <2>1. spc' \in [Servers -> ServerSteps]
    BY <1>4, SGotoEffect DEF ServerFlight
  <2>2. up' \in [Clients -> Seq(UpRecords)] /\ peer[s] \in Clients
    BY <1>4, ReadsEffect DEF ServerFlight
  <2>3. down' \in [Clients -> Seq(DownRecords)] /\ reset' \in [Clients -> BOOLEAN]
    BY <1>4, <2>2, SendDownEffect DEF ServerFlight
  <2> QED
    BY <1>4, <2>1, <2>2, <2>3 DEF ServerFlight, SessionTypes, client
<1>5. CASE Established(s)
  <2>1. spc' \in [Servers -> ServerSteps] /\ up' \in [Clients -> Seq(UpRecords)]
    BY <1>5, SGotoEffect, ReadsEffect DEF Established
  <2> QED
    BY <1>5, <2>1 DEF Established, SessionTypes, client
<1>6. CASE ReadRequest(s)
  <2>1. spc' \in [Servers -> ServerSteps] /\ up' \in [Clients -> Seq(UpRecords)]
    BY <1>6, SGotoEffect, ReadsEffect DEF ReadRequest
  <2>2. served' \subseteq Clients
    BY <1>6, ReadsEffect DEF ReadRequest, SessionTypes
  <2> QED
    BY <1>6, <2>1, <2>2 DEF ReadRequest, SessionTypes, client
<1>7. CASE ReadFails(s)
  <2>1. spc' \in [Servers -> ServerSteps]
    BY <1>7, SGotoEffect DEF ReadFails
  <2> QED
    BY <1>7, <2>1 DEF ReadFails, SessionTypes, stack, client
<1>8. CASE Respond(s)
  <2>1. spc' \in [Servers -> ServerSteps]
    BY <1>8, SGotoEffect DEF Respond
  <2>2. down' \in [Clients -> Seq(DownRecords)] /\ reset' \in [Clients -> BOOLEAN]
    <3>1. CASE peer[s] \in Clients
      BY <1>8, <3>1, SendDownEffect DEF Respond
    <3>2. CASE peer[s] = NoOne
      BY <1>8, <3>2, NamesAssumption DEF Respond, SendDown, SessionTypes
    <3> QED
      BY <3>1, <3>2 DEF SessionTypes
  <2> QED
    BY <1>8, <2>1, <2>2 DEF Respond, SessionTypes, client
<1>9. CASE Shutdown(s)
  <2>1. spc' \in [Servers -> ServerSteps]
    BY <1>9, SGotoEffect DEF Shutdown
  <2>2. /\ downEnd' \in [Clients -> BOOLEAN] /\ reset' \in [Clients -> BOOLEAN]
    BY <1>9 DEF Shutdown, SessionTypes
  <2>3. down' \in [Clients -> Seq(DownRecords)]
    <3>1. CASE down' = down
      BY <3>1 DEF SessionTypes
    <3>2. CASE peer[s] \in Clients /\ down' = [down EXCEPT ![peer[s]] = Append(@, "close_notify")]
      <4>1. Append(down[peer[s]], "close_notify") \in Seq(DownRecords)
        BY <3>2 DEF SessionTypes
      <4> QED
        BY <3>2, <4>1 DEF SessionTypes
    <3> QED
      BY <1>9, <3>1, <3>2 DEF Shutdown, SessionTypes
  <2> QED
    BY <1>9, <2>1, <2>2, <2>3 DEF Shutdown, SessionTypes, client
<1>10. CASE CloseListener(s)
  <2>1. spc' \in [Servers -> ServerSteps]
    BY <1>10, SGotoEffect DEF CloseListener
  <2>2. listener' \in Servers \cup {NoOne} /\ queue' \in Seq(Clients)
    BY <1>10, StopListeningEffect DEF CloseListener
  <2>3. reset' \in [Clients -> BOOLEAN]
    BY <1>10 DEF CloseListener, SessionTypes
  <2> QED
    BY <1>10, <2>1, <2>2, <2>3 DEF CloseListener, SessionTypes, client
<1> QED
  BY <1>1, <1>2, <1>3, <1>4, <1>5, <1>6, <1>7, <1>8, <1>9, <1>10 DEF ServerStep

LEMMA TypeClientStep ==
  ASSUME SessionTypes, NEW c \in Clients, ClientStep(c)
  PROVE  SessionTypes'
<1> USE DEF ClientSteps, UpRecords, DownRecords
<1>1. CASE Connect(c)
  <2>1. cpc' \in [Clients -> ClientSteps]
    BY <1>1, CGotoEffect DEF Connect
  <2>2. queue' \in Seq(Clients)
    BY <1>1 DEF Connect, SessionTypes
  <2> QED
    BY <1>1, <2>1, <2>2 DEF Connect, SessionTypes, server
<1>2. CASE ConnectFails(c)
  BY <1>2, FailsEffect DEF ConnectFails, SessionTypes, server
<1>3. CASE Hello(c)
  <2>1. cpc' \in [Clients -> ClientSteps]
    BY <1>3, CGotoEffect DEF Hello
  <2>2. up' \in [Clients -> Seq(UpRecords)] /\ reset' \in [Clients -> BOOLEAN]
    BY <1>3, SendUpEffect DEF Hello
  <2> QED
    BY <1>3, <2>1, <2>2 DEF Hello, SessionTypes, server
<1>4. CASE Finish(c)
  <2>1. cpc' \in [Clients -> ClientSteps]
    BY <1>4, CGotoEffect DEF Finish
  <2>2. up' \in [Clients -> Seq(UpRecords)] /\ reset' \in [Clients -> BOOLEAN]
    BY <1>4, SendUpEffect DEF Finish
  <2>3. down' \in [Clients -> Seq(DownRecords)]
    BY <1>4 DEF Finish, SessionTypes
  <2> QED
    BY <1>4, <2>1, <2>2, <2>3 DEF Finish, SessionTypes, server
<1>5. CASE HandshakeFails(c)
  <2>1. \E from \in {"hello", "server_flight"} : Fails(c, from)
    BY <1>5 DEF HandshakeFails
  <2>2. /\ cpc' \in [Clients -> ClientSteps] /\ code' \in [Clients -> {0, 1, 2}]
        /\ upEnd' \in [Clients -> BOOLEAN] /\ reset' \in [Clients -> BOOLEAN]
    BY <2>1, FailsEffect
  <2> QED
    BY <1>5, <2>2 DEF HandshakeFails, SessionTypes, server
<1>6. CASE WriteRequest(c)
  <2>1. cpc' \in [Clients -> ClientSteps]
    BY <1>6, CGotoEffect DEF WriteRequest
  <2>2. up' \in [Clients -> Seq(UpRecords)] /\ reset' \in [Clients -> BOOLEAN]
    BY <1>6, SendUpEffect DEF WriteRequest
  <2> QED
    BY <1>6, <2>1, <2>2 DEF WriteRequest, SessionTypes, server
<1>7. CASE ReadResponse(c)
  <2>1. cpc' \in [Clients -> ClientSteps]
    BY <1>7, CGotoEffect DEF ReadResponse
  <2>2. down' \in [Clients -> Seq(DownRecords)] /\ answered' \subseteq Clients
    BY <1>7 DEF ReadResponse, SessionTypes
  <2> QED
    BY <1>7, <2>1, <2>2 DEF ReadResponse, SessionTypes, server
<1>8. CASE NoResponse(c)
  <2>1. cpc' \in [Clients -> ClientSteps]
    BY <1>8, CGotoEffect DEF NoResponse
  <2> QED
    BY <1>8, <2>1 DEF NoResponse, SessionTypes, stack, server
<1>9. CASE Leave(c)
  <2>1. cpc' \in [Clients -> ClientSteps]
    BY <1>9, CGotoEffect DEF Leave
  <2>2. up' \in [Clients -> Seq(UpRecords)]
    <3>1. Append(up[c], "close_notify") \in Seq(UpRecords)
      BY DEF SessionTypes
    <3> QED
      BY <1>9, <3>1 DEF Leave, SessionTypes
  <2>3. /\ upEnd' \in [Clients -> BOOLEAN] /\ reset' \in [Clients -> BOOLEAN]
        /\ code' \in [Clients -> {0, 1, 2}]
    BY <1>9 DEF Leave, SessionTypes
  <2> QED
    BY <1>9, <2>1, <2>2, <2>3 DEF Leave, SessionTypes, server
<1> QED
  BY <1>1, <1>2, <1>3, <1>4, <1>5, <1>6, <1>7, <1>8, <1>9 DEF ClientStep

LEMMA BrokenPipeEffect ==
  ASSUME SessionTypes, BrokenPipe
  PROVE  \/ \E s \in Servers :
              /\ s \notin dead /\ spc[s] \in {"client_hello", "respond", "shutdown"}
              /\ peer[s] \in Clients /\ reset[peer[s]]
              /\ dead' = dead \cup {s} /\ StopListening(s)
              /\ downEnd' \in [Clients -> BOOLEAN] /\ downEnd'[peer[s]]
              /\ \A c \in Clients :
                   /\ downEnd'[c] <=> downEnd[c] \/ c = peer[s]
                   /\ reset'[c] <=> reset[c] \/ (listener = s /\ c \in Queued)
              /\ reset' \in [Clients -> BOOLEAN] /\ upEnd' = upEnd
         \/ \E c \in Clients :
              /\ c \notin dead /\ cpc[c] \in {"hello", "server_flight", "write", "shutdown"}
              /\ reset[c] /\ dead' = dead \cup {c}
              /\ upEnd' \in [Clients -> BOOLEAN]
              /\ \A d \in Clients : upEnd'[d] <=> upEnd[d] \/ d = c
              /\ UNCHANGED <<listener, queue, downEnd, reset>>
<1>1. ASSUME NEW s \in Servers \ dead,
             spc[s] \in {"client_hello", "respond", "shutdown"},
             peer[s] # NoOne, reset[peer[s]],
             dead' = dead \cup {s},
             downEnd' = [downEnd EXCEPT ![peer[s]] = TRUE],
             StopListening(s),
             reset' = [c \in Clients |-> reset[c] \/ (listener = s /\ c \in Queued)],
             UNCHANGED upEnd
      PROVE  \E t \in Servers :
              /\ t \notin dead /\ spc[t] \in {"client_hello", "respond", "shutdown"}
              /\ peer[t] \in Clients /\ reset[peer[t]]
              /\ dead' = dead \cup {t} /\ StopListening(t)
              /\ downEnd' \in [Clients -> BOOLEAN] /\ downEnd'[peer[t]]
              /\ \A c \in Clients :
                   /\ downEnd'[c] <=> downEnd[c] \/ c = peer[t]
                   /\ reset'[c] <=> reset[c] \/ (listener = t /\ c \in Queued)
              /\ reset' \in [Clients -> BOOLEAN] /\ upEnd' = upEnd
  <2>1. peer[s] \in Clients
    BY <1>1 DEF SessionTypes
  <2>2. /\ downEnd' \in [Clients -> BOOLEAN] /\ downEnd'[peer[s]]
        /\ \A c \in Clients : downEnd'[c] <=> downEnd[c] \/ c = peer[s]
    BY <1>1, <2>1 DEF SessionTypes
  <2>3. /\ reset' \in [Clients -> BOOLEAN]
        /\ \A c \in Clients : reset'[c] <=> reset[c] \/ (listener = s /\ c \in Queued)
    BY <1>1 DEF SessionTypes
  <2> QED
    BY <1>1, <2>1, <2>2, <2>3
<1>2. ASSUME NEW c \in Clients \ dead,
             cpc[c] \in {"hello", "server_flight", "write", "shutdown"}, reset[c],
             dead' = dead \cup {c}, upEnd' = [upEnd EXCEPT ![c] = TRUE],
             UNCHANGED <<listener, queue, downEnd, reset>>
      PROVE  /\ upEnd' \in [Clients -> BOOLEAN]
             /\ \A d \in Clients : upEnd'[d] <=> upEnd[d] \/ d = c
  BY <1>2 DEF SessionTypes
<1> QED
  BY <1>1, <1>2 DEF BrokenPipe

LEMMA TypeNext == SessionTypes /\ [Next]_vars => SessionTypes'
<1> SUFFICES ASSUME SessionTypes, [Next]_vars PROVE SessionTypes'
  OBVIOUS
<1>1. ASSUME NEW s \in Servers, ServerStep(s) PROVE SessionTypes'
  BY <1>1, TypeServerStep
<1>2. ASSUME NEW s \in Servers, KillServer(s) PROVE SessionTypes'
  <2>1. listener' \in Servers \cup {NoOne} /\ queue' \in Seq(Clients)
    BY <1>2, StopListeningEffect DEF KillServer
  <2>2. downEnd' \in [Clients -> BOOLEAN] /\ reset' \in [Clients -> BOOLEAN]
    BY <1>2 DEF KillServer, SessionTypes
  <2> QED
    BY <1>2, <2>1, <2>2 DEF KillServer, SessionTypes, server, client
<1>3. ASSUME NEW c \in Clients, ClientStep(c) PROVE SessionTypes'
  BY <1>3, TypeClientStep
<1>4. ASSUME NEW c \in Clients, KillClient(c) PROVE SessionTypes'
  BY <1>4, CloseUpEffect DEF KillClient, SessionTypes, server, client
<1>5. CASE BrokenPipe
  <2>1. /\ listener' \in Servers \cup {NoOne} /\ queue' \in Seq(Clients)
        /\ downEnd' \in [Clients -> BOOLEAN] /\ reset' \in [Clients -> BOOLEAN]
        /\ upEnd' \in [Clients -> BOOLEAN]
        /\ dead \subseteq dead'
    BY <1>5, BrokenPipeEffect, StopListeningEffect DEF SessionTypes
  <2> QED
    BY <1>5, <2>1 DEF BrokenPipe, SessionTypes, server, client
<1>6. CASE UNCHANGED vars
  BY <1>6 DEF vars, stack, server, client, SessionTypes
<1> QED
  BY <1>1, <1>2, <1>3, <1>4, <1>5, <1>6 DEF Next

---------------------------------------------------------------------------
(* Connections                                                             *)

(* What all steps but Accept and Connect have in common.                   *)
Steady ==
  /\ queue' = queue \/ queue' = <<>>
  /\ peer' = peer
  /\ \A t \in Servers : spc'[t] \in Waiting => spc[t] \in Waiting
  /\ \A c \in Clients : cpc'[c] = "connect" => cpc[c] = "connect"

LEMMA ServersAreSteady ==
  ASSUME SessionTypes, NEW s \in Servers, ServerStep(s), ~Accept(s)
  PROVE  Steady /\ cpc' = cpc /\ code' = code /\ dead' = dead /\ killed' = killed
<1> USE DEF ServerSteps
<1>1. cpc' = cpc /\ code' = code /\ dead' = dead /\ killed' = killed /\ peer' = peer
  BY DEF ServerStep, Bind, Listen, ServerFlight, Established, ReadRequest, ReadFails, Respond,
         Shutdown, CloseListener, client
<1>2. queue' = queue \/ queue' = <<>>
  BY DEF ServerStep, Bind, Listen, ServerFlight, Established, ReadRequest, ReadFails, Respond,
         Shutdown, CloseListener, StopListening, stack
<1>3. \E from, to \in ServerSteps : SGoto(s, from, to) /\ (to \in Waiting => from \in Waiting)
  <2> USE DEF Waiting
  <2>1. CASE Bind(s)
    BY <2>1 DEF Bind
  <2>2. CASE Listen(s)
    BY <2>2 DEF Listen
  <2>3. CASE ServerFlight(s) \/ Established(s) \/ ReadRequest(s)
    BY <2>3 DEF ServerFlight, Established, ReadRequest
  <2>4. CASE ReadFails(s)
    BY <2>4 DEF ReadFails
  <2>5. CASE Respond(s) \/ Shutdown(s) \/ CloseListener(s)
    BY <2>5 DEF Respond, Shutdown, CloseListener
  <2> QED
    BY <2>1, <2>2, <2>3, <2>4, <2>5 DEF ServerStep
<1>4. \A t \in Servers : spc'[t] \in Waiting => spc[t] \in Waiting
  BY <1>3, SGotoEffect
<1> QED
  BY <1>1, <1>2, <1>4 DEF Steady

LEMMA ClientsAreSteady ==
  ASSUME SessionTypes, NEW c \in Clients, ClientStep(c), ~Connect(c)
  PROVE  /\ Steady /\ queue' = queue /\ listener' = listener /\ spc' = spc /\ bound' = bound
         /\ down'[c] = down[c] \/ down'[c] = Tail(down[c])
         /\ downEnd' = downEnd /\ served' = served /\ dead' = dead /\ killed' = killed
         /\ c \notin dead /\ cpc'[c] # "connect"
         /\ \A d \in Clients \ {c} :
              /\ cpc'[d] = cpc[d] /\ code'[d] = code[d] /\ up'[d] = up[d] /\ down'[d] = down[d]
              /\ upEnd'[d] = upEnd[d] /\ reset'[d] = reset[d]
         /\ reset[c] => reset'[c]
<1> USE DEF ClientSteps, UpRecords, DownRecords
<1>1. CASE ConnectFails(c)
  BY <1>1, FailsEffect DEF ConnectFails, Steady, server
<1>2. CASE Hello(c)
  <2>1. /\ cpc[c] = "hello" /\ c \notin dead /\ cpc'[c] = "server_flight"
        /\ \A d \in Clients \ {c} : cpc'[d] = cpc[d]
    BY <1>2, CGotoEffect DEF Hello
  <2>2. /\ \A d \in Clients \ {c} : up'[d] = up[d] /\ reset'[d] = reset[d]
        /\ reset[c] => reset'[c]
    BY <1>2, SendUpEffect DEF Hello
  <2> QED
    BY <1>2, <2>1, <2>2 DEF Hello, Steady, server
<1>3. CASE Finish(c)
  <2>1. /\ cpc[c] = "server_flight" /\ c \notin dead /\ cpc'[c] = "write"
        /\ \A d \in Clients \ {c} : cpc'[d] = cpc[d]
    BY <1>3, CGotoEffect DEF Finish
  <2>2. /\ \A d \in Clients \ {c} : up'[d] = up[d] /\ reset'[d] = reset[d]
        /\ reset[c] => reset'[c]
    BY <1>3, SendUpEffect DEF Finish
  <2>3. /\ down'[c] = Tail(down[c]) /\ \A d \in Clients \ {c} : down'[d] = down[d]
    BY <1>3 DEF Finish, SessionTypes
  <2> QED
    BY <1>3, <2>1, <2>2, <2>3 DEF Finish, Steady, server
<1>4. CASE HandshakeFails(c)
  <2>1. \E from \in {"hello", "server_flight"} : Fails(c, from)
    BY <1>4 DEF HandshakeFails
  <2> QED
    BY <1>4, <2>1, FailsEffect DEF HandshakeFails, Steady, server
<1>5. CASE WriteRequest(c)
  <2>1. /\ cpc[c] = "write" /\ c \notin dead /\ cpc'[c] = "read"
        /\ \A d \in Clients \ {c} : cpc'[d] = cpc[d]
    BY <1>5, CGotoEffect DEF WriteRequest
  <2>2. /\ \A d \in Clients \ {c} : up'[d] = up[d] /\ reset'[d] = reset[d]
        /\ reset[c] => reset'[c]
    BY <1>5, SendUpEffect DEF WriteRequest
  <2> QED
    BY <1>5, <2>1, <2>2 DEF WriteRequest, Steady, server
<1>6. CASE ReadResponse(c)
  <2>1. /\ cpc[c] = "read" /\ c \notin dead /\ cpc'[c] = "shutdown"
        /\ \A d \in Clients \ {c} : cpc'[d] = cpc[d]
    BY <1>6, CGotoEffect DEF ReadResponse
  <2>2. /\ down'[c] = Tail(down[c]) /\ \A d \in Clients \ {c} : down'[d] = down[d]
    BY <1>6 DEF ReadResponse, SessionTypes
  <2> QED
    BY <1>6, <2>1, <2>2 DEF ReadResponse, Steady, server
<1>7. CASE NoResponse(c)
  <2>1. /\ cpc[c] = "read" /\ c \notin dead /\ cpc'[c] = "shutdown"
        /\ \A d \in Clients \ {c} : cpc'[d] = cpc[d]
    BY <1>7, CGotoEffect DEF NoResponse
  <2> QED
    BY <1>7, <2>1 DEF NoResponse, Steady, server, stack
<1>8. CASE Leave(c)
  <2>1. /\ cpc[c] = "shutdown" /\ c \notin dead /\ cpc'[c] = "exited"
        /\ \A d \in Clients \ {c} : cpc'[d] = cpc[d]
    BY <1>8, CGotoEffect DEF Leave
  <2>2. /\ \A d \in Clients \ {c} : code'[d] = code[d] /\ up'[d] = up[d]
                                   /\ upEnd'[d] = upEnd[d] /\ reset'[d] = reset[d]
        /\ reset[c] => reset'[c]
    BY <1>8 DEF Leave, SessionTypes
  <2> QED
    BY <1>8, <2>1, <2>2 DEF Leave, Steady, server
<1> QED
  BY <1>1, <1>2, <1>3, <1>4, <1>5, <1>6, <1>7, <1>8 DEF ClientStep

LEMMA QueuedShrinks ==
  ASSUME SessionTypes, queue' = queue \/ queue' = <<>>
  PROVE  Queued' \subseteq Queued
BY DEF Queued

LEMMA ConnSteady ==
  ASSUME SessionTypes, ConnInv, Steady,
         listener' # NoOne => listener' \notin dead'
  PROVE  ConnInv'
<1>1. Queued' \subseteq Queued
  BY QueuedShrinks DEF Steady
<1>2. \A i, j \in DOMAIN queue' : queue'[i] = queue'[j] => i = j
  BY DEF Steady, ConnInv
<1>3. ASSUME NEW c \in Clients, cpc'[c] = "connect"
      PROVE  c \notin Queued' /\ \A s \in Servers : peer'[s] # c
  BY <1>1, <1>3 DEF Steady, ConnInv
<1>4. ASSUME NEW s \in Servers, peer'[s] # NoOne
      PROVE  peer'[s] \notin Queued' /\ spc'[s] \notin Waiting
  BY <1>1, <1>4 DEF Steady, ConnInv
<1>5. \A s, t \in Servers : peer'[s] = peer'[t] /\ peer'[s] # NoOne => s = t
  BY DEF Steady, ConnInv
<1> QED
  BY <1>2, <1>3, <1>4, <1>5 DEF ConnInv

LEMMA AcceptEffect ==
  ASSUME SessionTypes, ConnInv, NEW s \in Servers, Accept(s)
  PROVE  LET c == Head(queue) IN
         /\ c \in Clients /\ c \in Queued /\ Queued' = Queued \ {c}
         /\ peer[s] = NoOne /\ peer'[s] = c /\ \A t \in Servers \ {s} : peer'[t] = peer[t]
         /\ s \notin dead /\ spc'[s] = "client_hello"
         /\ \A t \in Servers \ {s} : spc'[t] = spc[t]
         /\ \A i, j \in DOMAIN queue' : queue'[i] = queue'[j] => i = j
<1> DEFINE c == Head(queue)
<1>1. queue \in Seq(Clients) /\ queue # <<>> /\ queue' = Tail(queue)
  BY DEF Accept, SessionTypes
<1>2. /\ c = queue[1] /\ Len(queue) >= 1 /\ Len(queue') = Len(queue) - 1
      /\ queue' \in Seq(Clients) /\ \A i \in 1 .. Len(queue) - 1 : queue'[i] = queue[i + 1]
  BY <1>1
<1>3. \A i, j \in 1 .. Len(queue) : queue[i] = queue[j] => i = j
  BY <1>1 DEF ConnInv
<1>4. Queued = {queue[i] : i \in 1 .. Len(queue)}
  BY <1>1 DEF Queued
<1>5. Queued' = {queue'[i] : i \in 1 .. Len(queue) - 1}
  BY <1>2 DEF Queued
<1> HIDE DEF c
<1>6. c \in Clients /\ c \in Queued
  BY <1>1, <1>2, <1>4
<1>7. Queued' \subseteq Queued \ {c}
  <2> SUFFICES ASSUME NEW i \in 1 .. Len(queue) - 1
               PROVE  queue'[i] \in Queued /\ queue'[i] # c
    BY <1>5
  <2>1. i + 1 \in 1 .. Len(queue) /\ 1 \in 1 .. Len(queue) /\ i + 1 # 1
    BY <1>1
  <2> QED
    BY <1>2, <1>3, <1>4, <2>1
<1>8. Queued \ {c} \subseteq Queued'
  <2> SUFFICES ASSUME NEW i \in 1 .. Len(queue), queue[i] # c
               PROVE  queue[i] \in Queued'
    BY <1>4
  <2>1. i - 1 \in 1 .. Len(queue) - 1 /\ (i - 1) + 1 = i
    BY <1>1, <1>2
  <2>2. queue'[i - 1] = queue[i]
    BY <1>2, <2>1
  <2> QED
    BY <1>5, <2>1, <2>2
<1>9. \A i, j \in DOMAIN queue' : queue'[i] = queue'[j] => i = j
  <2> SUFFICES ASSUME NEW i \in 1 .. Len(queue) - 1, NEW j \in 1 .. Len(queue) - 1,
                      queue'[i] = queue'[j]
               PROVE  i = j
    BY <1>2
  <2>1. i + 1 \in 1 .. Len(queue) /\ j + 1 \in 1 .. Len(queue) /\ queue[i + 1] = queue[j + 1]
    BY <1>1, <1>2
  <2>2. i + 1 = j + 1
    BY <1>3, <2>1
  <2> QED
    BY <2>2
<1>10. /\ spc[s] = "accept" /\ s \notin dead /\ spc'[s] = "client_hello"
       /\ \A t \in Servers \ {s} : spc'[t] = spc[t]
  BY SGotoEffect DEF Accept, ServerSteps
<1>11. peer[s] = NoOne
  BY <1>10 DEF ConnInv, Waiting
<1>12. peer'[s] = c /\ \A t \in Servers \ {s} : peer'[t] = peer[t]
  BY DEF Accept, SessionTypes, c
<1> QED
  BY <1>6, <1>7, <1>8, <1>9, <1>10, <1>11, <1>12 DEF c

LEMMA ConnectEffect ==
  ASSUME SessionTypes, ConnInv, NEW c \in Clients, Connect(c)
  PROVE  /\ c \notin dead /\ cpc[c] = "connect" /\ cpc'[c] = "hello"
         /\ \A d \in Clients \ {c} : cpc'[d] = cpc[d]
         /\ c \notin Queued /\ Queued' = Queued \cup {c}
         /\ \A i, j \in DOMAIN queue' : queue'[i] = queue'[j] => i = j
<1>1. /\ c \notin dead /\ cpc[c] = "connect" /\ cpc'[c] = "hello"
      /\ \A d \in Clients \ {c} : cpc'[d] = cpc[d]
  BY CGotoEffect DEF Connect, ClientSteps
<1>2. c \notin Queued
  BY <1>1 DEF ConnInv
<1>3. queue \in Seq(Clients) /\ queue' = Append(queue, c)
  BY DEF Connect, SessionTypes
<1>4. /\ queue' \in Seq(Clients) /\ Len(queue') = Len(queue) + 1 /\ queue'[Len(queue) + 1] = c
      /\ \A i \in 1 .. Len(queue) : queue'[i] = queue[i]
  BY <1>3
<1>5. Queued = {queue[i] : i \in 1 .. Len(queue)}
  BY <1>3 DEF Queued
<1>6. Queued' = {queue'[i] : i \in 1 .. Len(queue) + 1}
  BY <1>4 DEF Queued
<1>7. \A i \in 1 .. Len(queue) + 1 : i \in 1 .. Len(queue) \/ i = Len(queue) + 1
  BY <1>3
<1>8. Queued' = Queued \cup {c}
  <2>1. Queued' \subseteq Queued \cup {c}
    BY <1>4, <1>5, <1>6, <1>7
  <2>2. Queued \subseteq Queued'
    <3> SUFFICES ASSUME NEW i \in 1 .. Len(queue)
                 PROVE  queue[i] \in Queued'
      BY <1>5
    <3>1. i \in 1 .. Len(queue) + 1 /\ queue'[i] = queue[i]
      BY <1>3, <1>4
    <3> QED
      BY <1>6, <3>1
  <2>3. c \in Queued'
    <3>1. Len(queue) + 1 \in 1 .. Len(queue) + 1
      BY <1>3
    <3> QED
      BY <1>4, <1>6, <3>1
  <2> QED
    BY <2>1, <2>2, <2>3
<1>9. \A i, j \in DOMAIN queue' : queue'[i] = queue'[j] => i = j
  <2> SUFFICES ASSUME NEW i \in 1 .. Len(queue) + 1, NEW j \in 1 .. Len(queue) + 1,
                      queue'[i] = queue'[j]
               PROVE  i = j
    BY <1>4
  <2>1. \A k \in 1 .. Len(queue) : queue'[k] # c
    BY <1>2, <1>4, <1>5
  <2>2. \A k, l \in 1 .. Len(queue) : queue[k] = queue[l] => k = l
    BY <1>3 DEF ConnInv
  <2> QED
    BY <1>4, <1>7, <2>1, <2>2
<1> QED
  BY <1>1, <1>2, <1>8, <1>9

LEMMA ConnNext ==
  ASSUME SessionTypes, ConnInv, [Next]_vars
  PROVE  ConnInv'
<1>1. ASSUME NEW s \in Servers, ServerStep(s), ~Accept(s)
      PROVE  ConnInv'
  <2>1. Steady /\ dead' = dead
    BY <1>1, ServersAreSteady
  <2>2. listener' \in {listener, NoOne, s}
    BY <1>1 DEF ServerStep, Bind, Listen, ServerFlight, Established, ReadRequest, ReadFails,
                Respond, Shutdown, CloseListener, StopListening, stack
  <2>3. s \notin dead
    BY <1>1 DEF ServerStep, Bind, Listen, ServerFlight, Established, ReadRequest, ReadFails,
                Respond, Shutdown, CloseListener, SGoto
  <2>4. listener' # NoOne => listener' \notin dead'
    BY <2>1, <2>2, <2>3, NamesAssumption DEF ConnInv, SessionTypes
  <2> QED
    BY <2>1, <2>4, ConnSteady
<1>2. ASSUME NEW s \in Servers, Accept(s)
      PROVE  ConnInv'
  <2> DEFINE c == Head(queue)
  <2>1. /\ c \in Clients /\ c \in Queued /\ Queued' = Queued \ {c}
        /\ peer[s] = NoOne /\ peer'[s] = c /\ \A t \in Servers \ {s} : peer'[t] = peer[t]
        /\ spc'[s] = "client_hello" /\ \A t \in Servers \ {s} : spc'[t] = spc[t]
        /\ \A i, j \in DOMAIN queue' : queue'[i] = queue'[j] => i = j
    BY <1>2, AcceptEffect
  <2> HIDE DEF c
  <2>2. cpc' = cpc /\ listener' = listener /\ dead' = dead
    BY <1>2 DEF Accept, client
  <2>3. c # NoOne
    BY <2>1, NamesAssumption
  <2> QED
    BY <2>1, <2>2, <2>3 DEF ConnInv, Waiting
<1>3. ASSUME NEW c \in Clients, ClientStep(c), ~Connect(c)
      PROVE  ConnInv'
  BY <1>3, ClientsAreSteady, ConnSteady DEF ConnInv
<1>4. ASSUME NEW c \in Clients, Connect(c)
      PROVE  ConnInv'
  <2>1. UNCHANGED <<listener, spc, peer, dead>>
    BY <1>4 DEF Connect, server
  <2>2. \A s \in Servers : peer[s] # c
    BY <1>4, ConnectEffect DEF ConnInv
  <2> QED
    BY <1>4, <2>1, <2>2, ConnectEffect DEF ConnInv
<1>5. ASSUME NEW s \in Servers, KillServer(s)
      PROVE  ConnInv'
  <2>1. listener' # NoOne => listener' \notin dead'
    BY <1>5, StopListeningEffect, NamesAssumption DEF KillServer, ConnInv, SessionTypes
  <2>2. Steady
    BY <1>5, StopListeningEffect DEF KillServer, Steady, server, client
  <2> QED
    BY <2>1, <2>2, ConnSteady
<1>6. ASSUME NEW c \in Clients, KillClient(c)
      PROVE  ConnInv'
  <2>1. listener' # NoOne => listener' \notin dead'
    BY <1>6, NamesAssumption DEF KillClient, ConnInv, SessionTypes
  <2>2. Steady
    BY <1>6 DEF KillClient, Steady, server, client
  <2> QED
    BY <2>1, <2>2, ConnSteady
<1>7. CASE BrokenPipe
  <2>1. listener' # NoOne => listener' \notin dead'
    BY <1>7, BrokenPipeEffect, StopListeningEffect, NamesAssumption DEF ConnInv, SessionTypes
  <2>2. queue' = queue \/ queue' = <<>>
    BY <1>7, BrokenPipeEffect, StopListeningEffect
  <2>3. Steady
    BY <1>7, <2>2 DEF BrokenPipe, Steady, server, client
  <2> QED
    BY <2>1, <2>3, ConnSteady
<1>8. CASE UNCHANGED vars
  BY <1>8, ConnSteady DEF vars, stack, server, client, Steady, ConnInv
<1> QED
  BY <1>1, <1>2, <1>3, <1>4, <1>5, <1>6, <1>7, <1>8 DEF Next

---------------------------------------------------------------------------
(* Records                                                                 *)

LEMMA HoldsTail ==
  ASSUME NEW S, NEW q \in Seq(S), q # <<>>, NEW m
  PROVE  Holds(Tail(q), m) => Holds(q, m)
<1> SUFFICES ASSUME Holds(Tail(q), m) PROVE Holds(q, m)
  OBVIOUS
<1>1. PICK i \in 1 .. Len(q) - 1 : Tail(q)[i] = m
  BY DEF Holds
<1>2. i + 1 \in DOMAIN q /\ q[i + 1] = m
  BY <1>1
<1> QED
  BY <1>2 DEF Holds

LEMMA HoldsAppend ==
  ASSUME NEW S, NEW q \in Seq(S), NEW x \in S, NEW m, m # x
  PROVE  Holds(Append(q, x), m) => Holds(q, m)
BY DEF Holds

LEMMA HoldsHead ==
  ASSUME NEW S, NEW q \in Seq(S), q # <<>>
  PROVE  Holds(q, Head(q))
<1>1. 1 \in DOMAIN q /\ q[1] = Head(q)
  OBVIOUS
<1> QED
  BY <1>1 DEF Holds

(* Reading takes a record away, sending adds one that is not a response.   *)
LEMMA ReadsHolds ==
  ASSUME SessionTypes, NEW s \in Servers, NEW m, Reads(s, m)
  PROVE  /\ \A c \in Clients, n \in UpRecords : Holds(up'[c], n) => Holds(up[c], n)
         /\ Holds(up[peer[s]], m)
<1>1. /\ peer[s] \in Clients /\ up[peer[s]] # <<>> /\ Head(up[peer[s]]) = m
      /\ up'[peer[s]] = Tail(up[peer[s]])
      /\ \A d \in Clients \ {peer[s]} : up'[d] = up[d]
  BY ReadsEffect
<1>2. up[peer[s]] \in Seq(UpRecords)
  BY <1>1 DEF SessionTypes
<1>3. Holds(up[peer[s]], m)
  BY <1>1, <1>2, HoldsHead
<1>4. \A n \in UpRecords : Holds(up'[peer[s]], n) => Holds(up[peer[s]], n)
  BY <1>1, <1>2, HoldsTail
<1> QED
  BY <1>1, <1>3, <1>4

LEMMA SendDownHolds ==
  ASSUME SessionTypes, NEW c \in Clients, NEW m \in DownRecords, SendDown(c, m)
  PROVE  \A d \in Clients, n \in DownRecords :
           Holds(down'[d], n) => Holds(down[d], n) \/ (d = c /\ n = m)
<1>1. /\ \A d \in Clients \ {c} : down'[d] = down[d]
      /\ down'[c] = down[c] \/ down'[c] = Append(down[c], m)
  BY SendDownEffect
<1>2. down[c] \in Seq(DownRecords)
  BY DEF SessionTypes
<1>3. \A n \in DownRecords : Holds(down'[c], n) /\ n # m => Holds(down[c], n)
  BY <1>1, <1>2, HoldsAppend
<1> QED
  BY <1>1, <1>3

LEMMA SendUpHolds ==
  ASSUME SessionTypes, NEW c \in Clients, NEW m \in UpRecords, SendUp(c, m)
  PROVE  \A n \in UpRecords : Holds(up'[c], n) /\ n # m => Holds(up[c], n)
<1>1. up'[c] = up[c] \/ up'[c] = Append(up[c], m)
  BY SendUpEffect
<1>2. up[c] \in Seq(UpRecords)
  BY DEF SessionTypes
<1> QED
  BY <1>1, <1>2, HoldsAppend

LEMMA ServerRecords ==
  ASSUME SessionTypes, RecordInv, NEW s \in Servers, ServerStep(s), ~Accept(s)
  PROVE  /\ served \subseteq served' /\ answered' = answered
         /\ \A c \in Clients : Holds(up'[c], "request") => Holds(up[c], "request")
         /\ \A c \in Clients : Holds(down'[c], "response") =>
              Holds(down[c], "response") \/ c \in served
         /\ spc'[s] = "respond" => peer[s] \in served'
         /\ \A c \in served' \ served : Holds(up[c], "request")
<1> USE DEF ServerSteps, UpRecords, DownRecords
<1>1. CASE Bind(s) \/ Listen(s) \/ ReadFails(s) \/ CloseListener(s)
  <2>1. UNCHANGED <<served, answered, up, down>>
    BY <1>1 DEF Bind, Listen, ReadFails, CloseListener, stack
  <2>2. spc'[s] # "respond"
    BY <1>1, SGotoEffect DEF Bind, Listen, ReadFails, CloseListener
  <2> QED
    BY <2>1, <2>2
<1>2. CASE ServerFlight(s)
  <2>1. peer[s] \in Clients
    BY <1>2, ReadsEffect DEF ServerFlight
  <2>2. \A c \in Clients : Holds(down'[c], "response") => Holds(down[c], "response")
    BY <1>2, <2>1, SendDownHolds DEF ServerFlight
  <2>3. \A c \in Clients : Holds(up'[c], "request") => Holds(up[c], "request")
    BY <1>2, ReadsHolds DEF ServerFlight
  <2>4. spc'[s] # "respond" /\ UNCHANGED <<served, answered>>
    BY <1>2, SGotoEffect DEF ServerFlight
  <2> QED
    BY <2>2, <2>3, <2>4
<1>3. CASE Established(s)
  <2>1. \A c \in Clients : Holds(up'[c], "request") => Holds(up[c], "request")
    BY <1>3, ReadsHolds DEF Established
  <2>2. spc'[s] # "respond" /\ UNCHANGED <<served, answered, down>>
    BY <1>3, SGotoEffect DEF Established
  <2> QED
    BY <2>1, <2>2
<1>4. CASE ReadRequest(s)
  <2>1. /\ \A c \in Clients : Holds(up'[c], "request") => Holds(up[c], "request")
        /\ Holds(up[peer[s]], "request")
    BY <1>4, ReadsHolds DEF ReadRequest
  <2>2. served' = served \cup {peer[s]} /\ UNCHANGED <<answered, down>>
    BY <1>4 DEF ReadRequest
  <2> QED
    BY <2>1, <2>2
<1>5. CASE Respond(s)
  <2>1. spc[s] = "respond" /\ spc'[s] = "shutdown"
    BY <1>5, SGotoEffect DEF Respond
  <2>2. peer[s] \in served /\ peer[s] \in Clients
    BY <2>1 DEF RecordInv, SessionTypes
  <2>3. \A c \in Clients : Holds(down'[c], "response") =>
          Holds(down[c], "response") \/ c = peer[s]
    BY <1>5, <2>2, SendDownHolds DEF Respond
  <2>4. UNCHANGED <<served, answered, up>>
    BY <1>5 DEF Respond
  <2> QED
    BY <2>1, <2>2, <2>3, <2>4
<1>6. CASE Shutdown(s)
  <2>1. spc'[s] # "respond" /\ UNCHANGED <<served, answered, up>>
    BY <1>6, SGotoEffect DEF Shutdown
  <2>2. ASSUME NEW c \in Clients, Holds(down'[c], "response")
        PROVE  Holds(down[c], "response")
    <3>1. down'[c] = down[c] \/ down'[c] = Append(down[c], "close_notify")
      BY <1>6 DEF Shutdown, SessionTypes
    <3>2. down[c] \in Seq(DownRecords)
      BY DEF SessionTypes
    <3>3. Holds(Append(down[c], "close_notify"), "response") => Holds(down[c], "response")
      BY <3>2, HoldsAppend
    <3> QED
      BY <2>2, <3>1, <3>3
  <2> QED
    BY <2>1, <2>2
<1> QED
  BY <1>1, <1>2, <1>3, <1>4, <1>5, <1>6 DEF ServerStep

LEMMA ClientRecords ==
  ASSUME SessionTypes, RecordInv, NEW c \in Clients, ClientStep(c), ~Connect(c)
  PROVE  /\ answered' \subseteq served
         /\ Holds(down'[c], "response") => c \in served
         /\ code'[c] = 1 => cpc'[c] = "exited"
         /\ cpc'[c] \in Early \/ code'[c] = 1 => c \notin served /\ ~Holds(up'[c], "request")
<1> USE DEF ClientSteps, UpRecords, DownRecords, Early
<1>1. /\ answered \subseteq served
      /\ Holds(down[c], "response") => c \in served
      /\ code[c] = 1 => cpc[c] = "exited"
      /\ cpc[c] \in Early \/ code[c] = 1 => c \notin served /\ ~Holds(up[c], "request")
  BY DEF RecordInv
<1>2. down[c] \in Seq(DownRecords) /\ up[c] \in Seq(UpRecords)
  BY DEF SessionTypes
<1>3. CASE ConnectFails(c) \/ HandshakeFails(c)
  <2>1. PICK from \in {"connect", "hello", "server_flight"} : Fails(c, from)
    BY <1>3 DEF ConnectFails, HandshakeFails
  <2>2. cpc[c] = from /\ cpc'[c] = "exited"
    BY <2>1, FailsEffect
  <2>3. UNCHANGED <<up, down, answered>>
    BY <1>3 DEF ConnectFails, HandshakeFails
  <2> QED
    BY <1>1, <2>1, <2>2, <2>3
<1>4. CASE Hello(c)
  <2>1. cpc[c] = "hello" /\ cpc'[c] = "server_flight"
    BY <1>4, CGotoEffect DEF Hello
  <2>2. UNCHANGED <<down, answered, code>>
    BY <1>4 DEF Hello
  <2>3. ~Holds(up'[c], "request")
    BY <1>1, <1>4, <2>1, SendUpHolds DEF Hello
  <2> QED
    BY <1>1, <2>1, <2>2, <2>3
<1>5. CASE Finish(c)
  <2>1. cpc[c] = "server_flight" /\ cpc'[c] = "write"
    BY <1>5, CGotoEffect DEF Finish
  <2>2. UNCHANGED <<answered, code>> /\ down'[c] = Tail(down[c]) /\ down[c] # <<>>
    BY <1>5 DEF Finish, SessionTypes
  <2>3. Holds(down'[c], "response") => Holds(down[c], "response")
    BY <1>2, <2>2, HoldsTail
  <2> QED
    BY <1>1, <2>1, <2>2, <2>3
<1>6. CASE WriteRequest(c)
  <2>1. cpc[c] = "write" /\ cpc'[c] = "read"
    BY <1>6, CGotoEffect DEF WriteRequest
  <2>2. UNCHANGED <<down, answered, code>>
    BY <1>6 DEF WriteRequest
  <2> QED
    BY <1>1, <2>1, <2>2
<1>7. CASE ReadResponse(c)
  <2>1. cpc[c] = "read" /\ cpc'[c] = "shutdown"
    BY <1>7, CGotoEffect DEF ReadResponse
  <2>2. /\ UNCHANGED <<up, code>> /\ answered' = answered \cup {c}
        /\ down'[c] = Tail(down[c]) /\ down[c] # <<>> /\ Head(down[c]) = "response"
    BY <1>7 DEF ReadResponse, SessionTypes
  <2>3. Holds(down[c], "response")
    BY <1>2, <2>2, HoldsHead
  <2> QED
    BY <1>1, <2>1, <2>2, <2>3
<1>8. CASE NoResponse(c)
  <2>1. cpc[c] = "read" /\ cpc'[c] = "shutdown"
    BY <1>8, CGotoEffect DEF NoResponse
  <2>2. UNCHANGED <<up, down, answered, code>>
    BY <1>8 DEF NoResponse, stack
  <2> QED
    BY <1>1, <2>1, <2>2
<1>9. CASE Leave(c)
  <2>1. cpc[c] = "shutdown" /\ cpc'[c] = "exited"
    BY <1>9, CGotoEffect DEF Leave
  <2>2. UNCHANGED <<down, answered>> /\ code'[c] = 0
    BY <1>9 DEF Leave, SessionTypes
  <2> QED
    BY <1>1, <2>1, <2>2
<1> QED
  BY <1>3, <1>4, <1>5, <1>6, <1>7, <1>8, <1>9 DEF ClientStep

LEMMA RecordNext ==
  ASSUME SessionTypes, ConnInv, RecordInv, [Next]_vars
  PROVE  RecordInv'
<1>1. ASSUME NEW s \in Servers, ServerStep(s), ~Accept(s)
      PROVE  RecordInv'
  <2>1. /\ served \subseteq served' /\ answered' = answered
        /\ \A c \in Clients : Holds(up'[c], "request") => Holds(up[c], "request")
        /\ \A c \in Clients : Holds(down'[c], "response") =>
             Holds(down[c], "response") \/ c \in served
        /\ spc'[s] = "respond" => peer[s] \in served'
        /\ \A c \in served' \ served : Holds(up[c], "request")
    BY <1>1, ServerRecords
  <2>2. cpc' = cpc /\ code' = code /\ peer' = peer
    BY <1>1, ServersAreSteady DEF Steady
  <2>3. \A t \in Servers \ {s} : spc'[t] = spc[t]
    <3>1. \E from, to \in ServerSteps : SGoto(s, from, to)
      BY <1>1 DEF ServerStep, Bind, Listen, ServerFlight, Established, ReadRequest, ReadFails,
                  Respond, Shutdown, CloseListener, ServerSteps
    <3> QED
      BY <3>1, SGotoEffect
  <2>4. answered' \subseteq served'
    BY <2>1 DEF RecordInv
  <2>5. \A t \in Servers : spc'[t] = "respond" => peer'[t] \in served'
    BY <2>1, <2>2, <2>3 DEF RecordInv
  <2>6. ASSUME NEW c \in Clients
        PROVE  /\ Holds(down'[c], "response") => c \in served'
               /\ code'[c] = 1 => cpc'[c] = "exited"
               /\ cpc'[c] \in Early \/ code'[c] = 1 =>
                    c \notin served' /\ ~Holds(up'[c], "request")
    BY <2>1, <2>2 DEF RecordInv
  <2> QED
    BY <2>4, <2>5, <2>6 DEF RecordInv
<1>2. ASSUME NEW s \in Servers, Accept(s)
      PROVE  RecordInv'
  <2>1. /\ peer'[s] \in Clients /\ spc'[s] = "client_hello"
        /\ \A t \in Servers \ {s} : peer'[t] = peer[t] /\ spc'[t] = spc[t]
    BY <1>2, AcceptEffect
  <2>2. UNCHANGED <<answered, served, up, down, cpc, code>>
    BY <1>2 DEF Accept, client
  <2> QED
    BY <2>1, <2>2 DEF RecordInv
<1>3. ASSUME NEW c \in Clients, ClientStep(c), ~Connect(c)
      PROVE  RecordInv'
  <2>1. /\ spc' = spc /\ peer' = peer /\ served' = served
        /\ \A d \in Clients \ {c} :
              /\ cpc'[d] = cpc[d] /\ code'[d] = code[d] /\ up'[d] = up[d] /\ down'[d] = down[d]
    BY <1>3, ClientsAreSteady DEF Steady
  <2>2. /\ answered' \subseteq served
        /\ Holds(down'[c], "response") => c \in served
        /\ code'[c] = 1 => cpc'[c] = "exited"
        /\ cpc'[c] \in Early \/ code'[c] = 1 => c \notin served /\ ~Holds(up'[c], "request")
    BY <1>3, ClientRecords
  <2> QED
    BY <2>1, <2>2 DEF RecordInv
<1>4. ASSUME NEW c \in Clients, Connect(c)
      PROVE  RecordInv'
  <2>1. cpc[c] = "connect" /\ cpc'[c] = "hello" /\ \A d \in Clients \ {c} : cpc'[d] = cpc[d]
    BY <1>4, ConnectEffect
  <2>2. UNCHANGED <<answered, served, up, down, code, spc, peer>>
    BY <1>4 DEF Connect, server
  <2> QED
    BY <2>1, <2>2 DEF RecordInv, Early
<1>5. CASE UNCHANGED <<answered, served, up, down, cpc, code, spc, peer>>
  BY <1>5 DEF RecordInv
<1>6. ASSUME \/ \E s \in Servers : KillServer(s)
             \/ \E c \in Clients : KillClient(c)
             \/ BrokenPipe \/ UNCHANGED vars
      PROVE  UNCHANGED <<answered, served, up, down, cpc, code, spc, peer>>
  BY <1>6 DEF KillServer, KillClient, BrokenPipe, vars, stack, server, client
<1> QED
  BY <1>1, <1>2, <1>3, <1>4, <1>5, <1>6 DEF Next

---------------------------------------------------------------------------
(* Nobody waits for no one                                                 *)

(* A step of a server other than Accept takes no end or reset back, ends   *)
(* its own session only by telling the client, and stops listening only    *)
(* by resetting what is queued.                                            *)
LEMMA ServerTells ==
  ASSUME SessionTypes, NEW s \in Servers, ServerStep(s), ~Accept(s)
  PROVE  /\ \A t \in Servers \ {s} : spc'[t] = spc[t]
         /\ s \notin dead /\ spc[s] # "exited" /\ upEnd' = upEnd
         /\ \A c \in Clients : (reset[c] => reset'[c]) /\ (downEnd[c] => downEnd'[c])
         /\ peer[s] # NoOne /\ spc'[s] \in {"close", "exited"} =>
              spc[s] \in {"close", "exited"} \/ downEnd'[peer[s]]
         /\ listener # NoOne => \/ listener' # NoOne /\ queue' = queue
                                \/ \A c \in Clients : c \in Queued => reset'[c]
<1> USE DEF ServerSteps, UpRecords, DownRecords
<1>1. CASE Bind(s) \/ ReadFails(s)
  <2>1. \E from \in ServerSteps \ {"exited"}, to \in ServerSteps \ {"close", "exited"} :
          SGoto(s, from, to)
    BY <1>1 DEF Bind, ReadFails
  <2>2. UNCHANGED <<listener, queue, upEnd, downEnd, reset>>
    BY <1>1 DEF Bind, ReadFails, stack
  <2> QED
    BY <2>1, <2>2, SGotoEffect
<1>2. CASE Listen(s)
  <2>1. \E from \in ServerSteps \ {"exited"}, to \in ServerSteps \ {"close", "exited"} :
          SGoto(s, from, to)
    BY <1>2 DEF Listen
  <2>2. /\ UNCHANGED <<queue, upEnd, downEnd, reset>>
        /\ listener # NoOne => listener' = listener
    BY <1>2 DEF Listen
  <2> QED
    BY <2>1, <2>2, SGotoEffect
<1>3. CASE Established(s) \/ ReadRequest(s)
  <2>1. \E from \in ServerSteps \ {"exited"}, to \in ServerSteps \ {"close", "exited"} :
          SGoto(s, from, to)
    BY <1>3 DEF Established, ReadRequest
  <2>2. UNCHANGED <<listener, queue, upEnd, downEnd, reset>>
    BY <1>3 DEF Established, ReadRequest
  <2> QED
    BY <2>1, <2>2, SGotoEffect
<1>4. CASE ServerFlight(s)
  <2>1. SGoto(s, "client_hello", "client_finished")
    BY <1>4 DEF ServerFlight
  <2>2. peer[s] \in Clients
    BY <1>4, ReadsEffect DEF ServerFlight
  <2>3. \A c \in Clients : reset[c] => reset'[c]
    BY <1>4, <2>2, SendDownEffect DEF ServerFlight
  <2>4. UNCHANGED <<listener, queue, upEnd, downEnd>>
    BY <1>4 DEF ServerFlight
  <2> QED
    BY <2>1, <2>3, <2>4, SGotoEffect
<1>5. CASE Respond(s)
  <2>1. SGoto(s, "respond", "shutdown")
    BY <1>5 DEF Respond
  <2>2. \A c \in Clients : reset[c] => reset'[c]
    <3>1. CASE peer[s] \in Clients
      BY <1>5, <3>1, SendDownEffect DEF Respond
    <3>2. CASE peer[s] = NoOne
      BY <1>5, <3>2, NamesAssumption DEF Respond, SendDown, SessionTypes
    <3> QED
      BY <3>1, <3>2 DEF SessionTypes
  <2>3. UNCHANGED <<listener, queue, upEnd, downEnd>>
    BY <1>5 DEF Respond
  <2> QED
    BY <2>1, <2>2, <2>3, SGotoEffect
<1>6. CASE Shutdown(s)
  <2>1. SGoto(s, "shutdown", "close")
    BY <1>6 DEF Shutdown
  <2>2. UNCHANGED <<listener, queue, upEnd>>
    BY <1>6 DEF Shutdown
  <2>3. /\ \A c \in Clients : (reset[c] => reset'[c]) /\ (downEnd[c] => downEnd'[c])
        /\ peer[s] # NoOne => downEnd'[peer[s]]
    BY <1>6, ZenonT(60) DEF Shutdown, SessionTypes
  <2> QED
    BY <2>1, <2>2, <2>3, SGotoEffect
<1>7. CASE CloseListener(s)
  <2>1. SGoto(s, "close", "exited")
    BY <1>7 DEF CloseListener
  <2>2. UNCHANGED <<upEnd, downEnd>> /\ \A c \in Clients : reset[c] => reset'[c]
    BY <1>7 DEF CloseListener
  <2>3. CASE listener = s
    <3>1. \A c \in Clients : c \in Queued => reset'[c]
      BY <1>7, <2>3 DEF CloseListener
    <3> QED
      BY <2>1, <2>2, <3>1, SGotoEffect
  <2>4. CASE listener # s
    <3>1. listener' = listener /\ queue' = queue
      BY <1>7, <2>4, StopListeningEffect DEF CloseListener
    <3> QED
      BY <2>1, <2>2, <3>1, SGotoEffect
  <2> QED
    BY <2>3, <2>4
<1> QED
  BY <1>1, <1>2, <1>3, <1>4, <1>5, <1>6, <1>7 DEF ServerStep

LEMMA ClientsGoOn ==
  ASSUME SessionTypes, NEW c \in Clients, ClientStep(c), ~Connect(c)
  PROVE  cpc[c] # "exited" /\ (cpc'[c] # "exited" => cpc[c] # "connect")
<1>1. CASE ConnectFails(c) \/ HandshakeFails(c)
  <2>1. PICK from \in {"connect", "hello", "server_flight"} : Fails(c, from)
    BY <1>1 DEF ConnectFails, HandshakeFails
  <2> QED
    BY <2>1, FailsEffect
<1>2. CASE ~(ConnectFails(c) \/ HandshakeFails(c))
  BY <1>2 DEF ClientStep, Hello, Finish, WriteRequest, ReadResponse, NoResponse, Leave, CGoto
<1> QED
  BY <1>1, <1>2

LEMMA WaitNext ==
  ASSUME SessionTypes, ConnInv, WaitInv, [Next]_vars
  PROVE  WaitInv'
<1> DEFINE Told(c) == \/ listener # NoOne /\ c \in Queued
                      \/ \E s \in Servers \ dead : peer[s] = c /\ spc[s] \notin {"close", "exited"}
                      \/ reset[c] \/ downEnd[c]
<1>1. ASSUME NEW s \in Servers, ServerStep(s), ~Accept(s)
      PROVE  WaitInv'
  <2>1. cpc' = cpc /\ peer' = peer /\ dead' = dead
    BY <1>1, ServersAreSteady DEF Steady
  <2>2. /\ \A t \in Servers \ {s} : spc'[t] = spc[t]
        /\ \A c \in Clients : (reset[c] => reset'[c]) /\ (downEnd[c] => downEnd'[c])
        /\ peer[s] # NoOne /\ spc'[s] \in {"close", "exited"} =>
              spc[s] \in {"close", "exited"} \/ downEnd'[peer[s]]
        /\ listener # NoOne => \/ listener' # NoOne /\ queue' = queue
                               \/ \A c \in Clients : c \in Queued => reset'[c]
    BY <1>1, ServerTells
  <2> SUFFICES ASSUME NEW c \in Clients, Told(c) PROVE Told(c)'
    BY <2>1 DEF WaitInv
  <2>3. CASE listener # NoOne /\ c \in Queued
    BY <2>2, <2>3 DEF Queued
  <2>4. ASSUME NEW t \in Servers \ dead, peer[t] = c, spc[t] \notin {"close", "exited"}
        PROVE  Told(c)'
    BY <2>1, <2>2, <2>4, NamesAssumption
  <2> QED
    BY <2>2, <2>3, <2>4
<1>2. ASSUME NEW s \in Servers, Accept(s)
      PROVE  WaitInv'
  <2> DEFINE h == Head(queue)
  <2>1. /\ Queued' = Queued \ {h} /\ s \notin dead /\ spc'[s] = "client_hello"
        /\ peer[s] = NoOne /\ peer'[s] = h
        /\ \A t \in Servers \ {s} : peer'[t] = peer[t] /\ spc'[t] = spc[t]
    BY <1>2, AcceptEffect
  <2> HIDE DEF h
  <2>2. UNCHANGED <<cpc, dead, listener, reset, downEnd>>
    BY <1>2 DEF Accept, client
  <2> SUFFICES ASSUME NEW c \in Clients, Told(c) PROVE Told(c)'
    BY <2>2 DEF WaitInv
  <2>3. c # NoOne
    BY NamesAssumption
  <2>4. CASE c = h
    BY <2>1, <2>2, <2>4
  <2>5. CASE c # h
    BY <2>1, <2>2, <2>3, <2>5
  <2> QED
    BY <2>4, <2>5
<1>3. ASSUME NEW c \in Clients, ClientStep(c), ~Connect(c)
      PROVE  WaitInv'
  <2>1. /\ UNCHANGED <<queue, listener, spc, peer, dead, downEnd>>
        /\ \A d \in Clients \ {c} : cpc'[d] = cpc[d] /\ reset'[d] = reset[d]
        /\ reset[c] => reset'[c]
    BY <1>3, ClientsAreSteady DEF Steady
  <2>2. cpc[c] # "exited" /\ (cpc'[c] # "exited" => cpc[c] # "connect")
    BY <1>3, ClientsGoOn
  <2>3. Queued' = Queued
    BY <2>1 DEF Queued
  <2> QED
    BY <2>1, <2>2, <2>3 DEF WaitInv
<1>4. ASSUME NEW c \in Clients, Connect(c)
      PROVE  WaitInv'
  <2>1. /\ \A d \in Clients \ {c} : cpc'[d] = cpc[d]
        /\ Queued' = Queued \cup {c}
    BY <1>4, ConnectEffect
  <2>2. UNCHANGED <<listener, spc, peer, dead, reset, downEnd>> /\ listener # NoOne
    BY <1>4 DEF Connect, server
  <2> QED
    BY <2>1, <2>2 DEF WaitInv
<1>5. ASSUME NEW s \in Servers, UNCHANGED <<peer, spc, cpc>>, dead' = dead \cup {s},
             StopListening(s),
             \A c \in Clients : /\ reset[c] \/ (listener = s /\ c \in Queued) => reset'[c]
                                /\ downEnd[c] \/ c = peer[s] => downEnd'[c]
      PROVE  WaitInv'
  <2>1. listener = s \/ (listener' = listener /\ Queued' = Queued)
    BY <1>5, StopListeningEffect DEF Queued
  <2> SUFFICES ASSUME NEW c \in Clients, Told(c) PROVE Told(c)'
    BY <1>5 DEF WaitInv
  <2>2. CASE listener # NoOne /\ c \in Queued
    BY <1>5, <2>1, <2>2
  <2>3. ASSUME NEW t \in Servers \ dead, peer[t] = c, spc[t] \notin {"close", "exited"}
        PROVE  Told(c)'
    <3>1. CASE t = s
      BY <1>5, <2>3, <3>1
    <3>2. CASE t # s
      <4>1. t \in Servers \ dead' /\ peer'[t] = c /\ spc'[t] \notin {"close", "exited"}
        BY <1>5, <2>3, <3>2
      <4> QED
        BY <4>1
    <3> QED
      BY <3>1, <3>2
  <2>4. CASE reset[c] \/ downEnd[c]
    BY <1>5, <2>4
  <2> QED
    BY <2>2, <2>3, <2>4
<1>6. ASSUME NEW s \in Servers, KillServer(s)
      PROVE  WaitInv'
  <2>1. UNCHANGED <<peer, spc, cpc>> /\ dead' = dead \cup {s} /\ StopListening(s)
    BY <1>6 DEF KillServer, server, client
  <2>2. \A c \in Clients : /\ reset[c] \/ (listener = s /\ c \in Queued) => reset'[c]
                           /\ downEnd[c] \/ c = peer[s] => downEnd'[c]
    BY <1>6 DEF KillServer
  <2> QED
    BY <1>5, <2>1, <2>2
<1>7. ASSUME NEW c \in Clients, UNCHANGED <<listener, queue, downEnd, peer, spc, cpc>>,
             dead' = dead \cup {c}, \A d \in Clients \ {c} : reset'[d] = reset[d]
      PROVE  WaitInv'
  <2>1. Queued' = Queued /\ Servers \ dead' = Servers \ dead
    BY <1>7, NamesAssumption DEF Queued
  <2> QED
    BY <1>7, <2>1 DEF WaitInv
<1>8. ASSUME NEW c \in Clients, KillClient(c)
      PROVE  WaitInv'
  <2>1. UNCHANGED <<listener, queue, downEnd, peer, spc, cpc>> /\ dead' = dead \cup {c}
    BY <1>8 DEF KillClient, server, client
  <2>2. \A d \in Clients \ {c} : reset'[d] = reset[d]
    BY <1>8, CloseUpEffect DEF KillClient
  <2> QED
    BY <1>7, <2>1, <2>2
<1>9. CASE BrokenPipe
  <2>1. UNCHANGED <<peer, spc, cpc>>
    BY <1>9 DEF BrokenPipe, server, client
  <2> QED
    BY <1>5, <1>7, <1>9, <2>1, BrokenPipeEffect
<1>10. CASE UNCHANGED vars
  BY <1>10 DEF vars, stack, server, client, WaitInv, Queued
<1> QED
  BY <1>1, <1>2, <1>3, <1>4, <1>6, <1>8, <1>9, <1>10 DEF Next

---------------------------------------------------------------------------
(* Connections no server has accepted                                      *)

(* A server touches its own connection only, and what is queued when it    *)
(* stops listening.                                                        *)
LEMMA ServerTouches ==
  ASSUME SessionTypes, NEW s \in Servers, ServerStep(s), ~Accept(s),
         NEW c \in Clients, c # peer[s]
  PROVE  /\ up'[c] = up[c] /\ down'[c] = down[c]
         /\ upEnd'[c] = upEnd[c] /\ downEnd'[c] = downEnd[c]
         /\ reset'[c] = reset[c] \/ (c \in Queued /\ Queued' = {})
<1> USE DEF UpRecords, DownRecords
<1>1. CASE Bind(s) \/ Listen(s) \/ ReadFails(s)
  BY <1>1 DEF Bind, Listen, ReadFails, stack
<1>2. CASE ServerFlight(s)
  <2>1. peer[s] \in Clients /\ up'[c] = up[c]
    BY <1>2, ReadsEffect DEF ServerFlight
  <2>2. down'[c] = down[c] /\ reset'[c] = reset[c]
    BY <1>2, <2>1, SendDownEffect DEF ServerFlight
  <2> QED
    BY <1>2, <2>1, <2>2 DEF ServerFlight
<1>3. CASE Established(s) \/ ReadRequest(s)
  <2>1. up'[c] = up[c]
    BY <1>3, ReadsEffect DEF Established, ReadRequest
  <2> QED
    BY <1>3, <2>1 DEF Established, ReadRequest
<1>4. CASE Respond(s)
  <2>1. down'[c] = down[c] /\ reset'[c] = reset[c]
    <3>1. CASE peer[s] \in Clients
      BY <1>4, <3>1, SendDownEffect DEF Respond
    <3>2. CASE peer[s] = NoOne
      BY <1>4, <3>2, NamesAssumption DEF Respond, SendDown, SessionTypes
    <3> QED
      BY <3>1, <3>2 DEF SessionTypes
  <2> QED
    BY <1>4, <2>1 DEF Respond
<1>5. CASE Shutdown(s)
  BY <1>5 DEF Shutdown, SessionTypes
<1>6. CASE CloseListener(s)
  <2>1. UNCHANGED <<up, down, upEnd, downEnd>>
    BY <1>6 DEF CloseListener
  <2>2. CASE listener = s
    <3>1. Queued' = {}
      BY <1>6, <2>2, StopListeningEffect DEF CloseListener
    <3>2. c \notin Queued => reset'[c] = reset[c]
      BY <1>6 DEF CloseListener, SessionTypes
    <3>3. reset[c] => reset'[c] = reset[c]
      BY <1>6 DEF CloseListener, SessionTypes
    <3> QED
      BY <2>1, <3>1, <3>2
  <2>3. CASE listener # s
    BY <1>6, <2>1, <2>3 DEF CloseListener, SessionTypes
  <2> QED
    BY <2>2, <2>3
<1> QED
  BY <1>1, <1>2, <1>3, <1>4, <1>5, <1>6 DEF ServerStep

QueuedOk(c) ==
  /\ cpc[c] = "connect" => Open(c) /\ up[c] = <<>> /\ down[c] = <<>>
  /\ c \in Queued =>
       /\ Open(c) /\ down[c] = <<>>
       /\ \/ cpc[c] = "hello" /\ up[c] = <<>>
          \/ cpc[c] = "server_flight" /\ up[c] = <<"client_hello">>

(* While its connection is queued, a client sends its ClientHello and then *)
(* waits.                                                                  *)
LEMMA QueuedClient ==
  ASSUME SessionTypes, NEW c \in Clients, QueuedOk(c), c \in Queued, ClientStep(c), ~Connect(c)
  PROVE  /\ Open(c)' /\ down'[c] = <<>>
         /\ cpc'[c] = "server_flight" /\ up'[c] = <<"client_hello">>
<1> USE DEF ClientSteps, UpRecords, DownRecords
<1>1. /\ ~reset[c] /\ ~upEnd[c] /\ ~downEnd[c] /\ down[c] = <<>>
      /\ \/ cpc[c] = "hello" /\ up[c] = <<>>
         \/ cpc[c] = "server_flight" /\ up[c] = <<"client_hello">>
  BY DEF QueuedOk, Open
<1>2. ~NoMore(down[c], downEnd[c], c)
  BY <1>1 DEF NoMore
<1>3. ~HandshakeFails(c)
  BY <1>1, <1>2 DEF HandshakeFails
<1>4. ~ConnectFails(c)
  BY <1>1, FailsEffect DEF ConnectFails
<1>5. ~Finish(c)
  BY <1>1 DEF Finish
<1>6. ~(WriteRequest(c) \/ ReadResponse(c) \/ NoResponse(c) \/ Leave(c))
  BY <1>1 DEF WriteRequest, ReadResponse, NoResponse, Leave, CGoto
<1>7. Hello(c)
  BY <1>3, <1>4, <1>5, <1>6 DEF ClientStep
<1>8. cpc[c] = "hello" /\ cpc'[c] = "server_flight"
  BY <1>7, CGotoEffect DEF Hello
<1>9. up'[c] = Append(up[c], "client_hello") /\ ~reset'[c]
  BY <1>1, <1>7, SendUpEffect DEF Hello
<1>10. UNCHANGED <<down, upEnd, downEnd>>
  BY <1>7 DEF Hello
<1> QED
  BY <1>1, <1>8, <1>9, <1>10, Words DEF Open

LEMMA QueueNext ==
  ASSUME SessionTypes, ConnInv, QueueInv, [Next]_vars
  PROVE  QueueInv'
<1>0. QueueInv = \A c \in Clients \ dead : QueuedOk(c)
  BY DEF QueueInv, QueuedOk
<1>1. ASSUME NEW s \in Servers, ServerStep(s), ~Accept(s)
      PROVE  QueueInv'
  <2>1. cpc' = cpc /\ peer' = peer /\ dead' = dead /\ Queued' \subseteq Queued
    BY <1>1, ServersAreSteady, QueuedShrinks DEF Steady
  <2> SUFFICES ASSUME NEW c \in Clients \ dead, QueuedOk(c) PROVE QueuedOk(c)'
    BY <2>1 DEF QueueInv, QueuedOk
  <2>2. CASE cpc[c] = "connect" \/ c \in Queued'
    <3>1. c # peer[s] /\ ~(c \in Queued /\ Queued' = {})
      BY <2>1, <2>2, NamesAssumption DEF ConnInv
    <3>2. /\ up'[c] = up[c] /\ down'[c] = down[c] /\ upEnd'[c] = upEnd[c]
          /\ downEnd'[c] = downEnd[c] /\ reset'[c] = reset[c]
      BY <1>1, <3>1, ServerTouches
    <3> QED
      BY <2>1, <3>2 DEF QueuedOk, Open
  <2>3. CASE ~(cpc[c] = "connect" \/ c \in Queued')
    BY <2>1, <2>3 DEF QueuedOk
  <2> QED
    BY <2>2, <2>3
<1>2. ASSUME NEW s \in Servers, Accept(s)
      PROVE  QueueInv'
  <2>1. Queued' \subseteq Queued
    BY <1>2, AcceptEffect
  <2>2. UNCHANGED <<cpc, dead, up, down, upEnd, downEnd, reset>>
    BY <1>2 DEF Accept, client
  <2> QED
    BY <2>1, <2>2 DEF QueueInv, Open
<1>3. ASSUME NEW c \in Clients, ClientStep(c), ~Connect(c)
      PROVE  QueueInv'
  <2>1. /\ UNCHANGED <<queue, dead, downEnd>> /\ c \notin dead /\ cpc'[c] # "connect"
        /\ \A d \in Clients \ {c} :
              /\ cpc'[d] = cpc[d] /\ up'[d] = up[d] /\ down'[d] = down[d]
              /\ upEnd'[d] = upEnd[d] /\ reset'[d] = reset[d]
    BY <1>3, ClientsAreSteady
  <2>2. Queued' = Queued
    BY <2>1 DEF Queued
  <2>3. QueuedOk(c)
    BY <2>1 DEF QueueInv, QueuedOk
  <2>4. QueuedOk(c)'
    BY <1>3, <2>1, <2>2, <2>3, QueuedClient DEF QueuedOk
  <2>5. \A d \in Clients \ dead' : d # c => QueuedOk(d)'
    BY <2>1, <2>2 DEF QueueInv, QueuedOk, Open
  <2> QED
    BY <2>4, <2>5 DEF QueueInv, QueuedOk
<1>4. ASSUME NEW c \in Clients, Connect(c)
      PROVE  QueueInv'
  <2>1. /\ c \notin dead /\ cpc[c] = "connect" /\ cpc'[c] = "hello"
        /\ \A d \in Clients \ {c} : cpc'[d] = cpc[d]
        /\ Queued' = Queued \cup {c}
    BY <1>4, ConnectEffect
  <2>2. UNCHANGED <<dead, up, down, upEnd, downEnd, reset>>
    BY <1>4 DEF Connect
  <2> QED
    BY <2>1, <2>2 DEF QueueInv, Open
<1>5. ASSUME NEW s \in Servers, UNCHANGED <<peer, up, down, upEnd, cpc>>, dead' = dead \cup {s},
             StopListening(s),
             \A c \in Clients : /\ reset'[c] = (reset[c] \/ (listener = s /\ c \in Queued)
                                               \/ (c = peer[s] /\ reset'[c]))
                                /\ downEnd'[c] = (downEnd[c] \/ c = peer[s])
      PROVE  QueueInv'
  <2>1. (listener = s /\ Queued' = {}) \/ (listener # s /\ Queued' = Queued)
    BY <1>5, StopListeningEffect DEF Queued
  <2> SUFFICES ASSUME NEW c \in Clients \ dead, QueuedOk(c) PROVE QueuedOk(c)'
    BY <1>5 DEF QueueInv, QueuedOk
  <2>2. CASE cpc[c] = "connect" \/ c \in Queued'
    <3>1. c # peer[s] /\ ~(listener = s /\ c \in Queued)
      BY <2>1, <2>2, NamesAssumption DEF ConnInv
    <3>2. reset[c] \in BOOLEAN /\ downEnd[c] \in BOOLEAN
      BY DEF SessionTypes
    <3>3. reset'[c] = reset[c] /\ downEnd'[c] = downEnd[c]
      BY <1>5, <3>1, <3>2
    <3> QED
      BY <1>5, <2>1, <3>3 DEF QueuedOk, Open
  <2>3. CASE ~(cpc[c] = "connect" \/ c \in Queued')
    BY <1>5, <2>3 DEF QueuedOk
  <2> QED
    BY <2>2, <2>3
<1>6. ASSUME NEW s \in Servers, KillServer(s)
      PROVE  QueueInv'
  <2>1. UNCHANGED <<peer, up, down, upEnd, cpc>> /\ dead' = dead \cup {s} /\ StopListening(s)
    BY <1>6 DEF KillServer, server, client
  <2>2. \A c \in Clients : /\ reset'[c] = (reset[c] \/ (listener = s /\ c \in Queued)
                                          \/ (c = peer[s] /\ reset'[c]))
                           /\ downEnd'[c] = (downEnd[c] \/ c = peer[s])
    BY <1>6 DEF KillServer, SessionTypes
  <2> QED
    BY <1>5, <2>1, <2>2
<1>7. ASSUME NEW c \in Clients, UNCHANGED <<queue, up, down, downEnd, cpc>>,
             dead' = dead \cup {c},
             \A d \in Clients \ {c} : reset'[d] = reset[d] /\ upEnd'[d] = upEnd[d]
      PROVE  QueueInv'
  <2>1. Queued' = Queued
    BY <1>7 DEF Queued
  <2> QED
    BY <1>7, <2>1 DEF QueueInv, Open
<1>8. ASSUME NEW c \in Clients, KillClient(c)
      PROVE  QueueInv'
  <2>1. UNCHANGED <<queue, up, down, downEnd, cpc>> /\ dead' = dead \cup {c}
    BY <1>8 DEF KillClient, client
  <2>2. \A d \in Clients \ {c} : reset'[d] = reset[d] /\ upEnd'[d] = upEnd[d]
    BY <1>8, CloseUpEffect DEF KillClient
  <2> QED
    BY <1>7, <2>1, <2>2
<1>9. CASE BrokenPipe
  <2>1. UNCHANGED <<peer, up, down, cpc>>
    BY <1>9 DEF BrokenPipe, server, client
  <2>2. ASSUME NEW s \in Servers, dead' = dead \cup {s}, StopListening(s), upEnd' = upEnd,
               \A c \in Clients : /\ downEnd'[c] <=> downEnd[c] \/ c = peer[s]
                                  /\ reset'[c] <=> reset[c] \/ (listener = s /\ c \in Queued),
               downEnd' \in [Clients -> BOOLEAN], reset' \in [Clients -> BOOLEAN]
        PROVE  QueueInv'
    <3>1. ASSUME NEW c \in Clients
          PROVE  /\ reset'[c] = (reset[c] \/ (listener = s /\ c \in Queued)
                                 \/ (c = peer[s] /\ reset'[c]))
                 /\ downEnd'[c] = (downEnd[c] \/ c = peer[s])
      BY <2>2 DEF SessionTypes
    <3> QED
      BY <1>5, <2>1, <2>2, <3>1
  <2>3. ASSUME NEW c \in Clients, dead' = dead \cup {c},
               upEnd' \in [Clients -> BOOLEAN],
               \A d \in Clients : upEnd'[d] <=> upEnd[d] \/ d = c,
               UNCHANGED <<queue, downEnd, reset>>
        PROVE  QueueInv'
    <3>1. ASSUME NEW d \in Clients \ {c}
          PROVE  reset'[d] = reset[d] /\ upEnd'[d] = upEnd[d]
      <4>1. upEnd'[d] <=> upEnd[d]
        BY <2>3
      <4>2. upEnd'[d] \in BOOLEAN /\ upEnd[d] \in BOOLEAN
        BY <2>3 DEF SessionTypes
      <4>3. upEnd'[d] = upEnd[d]
        BY <4>1, <4>2
      <4> QED
        BY <2>3, <4>3
    <3> QED
      BY <1>7, <2>1, <2>3, <3>1
  <2> QED
    BY <1>9, <2>2, <2>3, BrokenPipeEffect
<1>10. CASE UNCHANGED vars
  BY <1>10 DEF vars, stack, server, client, QueueInv, Open, Queued
<1> QED
  BY <1>1, <1>2, <1>3, <1>4, <1>6, <1>8, <1>9, <1>10 DEF Next

---------------------------------------------------------------------------
(* Sessions                                                                *)

(* What an exchange under way tells of its two ends and what they can read *)
LEMMA ExchangeEnds ==
  ASSUME NEW sp, NEW cp, NEW u, NEW d, Exchange(sp, cp, u, d)
  PROVE  /\ sp \in {"client_hello", "client_finished", "read", "respond", "shutdown"}
         /\ cp \in {"hello", "server_flight", "write", "read", "shutdown"}
         /\ u # <<>> => Head(u) \in {"client_hello", "client_finished", "request"}
         /\ d # <<>> => Head(d) \in {"server_flight", "response"}
BY Words DEF Exchange

LEMMA SessionEnds ==
  ASSUME NEW s \in Servers, NEW c \in Clients, Session(s, c)
  PROVE  /\ spc[s] \notin Waiting /\ cpc[c] # "connect"
         /\ spc[s] \notin {"shutdown", "close", "exited"} =>
              Open(c) /\ Exchange(spc[s], cpc[c], up[c], down[c])
         /\ cpc[c] \in {"hello", "server_flight", "write"} =>
              Open(c) /\ Exchange(spc[s], cpc[c], up[c], down[c])
BY ExchangeEnds DEF Session, Left, Closed, Waiting

LEMMA SessionSame ==
  ASSUME NEW s \in Servers, NEW c \in Clients, Session(s, c),
         spc'[s] = spc[s], cpc'[c] = cpc[c], code'[c] = code[c],
         up'[c] = up[c], down'[c] = down[c], reset'[c] = reset[c],
         upEnd'[c] = upEnd[c], downEnd'[c] = downEnd[c],
         c \in answered => c \in answered'
  PROVE  Session(s, c)'
BY DEF Session, Open, Left, Closed

(* Every step a server takes in its session leads on in the exchange; it   *)
(* never finds the end of the stream.                                      *)
LEMMA ServerSession ==
  ASSUME SessionTypes, NEW s \in Servers, NEW c \in Clients, peer[s] = c, Session(s, c),
         ServerStep(s), ~Accept(s)
  PROVE  Session(s, c)'
<1> USE DEF ServerSteps, UpRecords, DownRecords
<1>1. UNCHANGED <<cpc, code>>
  BY ServersAreSteady
<1>2. \/ spc[s] \notin Waiting /\ ~NoMore(up[c], upEnd[c], c)
      \/ spc[s] \in {"respond", "shutdown", "close", "exited"}
  BY SessionEnds, ExchangeEnds DEF NoMore, Open, Waiting
<1>3. ASSUME \/ Open(c)' /\ Exchange(spc'[s], cpc'[c], up'[c], down'[c])
             \/ Left(s, c)' \/ Closed(s, c)',
             answered' = answered
      PROVE  Session(s, c)'
  BY <1>1, <1>3 DEF Session
<1>4. ~(Bind(s) \/ Listen(s))
  BY SessionEnds DEF Bind, Listen, SGoto, Waiting
<1>5. ~ReadFails(s)
  BY <1>2, SGotoEffect DEF ReadFails
<1>6. ASSUME SGoto(s, "client_hello", "client_finished") \/ SGoto(s, "client_finished", "read")
             \/ SGoto(s, "read", "respond") \/ SGoto(s, "respond", "shutdown")
      PROVE  /\ ~reset[c] /\ ~upEnd[c] /\ ~downEnd[c]
             /\ Exchange(spc[s], cpc[c], up[c], down[c])
  BY <1>6, SGotoEffect, SessionEnds DEF Open
<1>7. CASE ServerFlight(s)
  <2>1. spc[s] = "client_hello" /\ spc'[s] = "client_finished"
    BY <1>7, SGotoEffect DEF ServerFlight
  <2>2. up[c] # <<>> /\ up'[c] = Tail(up[c])
    BY <1>7, ReadsEffect DEF ServerFlight
  <2>3. /\ ~reset[c] /\ ~upEnd[c] /\ ~downEnd[c]
        /\ Exchange(spc[s], cpc[c], up[c], down[c])
    BY <1>6, <1>7 DEF ServerFlight
  <2>4. cpc[c] = "server_flight" /\ up[c] = <<"client_hello">> /\ down[c] = <<>>
    BY <2>1, <2>2, <2>3 DEF Exchange
  <2>5. down'[c] = Append(down[c], "server_flight") /\ ~reset'[c]
    BY <1>7, <2>3, SendDownEffect DEF ServerFlight
  <2>6. up'[c] = <<>> /\ down'[c] = <<"server_flight">>
    BY <2>2, <2>4, <2>5, Words
  <2>7. UNCHANGED <<upEnd, downEnd, answered>>
    BY <1>7 DEF ServerFlight
  <2> QED
    BY <1>1, <1>3, <2>1, <2>3, <2>4, <2>5, <2>6, <2>7 DEF Exchange, Open
<1>8. CASE Established(s)
  <2>1. spc[s] = "client_finished" /\ spc'[s] = "read"
    BY <1>8, SGotoEffect DEF Established
  <2>2. up[c] # <<>> /\ up'[c] = Tail(up[c])
    BY <1>8, ReadsEffect DEF Established
  <2>3. Open(c) /\ Exchange(spc[s], cpc[c], up[c], down[c])
    BY <1>6, <1>8 DEF Established, Open
  <2>4. /\ down[c] = <<>>
        /\ \/ cpc[c] = "write" /\ up[c] = <<"client_finished">>
           \/ cpc[c] = "read" /\ up[c] = <<"client_finished", "request">>
    BY <2>1, <2>2, <2>3 DEF Exchange
  <2>5. \/ cpc[c] = "write" /\ up'[c] = <<>>
        \/ cpc[c] = "read" /\ up'[c] = <<"request">>
    <3>1. up[c] = <<"client_finished">> => up'[c] = <<>>
      BY <2>2, Words
    <3>2. up[c] = <<"client_finished", "request">> => up'[c] = <<"request">>
      BY <2>2, Words
    <3> QED
      BY <2>4, <3>1, <3>2
  <2>6. UNCHANGED <<down, reset, upEnd, downEnd, answered>>
    BY <1>8 DEF Established
  <2> QED
    BY <1>1, <1>3, <2>1, <2>3, <2>4, <2>5, <2>6 DEF Exchange, Open
<1>9. CASE ReadRequest(s)
  <2>1. spc[s] = "read" /\ spc'[s] = "respond"
    BY <1>9, SGotoEffect DEF ReadRequest
  <2>2. up[c] # <<>> /\ up'[c] = Tail(up[c])
    BY <1>9, ReadsEffect DEF ReadRequest
  <2>3. Open(c) /\ Exchange(spc[s], cpc[c], up[c], down[c])
    BY <1>6, <1>9 DEF ReadRequest, Open
  <2>4. cpc[c] = "read" /\ up[c] = <<"request">> /\ down[c] = <<>>
    BY <2>1, <2>2, <2>3 DEF Exchange
  <2>5. up'[c] = <<>>
    BY <2>2, <2>4, Words
  <2>6. UNCHANGED <<down, reset, upEnd, downEnd, answered>>
    BY <1>9 DEF ReadRequest
  <2> QED
    BY <1>1, <1>3, <2>1, <2>3, <2>4, <2>5, <2>6 DEF Exchange, Open
<1>10. CASE Respond(s)
  <2>1. spc[s] = "respond" /\ spc'[s] = "shutdown"
    BY <1>10, SGotoEffect DEF Respond
  <2>2. /\ ~reset[c] /\ ~upEnd[c] /\ ~downEnd[c]
        /\ Exchange(spc[s], cpc[c], up[c], down[c])
    BY <1>6, <1>10 DEF Respond
  <2>3. cpc[c] = "read" /\ up[c] = <<>> /\ down[c] = <<>>
    BY <2>1, <2>2 DEF Exchange
  <2>4. down'[c] = Append(down[c], "response") /\ ~reset'[c]
    BY <1>10, <2>2, SendDownEffect DEF Respond
  <2>5. down'[c] = <<"response">>
    BY <2>3, <2>4, Words
  <2>6. UNCHANGED <<up, upEnd, downEnd, answered>>
    BY <1>10 DEF Respond
  <2> QED
    BY <1>1, <1>3, <2>1, <2>2, <2>3, <2>4, <2>5, <2>6 DEF Exchange, Open
<1>11. CASE Shutdown(s)
  <2>1. spc[s] = "shutdown" /\ spc'[s] = "close"
    BY <1>11, SGotoEffect DEF Shutdown
  <2>2. answered' = answered
    BY <1>11 DEF Shutdown
  <2>3. \/ Open(c) /\ cpc[c] = "read" /\ down[c] = <<"response">>
        \/ cpc[c] \in {"shutdown", "exited"}
    BY <2>1 DEF Session, Left, Closed, Exchange
  <2>4. CASE Open(c) /\ cpc[c] = "read" /\ down[c] = <<"response">>
    <3>1. c # NoOne
      BY NamesAssumption
    <3>2. down' = [down EXCEPT ![c] = Append(@, "close_notify")]
      BY <1>11, <2>4, <3>1 DEF Shutdown, Open
    <3>3. down'[c] = Append(down[c], "close_notify")
      BY <3>2 DEF SessionTypes
    <3>4. down'[c] = <<"response", "close_notify">>
      BY <2>4, <3>3, Words, ZenonT(60)
    <3> QED
      BY <1>1, <1>3, <2>1, <2>2, <2>4, <3>4 DEF Closed
  <2>5. CASE cpc[c] \in {"shutdown", "exited"}
    BY <1>1, <1>3, <2>1, <2>2, <2>5 DEF Closed
  <2> QED
    BY <2>3, <2>4, <2>5
<1>12. CASE CloseListener(s)
  <2>1. spc[s] = "close" /\ spc'[s] = "exited"
    BY <1>12, SGotoEffect DEF CloseListener
  <2>2. UNCHANGED <<down, answered>>
    BY <1>12 DEF CloseListener
  <2>3. Closed(s, c)
    BY <2>1, ExchangeEnds DEF Session, Left
  <2> QED
    BY <1>1, <1>3, <2>1, <2>2, <2>3 DEF Closed
<1> QED
  BY <1>4, <1>5, <1>7, <1>8, <1>9, <1>10, <1>11, <1>12 DEF ServerStep

(* So does every step of the client, which never finds an end before the   *)
(* response either.                                                        *)
LEMMA ClientSession ==
  ASSUME SessionTypes, NEW s \in Servers, NEW c \in Clients, Session(s, c),
         ClientStep(c), ~Connect(c)
  PROVE  Session(s, c)'
<1> USE DEF ClientSteps, UpRecords, DownRecords
<1>1. spc' = spc /\ downEnd' = downEnd
  BY ClientsAreSteady
<1>2. ~ConnectFails(c)
  BY FailsEffect, SessionEnds DEF ConnectFails
<1>3. ~HandshakeFails(c)
  <2>1. ASSUME cpc[c] \in {"hello", "server_flight"}
        PROVE  ~reset[c] /\ ~NoMore(down[c], downEnd[c], c)
    BY <2>1, SessionEnds, ExchangeEnds DEF NoMore, Open
  <2> QED
    BY <2>1, FailsEffect DEF HandshakeFails
<1>4. CASE Hello(c)
  <2>1. cpc[c] = "hello" /\ cpc'[c] = "server_flight"
    BY <1>4, CGotoEffect DEF Hello
  <2>2. /\ ~reset[c] /\ ~upEnd[c] /\ ~downEnd[c]
        /\ Exchange(spc[s], cpc[c], up[c], down[c])
    BY <2>1, SessionEnds DEF Open
  <2>3. spc[s] = "client_hello" /\ up[c] = <<>> /\ down[c] = <<>>
    BY <2>1, <2>2 DEF Exchange
  <2>4. up'[c] = Append(up[c], "client_hello") /\ ~reset'[c]
    BY <1>4, <2>2, SendUpEffect DEF Hello
  <2>5. up'[c] = <<"client_hello">>
    BY <2>3, <2>4, Words
  <2>6. UNCHANGED <<down, upEnd>>
    BY <1>4 DEF Hello
  <2> QED
    BY <1>1, <2>1, <2>2, <2>3, <2>4, <2>5, <2>6 DEF Session, Exchange, Open
<1>5. CASE Finish(c)
  <2>1. cpc[c] = "server_flight" /\ cpc'[c] = "write"
    BY <1>5, CGotoEffect DEF Finish
  <2>2. /\ ~reset[c] /\ ~upEnd[c] /\ ~downEnd[c]
        /\ Exchange(spc[s], cpc[c], up[c], down[c])
    BY <2>1, SessionEnds DEF Open
  <2>3. down[c] # <<>> /\ down'[c] = Tail(down[c])
    BY <1>5 DEF Finish, SessionTypes
  <2>4. spc[s] = "client_finished" /\ up[c] = <<>> /\ down[c] = <<"server_flight">>
    BY <2>1, <2>2, <2>3 DEF Exchange
  <2>5. up'[c] = Append(up[c], "client_finished") /\ ~reset'[c]
    BY <1>5, <2>2, SendUpEffect DEF Finish
  <2>6. up'[c] = <<"client_finished">> /\ down'[c] = <<>>
    BY <2>3, <2>4, <2>5, Words
  <2>7. upEnd' = upEnd
    BY <1>5 DEF Finish
  <2> QED
    BY <1>1, <2>1, <2>2, <2>4, <2>5, <2>6, <2>7 DEF Session, Exchange, Open
<1>6. CASE WriteRequest(c)
  <2>1. cpc[c] = "write" /\ cpc'[c] = "read"
    BY <1>6, CGotoEffect DEF WriteRequest
  <2>2. /\ ~reset[c] /\ ~upEnd[c] /\ ~downEnd[c]
        /\ Exchange(spc[s], cpc[c], up[c], down[c])
    BY <2>1, SessionEnds DEF Open
  <2>3. /\ down[c] = <<>>
        /\ \/ spc[s] = "client_finished" /\ up[c] = <<"client_finished">>
           \/ spc[s] = "read" /\ up[c] = <<>>
    BY <2>1, <2>2 DEF Exchange
  <2>4. up'[c] = Append(up[c], "request") /\ ~reset'[c]
    BY <1>6, <2>2, SendUpEffect DEF WriteRequest
  <2>5. \/ spc[s] = "client_finished" /\ up'[c] = <<"client_finished", "request">>
        \/ spc[s] = "read" /\ up'[c] = <<"request">>
    <3>1. up[c] = <<"client_finished">> => up'[c] = <<"client_finished", "request">>
      BY <2>4, Words
    <3>2. up[c] = <<>> => up'[c] = <<"request">>
      BY <2>4, Words
    <3> QED
      BY <2>3, <3>1, <3>2
  <2>6. UNCHANGED <<down, upEnd>>
    BY <1>6 DEF WriteRequest
  <2> QED
    BY <1>1, <2>1, <2>2, <2>3, <2>4, <2>5, <2>6 DEF Session, Exchange, Open
<1>7. CASE ReadResponse(c)
  <2>1. cpc[c] = "read" /\ cpc'[c] = "shutdown"
    BY <1>7, CGotoEffect DEF ReadResponse
  <2>2. /\ down[c] # <<>> /\ down'[c] = Tail(down[c]) /\ c \in answered'
        /\ UNCHANGED <<up, upEnd, reset>>
    BY <1>7 DEF ReadResponse, SessionTypes
  <2>3. \/ Open(c) /\ spc[s] = "shutdown" /\ up[c] = <<>> /\ down[c] = <<"response">>
        \/ Closed(s, c)
    BY <2>1, <2>2 DEF Session, Left, Exchange
  <2>4. \/ Open(c)' /\ spc[s] = "shutdown" /\ up'[c] = <<>> /\ down'[c] = <<>>
        \/ Closed(s, c)'
    BY <1>1, <2>1, <2>2, <2>3, Words DEF Closed, Open
  <2> QED
    BY <1>1, <2>1, <2>2, <2>4 DEF Session, Exchange
<1>8. ~NoResponse(c)
  <2>1. ASSUME cpc[c] = "read"
        PROVE  ~NoMore(down[c], downEnd[c], c)
    <3>1. CASE Open(c) /\ Exchange(spc[s], cpc[c], up[c], down[c])
      BY <3>1, ExchangeEnds DEF NoMore, Open
    <3>2. CASE Closed(s, c)
      <4>1. down[c] = <<"response", "close_notify">>
        BY <2>1, <3>2 DEF Closed
      <4>2. down[c] # <<>> /\ Head(down[c]) = "response"
        BY <4>1, Words
      <4> QED
        BY <4>2 DEF NoMore
    <3> QED
      BY <2>1, <3>1, <3>2 DEF Session, Left
  <2> QED
    BY <2>1 DEF NoResponse, CGoto
<1>9. CASE Leave(c)
  <2>1. cpc[c] = "shutdown" /\ cpc'[c] = "exited"
    BY <1>9, CGotoEffect DEF Leave
  <2>2. code'[c] = 0 /\ c \in answered'
    BY <1>9, <2>1 DEF Leave, Session, SessionTypes
  <2>3. CASE Closed(s, c)
    BY <1>1, <2>1, <2>2, <2>3 DEF Session, Closed
  <2>4. CASE Open(c) /\ Exchange(spc[s], cpc[c], up[c], down[c])
    <3>1. spc[s] = "shutdown" /\ down[c] = <<>>
      BY <2>1, <2>4 DEF Exchange
    <3>2. ~reset'[c] /\ down'[c] = <<>>
      BY <1>9, <2>4, <3>1 DEF Leave, Open, SessionTypes
    <3>3. Left(s, c)'
      BY <1>1, <2>1, <2>4, <3>1, <3>2 DEF Left, Open
    <3> QED
      BY <2>1, <2>2, <3>3 DEF Session
  <2> QED
    BY <2>1, <2>3, <2>4 DEF Session, Left
<1> QED
  BY <1>2, <1>3, <1>4, <1>5, <1>6, <1>7, <1>8, <1>9 DEF ClientStep

LEMMA SessionNext ==
  ASSUME SessionTypes, ConnInv, QueueInv, SessionInv, [Next]_vars
  PROVE  SessionInv'
<1>0. \A c \in Clients : c # NoOne
  BY NamesAssumption
<1>1. ASSUME NEW s \in Servers, ServerStep(s), ~Accept(s)
      PROVE  SessionInv'
  <2>1. /\ peer' = peer /\ dead' = dead /\ cpc' = cpc /\ code' = code
        /\ \A t \in Servers \ {s} : spc'[t] = spc[t]
    BY <1>1, ServersAreSteady, ServerTells DEF Steady
  <2>2. answered' = answered
    BY <1>1 DEF ServerStep, Bind, Listen, ServerFlight, Established, ReadRequest, ReadFails,
                Respond, Shutdown, CloseListener
  <2> SUFFICES ASSUME NEW t \in Servers, NEW c \in Clients, peer[t] = c, Session(t, c)
               PROVE  Session(t, c)'
    BY <2>1 DEF SessionInv, Alive
  <2>3. CASE t = s
    BY <1>1, <2>3, ServerSession
  <2>4. CASE t # s
    <3>1. c # peer[s] /\ c \notin Queued
      BY <1>0, <2>4 DEF ConnInv
    <3>2. /\ up'[c] = up[c] /\ down'[c] = down[c] /\ upEnd'[c] = upEnd[c]
          /\ downEnd'[c] = downEnd[c] /\ reset'[c] = reset[c]
      BY <1>1, <3>1, ServerTouches
    <3> QED
      BY <2>1, <2>2, <2>4, <3>2, SessionSame
  <2> QED
    BY <2>3, <2>4
<1>2. ASSUME NEW s \in Servers, Accept(s)
      PROVE  SessionInv'
  <2> DEFINE h == Head(queue)
  <2>1. /\ h \in Clients /\ h \in Queued
        /\ peer'[s] = h /\ spc'[s] = "client_hello"
        /\ \A t \in Servers \ {s} : peer'[t] = peer[t] /\ spc'[t] = spc[t]
    BY <1>2, AcceptEffect
  <2> HIDE DEF h
  <2>2. UNCHANGED <<cpc, code, dead, up, down, upEnd, downEnd, reset, answered>>
    BY <1>2 DEF Accept, client
  <2> SUFFICES ASSUME NEW t \in Servers, NEW c \in Clients, Alive(t, c), peer'[t] = c
               PROVE  Session(t, c)'
    BY <2>2 DEF SessionInv, Alive
  <2>3. CASE t = s
    <3>1. c = h /\ spc'[t] = "client_hello"
      BY <2>1, <2>3
    <3>2. /\ Open(c) /\ down[c] = <<>>
          /\ \/ cpc[c] = "hello" /\ up[c] = <<>>
             \/ cpc[c] = "server_flight" /\ up[c] = <<"client_hello">>
      BY <2>1, <3>1 DEF QueueInv, Alive
    <3> QED
      BY <2>2, <3>1, <3>2 DEF Session, Exchange, Open
  <2>4. CASE t # s
    <3>1. peer[t] = c /\ spc'[t] = spc[t]
      BY <2>1, <2>4
    <3>2. Session(t, c)
      BY <3>1 DEF SessionInv
    <3> QED
      BY <2>2, <3>1, <3>2, SessionSame
  <2> QED
    BY <2>3, <2>4
<1>3. ASSUME NEW c \in Clients, ClientStep(c), ~Connect(c)
      PROVE  SessionInv'
  <2>1. /\ UNCHANGED <<spc, peer, downEnd, dead>>
        /\ \A d \in Clients \ {c} :
              /\ cpc'[d] = cpc[d] /\ code'[d] = code[d] /\ up'[d] = up[d] /\ down'[d] = down[d]
              /\ upEnd'[d] = upEnd[d] /\ reset'[d] = reset[d]
    BY <1>3, ClientsAreSteady DEF Steady
  <2>2. answered \subseteq answered'
    BY <1>3 DEF ClientStep, ConnectFails, Hello, Finish, HandshakeFails, WriteRequest,
                ReadResponse, NoResponse, Leave
  <2> SUFFICES ASSUME NEW s \in Servers, NEW d \in Clients, peer[s] = d, Session(s, d)
               PROVE  Session(s, d)'
    BY <2>1 DEF SessionInv, Alive
  <2>3. CASE d = c
    BY <1>3, <2>3, ClientSession
  <2>4. CASE d # c
    BY <2>1, <2>2, <2>4, SessionSame
  <2> QED
    BY <2>3, <2>4
<1>4. ASSUME NEW c \in Clients, Connect(c)
      PROVE  SessionInv'
  <2>1. /\ cpc[c] = "connect" /\ \A d \in Clients \ {c} : cpc'[d] = cpc[d]
    BY <1>4, ConnectEffect
  <2>2. UNCHANGED <<spc, peer, dead, code, up, down, upEnd, downEnd, reset, answered>>
    BY <1>4 DEF Connect, server
  <2> SUFFICES ASSUME NEW s \in Servers, NEW d \in Clients, peer[s] = d, Session(s, d)
               PROVE  Session(s, d)'
    BY <2>2 DEF SessionInv, Alive
  <2>3. d # c
    BY <2>1, SessionEnds
  <2> QED
    BY <2>1, <2>2, <2>3, SessionSame
<1>5. ASSUME NEW s \in Servers, UNCHANGED <<peer, spc, cpc, code, up, down, upEnd, answered>>,
             dead' = dead \cup {s},
             \A c \in Clients : c # peer[s] /\ c \notin Queued =>
                                  downEnd'[c] = downEnd[c] /\ reset'[c] = reset[c]
      PROVE  SessionInv'
  <2> SUFFICES ASSUME NEW t \in Servers, NEW c \in Clients, t # s, peer[t] = c, Session(t, c)
               PROVE  Session(t, c)'
    BY <1>5 DEF SessionInv, Alive
  <2>1. c # peer[s] /\ c \notin Queued
    BY <1>0 DEF ConnInv
  <2> QED
    BY <1>5, <2>1, SessionSame
<1>6. ASSUME NEW s \in Servers, KillServer(s)
      PROVE  SessionInv'
  <2>1. /\ UNCHANGED <<peer, spc, cpc, code, up, down, upEnd, answered>>
        /\ dead' = dead \cup {s}
    BY <1>6 DEF KillServer, server, client
  <2>2. \A c \in Clients : c # peer[s] /\ c \notin Queued =>
                             downEnd'[c] = downEnd[c] /\ reset'[c] = reset[c]
    BY <1>6 DEF KillServer, SessionTypes
  <2> QED
    BY <1>5, <2>1, <2>2
<1>7. ASSUME NEW c \in Clients, dead' = dead \cup {c},
             UNCHANGED <<peer, spc, cpc, code, up, down, downEnd, answered>>,
             \A d \in Clients \ {c} : reset'[d] = reset[d] /\ upEnd'[d] = upEnd[d]
      PROVE  SessionInv'
  <2> SUFFICES ASSUME NEW s \in Servers, NEW d \in Clients, d # c, peer[s] = d, Session(s, d)
               PROVE  Session(s, d)'
    BY <1>7 DEF SessionInv, Alive
  <2> QED
    BY <1>7, SessionSame
<1>8. ASSUME NEW c \in Clients, KillClient(c)
      PROVE  SessionInv'
  <2>1. /\ dead' = dead \cup {c}
        /\ UNCHANGED <<peer, spc, cpc, code, up, down, downEnd, answered>>
    BY <1>8 DEF KillClient, server, client
  <2>2. \A d \in Clients \ {c} : reset'[d] = reset[d] /\ upEnd'[d] = upEnd[d]
    BY <1>8, CloseUpEffect DEF KillClient
  <2> QED
    BY <1>7, <2>1, <2>2
<1>9. CASE BrokenPipe
  <2>1. UNCHANGED <<peer, spc, cpc, code, up, down, answered>>
    BY <1>9 DEF BrokenPipe, server, client
  <2>2. ASSUME NEW s \in Servers, dead' = dead \cup {s}, upEnd' = upEnd,
               \A c \in Clients : /\ downEnd'[c] <=> downEnd[c] \/ c = peer[s]
                                  /\ reset'[c] <=> reset[c] \/ (listener = s /\ c \in Queued),
               downEnd' \in [Clients -> BOOLEAN], reset' \in [Clients -> BOOLEAN]
        PROVE  SessionInv'
    <3>1. ASSUME NEW c \in Clients, c # peer[s], c \notin Queued
          PROVE  downEnd'[c] = downEnd[c] /\ reset'[c] = reset[c]
      <4>1. (downEnd'[c] <=> downEnd[c]) /\ (reset'[c] <=> reset[c])
        BY <2>2, <3>1
      <4>2. /\ downEnd'[c] \in BOOLEAN /\ downEnd[c] \in BOOLEAN
            /\ reset'[c] \in BOOLEAN /\ reset[c] \in BOOLEAN
        BY <2>2 DEF SessionTypes
      <4> QED
        BY <4>1, <4>2
    <3> QED
      BY <1>5, <2>1, <2>2, <3>1
  <2>3. ASSUME NEW c \in Clients, dead' = dead \cup {c},
               upEnd' \in [Clients -> BOOLEAN],
               \A d \in Clients : upEnd'[d] <=> upEnd[d] \/ d = c,
               UNCHANGED <<queue, downEnd, reset>>
        PROVE  SessionInv'
    <3>1. ASSUME NEW d \in Clients \ {c}
          PROVE  reset'[d] = reset[d] /\ upEnd'[d] = upEnd[d]
      <4>1. upEnd'[d] <=> upEnd[d]
        BY <2>3
      <4>2. upEnd'[d] \in BOOLEAN /\ upEnd[d] \in BOOLEAN
        BY <2>3 DEF SessionTypes
      <4>3. upEnd'[d] = upEnd[d]
        BY <4>1, <4>2
      <4> QED
        BY <2>3, <4>3
    <3> QED
      BY <1>7, <2>1, <2>3, <3>1
  <2> QED
    BY <1>9, <2>2, <2>3, BrokenPipeEffect
<1>10. CASE UNCHANGED vars
  BY <1>10, SessionSame DEF vars, stack, server, client, SessionInv, Alive
<1> QED
  BY <1>1, <1>2, <1>3, <1>4, <1>6, <1>8, <1>9, <1>10 DEF Next

(* A step ends a program by a signal, or none.                             *)
LEMMA SignalsOnly ==
  ASSUME SessionTypes, [Next]_vars
  PROVE  dead' = dead \/ \E p \in Servers \cup Clients : dead' = dead \cup {p}
<1>1. ASSUME NEW s \in Servers, ServerStep(s) PROVE dead' = dead
  BY <1>1 DEF ServerStep, Bind, Listen, Accept, ServerFlight, Established, ReadRequest,
              ReadFails, Respond, Shutdown, CloseListener
<1>2. ASSUME NEW c \in Clients, ClientStep(c) PROVE dead' = dead
  BY <1>2 DEF ClientStep, Connect, ConnectFails, Hello, Finish, HandshakeFails,
              WriteRequest, ReadResponse, NoResponse, Leave
<1>3. ASSUME NEW s \in Servers, KillServer(s) PROVE dead' = dead \cup {s}
  BY <1>3 DEF KillServer
<1>4. ASSUME NEW c \in Clients, KillClient(c) PROVE dead' = dead \cup {c}
  BY <1>4 DEF KillClient
<1>5. CASE BrokenPipe
  BY <1>5, BrokenPipeEffect
<1>6. CASE UNCHANGED vars
  BY <1>6 DEF vars
<1> QED
  BY <1>1, <1>2, <1>3, <1>4, <1>5, <1>6 DEF Next

(* A server that SIGPIPE ends had its connection reset: the session was    *)
(* not one of two living ends.                                             *)
LEMMA SurviveNext ==
  ASSUME SessionTypes, SessionInv, ServersSurvive, [Next]_vars
  PROVE  ServersSurvive'
<1>0. \A c \in Clients : c \notin Servers
  BY NamesAssumption
<1>1. ASSUME NEW s \in Servers, ServerStep(s)
      PROVE  ServersSurvive'
  <2>1. dead' = dead /\ killed' = killed
    BY <1>1 DEF ServerStep, Bind, Listen, Accept, ServerFlight, Established, ReadRequest,
                ReadFails, Respond, Shutdown, CloseListener
  <2>2. \A t \in dead \cap Servers : peer'[t] = peer[t]
    <3>1. CASE Accept(s)
      BY <3>1 DEF Accept, SGoto, SessionTypes
    <3>2. CASE ~Accept(s)
      BY <1>1, <3>2, ServersAreSteady DEF Steady
    <3> QED
      BY <3>1, <3>2
  <2> QED
    BY <2>1, <2>2 DEF ServersSurvive
<1>2. ASSUME NEW s \in Servers, KillServer(s)
      PROVE  ServersSurvive'
  BY <1>2 DEF KillServer, server, ServersSurvive
<1>3. ASSUME NEW c \in Clients, ClientStep(c) \/ KillClient(c)
      PROVE  ServersSurvive'
  <2>1. peer' = peer /\ dead \subseteq dead' /\ killed \subseteq killed'
        /\ dead' \cap Servers = dead \cap Servers
    BY <1>0, <1>3 DEF ClientStep, Connect, ConnectFails, Hello, Finish, HandshakeFails,
                WriteRequest, ReadResponse, NoResponse, Leave, KillClient, server
  <2> QED
    BY <2>1 DEF ServersSurvive
<1>4. CASE BrokenPipe
  <2>1. peer' = peer /\ killed' = killed
    BY <1>4 DEF BrokenPipe, server
  <2>2. ASSUME NEW s \in Servers, s \notin dead, peer[s] \in Clients, reset[peer[s]],
               spc[s] \in {"client_hello", "respond", "shutdown"}, dead' = dead \cup {s}
        PROVE  ServersSurvive'
    <3>1. ~Session(s, peer[s])
      BY <2>2 DEF Session, Open, Left, Closed
    <3>2. peer[s] \in dead
      BY <2>2, <3>1 DEF SessionInv, Alive
    <3> QED
      BY <2>1, <2>2, <3>2 DEF ServersSurvive
  <2>3. ASSUME NEW c \in Clients, dead' = dead \cup {c}
        PROVE  ServersSurvive'
    BY <1>0, <2>1, <2>3 DEF ServersSurvive
  <2> QED
    BY <1>4, <2>2, <2>3, BrokenPipeEffect
<1>5. CASE UNCHANGED vars
  BY <1>5 DEF vars, server, ServersSurvive
<1> QED
  BY <1>1, <1>2, <1>3, <1>4, <1>5 DEF Next

---------------------------------------------------------------------------
(* The theorems                                                            *)

LEMMA TlsInvInit == Init => TlsInv
<1> SUFFICES ASSUME Init PROVE TlsInv
  OBVIOUS
<1>1. SessionTypes
  BY TypeInit
<1>2. Queued = {} /\ (\A s \in Servers : peer[s] = NoOne) /\ \A c \in Clients : c # NoOne
  BY NamesAssumption DEF Init, Queued
<1>3. ConnInv
  BY <1>2 DEF Init, ConnInv
<1>4. RecordInv
  BY DEF Init, RecordInv, Holds
<1>5. WaitInv
  BY DEF Init, WaitInv
<1>6. QueueInv
  BY <1>2 DEF Init, QueueInv, Open
<1>7. SessionInv
  BY <1>2 DEF SessionInv
<1>8. ServersSurvive
  BY DEF Init, ServersSurvive
<1> QED
  BY <1>1, <1>3, <1>4, <1>5, <1>6, <1>7, <1>8 DEF TlsInv

LEMMA TlsInvNext == TlsInv /\ [Next]_vars => TlsInv'
<1> SUFFICES ASSUME TlsInv, [Next]_vars PROVE TlsInv'
  OBVIOUS
<1> USE DEF TlsInv
<1>1. SessionTypes'
  BY TypeNext
<1>2. ConnInv'
  BY ConnNext
<1>3. RecordInv'
  BY RecordNext
<1>4. WaitInv'
  BY WaitNext
<1>5. QueueInv'
  BY QueueNext
<1>6. SessionInv'
  BY SessionNext
<1>7. ServersSurvive'
  BY SurviveNext
<1> QED
  BY <1>1, <1>2, <1>3, <1>4, <1>5, <1>6, <1>7

LEMMA TlsInvHolds == Spec => []TlsInv
<1>1. Init => TlsInv
  BY TlsInvInit
<1>2. TlsInv /\ [Next]_vars => TlsInv'
  BY TlsInvNext
<1> QED
  BY <1>1, <1>2, PTL DEF Spec

(* Whatever the two programs and the stack do, every variable stays in its *)
(* domain: no record of one direction is put into the other, and no step   *)
(* of tls_server.c or tls_client.c leads out of their programs.            *)
THEOREM TlsTypeCorrect == Spec => []TypeOK
<1> DEFINE Known == dead \subseteq Servers \cup Clients
<1>1. Init => Known
  BY DEF Init
<1>2. TlsInv /\ Known /\ [Next]_vars => Known'
  BY SignalsOnly DEF TlsInv
<1>3. TlsInv /\ Known => TypeOK
  BY DEF TlsInv, SessionTypes, TypeOK
<1> QED
  BY <1>1, <1>2, <1>3, TlsInvHolds, PTL DEF Spec

(* However many servers and clients run and are killed: a client whose     *)
(* connection a server accepted, neither of the two ended by a signal,     *)
(* gets its response and exits with 0, although tls_client.c never checks  *)
(* SSL_write and tls_server.c closes without waiting for the client.       *)
THEOREM AcceptedSessionsSucceed == Spec => []SessionsSucceed
<1>1. TlsInv => SessionsSucceed
  BY DEF TlsInv, SessionInv, Alive, Session, SessionsSucceed
<1> QED
  BY <1>1, TlsInvHolds, PTL

(* Both ends agree about every session: the response the client prints     *)
(* answers a request the server read, an exit code of 1 means no server    *)
(* read a request, and no connection is served by two servers.             *)
THEOREM BothEndsAgree == Spec => []EndsAgree
<1>1. TlsInv => EndsAgree
  BY DEF TlsInv, ConnInv, RecordInv, EndsAgree
<1> QED
  BY <1>1, TlsInvHolds, PTL

(* A client blocked in SSL_connect or SSL_read has a listening server to   *)
(* accept it or a running one that serves it, or can see the end: that     *)
(* tls_server.c accepts a single connection strands no queued client.      *)
THEOREM EveryWaitHasAnEnd == Spec => []NobodyWaitsForNoOne
<1>1. TlsInv => NobodyWaitsForNoOne
  BY DEF TlsInv, WaitInv, ConnInv, NobodyWaitsForNoOne
<1> QED
  BY <1>1, TlsInvHolds, PTL

(* SIGPIPE, which tls_server.c does not handle, ends a server only after a *)
(* signal ended its client.                                                *)
THEOREM OnlyAbandonedServersDie == Spec => []ServersSurvive
<1>1. TlsInv => ServersSurvive
  BY DEF TlsInv
<1> QED
  BY <1>1, TlsInvHolds, PTL

(***************************************************************************)
(* Part 2: TlsService                                                      *)
(***************************************************************************)

NoPair == Store!NoPair

(* The generation g is complete, with its key, its signature and its       *)
(* certificate's file; the key file holds only what was written whole.     *)
Made(g) == /\ g \in Generators /\ gpc[g] = "done" /\ pkey[g] = g /\ x509[g] = g
           /\ "cert" \notin unsaved[g]

KeySaved(g) == /\ g \in Generators /\ gpc[g] \in {"fopen_cert", "write_cert", "done"}
               /\ "key" \notin unsaved[g]

\* What the last generation leaves in its two files.
KeyLeft(g)  == IF pkey[g] = g /\ "key" \notin unsaved[g] THEN g ELSE Store!Torn
CertLeft(g) == IF x509[g] = g /\ "cert" \notin unsaved[g] THEN g ELSE Store!Torn

Types ==
  /\ ServiceTypeOK
  /\ queue \in Seq(Clients)
  /\ down \in [Clients -> Seq(DownRecords)]
  /\ spc \in [Servers -> ServerSteps]
  /\ peer \in [Servers -> Clients \cup {NoOne}]
  /\ cpc \in [Clients -> ClientSteps]
  /\ answered \subseteq Clients

(* A certificate on disk or in a server is that of a complete generation,  *)
(* and so is a key; a generator has failed only writes it has tried.       *)
PairInv ==
  /\ \A g \in Generators :
       /\ pkey[g] \in {g, NoPair} /\ x509[g] \in {pkey[g], NoPair}
       /\ "key" \in unsaved[g] => gpc[g] \in {"fopen_cert", "write_cert", "done"}
       /\ "cert" \in unsaved[g] => gpc[g] = "done"
  /\ cert_file \in Generators => Made(cert_file)
  /\ key_file \in Generators => KeySaved(key_file)
  /\ \A s \in Servers : /\ cert[s] # NoPair => Made(cert[s])
                        /\ lpc[s] \in {"key", "loaded"} => cert[s] # NoPair
                        /\ lpc[s] = "loaded" => key[s] = cert[s] /\ KeySaved(key[s])

(* The latest generation, if it is alone, has the files to itself.         *)
LatestInv ==
  /\ \A g \in alone : gpc[g] # "idle"
  /\ latest \in alone =>
       /\ \A h \in Generators : Store!Generating(h) => h = latest
       /\ gpc[latest] = "write_key" => key_file = Store!Torn
       /\ gpc[latest] \in {"fopen_cert", "write_cert", "done"} => key_file = KeyLeft(latest)
       /\ gpc[latest] = "write_cert" => cert_file = Store!Torn
       /\ gpc[latest] = "done" => cert_file = CertLeft(latest)

(* A server that loads in a calm finds the pair it started beside.         *)
CalmInv ==
  \A s \in Servers : calm[s] # NoPair =>
    /\ lpc[s] \in {"cert", "key", "loaded"}
    /\ Store!Loading(s) => /\ calm[s] = latest /\ Store!Settled(latest)
                           /\ lpc[s] = "key" => cert[s] = latest

StoreInv == PairInv /\ LatestInv /\ CalmInv

Unserved == {"bind", "listen", "accept"}

(* Only a server that has loaded its pair has a connection, and only it    *)
(* writes to it.                                                           *)
PeerInv ==
  /\ \A s \in Servers : peer[s] # NoOne => lpc[s] = "loaded" /\ spc[s] \notin Unserved
  /\ \A c \in Clients : down[c] # <<>> => \E s \in Servers : peer[s] = c

(* A client has been shown a certificate once its handshake is complete,   *)
(* and the response comes last.                                            *)
ShownInv ==
  \A c \in Clients :
    /\ cpc[c] \in {"connect", "hello", "server_flight"} => shown[c] = NoPair
    /\ cpc[c] \in {"write", "read", "shutdown"} => shown[c] # NoPair
    /\ c \in answered => cpc[c] \in {"shutdown", "exited"} /\ shown[c] # NoPair
    /\ shown[c] # NoPair => \E s \in Servers : peer[s] = c /\ shown[c] = key[s]

ServiceInv == Types /\ StoreInv /\ PeerInv /\ ShownInv

---------------------------------------------------------------------------
(* The names of the programs and of what is no pair differ.                *)

LEMMA Names ==
  /\ \A g \in Generators : g # NoPair /\ g # "nobody" /\ g # Store!Absent /\ g # Store!Torn
  /\ NoOne \notin Servers \cup Clients
  /\ Store!Absent # NoPair /\ Store!Torn # NoPair /\ NoPair # "nobody"
  BY GeneratorsAssumption, NamesAssumption
  DEF Store!StoreConstants, NoPair, Store!NoPair, Store!Absent, Store!Torn

LEMMA ServiceInvInit == ServiceInit => ServiceInv
PROOF
<1> SUFFICES ASSUME ServiceInit PROVE ServiceInv
  OBVIOUS
<1>1. Init /\ Store!Init /\ shown = [c \in Clients |-> NoPair]
  BY DEF ServiceInit, NoPair
<1>2. Types
  <2>1. Store!StoreTypeOK
    BY <1>1, Names DEF Store!Init, Store!StoreTypeOK, Store!GeneratorSteps, NoPair
  <2>2. ServiceTypeOK
    BY <1>1, <2>1 DEF Init, ServiceTypeOK, NoPair
  <2> QED
    BY <1>1, <2>2 DEF Types, Init, ServerSteps, ClientSteps
<1>3. PairInv
  BY <1>1, Names DEF Store!Init, PairInv, NoPair, Store!NoPair
<1>4. LatestInv /\ CalmInv
  BY <1>1 DEF Store!Init, LatestInv, CalmInv, NoPair
<1>5. PeerInv /\ ShownInv
  BY <1>1 DEF Init, PeerInv, ShownInv
<1> QED
  BY <1>2, <1>3, <1>4, <1>5 DEF ServiceInv, StoreInv

---------------------------------------------------------------------------
(* CertStore: the generations and the loading                              *)

StoreTypes == Store!StoreTypeOK /\ dead \subseteq Servers \cup Clients \cup Generators

(* What does not touch the store keeps what is known of it; that more      *)
(* programs are dead takes nothing away.                                   *)
LEMMA StoreKept ==
  ASSUME StoreInv, Store!StoreTypeOK, UNCHANGED storeVars, dead \subseteq dead'
  PROVE  StoreInv' /\ Store!StoreTypeOK'
PROOF
<1> USE DEF storeVars
<1>1. Store!StoreTypeOK'
  BY DEF Store!StoreTypeOK
<1>2. PairInv'
  BY DEF StoreInv, PairInv, Made, KeySaved, NoPair, Store!NoPair
<1>3. LatestInv'
  BY DEF StoreInv, LatestInv, Store!Generating, KeyLeft, CertLeft, Store!Torn
<1>4. CalmInv'
  BY DEF StoreInv, CalmInv, Store!Loading, Store!Settled, Store!Issued, NoPair, Store!NoPair
<1> QED
  BY <1>1, <1>2, <1>3, <1>4 DEF StoreInv

LEMMA GenerateKeeps ==
  ASSUME StoreInv, Store!StoreTypeOK, NEW g \in Generators, Store!Generate(g)
  PROVE  StoreInv' /\ Store!StoreTypeOK'
PROOF
<1> USE Names
<1>1. /\ gpc[g] = "idle" /\ g \notin dead /\ gpc' = [gpc EXCEPT ![g] = "fopen_key"]
      /\ latest' = g /\ UNCHANGED <<unsaved, key_file, cert_file, lpc, cert, key, dead, killed>>
      /\ calm' = [s \in Servers |-> IF Store!Loading(s) THEN NoPair ELSE calm[s]]
  BY DEF Store!Generate, Store!GGoto, Store!fileVars, Store!loadVars, Store!signals, NoPair
<1>2. PICK k \in {g, NoPair}, x \in {g, NoPair} :
        x \in {k, NoPair} /\ pkey' = [pkey EXCEPT ![g] = k] /\ x509' = [x509 EXCEPT ![g] = x]
  BY DEF Store!Generate, NoPair
<1>3. alone' = IF \E h \in Generators : Store!Generating(h)
               THEN {h \in alone : ~Store!Generating(h)} ELSE alone \cup {g}
  BY DEF Store!Generate
<1>4. Store!StoreTypeOK'
  <2>1. alone' \subseteq Generators
    BY <1>3 DEF Store!StoreTypeOK
  <2>2. calm' \in [Servers -> Generators \cup {NoPair}]
    BY <1>1 DEF Store!StoreTypeOK, NoPair
  <2> QED
    BY <1>1, <1>2, <2>1, <2>2 DEF Store!StoreTypeOK, Store!GeneratorSteps, NoPair
<1>5. PairInv'
  <2>1. \A h \in Generators : gpc[h] = "done" => h # g
    BY <1>1
  <2>2. \A h : (Made(h) => Made(h)') /\ (KeySaved(h) => KeySaved(h)')
    BY <1>1, <1>2, <2>1 DEF Made, KeySaved, Store!StoreTypeOK
  <2>3. \A h \in Generators : pkey'[h] \in {h, NoPair} /\ x509'[h] \in {pkey'[h], NoPair}
    BY <1>1, <1>2 DEF StoreInv, PairInv, Store!StoreTypeOK
  <2>4. \A h \in Generators :
          /\ "key" \in unsaved'[h] => gpc'[h] \in {"fopen_cert", "write_cert", "done"}
          /\ "cert" \in unsaved'[h] => gpc'[h] = "done"
    BY <1>1 DEF StoreInv, PairInv, Store!StoreTypeOK
  <2> QED
    BY <1>1, <2>2, <2>3, <2>4 DEF StoreInv, PairInv, NoPair, Store!NoPair
<1>6. LatestInv'
  <2>1. \A h \in alone' : gpc'[h] # "idle"
    BY <1>1, <1>3 DEF StoreInv, LatestInv, Store!StoreTypeOK
  <2>2. ASSUME g \in alone', NEW h \in Generators, Store!Generating(h)', h # g PROVE FALSE
    <3>1. Store!Generating(h)
      BY <1>1, <2>2 DEF Store!Generating, Store!StoreTypeOK
    <3>2. g \in alone
      BY <1>3, <2>2, <3>1
    <3> QED
      BY <1>1, <3>2 DEF StoreInv, LatestInv
  <2>3. gpc'[g] = "fopen_key"
    BY <1>1 DEF Store!StoreTypeOK
  <2> QED
    BY <1>1, <2>1, <2>2, <2>3 DEF LatestInv
<1>7. CalmInv'
  <2> SUFFICES ASSUME NEW s \in Servers, calm'[s] # NoPair
               PROVE  lpc'[s] \in {"cert", "key", "loaded"} /\ ~Store!Loading(s)'
    BY DEF CalmInv, NoPair, Store!NoPair
  <2>1. ~Store!Loading(s) /\ calm[s] # NoPair
    BY <1>1
  <2> QED
    BY <1>1, <2>1 DEF StoreInv, CalmInv, Store!Loading
<1> QED
  BY <1>4, <1>5, <1>6, <1>7 DEF StoreInv

(* A generation at work is the latest one, or the latest is not alone;     *)
(* nobody loads in a calm beside it.                                       *)
LEMMA NoCalmBeside ==
  ASSUME StoreInv, NEW g \in Generators, Store!Generating(g)
  PROVE  /\ latest \in alone => g = latest
         /\ \A s \in Servers : Store!Loading(s) => calm[s] = NoPair
PROOF
<1>1. latest \in alone => g = latest
  BY DEF StoreInv, LatestInv
<1>2. ASSUME NEW s \in Servers, Store!Loading(s), calm[s] # NoPair PROVE FALSE
  BY <1>1, <1>2 DEF StoreInv, CalmInv, Store!Settled, Store!Issued, Store!Generating
<1> QED
  BY <1>1, <1>2

(* What the four steps that write a file do to the two files.              *)
LEMMA WritingEffect ==
  ASSUME StoreInv, Store!StoreTypeOK, NEW g \in Generators,
         Store!FopenKey(g) \/ Store!WriteKey(g) \/ Store!FopenCert(g) \/ Store!WriteCert(g)
  PROVE  /\ Store!Generating(g)
         /\ UNCHANGED <<pkey, x509, lpc, cert, key, latest, alone, calm, dead, killed>>
         /\ \/ /\ gpc[g] = "fopen_key" /\ gpc' = [gpc EXCEPT ![g] = "write_key"]
               /\ key_file' = Store!Torn /\ UNCHANGED <<cert_file, unsaved>>
            \/ /\ gpc[g] = "write_key" /\ gpc' = [gpc EXCEPT ![g] = "fopen_cert"]
               /\ \/ pkey[g] = g /\ key_file' = g /\ unsaved' = unsaved
                  \/ /\ key_file' \in {key_file, Store!Torn}
                     /\ unsaved' = [unsaved EXCEPT ![g] = @ \cup {"key"}]
               /\ cert_file' = cert_file
            \/ /\ gpc[g] = "fopen_cert" /\ gpc' = [gpc EXCEPT ![g] = "write_cert"]
               /\ cert_file' = Store!Torn /\ UNCHANGED <<key_file, unsaved>>
            \/ /\ gpc[g] = "write_cert" /\ gpc' = [gpc EXCEPT ![g] = "done"]
               /\ \/ pkey[g] = g /\ x509[g] = g /\ cert_file' = g /\ unsaved' = unsaved
                  \/ /\ cert_file' \in {cert_file, Store!Torn}
                     /\ unsaved' = [unsaved EXCEPT ![g] = @ \cup {"cert"}]
               /\ key_file' = key_file
PROOF
<1>1. pkey[g] \in {g, NoPair} /\ x509[g] \in {pkey[g], NoPair}
  BY DEF StoreInv, PairInv
<1> QED
  BY <1>1, Names DEF Store!FopenKey, Store!WriteKey, Store!FopenCert, Store!WriteCert, Store!GGoto,
     Store!Generating, Store!loadVars, Store!genHistory, Store!signals, Store!WritePem,
     NoPair

(* The four steps that write a file.                                       *)
LEMMA WritingKeeps ==
  ASSUME StoreInv, Store!StoreTypeOK, NEW g \in Generators,
         Store!FopenKey(g) \/ Store!WriteKey(g) \/ Store!FopenCert(g) \/ Store!WriteCert(g)
  PROVE  StoreInv' /\ Store!StoreTypeOK'
PROOF
<1> USE Names
<1>1. /\ Store!Generating(g)
      /\ UNCHANGED <<pkey, x509, lpc, cert, key, latest, alone, calm, dead, killed>>
  BY WritingEffect
<1>2. \/ /\ gpc[g] = "fopen_key" /\ gpc' = [gpc EXCEPT ![g] = "write_key"]
         /\ key_file' = Store!Torn /\ UNCHANGED <<cert_file, unsaved>>
      \/ /\ gpc[g] = "write_key" /\ gpc' = [gpc EXCEPT ![g] = "fopen_cert"]
         /\ \/ pkey[g] = g /\ key_file' = g /\ unsaved' = unsaved
            \/ /\ key_file' \in {key_file, Store!Torn}
               /\ unsaved' = [unsaved EXCEPT ![g] = @ \cup {"key"}]
         /\ cert_file' = cert_file
      \/ /\ gpc[g] = "fopen_cert" /\ gpc' = [gpc EXCEPT ![g] = "write_cert"]
         /\ cert_file' = Store!Torn /\ UNCHANGED <<key_file, unsaved>>
      \/ /\ gpc[g] = "write_cert" /\ gpc' = [gpc EXCEPT ![g] = "done"]
         /\ \/ pkey[g] = g /\ x509[g] = g /\ cert_file' = g /\ unsaved' = unsaved
            \/ /\ cert_file' \in {cert_file, Store!Torn}
               /\ unsaved' = [unsaved EXCEPT ![g] = @ \cup {"cert"}]
         /\ key_file' = key_file
  BY WritingEffect
<1>3. \A h \in Generators : h # g => gpc'[h] = gpc[h] /\ unsaved'[h] = unsaved[h]
  BY <1>2 DEF Store!StoreTypeOK
<1>4. /\ "key" \in unsaved[g] => gpc[g] \in {"fopen_cert", "write_cert", "done"}
      /\ "cert" \in unsaved[g] => gpc[g] = "done"
  BY DEF StoreInv, PairInv
<1>5. Store!StoreTypeOK'
  <2>1. key_file' \in Generators \cup {Store!Absent, Store!Torn}
        /\ cert_file' \in Generators \cup {Store!Absent, Store!Torn}
    BY <1>2 DEF Store!StoreTypeOK
  <2>2. gpc' \in [Generators -> Store!GeneratorSteps]
    BY <1>2 DEF Store!StoreTypeOK, Store!GeneratorSteps
  <2>3. unsaved' \in [Generators -> SUBSET {"key", "cert"}]
    BY <1>2 DEF Store!StoreTypeOK
  <2> QED
    BY <1>1, <2>1, <2>2, <2>3 DEF Store!StoreTypeOK
<1>6. PairInv'
  <2>1. \A h : Made(h) => Made(h)'
    BY <1>1, <1>2, <1>3 DEF Made
  <2>2. \A h : KeySaved(h) => KeySaved(h)'
    <3>1. KeySaved(g) => KeySaved(g)'
      BY <1>2 DEF KeySaved, Store!StoreTypeOK
    <3> QED
      BY <1>3, <3>1 DEF KeySaved
  <2>3. cert_file' \in Generators => Made(cert_file)'
    <3>1. CASE cert_file' \in {cert_file, Store!Torn}
      BY <2>1, <3>1 DEF StoreInv, PairInv
    <3>2. CASE /\ gpc[g] = "write_cert" /\ gpc' = [gpc EXCEPT ![g] = "done"]
               /\ pkey[g] = g /\ x509[g] = g /\ cert_file' = g /\ unsaved' = unsaved
      BY <1>1, <1>4, <3>2 DEF Made, Store!StoreTypeOK
    <3> QED
      BY <1>2, <3>1, <3>2
  <2>4. key_file' \in Generators => KeySaved(key_file)'
    <3>1. CASE key_file' \in {key_file, Store!Torn}
      BY <2>2, <3>1 DEF StoreInv, PairInv
    <3>2. CASE /\ gpc[g] = "write_key" /\ gpc' = [gpc EXCEPT ![g] = "fopen_cert"]
               /\ key_file' = g /\ unsaved' = unsaved
      BY <1>4, <3>2 DEF KeySaved, Store!StoreTypeOK
    <3> QED
      BY <1>2, <3>1, <3>2
  <2>5. \A h \in Generators :
          /\ "key" \in unsaved'[h] => gpc'[h] \in {"fopen_cert", "write_cert", "done"}
          /\ "cert" \in unsaved'[h] => gpc'[h] = "done"
    <3>1. /\ "key" \in unsaved'[g] => gpc'[g] \in {"fopen_cert", "write_cert", "done"}
          /\ "cert" \in unsaved'[g] => gpc'[g] = "done"
      BY <1>2, <1>4 DEF Store!StoreTypeOK
    <3> QED
      BY <1>3, <3>1 DEF StoreInv, PairInv
  <2>6. \A h \in Generators : pkey'[h] \in {h, NoPair} /\ x509'[h] \in {pkey'[h], NoPair}
    BY <1>1 DEF StoreInv, PairInv
  <2>7. \A s \in Servers : /\ cert'[s] # NoPair => Made(cert[s])'
                           /\ lpc'[s] \in {"key", "loaded"} => cert'[s] # NoPair
                           /\ lpc'[s] = "loaded" => key'[s] = cert'[s] /\ KeySaved(key[s])'
    <3>1. \A s \in Servers : /\ cert[s] # NoPair => Made(cert[s])
                             /\ lpc[s] = "loaded" => key[s] = cert[s] /\ KeySaved(key[s])
      BY DEF StoreInv, PairInv
    <3>2. \A s \in Servers : /\ Made(cert[s]) => Made(cert[s])'
                             /\ KeySaved(key[s]) => KeySaved(key[s])'
      BY <1>1, <1>3, <2>1, <2>2 DEF Made, KeySaved
    <3> QED
      BY <1>1, <3>1, <3>2 DEF StoreInv, PairInv
  <2> QED
    BY <2>3, <2>4, <2>5, <2>6, <2>7 DEF PairInv, NoPair, Store!NoPair
<1>7. LatestInv'
  <2>1. \A h \in Generators : gpc'[h] = "idle" => gpc[h] = "idle"
    BY <1>2 DEF Store!StoreTypeOK
  <2>2. \A h \in alone' : gpc'[h] # "idle"
    BY <1>1, <2>1 DEF StoreInv, LatestInv, Store!StoreTypeOK
  <2>3. \A h \in Generators : Store!Generating(h)' => Store!Generating(h)
    BY <1>1, <1>2 DEF Store!Generating, Store!StoreTypeOK
  <2>4. ASSUME latest \in alone
        PROVE  /\ \A h \in Generators : Store!Generating(h)' => h = latest
               /\ gpc'[latest] = "write_key" => key_file' = Store!Torn
               /\ gpc'[latest] \in {"fopen_cert", "write_cert", "done"} =>
                    key_file' = KeyLeft(latest)'
               /\ gpc'[latest] = "write_cert" => cert_file' = Store!Torn
               /\ gpc'[latest] = "done" => cert_file' = CertLeft(latest)'
    <3>1. g = latest
      BY <1>1, <2>4, NoCalmBeside
    <3>2. /\ gpc[g] = "write_key" => key_file = Store!Torn
          /\ gpc[g] \in {"fopen_cert", "write_cert"} => key_file = KeyLeft(g)
          /\ gpc[g] = "write_cert" => cert_file = Store!Torn
      BY <2>4, <3>1 DEF StoreInv, LatestInv
    <3>3. \A h \in Generators : Store!Generating(h)' => h = latest
      BY <2>3, <2>4 DEF StoreInv, LatestInv
    <3>4. CASE gpc[g] = "fopen_key"
      BY <1>1, <1>2, <3>1, <3>3, <3>4 DEF Store!StoreTypeOK
    <3>5. CASE gpc[g] = "write_key"
      <4>1. gpc'[g] = "fopen_cert"
        BY <1>2, <3>5 DEF Store!StoreTypeOK
      <4>2. key_file' = KeyLeft(g)'
        BY <1>1, <1>2, <1>4, <3>2, <3>5 DEF KeyLeft, Store!StoreTypeOK
      <4> QED
        BY <1>1, <3>1, <3>3, <4>1, <4>2 DEF KeyLeft
    <3>6. CASE gpc[g] = "fopen_cert"
      <4>1. gpc'[g] = "write_cert" /\ cert_file' = Store!Torn /\ UNCHANGED <<key_file, unsaved>>
        BY <1>2, <3>6 DEF Store!StoreTypeOK
      <4> QED
        BY <1>1, <3>1, <3>2, <3>3, <3>6, <4>1 DEF KeyLeft
    <3>7. CASE gpc[g] = "write_cert"
      <4>1. /\ gpc'[g] = "done" /\ key_file' = key_file
            /\ "key" \in unsaved'[g] <=> "key" \in unsaved[g]
        BY <1>2, <3>7 DEF Store!StoreTypeOK
      <4>2. cert_file' = CertLeft(g)'
        BY <1>1, <1>2, <1>4, <3>2, <3>7 DEF CertLeft, Store!StoreTypeOK
      <4>3. key_file' = KeyLeft(g)'
        BY <1>1, <3>2, <3>7, <4>1 DEF KeyLeft
      <4> QED
        BY <1>1, <3>1, <3>3, <4>1, <4>2, <4>3 DEF KeyLeft, CertLeft
    <3> QED
      BY <1>2, <3>4, <3>5, <3>6, <3>7
  <2> QED
    BY <1>1, <2>2, <2>4 DEF LatestInv, KeyLeft, CertLeft
<1>8. CalmInv'
  <2> SUFFICES ASSUME NEW s \in Servers, calm'[s] # NoPair
               PROVE  lpc'[s] \in {"cert", "key", "loaded"} /\ ~Store!Loading(s)'
    BY DEF CalmInv, NoPair, Store!NoPair
  <2>1. ~Store!Loading(s)
    BY <1>1, NoCalmBeside
  <2> QED
    BY <1>1, <2>1 DEF StoreInv, CalmInv, Store!Loading
<1> QED
  BY <1>5, <1>6, <1>7, <1>8 DEF StoreInv

LEMMA StartKeeps ==
  ASSUME StoreInv, Store!StoreTypeOK, NEW s \in Servers, Store!StartServer(s)
  PROVE  StoreInv' /\ Store!StoreTypeOK'
PROOF
<1>1. /\ lpc[s] = "idle" /\ s \notin dead /\ lpc' = [lpc EXCEPT ![s] = "cert"]
      /\ UNCHANGED <<gpc, pkey, x509, unsaved, key_file, cert_file, cert, key, dead, killed>>
      /\ UNCHANGED <<latest, alone>>
  BY DEF Store!StartServer, Store!LGoto, Store!genVars, Store!fileVars, Store!signals
<1>2. PICK p \in Generators \cup {NoPair} :
        calm' = [calm EXCEPT ![s] = p] /\ (p # NoPair => p = latest /\ Store!Settled(latest))
  <2>1. CASE \E g \in Generators : Store!Settled(g)
    <3>1. Store!Settled(latest) /\ latest \in Generators \cup {NoPair}
      BY <2>1 DEF Store!Settled, Store!StoreTypeOK, NoPair
    <3> QED
      BY <2>1, <3>1 DEF Store!StartServer
  <2>2. CASE ~\E g \in Generators : Store!Settled(g)
    BY <2>2 DEF Store!StartServer, NoPair
  <2> QED
    BY <2>1, <2>2
<1>3. Store!StoreTypeOK'
  BY <1>1, <1>2 DEF Store!StoreTypeOK, NoPair
<1>4. PairInv' /\ LatestInv'
  <2>1. PairInv'
    BY <1>1 DEF StoreInv, PairInv, Made, KeySaved, NoPair, Store!NoPair, Store!StoreTypeOK
  <2>2. LatestInv'
    BY <1>1 DEF StoreInv, LatestInv, Store!Generating, KeyLeft, CertLeft, Store!Torn
  <2> QED
    BY <2>1, <2>2
<1>5. CalmInv'
  <2>1. Store!Settled(latest)' <=> Store!Settled(latest)
    BY <1>1 DEF Store!Settled, Store!Issued
  <2>2. ASSUME NEW t \in Servers, t # s
        PROVE  lpc'[t] = lpc[t] /\ calm'[t] = calm[t] /\ (Store!Loading(t)' <=> Store!Loading(t))
    BY <1>1, <1>2, <2>2 DEF Store!Loading, Store!StoreTypeOK
  <2>3. lpc'[s] = "cert" /\ calm'[s] = p
    BY <1>1, <1>2 DEF Store!StoreTypeOK
  <2> QED
    BY <1>1, <1>2, <2>1, <2>2, <2>3 DEF StoreInv, CalmInv, NoPair, Store!NoPair
<1> QED
  BY <1>3, <1>4, <1>5 DEF StoreInv

LEMMA LoadCertKeeps ==
  ASSUME StoreInv, Store!StoreTypeOK, NEW s \in Servers, Store!LoadCert(s)
  PROVE  StoreInv' /\ Store!StoreTypeOK'
PROOF
<1> USE Names
<1>1. /\ lpc[s] = "cert" /\ s \notin dead
      /\ UNCHANGED <<gpc, pkey, x509, unsaved, key_file, cert_file, key, dead, killed>>
      /\ UNCHANGED <<latest, alone>>
  BY DEF Store!LoadCert, Store!LGoto, Store!genVars, Store!fileVars, Store!signals
<1>2. \/ /\ cert_file \in Generators /\ lpc' = [lpc EXCEPT ![s] = "key"]
         /\ cert' = [cert EXCEPT ![s] = cert_file] /\ calm' = calm
      \/ /\ lpc' = [lpc EXCEPT ![s] = "refused"] /\ cert' = cert
         /\ calm' = IF cert_file \in Generators THEN [calm EXCEPT ![s] = NoPair] ELSE calm
  BY DEF Store!LoadCert, Store!LoadFails, Store!LGoto, Store!Readable, Store!StoreTypeOK, NoPair
<1>3. Store!StoreTypeOK'
  BY <1>1, <1>2 DEF Store!StoreTypeOK, NoPair
<1>4. PairInv'
  <2>1. \A g : (Made(g)' <=> Made(g)) /\ (KeySaved(g)' <=> KeySaved(g))
    BY <1>1 DEF Made, KeySaved
  <2>2. cert_file \in Generators => Made(cert_file) /\ cert_file # NoPair
    BY DEF StoreInv, PairInv
  <2>3. \A t \in Servers : t # s => cert'[t] = cert[t] /\ lpc'[t] = lpc[t] /\ key'[t] = key[t]
    BY <1>1, <1>2 DEF Store!StoreTypeOK
  <2>4. /\ cert'[s] # NoPair => Made(cert'[s])
        /\ lpc'[s] \in {"key", "loaded"} => cert'[s] # NoPair
        /\ lpc'[s] # "loaded"
    BY <1>2, <2>2 DEF StoreInv, PairInv, Store!StoreTypeOK
  <2>5. \A t \in Servers : /\ cert'[t] # NoPair => Made(cert'[t])
                           /\ lpc'[t] \in {"key", "loaded"} => cert'[t] # NoPair
                           /\ lpc'[t] = "loaded" => key'[t] = cert'[t] /\ KeySaved(key'[t])
    BY <2>3, <2>4 DEF StoreInv, PairInv
  <2> QED
    BY <1>1, <2>1, <2>5 DEF StoreInv, PairInv, Made, KeySaved, NoPair, Store!NoPair
<1>5. LatestInv'
  BY <1>1 DEF StoreInv, LatestInv, Store!Generating, KeyLeft, CertLeft, Store!Torn
<1>6. CalmInv'
  <2>1. Store!Settled(latest)' <=> Store!Settled(latest)
    BY <1>1 DEF Store!Settled, Store!Issued
  <2>2. ASSUME NEW t \in Servers, t # s
        PROVE  /\ lpc'[t] = lpc[t] /\ cert'[t] = cert[t] /\ calm'[t] = calm[t]
               /\ Store!Loading(t)' <=> Store!Loading(t)
    BY <1>1, <1>2, <2>2 DEF Store!Loading, Store!StoreTypeOK
  <2>3. ASSUME calm'[s] # NoPair
        PROVE  /\ calm'[s] = latest /\ Store!Settled(latest)
               /\ lpc'[s] = "key" /\ cert'[s] = latest
    <3>1. calm[s] # NoPair /\ (calm' = calm \/ cert_file \notin Generators)
      BY <1>2, <2>3 DEF Store!StoreTypeOK
    <3>2. calm[s] = latest /\ Store!Settled(latest) /\ latest \in Generators
      BY <1>1, <3>1 DEF StoreInv, CalmInv, Store!Loading, Store!StoreTypeOK, NoPair
    <3>3. cert_file = latest
      BY <3>2 DEF StoreInv, LatestInv, Store!Settled, Store!Issued, CertLeft
    <3>4. /\ calm' = calm /\ lpc' = [lpc EXCEPT ![s] = "key"]
          /\ cert' = [cert EXCEPT ![s] = cert_file]
      <4>1. cert_file \in Generators
        BY <3>2, <3>3
      <4>2. calm'[s] # [calm EXCEPT ![s] = NoPair][s]
        BY <2>3 DEF Store!StoreTypeOK
      <4> QED
        BY <1>2, <4>1, <4>2
    <3> QED
      BY <3>2, <3>3, <3>4 DEF Store!StoreTypeOK
  <2> QED
    BY <1>1, <2>1, <2>2, <2>3 DEF StoreInv, CalmInv, NoPair, Store!NoPair
<1> QED
  BY <1>3, <1>4, <1>5, <1>6 DEF StoreInv

LEMMA LoadKeyKeeps ==
  ASSUME StoreInv, Store!StoreTypeOK, NEW s \in Servers, Store!LoadKey(s)
  PROVE  StoreInv' /\ Store!StoreTypeOK'
PROOF
<1> USE Names
<1>1. /\ lpc[s] = "key" /\ s \notin dead
      /\ UNCHANGED <<gpc, pkey, x509, unsaved, key_file, cert_file, cert, dead, killed>>
      /\ UNCHANGED <<latest, alone>>
  BY DEF Store!LoadKey, Store!LGoto, Store!genVars, Store!fileVars, Store!signals
<1> DEFINE usable == key_file \in Generators /\ key_file = cert[s]
<1>2. \/ /\ usable /\ calm' = calm
         /\ lpc' = [lpc EXCEPT ![s] = "loaded"] /\ key' = [key EXCEPT ![s] = key_file]
      \/ /\ lpc' = [lpc EXCEPT ![s] = "refused"] /\ key' = key
         /\ calm' = IF usable THEN [calm EXCEPT ![s] = NoPair] ELSE calm
  BY DEF Store!LoadKey, Store!LoadFails, Store!LGoto, Store!Usable, Store!Readable,
         Store!StoreTypeOK, NoPair
<1>3. Store!StoreTypeOK'
  BY <1>1, <1>2 DEF Store!StoreTypeOK, NoPair
<1>4. PairInv'
  <2>1. \A g : (Made(g)' <=> Made(g)) /\ (KeySaved(g)' <=> KeySaved(g))
    BY <1>1 DEF Made, KeySaved
  <2>2. \A t \in Servers : t # s => lpc'[t] = lpc[t] /\ key'[t] = key[t]
    BY <1>1, <1>2 DEF Store!StoreTypeOK
  <2>3. lpc'[s] = "loaded" => key'[s] = cert[s] /\ cert[s] # NoPair /\ KeySaved(key'[s])
    BY <1>2 DEF StoreInv, PairInv, Store!StoreTypeOK
  <2>4. lpc'[s] # "key"
    BY <1>2 DEF Store!StoreTypeOK
  <2>5. \A t \in Servers : /\ cert'[t] # NoPair => Made(cert'[t])
                           /\ lpc'[t] \in {"key", "loaded"} => cert'[t] # NoPair
                           /\ lpc'[t] = "loaded" => key'[t] = cert'[t] /\ KeySaved(key'[t])
    BY <1>1, <2>2, <2>3, <2>4 DEF StoreInv, PairInv
  <2> QED
    BY <1>1, <2>1, <2>5 DEF StoreInv, PairInv, Made, KeySaved, NoPair, Store!NoPair
<1>5. LatestInv'
  BY <1>1 DEF StoreInv, LatestInv, Store!Generating, KeyLeft, CertLeft, Store!Torn
<1>6. CalmInv'
  <2>1. Store!Settled(latest)' <=> Store!Settled(latest)
    BY <1>1 DEF Store!Settled, Store!Issued
  <2>2. ASSUME NEW t \in Servers, t # s
        PROVE  /\ lpc'[t] = lpc[t] /\ calm'[t] = calm[t]
               /\ Store!Loading(t)' <=> Store!Loading(t)
    BY <1>1, <1>2, <2>2 DEF Store!Loading, Store!StoreTypeOK
  <2>3. ASSUME calm'[s] # NoPair
        PROVE  lpc'[s] = "loaded" /\ ~Store!Loading(s)'
    <3>1. calm[s] # NoPair /\ (calm' = calm \/ ~usable)
      BY <1>2, <2>3 DEF Store!StoreTypeOK
    <3>2. /\ calm[s] = latest /\ Store!Settled(latest) /\ cert[s] = latest
          /\ latest \in Generators
      BY <1>1, <3>1 DEF StoreInv, CalmInv, Store!Loading, Store!StoreTypeOK, NoPair
    <3>3. key_file = latest
      BY <3>2 DEF StoreInv, LatestInv, Store!Settled, Store!Issued, KeyLeft
    <3>4. lpc' = [lpc EXCEPT ![s] = "loaded"]
      <4>1. usable
        BY <3>2, <3>3
      <4>2. calm'[s] # [calm EXCEPT ![s] = NoPair][s]
        BY <2>3 DEF Store!StoreTypeOK
      <4> QED
        BY <1>2, <4>1, <4>2
    <3> QED
      BY <3>4 DEF Store!StoreTypeOK, Store!Loading
  <2> QED
    BY <1>1, <2>1, <2>2, <2>3 DEF StoreInv, CalmInv, NoPair, Store!NoPair
<1> QED
  BY <1>3, <1>4, <1>5, <1>6 DEF StoreInv

---------------------------------------------------------------------------
(* TlsSession: what the steps of a server, a client and a signal can       *)
(* change of what the invariant speaks of                                  *)

\* A record put on the connection of one client leaves the other connections
\* alone; where the peer is no client, there is nowhere to put it.
LEMMA DownFrame ==
  ASSUME down \in [Clients -> Seq(DownRecords)], NEW p \in Clients \cup {NoOne},
         NEW q, p \in Clients => q \in Seq(DownRecords),
         down' = down \/ down' = [down EXCEPT ![p] = q]
  PROVE  /\ down' \in [Clients -> Seq(DownRecords)]
         /\ \A c \in Clients : down'[c] = down[c] \/ p = c
<1>1. CASE down' = down
  BY <1>1
<1>2. CASE p \in Clients /\ down' = [down EXCEPT ![p] = q]
  BY <1>2
<1>3. CASE p = NoOne /\ down' = [down EXCEPT ![p] = q]
  <2>1. NoOne \notin Clients
    BY NamesAssumption
  <2>2. \A c \in Clients : down'[c] = down[c]
    BY <1>3, <2>1
  <2>3. down' \in [Clients -> Seq(DownRecords)]
    BY <1>3, <2>1
  <2> QED
    BY <2>2, <2>3
<1> QED
  BY <1>1, <1>2, <1>3

LEMMA ServerFrame ==
  ASSUME Types, PeerInv, NEW s \in Servers, ServerStep(s)
  PROVE  /\ UNCHANGED <<cpc, answered, dead, killed>>
         /\ listener' \in Servers \cup {NoOne} /\ queue' \in Seq(Clients)
         /\ spc' \in [Servers -> ServerSteps]
         /\ peer' \in [Servers -> Clients \cup {NoOne}]
         /\ down' \in [Clients -> Seq(DownRecords)]
         /\ \A t \in Servers : spc[t] \notin Unserved => spc'[t] \notin Unserved
         /\ \A t \in Servers : peer[t] # NoOne => peer'[t] = peer[t]
         /\ \A t \in Servers : peer'[t] # peer[t] => t = s /\ spc'[t] \notin Unserved
         /\ \A c \in Clients : down'[c] = down[c] \/ peer[s] = c
PROOF
<1> USE DEF ServerStep, SGoto, ServerSteps, Unserved, Types, ServiceTypeOK, stack, server, client
<1>1. CASE Bind(s)
  BY <1>1 DEF Bind
<1>2. CASE Listen(s)
  BY <1>2 DEF Listen
<1>3. CASE Accept(s)
  <2>1. /\ spc[s] = "accept" /\ spc' = [spc EXCEPT ![s] = "client_hello"] /\ queue # <<>>
        /\ peer' = [peer EXCEPT ![s] = Head(queue)] /\ queue' = Tail(queue)
        /\ UNCHANGED <<listener, down, cpc, answered, dead, killed>>
    BY <1>3 DEF Accept
  <2>2. PICK c \in Clients : c = Head(queue)
    BY <2>1
  <2>3. queue' \in Seq(Clients)
    BY <2>1
  <2>4. peer[s] = NoOne
    BY <2>1 DEF PeerInv
  <2> QED
    BY <2>1, <2>2, <2>3, <2>4
<1>4. CASE ServerFlight(s)
  <2>1. /\ spc[s] = "client_hello" /\ spc' = [spc EXCEPT ![s] = "client_finished"]
        /\ peer[s] # NoOne
        /\ UNCHANGED <<listener, queue, peer, cpc, answered, dead, killed>>
        /\ \/ down' = down
           \/ down' = [down EXCEPT ![peer[s]] = Append(@, "server_flight")]
    BY <1>4 DEF ServerFlight, Reads, SendDown
  <2>2. down' \in [Clients -> Seq(DownRecords)]
        /\ \A c \in Clients : down'[c] = down[c] \/ peer[s] = c
    <3>1. "server_flight" \in DownRecords /\ peer[s] \in Clients \cup {NoOne}
      BY DEF DownRecords
    <3>2. down \in [Clients -> Seq(DownRecords)]
      OBVIOUS
    <3>3. PICK q : q = Append(down[peer[s]], "server_flight")
      OBVIOUS
    <3>4. peer[s] \in Clients => q \in Seq(DownRecords)
      BY <3>1, <3>2, <3>3
    <3>5. down' = down \/ down' = [down EXCEPT ![peer[s]] = q]
      BY <2>1, <3>3
    <3> HIDE DEF Types
    <3> QED
      BY <3>1, <3>2, <3>4, <3>5, DownFrame
  <2> QED
    BY <2>1, <2>2
<1>5. CASE Established(s)
  BY <1>5 DEF Established
<1>6. CASE ReadRequest(s)
  BY <1>6 DEF ReadRequest
<1>7. CASE ReadFails(s)
  BY <1>7 DEF ReadFails
<1>8. CASE Respond(s)
  <2>1. /\ spc[s] = "respond" /\ spc' = [spc EXCEPT ![s] = "shutdown"]
        /\ UNCHANGED <<listener, queue, peer, cpc, answered, dead, killed>>
        /\ \/ down' = down
           \/ down' = [down EXCEPT ![peer[s]] = Append(@, "response")]
    BY <1>8 DEF Respond, SendDown
  <2>2. down' \in [Clients -> Seq(DownRecords)]
        /\ \A c \in Clients : down'[c] = down[c] \/ peer[s] = c
    <3>1. "response" \in DownRecords /\ peer[s] \in Clients \cup {NoOne}
      BY DEF DownRecords
    <3>2. down \in [Clients -> Seq(DownRecords)]
      OBVIOUS
    <3>3. PICK q : q = Append(down[peer[s]], "response")
      OBVIOUS
    <3>4. peer[s] \in Clients => q \in Seq(DownRecords)
      BY <3>1, <3>2, <3>3
    <3>5. down' = down \/ down' = [down EXCEPT ![peer[s]] = q]
      BY <2>1, <3>3
    <3> HIDE DEF Types
    <3> QED
      BY <3>1, <3>2, <3>4, <3>5, DownFrame
  <2> QED
    BY <2>1, <2>2
<1>9. CASE Shutdown(s)
  <2>1. /\ spc[s] = "shutdown" /\ spc' = [spc EXCEPT ![s] = "close"]
        /\ UNCHANGED <<listener, queue, peer, cpc, answered, dead, killed>>
        /\ \/ down' = down
           \/ down' = [down EXCEPT ![peer[s]] = Append(@, "close_notify")]
    BY <1>9 DEF Shutdown
  <2>2. down' \in [Clients -> Seq(DownRecords)]
        /\ \A c \in Clients : down'[c] = down[c] \/ peer[s] = c
    <3>1. "close_notify" \in DownRecords /\ peer[s] \in Clients \cup {NoOne}
      BY DEF DownRecords
    <3>2. down \in [Clients -> Seq(DownRecords)]
      OBVIOUS
    <3>3. PICK q : q = Append(down[peer[s]], "close_notify")
      OBVIOUS
    <3>4. peer[s] \in Clients => q \in Seq(DownRecords)
      BY <3>1, <3>2, <3>3
    <3>5. down' = down \/ down' = [down EXCEPT ![peer[s]] = q]
      BY <2>1, <3>3
    <3> HIDE DEF Types
    <3> QED
      BY <3>1, <3>2, <3>4, <3>5, DownFrame
  <2> QED
    BY <2>1, <2>2
<1>10. CASE CloseListener(s)
  <2>1. /\ spc[s] = "close" /\ spc' = [spc EXCEPT ![s] = "exited"]
        /\ UNCHANGED <<down, peer, cpc, answered, dead, killed>>
        /\ listener' \in {listener, NoOne} /\ (queue' = queue \/ queue' = <<>>)
    BY <1>10 DEF CloseListener, StopListening
  <2>2. queue' \in Seq(Clients)
    <3>1. <<>> \in Seq(Clients) /\ queue \in Seq(Clients)
      OBVIOUS
    <3> QED
      BY <2>1, <3>1
  <2> QED
    BY <2>1, <2>2
<1> QED
  BY <1>1, <1>2, <1>3, <1>4, <1>5, <1>6, <1>7, <1>8, <1>9, <1>10

Late  == {"write", "read", "shutdown"}

(* A client completes its handshake, gets its response, or does neither.   *)
Completes(c) ==
  /\ cpc[c] = "server_flight" /\ cpc' = [cpc EXCEPT ![c] = "write"] /\ down[c] # <<>>
  /\ shown' = [shown EXCEPT ![c] = cert[Host(c)]] /\ answered' = answered

GetsResponse(c) ==
  /\ cpc[c] = "read" /\ cpc' = [cpc EXCEPT ![c] = "shutdown"]
  /\ answered' = answered \cup {c} /\ shown' = shown

GoesOn(c) ==
  /\ \E to \in ClientSteps : /\ cpc' = [cpc EXCEPT ![c] = to]
                             /\ \/ cpc[c] \in Early /\ to \in Early
                                \/ cpc[c] \in Late /\ to \in Late
                                \/ to = "exited"
                             /\ cpc[c] = "shutdown" => to = "exited"
  /\ UNCHANGED <<shown, answered>>

LEMMA ClientFrame ==
  ASSUME Types, NEW c \in Clients, RunClient(c)
  PROVE  /\ UNCHANGED <<storeVars, listener, spc, peer, dead, killed>>
         /\ queue' \in Seq(Clients)
         /\ down' \in [Clients -> Seq(DownRecords)]
         /\ \A d \in Clients : down'[d] # <<>> => down[d] # <<>>
         /\ Completes(c) \/ GetsResponse(c) \/ GoesOn(c)
PROOF
<1> USE DEF RunClient, CGoto, ClientSteps, Early, Late, Types, server, client, stack
<1>1. CASE Shows(c)
  <2>1. /\ UNCHANGED <<storeVars, listener, queue, spc, peer, dead, killed>>
        /\ down[c] # <<>> /\ down' = [down EXCEPT ![c] = Tail(@)]
    BY <1>1 DEF Shows, Finish
  <2>2. Completes(c)
    BY <1>1 DEF Shows, Finish, Completes
  <2>3. Tail(down[c]) \in Seq(DownRecords)
    BY <2>1
  <2> QED
    BY <2>1, <2>2, <2>3
<1>2. CASE /\ \/ Connect(c) \/ ConnectFails(c) \/ Hello(c) \/ HandshakeFails(c)
              \/ WriteRequest(c) \/ ReadResponse(c) \/ NoResponse(c) \/ Leave(c)
           /\ UNCHANGED <<shown, storeVars>>
  <2>1. CASE Connect(c)
    <3>1. /\ UNCHANGED <<storeVars, shown, listener, down, spc, peer, answered, dead, killed>>
          /\ cpc[c] = "connect" /\ cpc' = [cpc EXCEPT ![c] = "hello"]
          /\ queue' = Append(queue, c)
      BY <1>2, <2>1 DEF Connect
    <3>2. queue' \in Seq(Clients)
      BY <3>1
    <3> QED
      BY <3>1, <3>2 DEF GoesOn
  <2>2. CASE ConnectFails(c)
    BY <1>2, <2>2 DEF ConnectFails, Fails, GoesOn
  <2>3. CASE Hello(c)
    BY <1>2, <2>3 DEF Hello, GoesOn
  <2>4. CASE HandshakeFails(c)
    BY <1>2, <2>4 DEF HandshakeFails, Fails, GoesOn
  <2>5. CASE WriteRequest(c)
    BY <1>2, <2>5 DEF WriteRequest, GoesOn
  <2>6. CASE ReadResponse(c)
    <3>1. /\ UNCHANGED <<storeVars, shown, listener, queue, spc, peer, dead, killed>>
          /\ down[c] # <<>> /\ down' = [down EXCEPT ![c] = Tail(@)]
      BY <1>2, <2>6 DEF ReadResponse
    <3>2. GetsResponse(c)
      BY <1>2, <2>6 DEF ReadResponse, GetsResponse
    <3>3. Tail(down[c]) \in Seq(DownRecords)
      BY <3>1
    <3> QED
      BY <3>1, <3>2, <3>3
  <2>7. CASE NoResponse(c)
    BY <1>2, <2>7 DEF NoResponse, GoesOn
  <2>8. CASE Leave(c)
    BY <1>2, <2>8 DEF Leave, GoesOn
  <2> QED
    BY <1>2, <2>1, <2>2, <2>3, <2>4, <2>5, <2>6, <2>7, <2>8
<1> QED
  BY <1>1, <1>2

LEMMA SignalFrame ==
  ASSUME Types, Signal
  PROVE  /\ UNCHANGED <<storeVars, shown, spc, peer, cpc, answered, down>>
         /\ listener' \in Servers \cup {NoOne} /\ queue' \in Seq(Clients)
         /\ dead \subseteq dead' /\ dead' \subseteq Servers \cup Clients \cup Generators
         /\ killed' \subseteq dead'
PROOF
<1> USE DEF Signal, Types, ServiceTypeOK, server, client, stack
<1>1. ASSUME NEW s, StopListening(s)
      PROVE  listener' \in Servers \cup {NoOne} /\ queue' \in Seq(Clients)
  <2>1. queue' = queue \/ queue' = <<>>
    BY <1>1 DEF StopListening
  <2>2. <<>> \in Seq(Clients) /\ queue \in Seq(Clients)
    OBVIOUS
  <2> QED
    BY <1>1, <2>1, <2>2 DEF StopListening
<1>2. ASSUME NEW s \in Servers, KillServer(s), UNCHANGED <<storeVars, shown>>
      PROVE  /\ UNCHANGED <<storeVars, shown, spc, peer, cpc, answered, down>>
             /\ listener' \in Servers \cup {NoOne} /\ queue' \in Seq(Clients)
             /\ dead' = dead \cup {s} /\ killed' = killed \cup {s}
  BY <1>1, <1>2 DEF KillServer
<1>3. ASSUME NEW c \in Clients, KillClient(c), UNCHANGED <<storeVars, shown>>
      PROVE  /\ UNCHANGED <<storeVars, shown, spc, peer, cpc, answered, down, listener, queue>>
             /\ dead' = dead \cup {c} /\ killed' = killed \cup {c}
  BY <1>3 DEF KillClient
<1>4. ASSUME BrokenPipe, UNCHANGED <<storeVars, shown>>
      PROVE  /\ UNCHANGED <<storeVars, shown, spc, peer, cpc, answered, down, killed>>
             /\ listener' \in Servers \cup {NoOne} /\ queue' \in Seq(Clients)
             /\ \E p \in Servers \cup Clients : dead' = dead \cup {p}
  <2>1. UNCHANGED <<storeVars, shown, spc, peer, cpc, answered, down, killed>>
    BY <1>4 DEF BrokenPipe
  <2>2. \/ \E s \in Servers \ dead : dead' = dead \cup {s} /\ StopListening(s)
        \/ \E c \in Clients \ dead : dead' = dead \cup {c} /\ UNCHANGED <<listener, queue>>
    BY <1>4 DEF BrokenPipe
  <2> QED
    BY <1>1, <2>1, <2>2
<1> QED
  BY <1>2, <1>3, <1>4

---------------------------------------------------------------------------
(* The invariant                                                           *)

(* A step of the store takes nothing from a server that has loaded.        *)
LEMMA StoreFrame ==
  ASSUME ServiceInv, Prepare \/ \E s \in Servers : Load(s)
  PROVE  /\ StoreInv' /\ Store!StoreTypeOK'
         /\ UNCHANGED <<sessionVars, shown>>
         /\ dead' \subseteq Servers \cup Clients \cup Generators /\ killed' \subseteq dead'
         /\ \A s \in Servers : lpc[s] = "loaded" => lpc'[s] = "loaded" /\ key'[s] = key[s]
PROOF
<1>1. StoreInv /\ Store!StoreTypeOK /\ killed \subseteq dead
      /\ dead \subseteq Servers \cup Clients \cup Generators
  BY DEF ServiceInv, Types, ServiceTypeOK
<1>2. UNCHANGED <<sessionVars, shown>>
  BY DEF Prepare, Load
<1>3. ASSUME NEW g \in Generators, Store!GeneratorStep(g)
      PROVE  StoreInv' /\ Store!StoreTypeOK' /\ UNCHANGED <<lpc, key, dead, killed>>
  <2>1. StoreInv' /\ Store!StoreTypeOK'
    BY <1>1, <1>3, GenerateKeeps, WritingKeeps DEF Store!GeneratorStep
  <2>2. UNCHANGED <<lpc, key, dead, killed>>
    BY <1>3 DEF Store!GeneratorStep, Store!Generate, Store!FopenKey, Store!WriteKey,
       Store!FopenCert, Store!WriteCert, Store!loadVars, Store!signals
  <2> QED
    BY <2>1, <2>2
<1>4. ASSUME NEW g \in Generators, Store!KillGenerator(g)
      PROVE  /\ StoreInv' /\ Store!StoreTypeOK' /\ UNCHANGED <<lpc, key>>
             /\ dead' = dead \cup {g} /\ killed' = killed \cup {g}
  <2>1. UNCHANGED storeVars /\ dead' = dead \cup {g} /\ killed' = killed \cup {g}
    BY <1>4 DEF Store!KillGenerator, Store!storeVars, Store!genVars, Store!fileVars,
       Store!loadVars, Store!genHistory, storeVars
  <2>2. StoreInv' /\ Store!StoreTypeOK'
    BY <1>1, <2>1, StoreKept
  <2> QED
    BY <2>1, <2>2 DEF storeVars
<1>5. ASSUME NEW s \in Servers, Store!StartServer(s) \/ Store!LoadCert(s) \/ Store!LoadKey(s)
      PROVE  /\ StoreInv' /\ Store!StoreTypeOK' /\ UNCHANGED <<dead, killed>>
             /\ lpc[s] # "loaded" /\ \E to : lpc' = [lpc EXCEPT ![s] = to]
             /\ key' = key \/ key' = [key EXCEPT ![s] = key_file]
  <2>1. StoreInv' /\ Store!StoreTypeOK'
    BY <1>1, <1>5, StartKeeps, LoadCertKeeps, LoadKeyKeeps
  <2>2. /\ UNCHANGED <<dead, killed>>
        /\ lpc[s] # "loaded" /\ \E to : lpc' = [lpc EXCEPT ![s] = to]
        /\ key' = key \/ key' = [key EXCEPT ![s] = key_file]
    BY <1>5 DEF Store!StartServer, Store!LoadCert, Store!LoadKey, Store!LGoto, Store!signals
  <2> QED
    BY <2>1, <2>2
<1>6. \/ \E g \in Generators : Store!GeneratorStep(g) \/ Store!KillGenerator(g)
      \/ \E s \in Servers : Store!StartServer(s) \/ Store!LoadCert(s) \/ Store!LoadKey(s)
  BY DEF Prepare, Load
<1>7. CASE \E g \in Generators : Store!GeneratorStep(g) \/ Store!KillGenerator(g)
  BY <1>1, <1>2, <1>3, <1>4, <1>7
<1>8. CASE \E s \in Servers : Store!StartServer(s) \/ Store!LoadCert(s) \/ Store!LoadKey(s)
  <2>1. PICK s \in Servers : Store!StartServer(s) \/ Store!LoadCert(s) \/ Store!LoadKey(s)
    BY <1>8
  <2>2. PICK to : lpc' = [lpc EXCEPT ![s] = to]
    BY <1>5, <2>1
  <2>3. \A t \in Servers : lpc[t] = "loaded" => lpc'[t] = "loaded" /\ key'[t] = key[t]
    BY <1>1, <1>5, <2>1, <2>2 DEF Store!StoreTypeOK
  <2> QED
    BY <1>1, <1>2, <1>5, <2>1, <2>3
<1> QED
  BY <1>6, <1>7, <1>8

LEMMA ServiceInvNext == ServiceInv /\ [ServiceNext]_serviceVars => ServiceInv'
PROOF
<1> SUFFICES ASSUME ServiceInv, [ServiceNext]_serviceVars PROVE ServiceInv'
  OBVIOUS
<1>1. Types /\ StoreInv /\ PeerInv /\ ShownInv /\ Store!StoreTypeOK
  BY DEF ServiceInv, Types, ServiceTypeOK
<1>2. CASE Prepare \/ \E s \in Servers : Load(s)
  <2>1. /\ StoreInv' /\ Store!StoreTypeOK'
        /\ UNCHANGED <<listener, queue, down, spc, peer, cpc, answered, shown>>
        /\ dead' \subseteq Servers \cup Clients \cup Generators /\ killed' \subseteq dead'
        /\ \A s \in Servers : lpc[s] = "loaded" => lpc'[s] = "loaded" /\ key'[s] = key[s]
    BY <1>2, StoreFrame DEF sessionVars, stack, server, client
  <2>2. Types'
    BY <1>1, <2>1 DEF Types, ServiceTypeOK, Store!NoPair
  <2>3. PeerInv'
    BY <1>1, <2>1 DEF PeerInv
  <2>4. ShownInv'
    <3>1. ASSUME NEW c \in Clients, shown[c] # NoPair
          PROVE  \E s \in Servers : peer'[s] = c /\ shown'[c] = key'[s]
      <4>1. PICK s \in Servers : peer[s] = c /\ shown[c] = key[s]
        BY <1>1, <3>1 DEF ShownInv
      <4>2. lpc[s] = "loaded"
        BY <1>1, <4>1, Names DEF PeerInv
      <4> QED
        BY <2>1, <4>1, <4>2
    <3> QED
      BY <1>1, <2>1, <3>1 DEF ShownInv, NoPair, Store!NoPair
  <2> QED
    BY <2>1, <2>2, <2>3, <2>4 DEF ServiceInv
<1>3. CASE \E s \in Servers : Serve(s)
  <2>1. PICK s \in Servers : Serve(s)
    BY <1>3
  <2>2. lpc[s] = "loaded" /\ ServerStep(s) /\ UNCHANGED <<storeVars, shown>>
    BY <2>1 DEF Serve
  <2>3. /\ UNCHANGED <<cpc, answered, dead, killed>>
        /\ listener' \in Servers \cup {NoOne} /\ queue' \in Seq(Clients)
        /\ spc' \in [Servers -> ServerSteps]
        /\ peer' \in [Servers -> Clients \cup {NoOne}]
        /\ down' \in [Clients -> Seq(DownRecords)]
        /\ \A t \in Servers : spc[t] \notin Unserved => spc'[t] \notin Unserved
        /\ \A t \in Servers : peer[t] # NoOne => peer'[t] = peer[t]
        /\ \A t \in Servers : peer'[t] # peer[t] => t = s /\ spc'[t] \notin Unserved
        /\ \A c \in Clients : down'[c] = down[c] \/ peer[s] = c
    BY <1>1, <2>2, ServerFrame
  <2>4. StoreInv' /\ Store!StoreTypeOK'
    BY <1>1, <2>2, <2>3, StoreKept
  <2>5. Types'
    BY <1>1, <2>2, <2>3, <2>4 DEF Types, ServiceTypeOK, Store!NoPair
  <2>6. UNCHANGED <<lpc, key>>
    BY <2>2 DEF storeVars
  <2>7. PeerInv'
    <3>1. \A t \in Servers : peer'[t] # NoOne => lpc'[t] = "loaded" /\ spc'[t] \notin Unserved
      BY <1>1, <2>2, <2>3, <2>6 DEF PeerInv
    <3>2. ASSUME NEW c \in Clients, down'[c] # <<>> PROVE \E t \in Servers : peer'[t] = c
      BY <1>1, <2>3, <3>2, Names, SMTT(60) DEF PeerInv
    <3> QED
      BY <3>1, <3>2 DEF PeerInv
  <2>8. ShownInv'
    <3>1. \A c \in Clients, t \in Servers : peer[t] = c => peer'[t] = c
      BY <2>3, Names
    <3>2. UNCHANGED <<cpc, answered, shown, key>>
      BY <2>2, <2>3, <2>6
    <3> QED
      BY <1>1, <3>1, <3>2 DEF ShownInv, NoPair, Store!NoPair
  <2> QED
    BY <2>4, <2>5, <2>7, <2>8 DEF ServiceInv
<1>4. CASE \E c \in Clients : RunClient(c)
  <2>1. PICK c \in Clients : RunClient(c)
    BY <1>4
  <2>2. /\ UNCHANGED <<storeVars, listener, spc, peer, dead, killed>>
        /\ queue' \in Seq(Clients)
        /\ down' \in [Clients -> Seq(DownRecords)]
        /\ \A d \in Clients : down'[d] # <<>> => down[d] # <<>>
        /\ Completes(c) \/ GetsResponse(c) \/ GoesOn(c)
    BY <1>1, <2>1, ClientFrame
  <2>3. StoreInv' /\ Store!StoreTypeOK'
    BY <1>1, <2>2, StoreKept
  <2>4. UNCHANGED <<lpc, key, cert>>
    BY <2>2 DEF storeVars
  <2>5. PeerInv'
    BY <1>1, <2>2, <2>4 DEF PeerInv
  <2>6. CASE Completes(c)
    <3>1. Host(c) \in Servers /\ peer[Host(c)] = c
      BY <1>1, <2>6 DEF Completes, PeerInv, Host
    <3>2. lpc[Host(c)] = "loaded"
      BY <1>1, <3>1, Names DEF PeerInv
    <3>3. /\ cert[Host(c)] \in Generators /\ cert[Host(c)] # NoPair
          /\ cert[Host(c)] = key[Host(c)]
      BY <1>1, <3>1, <3>2 DEF StoreInv, PairInv, Made
    <3>4. /\ cpc' = [cpc EXCEPT ![c] = "write"] /\ cpc[c] = "server_flight"
          /\ shown' = [shown EXCEPT ![c] = cert[Host(c)]] /\ answered' = answered
      BY <2>6 DEF Completes
    <3>5. Types'
      BY <1>1, <2>2, <2>3, <3>3, <3>4 DEF Types, ServiceTypeOK, ClientSteps, Store!NoPair
    <3>6. ShownInv'
      <4>1. \A d \in Clients : d # c => cpc'[d] = cpc[d] /\ shown'[d] = shown[d]
        BY <1>1, <3>4 DEF Types, ServiceTypeOK
      <4>2. cpc'[c] = "write" /\ shown'[c] = cert[Host(c)]
        BY <1>1, <3>4 DEF Types, ServiceTypeOK
      <4>3. c \notin answered
        BY <1>1, <3>4 DEF ShownInv
      <4> QED
        BY <1>1, <2>2, <2>4, <3>1, <3>3, <3>4, <4>1, <4>2, <4>3 DEF ShownInv, NoPair, Store!NoPair
    <3> QED
      BY <2>3, <2>5, <3>5, <3>6 DEF ServiceInv
  <2>7. CASE GetsResponse(c)
    <3>1. /\ cpc[c] = "read" /\ cpc' = [cpc EXCEPT ![c] = "shutdown"]
          /\ answered' = answered \cup {c} /\ shown' = shown
      BY <2>7 DEF GetsResponse
    <3>2. Types'
      BY <1>1, <2>2, <2>3, <3>1 DEF Types, ServiceTypeOK, ClientSteps, Store!NoPair
    <3>3. ShownInv'
      BY <1>1, <2>2, <2>4, <3>1 DEF ShownInv, NoPair, Store!NoPair, Types
    <3> QED
      BY <2>3, <2>5, <3>2, <3>3 DEF ServiceInv
  <2>8. CASE GoesOn(c)
    <3>1. PICK to \in ClientSteps :
            /\ cpc' = [cpc EXCEPT ![c] = to]
            /\ \/ cpc[c] \in Early /\ to \in Early
               \/ cpc[c] \in Late /\ to \in Late
               \/ to = "exited"
            /\ cpc[c] = "shutdown" => to = "exited"
      BY <2>8 DEF GoesOn
    <3>2. UNCHANGED <<shown, answered>>
      BY <2>8 DEF GoesOn
    <3>3. Types'
      BY <1>1, <2>2, <2>3, <3>1, <3>2 DEF Types, ServiceTypeOK, Store!NoPair
    <3>4. ShownInv'
      <4>1. \A d \in Clients : d # c => cpc'[d] = cpc[d]
        BY <1>1, <3>1 DEF Types
      <4>2. cpc'[c] = to
        BY <1>1, <3>1 DEF Types
      <4>3. to \in Early => shown[c] = NoPair
        BY <1>1, <3>1 DEF ShownInv, Early, Late
      <4>4. to \in Late => shown[c] # NoPair
        BY <1>1, <3>1 DEF ShownInv, Early, Late
      <4>5. c \in answered => to \in {"shutdown", "exited"}
        BY <1>1, <3>1 DEF ShownInv, Early, Late
      <4> QED
        BY <1>1, <2>2, <2>4, <3>2, <4>1, <4>2, <4>3, <4>4, <4>5
        DEF ShownInv, NoPair, Store!NoPair, Early, Late
    <3> QED
      BY <2>3, <2>5, <3>3, <3>4 DEF ServiceInv
  <2> QED
    BY <2>2, <2>6, <2>7, <2>8
<1>5. CASE Signal
  <2>1. /\ UNCHANGED <<storeVars, shown, spc, peer, cpc, answered, down>>
        /\ listener' \in Servers \cup {NoOne} /\ queue' \in Seq(Clients)
        /\ dead \subseteq dead' /\ dead' \subseteq Servers \cup Clients \cup Generators
        /\ killed' \subseteq dead'
    BY <1>1, <1>5, SignalFrame
  <2>2. StoreInv' /\ Store!StoreTypeOK'
    BY <1>1, <2>1, StoreKept
  <2>3. UNCHANGED <<lpc, key>>
    BY <2>1 DEF storeVars
  <2>4. Types' /\ PeerInv' /\ ShownInv'
    BY <1>1, <2>1, <2>2, <2>3 DEF Types, ServiceTypeOK, PeerInv, ShownInv, NoPair, Store!NoPair
  <2> QED
    BY <2>2, <2>4 DEF ServiceInv
<1>6. CASE UNCHANGED serviceVars
  <2>1. /\ UNCHANGED <<storeVars, shown, spc, peer, cpc, answered, down, listener, queue>>
        /\ UNCHANGED <<dead, killed>>
    BY <1>6 DEF serviceVars, vars, stack, server, client
  <2>2. StoreInv' /\ Store!StoreTypeOK'
    BY <1>1, <2>1, StoreKept
  <2>3. UNCHANGED <<lpc, key>>
    BY <2>1 DEF storeVars
  <2>4. Types' /\ PeerInv' /\ ShownInv'
    BY <1>1, <2>1, <2>2, <2>3 DEF Types, ServiceTypeOK, PeerInv, ShownInv, NoPair, Store!NoPair
  <2> QED
    BY <2>2, <2>4 DEF ServiceInv
<1> QED
  BY <1>2, <1>3, <1>4, <1>5, <1>6 DEF ServiceNext

---------------------------------------------------------------------------
(* The refinement                                                          *)

LEMMA InitImplements == ServiceInit => Promise!Init
  BY Names DEF ServiceInit, Init, Store!Init, Store!Issued, Promise!Init, Promise!Nobody,
     NoPair, Store!NoPair

(* The mapped state, named.                                                *)
Issued  == {g \in Generators : Store!Issued(g)}
Met     == [c \in Clients |-> IF shown[c] = NoPair THEN "nobody" ELSE shown[c]]

LEMMA StepImplements ==
  ASSUME ServiceInv, [ServiceNext]_serviceVars
  PROVE  [Promise!Next]_(Promise!service)
PROOF
<1> USE DEF NoPair, Store!NoPair
<1>1. Types /\ StoreInv /\ PeerInv /\ ShownInv /\ Store!StoreTypeOK
  BY DEF ServiceInv, Types, ServiceTypeOK
<1>2. ASSUME Issued' = Issued, Met' = Met, answered' = answered
      PROVE  UNCHANGED Promise!service
  BY <1>2, Zenon DEF Promise!service, Issued, Met
<1>3. ASSUME UNCHANGED <<gpc, pkey, x509, unsaved, shown, answered>>
      PROVE  UNCHANGED Promise!service
  <2>1. Issued' = Issued /\ Met' = Met /\ answered' = answered
    BY <1>3 DEF Issued, Store!Issued, Met
  <2> QED
    BY <1>2, <2>1
<1>4. ASSUME NEW g \in Generators, Store!GeneratorStep(g), UNCHANGED <<shown, answered>>
      PROVE  [Promise!Next]_(Promise!service)
  <2>1. Met' = Met /\ answered' = answered
    BY <1>4 DEF Met
  <2>2. CASE Store!Generate(g)
    <3>1. PICK k, x : /\ gpc[g] = "idle" /\ gpc' = [gpc EXCEPT ![g] = "fopen_key"]
                      /\ pkey' = [pkey EXCEPT ![g] = k] /\ x509' = [x509 EXCEPT ![g] = x]
      BY <2>2 DEF Store!Generate, Store!GGoto
    <3>2. Issued' = Issued
      BY <1>1, <2>2, <3>1 DEF Issued, Store!Issued, Store!StoreTypeOK, Store!Generate
    <3> QED
      BY <1>2, <2>1, <3>2
  <2>3. CASE Store!FopenKey(g) \/ Store!WriteKey(g) \/ Store!FopenCert(g)
    <3>1. PICK to : /\ gpc' = [gpc EXCEPT ![g] = to] /\ to # "done" /\ gpc[g] # "done"
                    /\ UNCHANGED <<pkey, x509>>
                    /\ unsaved' = unsaved \/ \E u : unsaved' = [unsaved EXCEPT ![g] = u]
      BY <2>3 DEF Store!FopenKey, Store!WriteKey, Store!FopenCert, Store!GGoto, Store!WritePem
    <3>2. \A h \in Generators : h # g => unsaved'[h] = unsaved[h]
      BY <1>1, <3>1 DEF Store!StoreTypeOK
    <3>3. Issued' = Issued
      BY <1>1, <3>1, <3>2 DEF Issued, Store!Issued, Store!StoreTypeOK
    <3> QED
      BY <1>2, <2>1, <3>3
  <2>4. CASE Store!WriteCert(g)
    <3>1. /\ gpc' = [gpc EXCEPT ![g] = "done"] /\ gpc[g] = "write_cert"
          /\ UNCHANGED <<pkey, x509>>
          /\ unsaved' = unsaved \/ \E u : unsaved' = [unsaved EXCEPT ![g] = u]
      BY <2>4 DEF Store!WriteCert, Store!GGoto, Store!WritePem
    <3>2. \A h \in Generators : h # g => unsaved'[h] = unsaved[h]
      BY <1>1, <3>1 DEF Store!StoreTypeOK
    <3>3. g \notin Issued /\ Issued' = IF Store!Issued(g)' THEN Issued \cup {g} ELSE Issued
      BY <1>1, <3>1, <3>2 DEF Issued, Store!Issued, Store!StoreTypeOK
    <3>4. CASE Store!Issued(g)'
      <4>1. Promise!Issue(g)
        BY <2>1, <3>3, <3>4, Zenon DEF Promise!Issue, Issued, Met
      <4> QED
        BY <4>1, Zenon DEF Promise!Next
    <3>5. CASE ~Store!Issued(g)'
      BY <1>2, <2>1, <3>3, <3>5
    <3> QED
      BY <3>4, <3>5
  <2> QED
    BY <1>4, <2>2, <2>3, <2>4 DEF Store!GeneratorStep
<1>5. CASE Prepare \/ \E s \in Servers : Load(s)
  <2>1. UNCHANGED <<shown, answered>>
    BY <1>5 DEF Prepare, Load, sessionVars
  <2>2. CASE \E g \in Generators : Store!GeneratorStep(g)
    BY <1>4, <2>1, <2>2
  <2>3. CASE ~\E g \in Generators : Store!GeneratorStep(g)
    <3>1. \/ \E g \in Generators : Store!KillGenerator(g)
          \/ \E s \in Servers : Store!StartServer(s) \/ Store!LoadCert(s) \/ Store!LoadKey(s)
      BY <1>5, <2>3 DEF Prepare, Load
    <3>2. UNCHANGED <<gpc, pkey, x509, unsaved>>
      BY <3>1 DEF Store!KillGenerator, Store!storeVars, Store!StartServer, Store!LoadCert,
         Store!LoadKey, Store!genVars
    <3> QED
      BY <1>3, <2>1, <3>2
  <2> QED
    BY <2>2, <2>3
<1>6. CASE \E s \in Servers : Serve(s)
  <2>1. PICK s \in Servers : ServerStep(s) /\ UNCHANGED <<storeVars, shown>>
    BY <1>6 DEF Serve
  <2>2. answered' = answered
    BY <1>1, <2>1, ServerFrame
  <2> QED
    BY <1>3, <2>1, <2>2 DEF storeVars
<1>7. CASE \E c \in Clients : RunClient(c)
  <2>1. PICK c \in Clients : RunClient(c)
    BY <1>7
  <2>2. UNCHANGED storeVars /\ (Completes(c) \/ GetsResponse(c) \/ GoesOn(c))
    BY <1>1, <2>1, ClientFrame
  <2>3. UNCHANGED <<gpc, pkey, x509, unsaved>> /\ Issued' = Issued
    BY <2>2 DEF storeVars, Issued, Store!Issued
  <2>4. CASE Completes(c)
    <3>1. Host(c) \in Servers /\ peer[Host(c)] = c
      BY <1>1, <2>4 DEF Completes, PeerInv, Host
    <3>2. lpc[Host(c)] = "loaded"
      BY <1>1, <3>1, Names DEF PeerInv
    <3>3. PICK p : p = cert[Host(c)]
      OBVIOUS
    <3>4. p \in Issued /\ p \in Generators /\ p # NoPair
      <4>1. Made(p) /\ KeySaved(p) /\ p # NoPair
        BY <1>1, <3>1, <3>2, <3>3 DEF StoreInv, PairInv
      <4>2. unsaved[p] = {}
        BY <1>1, <4>1 DEF Made, KeySaved, Store!StoreTypeOK
      <4> QED
        BY <4>1, <4>2 DEF Made, Issued, Store!Issued
    <3>5. shown[c] = NoPair /\ shown' = [shown EXCEPT ![c] = p] /\ answered' = answered
      BY <1>1, <2>4, <3>3 DEF Completes, ShownInv
    <3>6. Met[c] = "nobody" /\ Met' = [Met EXCEPT ![c] = p]
      BY <1>1, <3>4, <3>5 DEF Met, Types, ServiceTypeOK
    <3>7. Promise!Meet(c, p)
      BY <2>3, <3>4, <3>5, <3>6, Zenon DEF Promise!Meet, Promise!Nobody, Issued, Met
    <3> QED
      BY <3>4, <3>7, Zenon DEF Promise!Next
  <2>5. CASE GetsResponse(c)
    <3>1. /\ shown[c] # NoPair /\ c \notin answered
          /\ answered' = answered \cup {c} /\ shown' = shown
      BY <1>1, <2>5 DEF GetsResponse, ShownInv
    <3>2. shown[c] \in Generators
      BY <1>1, <3>1 DEF Types, ServiceTypeOK
    <3>3. Met[c] # "nobody" /\ Met' = Met
      BY <3>1, <3>2, Names DEF Met
    <3>4. Promise!Inform(c)
      BY <2>3, <3>1, <3>3, Zenon DEF Promise!Inform, Promise!Nobody, Issued, Met
    <3> QED
      BY <3>4, Zenon DEF Promise!Next
  <2>6. CASE GoesOn(c)
    BY <1>3, <2>3, <2>6 DEF GoesOn
  <2> QED
    BY <2>2, <2>4, <2>5, <2>6
<1>8. CASE Signal
  <2>1. UNCHANGED <<storeVars, shown, answered>>
    BY <1>1, <1>8, SignalFrame
  <2> QED
    BY <1>3, <2>1 DEF storeVars
<1>9. CASE UNCHANGED serviceVars
  BY <1>3, <1>9 DEF serviceVars, storeVars, vars
<1> QED
  BY <1>5, <1>6, <1>7, <1>8, <1>9 DEF ServiceNext

---------------------------------------------------------------------------
(* The theorems                                                            *)

LEMMA ServiceInvHolds == ServiceSpec => []ServiceInv
  BY ServiceInvInit, ServiceInvNext, PTL DEF ServiceSpec

(* Every variable of both parts stays in its domain.                       *)
THEOREM ServiceTypeCorrect == ServiceSpec => []ServiceTypeOK
PROOF
<1>1. ServiceInv => ServiceTypeOK
  BY DEF ServiceInv, Types
<1> QED
  BY <1>1, ServiceInvHolds, PTL

(* A server gets past the loading only with the certificate and the key of *)
(* one generation that wrote both whole.                                   *)
THEOREM LoadedPairsMatch == ServiceSpec => []LoadedPairMatches
PROOF
<1>1. ServiceInv => LoadedPairMatches
  <2> SUFFICES ASSUME ServiceInv, NEW s \in Servers, lpc[s] = "loaded"
               PROVE  key[s] = cert[s] /\ cert[s] \in Generators /\ Store!Issued(cert[s])
    BY DEF LoadedPairMatches, Store!LoadedPairMatches
  <2>1. key[s] = cert[s] /\ Made(cert[s]) /\ KeySaved(cert[s]) /\ Store!StoreTypeOK
    BY DEF ServiceInv, StoreInv, PairInv, Types, ServiceTypeOK
  <2>2. unsaved[cert[s]] = {}
    BY <2>1 DEF Made, KeySaved, Store!StoreTypeOK
  <2> QED
    BY <2>1, <2>2 DEF Made, Store!Issued
<1> QED
  BY <1>1, ServiceInvHolds, PTL

(* After a last generation that ran beside no other one each of the two    *)
(* files is complete and its own, or it had no such object or failed to    *)
(* write it.                                                               *)
THEOREM UndisturbedPairsInPlace == ServiceSpec => []UndisturbedPairInPlace
PROOF
<1>1. ServiceInv => UndisturbedPairInPlace
  BY Names DEF ServiceInv, StoreInv, LatestInv, UndisturbedPairInPlace,
     Store!UndisturbedPairInPlace,
     KeyLeft, CertLeft
<1> QED
  BY <1>1, ServiceInvHolds, PTL

(* A server that starts in a calm after such a generation, which failed    *)
(* nothing, is refused only by a load that fails by itself.                *)
THEOREM CalmServersLoad == ServiceSpec => []CalmServerLoads
PROOF
<1>1. ServiceInv => CalmServerLoads
  BY DEF ServiceInv, StoreInv, CalmInv, CalmServerLoads, Store!CalmServerLoads, NoPair
<1> QED
  BY <1>1, ServiceInvHolds, PTL

(* Every client is shown the certificate its server loaded.                *)
THEOREM ShownAreServers == ServiceSpec => []ShownIsServers
PROOF
<1>1. ServiceInv => ShownIsServers
  BY Names DEF ServiceInv, ShownInv, PeerInv, ShownIsServers, NoPair
<1> QED
  BY <1>1, ServiceInvHolds, PTL

(* The service implements OtaService, whose pairs are the generations and  *)
(* whose vehicles are the clients.                                         *)
THEOREM ServiceImplements == ServiceSpec => ImplementsService
PROOF
<1>1. ServiceSpec => Promise!Init
  BY InitImplements DEF ServiceSpec
<1>2. ServiceInv /\ [ServiceNext]_serviceVars => [Promise!Next]_(Promise!service)
  BY StepImplements
<1> QED
  BY <1>1, <1>2, ServiceInvHolds, PTL DEF ServiceSpec, ImplementsService, Promise!Spec

(***************************************************************************)
(* Part 3: the sessions of TlsService                                      *)
(***************************************************************************)

(* The death of a generation is none of the sessions' business.            *)
LEMMA KillGeneratorKeeps ==
  ASSUME TlsInv, NEW g \in Generators, Store!KillGenerator(g), UNCHANGED sessionVars
  PROVE  TlsInv'
<1>1. dead' = dead \cup {g} /\ killed' = killed \cup {g}
  BY DEF Store!KillGenerator
<1>2. /\ UNCHANGED <<listener, queue, up, down, upEnd, downEnd, reset, spc, bound, peer>>
      /\ UNCHANGED <<cpc, code, served, answered>>
  BY DEF sessionVars, stack, server, client
<1>3. g \notin Servers /\ g \notin Clients
  BY GeneratorsAssumption DEF Store!StoreConstants
<1>4. /\ \A s \in Servers : s \in dead' <=> s \in dead
      /\ \A c \in Clients : c \in dead' <=> c \in dead
  BY <1>1, <1>3
<1>5. SessionTypes'
  BY <1>1, <1>2 DEF TlsInv, SessionTypes
<1>6. ConnInv'
  BY <1>2, <1>4 DEF TlsInv, SessionTypes, ConnInv, Queued
<1>7. RecordInv'
  BY <1>2 DEF TlsInv, RecordInv, Holds
<1>8. WaitInv'
  BY <1>2, <1>4 DEF TlsInv, WaitInv, Queued
<1>9. QueueInv'
  BY <1>2, <1>4 DEF TlsInv, QueueInv, Queued, Open
<1>10. SessionInv'
  <2>1. ASSUME NEW s \in Servers, NEW c \in Clients, Alive(s, c)', peer'[s] = c
        PROVE  Session(s, c)
    BY <1>2, <1>4, <2>1 DEF TlsInv, SessionInv, Alive
  <2>2. \A s \in Servers, c \in Clients : Session(s, c)' <=> Session(s, c)
    BY <1>2 DEF Session, Open, Exchange, Left, Closed
  <2> QED
    BY <2>1, <2>2 DEF SessionInv
<1>11. ServersSurvive'
  BY <1>1, <1>2, <1>3 DEF TlsInv, ServersSurvive
<1> QED
  BY <1>5, <1>6, <1>7, <1>8, <1>9, <1>10, <1>11 DEF TlsInv

(* Any other step of the service is one of the sessions, or none of theirs.*)
LEMMA ServiceStep ==
  ASSUME [ServiceNext]_serviceVars
  PROVE  \/ [Next]_vars
         \/ \E g \in Generators : Store!KillGenerator(g) /\ UNCHANGED sessionVars
<1>1. UNCHANGED <<sessionVars, dead, killed>> => UNCHANGED vars
  BY DEF sessionVars, vars
<1>2. ASSUME Prepare
      PROVE  \/ UNCHANGED <<sessionVars, dead, killed>>
             \/ \E g \in Generators : Store!KillGenerator(g) /\ UNCHANGED sessionVars
  <2>1. ASSUME NEW g \in Generators, Store!GeneratorStep(g) PROVE UNCHANGED <<dead, killed>>
    BY <2>1 DEF Store!GeneratorStep, Store!Generate, Store!FopenKey, Store!WriteKey,
                Store!FopenCert, Store!WriteCert, Store!signals
  <2>2. ASSUME NEW s \in Servers, Store!StartServer(s) PROVE UNCHANGED <<dead, killed>>
    BY <2>2 DEF Store!StartServer, Store!signals
  <2> QED
    BY <1>2, <2>1, <2>2 DEF Prepare
<1>3. ASSUME NEW s \in Servers, Load(s) PROVE UNCHANGED <<sessionVars, dead, killed>>
  BY <1>3 DEF Load, Store!LoadCert, Store!LoadKey, Store!signals
<1>4. ASSUME NEW s \in Servers, Serve(s) PROVE Next
  BY <1>4 DEF Serve, Next
<1>5. ASSUME NEW c \in Clients, RunClient(c) PROVE Next
  BY <1>5 DEF RunClient, Shows, ClientStep, Next
<1>6. Signal => Next
  BY DEF Signal, Next
<1>7. UNCHANGED serviceVars => UNCHANGED vars
  BY DEF serviceVars
<1> QED
  BY <1>1, <1>2, <1>3, <1>4, <1>5, <1>6, <1>7 DEF ServiceNext

LEMMA SessionsKeepTheirInvariant == ServiceSpec => []TlsInv
<1>1. ServiceInit => TlsInv
  BY TlsInvInit DEF ServiceInit
<1>2. TlsInv /\ [ServiceNext]_serviceVars => TlsInv'
  BY ServiceStep, TlsInvNext, KillGeneratorKeeps
<1> QED
  BY <1>1, <1>2, PTL DEF ServiceSpec

(* Whatever pairs are generated, loaded, refused and shown: a client whose *)
(* connection a server accepted gets its response and exits with 0, unless *)
(* a signal ends one of the two.                                           *)
THEOREM ServedSessionsSucceed == ServiceSpec => []SessionsSucceed
<1>1. TlsInv => SessionsSucceed
  BY DEF TlsInv, SessionInv, Alive, Session, SessionsSucceed
<1> QED
  BY <1>1, SessionsKeepTheirInvariant, PTL

(* Both ends of the service's sessions agree about them.                   *)
THEOREM ServiceEndsAgree == ServiceSpec => []EndsAgree
<1>1. TlsInv => EndsAgree
  BY DEF TlsInv, ConnInv, RecordInv, EndsAgree
<1> QED
  BY <1>1, SessionsKeepTheirInvariant, PTL

(* A server whose pair was refused has returned before it listened, so no  *)
(* client waits for it: one that waits has a server, or can see the end.   *)
THEOREM ServiceWaitsHaveAnEnd == ServiceSpec => []NobodyWaitsForNoOne
<1>1. TlsInv => NobodyWaitsForNoOne
  BY DEF TlsInv, WaitInv, ConnInv, NobodyWaitsForNoOne
<1> QED
  BY <1>1, SessionsKeepTheirInvariant, PTL

(* SIGPIPE ends no server of the service whose client was not ended        *)
(* before, though a client now prints a certificate before it writes.      *)
THEOREM ServiceServersSurvive == ServiceSpec => []ServersSurvive
<1>1. TlsInv => ServersSurvive
  BY DEF TlsInv
<1> QED
  BY <1>1, SessionsKeepTheirInvariant, PTL
============================================================================
