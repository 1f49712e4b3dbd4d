--------------------------- MODULE SecOCProofs ---------------------------
(***************************************************************************)
(* Proofs of the safety properties of SecOC for every set of data, every   *)
(* counter width and start value, as long as transmissions and faults do   *)
(* not use a counter value twice under one key (LifetimeAssumption).       *)
(***************************************************************************)
EXTENDS SecOC, TLAPS

---------------------------------------------------------------------------
(* The counters.                                                           *)

\* The value of a counter after n increments.
Fresh(n) == IF Start + n < Mod THEN Start + n ELSE Start + n - Mod

LEMMA FreshIsCounter ==
  ASSUME NEW n \in 0 .. Mod - 1
  PROVE  Fresh(n) \in Counters
  BY CounterAssumption DEF Fresh, Counters

\* ++ takes the counter from n increments to n + 1.
LEMMA IncIsNext ==
  ASSUME NEW n \in 0 .. Mod - 1
  PROVE  Inc(Fresh(n)) = Fresh(n + 1)
  BY CounterAssumption DEF Fresh, Inc

\* Within one life of the key no counter value comes twice.
LEMMA FreshIsInjective ==
  ASSUME NEW m \in 0 .. Mod - 1, NEW n \in 0 .. Mod - 1, Fresh(m) = Fresh(n)
  PROVE  m = n
  BY CounterAssumption DEF Fresh

---------------------------------------------------------------------------
(* The inductive invariant.                                                *)

\* The counters count what was transmitted and what was accepted.
CountersCount ==
  /\ Len(sent) <= MaxSends
  /\ Len(accepted) <= MaxSends + faults
  /\ tx_counter = Fresh(Len(sent))
  /\ rx_counter = Fresh(Len(accepted))

SentIsNumbered == \A k \in 1 .. Len(sent) : sent[k].freshness = Fresh(k - 1)

\* Only the transmitter makes MACs.
Known(mac) ==
  mac = NoMac \/ \E i \in 1 .. Len(sent) : verify_secoc_mac(sent[i]) /\ sent[i].mac = mac

MacsAreSent ==
  /\ \A k \in 1 .. Len(sent) : Known(sent[k].mac)
  /\ \A j \in 1 .. Len(bus) : Known(bus[j].mac)

Inv == TypeOK /\ CountersCount /\ SentIsNumbered /\ MacsAreSent /\ AcceptedWasSent

LEMMA IncInCounters ==
  ASSUME NEW c \in Counters
  PROVE  Inc(c) \in Counters
  BY CounterAssumption DEF Counters, Inc

LEMMA TamperedIsPDU ==
  ASSUME NEW q \in PDUs, NEW d \in Data, NEW c \in Counters
  PROVE  [data |-> d, freshness |-> c, mac |-> q.mac] \in PDUs
  BY DEF PDUs

LEMMA TypeAtStart == Init => TypeOK
<1> SUFFICES ASSUME Init PROVE TypeOK
  OBVIOUS
<1>1. Start \in Counters
  BY CounterAssumption DEF Counters
<1>2. bus \in Seq(PDUs) /\ sent \in Seq(PDUs) /\ accepted \in Seq(Data)
  BY DEF Init
<1>3. blind \subseteq 1 .. Len(accepted) /\ replays \subseteq PDUs
  BY DEF Init
<1>4. faults \in 0 .. MaxFaults /\ losses \in Nat
  <2>1. faults = 0 /\ losses = 0
    BY DEF Init
  <2> QED
    BY <2>1, LifetimeAssumption
<1>5. silent \in BOOLEAN
  BY DEF Init
<1> QED
  BY <1>1, <1>2, <1>3, <1>4, <1>5 DEF Init, TypeOK

\* A PDU with a MAC or with what an array held in its place.
LEMMA TransmittedIsPDU ==
  ASSUME TypeOK, NEW d \in Data,
         NEW mac \in (Data \X Counters) \cup {NoMac} \cup {sent[i].mac : i \in DOMAIN sent}
  PROVE  [data |-> d, freshness |-> tx_counter, mac |-> mac] \in PDUs
<1>1. \A i \in DOMAIN sent : sent[i] \in PDUs
  BY DEF TypeOK
<1>2. mac \in (Data \X Counters) \cup {NoMac}
  BY <1>1 DEF PDUs
<1> QED
  BY <1>2 DEF PDUs, TypeOK

LEMMA FaultTypes ==
  ASSUME TypeOK, Fault
  PROVE  faults' \in 0 .. MaxFaults /\ faults' = faults + 1 /\ losses + 1 \in Nat
BY LifetimeAssumption DEF TypeOK, Fault

LEMMA TypeTransmit ==
  ASSUME TypeOK, NEW d \in Data,
         NEW mac \in (Data \X Counters) \cup {NoMac} \cup {sent[i].mac : i \in DOMAIN sent},
         Transmit(d, mac), losses' \in Nat, faults' \in 0 .. MaxFaults
  PROVE  TypeOK'
<1> DEFINE tx_pdu == [data |-> d, freshness |-> tx_counter, mac |-> mac]
<1>1. tx_pdu \in PDUs
  BY TransmittedIsPDU
<1>2. bus' = Append(bus, tx_pdu) /\ sent' = Append(sent, tx_pdu)
  BY DEF Transmit
<1> HIDE DEF tx_pdu
<1>3. bus' \in Seq(PDUs) /\ sent' \in Seq(PDUs)
  BY <1>1, <1>2 DEF TypeOK
<1>4. /\ UNCHANGED <<rx_counter, accepted, replays, silent, blind>>
      /\ tx_counter' \in Counters
  BY IncInCounters DEF Transmit, TypeOK
<1> QED
  BY <1>3, <1>4 DEF TypeOK

LEMMA AcceptTypes ==
  ASSUME TypeOK, NEW d \in Data, accepted' = Append(accepted, d)
  PROVE  /\ accepted' \in Seq(Data) /\ Len(accepted') = Len(accepted) + 1
         /\ Len(accepted) \in Nat /\ accepted'[Len(accepted) + 1] = d
         /\ \A k \in 1 .. Len(accepted) : accepted'[k] = accepted[k]
         /\ blind \subseteq 1 .. Len(accepted')
         /\ blind \cup {Len(accepted) + 1} \subseteq 1 .. Len(accepted')
<1>1. /\ accepted' \in Seq(Data) /\ Len(accepted') = Len(accepted) + 1
      /\ Len(accepted) \in Nat /\ accepted'[Len(accepted) + 1] = d
      /\ \A k \in 1 .. Len(accepted) : accepted'[k] = accepted[k]
  BY DEF TypeOK
<1>2. \A k \in blind : k \in 1 .. Len(accepted)
  BY DEF TypeOK
<1> QED
  BY <1>1, <1>2

LEMMA TypeStep == TypeOK /\ [Next]_vars => TypeOK'
<1> SUFFICES ASSUME TypeOK, [Next]_vars PROVE TypeOK'
  OBVIOUS
<1>1. ASSUME NEW d \in Data, Send(d) PROVE TypeOK'
  <2>1. calculate_secoc_mac(d, tx_counter) \in Data \X Counters
    BY DEF calculate_secoc_mac, TypeOK
  <2>2. losses' \in Nat /\ faults' \in 0 .. MaxFaults
    BY <1>1 DEF Send, TypeOK
  <2> QED
    BY <1>1, <2>1, <2>2, TypeTransmit DEF Send
<1>9. ASSUME NEW d \in Data, SendUnmade(d) PROVE TypeOK'
  <2>1. PICK mac \in {NoMac} \cup {sent[i].mac : i \in DOMAIN sent} : Transmit(d, mac)
    BY <1>9 DEF SendUnmade
  <2>2. losses' \in Nat /\ faults' \in 0 .. MaxFaults
    BY <1>9, FaultTypes DEF SendUnmade
  <2> QED
    BY <2>1, <2>2, TypeTransmit
<1> USE DEF TypeOK
<1>2. ASSUME bus # <<>> PROVE Head(bus) \in PDUs /\ Tail(bus) \in Seq(PDUs)
  BY <1>2
<1>3. CASE Accept
  <2>1. Head(bus).data \in Data
    BY <1>2, <1>3 DEF Accept, PDUs
  <2>2. accepted' \in Seq(Data) /\ blind' \subseteq 1 .. Len(accepted')
    BY <1>3, <2>1, AcceptTypes DEF Accept
  <2> QED
    BY <1>2, <1>3, <2>1, <2>2, IncInCounters DEF Accept
<1>10. CASE AcceptBlind
  <2>1. bus # <<>> /\ Head(bus).data \in Data
    BY <1>2, <1>10 DEF AcceptBlind, PDUs
  <2>2. accepted' \in Seq(Data) /\ blind' \subseteq 1 .. Len(accepted')
    BY <1>10, <2>1, AcceptTypes DEF AcceptBlind
  <2>3. rx_counter' \in Counters /\ bus' \in Seq(PDUs)
    BY <1>2, <1>10, <2>1, IncInCounters DEF AcceptBlind
  <2>4. losses' \in Nat /\ faults' \in 0 .. MaxFaults
    BY <1>10, FaultTypes DEF AcceptBlind
  <2> QED
    BY <1>10, <2>2, <2>3, <2>4 DEF AcceptBlind
<1>11. CASE RefuseBlind
  <2>1. silent' \in BOOLEAN /\ bus' \in Seq(PDUs) /\ replays' \subseteq PDUs
    BY <1>2, <1>11 DEF RefuseBlind
  <2>2. losses' \in Nat /\ faults' \in 0 .. MaxFaults
    BY <1>11, FaultTypes DEF RefuseBlind
  <2> QED
    BY <1>11, <2>1, <2>2 DEF RefuseBlind
<1>4. CASE Refuse
  <2>1. silent' \in BOOLEAN
    BY <1>4 DEF Refuse
  <2> QED
    BY <1>2, <1>4, <2>1 DEF Refuse
<1>5. ASSUME NEW i \in DOMAIN sent, Replay(i) PROVE TypeOK'
  <2>1. sent[i] \in PDUs
    BY <1>5
  <2>2. bus' \in Seq(PDUs) /\ faults' \in 0 .. MaxFaults
    <3>1. bus' = Append(bus, sent[i]) /\ Fault
      BY <1>5 DEF Replay
    <3> QED
      BY <2>1, <3>1, FaultTypes
  <2> QED
    BY <1>5, <2>2 DEF Replay
<1>6. ASSUME NEW i \in DOMAIN sent, NEW d \in Data, Tamper(i, d) PROVE TypeOK'
  <2> DEFINE tampered_pdu == [data |-> d, freshness |-> rx_counter, mac |-> sent[i].mac]
  <2>1. tampered_pdu \in PDUs
    BY <1>6, TamperedIsPDU
  <2> HIDE DEF tampered_pdu
  <2>2. bus' = Append(bus, tampered_pdu)
    BY <1>6 DEF Tamper, tampered_pdu
  <2> QED
    BY <1>6, <2>1, <2>2, FaultTypes DEF Tamper
<1>7. CASE Lose
  BY <1>2, <1>7, FaultTypes DEF Lose
<1>8. CASE UNCHANGED vars
  BY <1>8 DEF vars
<1> QED
  BY <1>1, <1>3, <1>4, <1>5, <1>6, <1>7, <1>8, <1>9, <1>10, <1>11 DEF Next, Receive

\* Every variable of the two ECUs and of the bus stays in its domain.
THEOREM TypeCorrect == Spec => []TypeOK
  BY TypeAtStart, TypeStep, PTL DEF Spec

---------------------------------------------------------------------------
(* What the receiver accepts.                                              *)

\* What a step does to the bus: a transmitted PDU is added, or another PDU
\* with a MAC of a transmitted one, or the first PDU leaves.
LEMMA BusSteps ==
  ASSUME TypeOK, [Next]_vars
  PROVE  \/ \E d \in Data : Send(d) \/ SendUnmade(d)
         \/ /\ UNCHANGED <<tx_counter, rx_counter, sent, accepted, replays, silent, blind>>
            /\ losses' = losses /\ faults' = faults + 1
            /\ \E i \in 1 .. Len(sent), p \in PDUs :
                  bus' = Append(bus, p) /\ p.mac = sent[i].mac
         \/ /\ bus # <<>> /\ bus' = Tail(bus) /\ UNCHANGED <<tx_counter, sent>>
            /\ \/ Accept \/ AcceptBlind
               \/ UNCHANGED <<rx_counter, accepted, blind>> /\ faults' \in {faults, faults + 1}
         \/ UNCHANGED vars
<1>1. ASSUME NEW i \in DOMAIN sent, Replay(i)
      PROVE  /\ UNCHANGED <<tx_counter, rx_counter, sent, accepted, replays, silent, blind>>
             /\ losses' = losses /\ faults' = faults + 1
             /\ i \in 1 .. Len(sent) /\ sent[i] \in PDUs /\ bus' = Append(bus, sent[i])
  BY <1>1 DEF Replay, Fault, TypeOK
<1>2. ASSUME NEW i \in DOMAIN sent, NEW d \in Data, Tamper(i, d)
      PROVE  /\ UNCHANGED <<tx_counter, rx_counter, sent, accepted, replays, silent, blind>>
             /\ losses' = losses /\ faults' = faults + 1
             /\ i \in 1 .. Len(sent)
             /\ \E p \in PDUs : bus' = Append(bus, p) /\ p.mac = sent[i].mac
  <2> DEFINE tampered_pdu == [data |-> d, freshness |-> rx_counter, mac |-> sent[i].mac]
  <2>1. tampered_pdu \in PDUs /\ tampered_pdu.mac = sent[i].mac
    BY <1>2, TamperedIsPDU DEF TypeOK
  <2>2. bus' = Append(bus, tampered_pdu)
    BY <1>2 DEF Tamper
  <2> HIDE DEF tampered_pdu
  <2> QED
    BY <1>2, <2>1, <2>2 DEF Tamper, Fault, TypeOK
<1> QED
  BY <1>1, <1>2 DEF Next, Receive, Accept, AcceptBlind, Refuse, RefuseBlind, Lose, Fault

\* What transmitting adds: a PDU under the next counter value, with its MAC
\* or with bytes that are at best a MAC made before.
LEMMA Transmitted ==
  ASSUME TypeOK, NEW d \in Data, Send(d) \/ SendUnmade(d)
  PROVE  \E p \in PDUs :
           /\ bus' = Append(bus, p) /\ sent' = Append(sent, p)
           /\ p.freshness = tx_counter
           /\ \/ verify_secoc_mac(p) /\ UNCHANGED <<losses, faults>>
              \/ /\ p.mac = NoMac \/ \E i \in 1 .. Len(sent) : p.mac = sent[i].mac
                 /\ losses' = losses + 1 /\ faults' = faults + 1
<1>1. ASSUME NEW mac, Transmit(d, mac)
      PROVE  LET p == [data |-> d, freshness |-> tx_counter, mac |-> mac] IN
             bus' = Append(bus, p) /\ sent' = Append(sent, p)
  BY <1>1 DEF Transmit
<1>2. CASE Send(d)
  <2> DEFINE mac == calculate_secoc_mac(d, tx_counter)
             p == [data |-> d, freshness |-> tx_counter, mac |-> mac]
  <2>1. p \in PDUs
    BY DEF calculate_secoc_mac, TypeOK, PDUs
  <2>2. verify_secoc_mac(p)
    BY DEF verify_secoc_mac
  <2>3. bus' = Append(bus, p) /\ sent' = Append(sent, p) /\ UNCHANGED <<losses, faults>>
    BY <1>2 DEF Send, Transmit
  <2>4. p.freshness = tx_counter
    OBVIOUS
  <2> HIDE DEF p
  <2> QED
    BY <2>1, <2>2, <2>3, <2>4
<1>3. CASE SendUnmade(d)
  <2>1. PICK mac \in {NoMac} \cup {sent[i].mac : i \in DOMAIN sent} : Transmit(d, mac)
    BY <1>3 DEF SendUnmade
  <2> DEFINE p == [data |-> d, freshness |-> tx_counter, mac |-> mac]
  <2>2. p \in PDUs
    BY TransmittedIsPDU
  <2>3. bus' = Append(bus, p) /\ sent' = Append(sent, p)
    BY <1>1, <2>1
  <2>4. p.mac = NoMac \/ \E i \in 1 .. Len(sent) : p.mac = sent[i].mac
    BY DEF TypeOK
  <2>5. p.freshness = tx_counter /\ losses' = losses + 1 /\ faults' = faults + 1
    BY <1>3 DEF SendUnmade, Fault
  <2> HIDE DEF p
  <2> QED
    BY <2>2, <2>3, <2>4, <2>5
<1> QED
  BY <1>2, <1>3

LEMMA AppendedPDU ==
  ASSUME NEW s \in Seq(PDUs), NEW p \in PDUs
  PROVE  /\ Len(s) \in Nat /\ Len(Append(s, p)) = Len(s) + 1 /\ Append(s, p)[Len(s) + 1] = p
         /\ \A k \in 1 .. Len(s) : Append(s, p)[k] = s[k]
OBVIOUS

LEMMA MacsStep ==
  ASSUME TypeOK, MacsAreSent, [Next]_vars
  PROVE  MacsAreSent'
<1>1. ASSUME NEW d \in Data, Send(d) \/ SendUnmade(d) PROVE MacsAreSent'
  <2>1. PICK p \in PDUs :
           /\ bus' = Append(bus, p) /\ sent' = Append(sent, p)
           /\ \/ verify_secoc_mac(p)
              \/ p.mac = NoMac \/ \E i \in 1 .. Len(sent) : p.mac = sent[i].mac
    BY <1>1, Transmitted
  <2>2. /\ Len(sent) \in Nat /\ Len(sent') = Len(sent) + 1 /\ sent'[Len(sent) + 1] = p
        /\ \A k \in 1 .. Len(sent) : sent'[k] = sent[k]
    BY <2>1, AppendedPDU DEF TypeOK
  <2>3. /\ Len(bus) \in Nat /\ Len(bus') = Len(bus) + 1 /\ bus'[Len(bus) + 1] = p
        /\ \A k \in 1 .. Len(bus) : bus'[k] = bus[k]
    BY <2>1, AppendedPDU DEF TypeOK
  <2>4. ASSUME NEW mac, Known(mac) PROVE Known(mac)'
    BY <2>2, <2>4 DEF Known, verify_secoc_mac, calculate_secoc_mac
  <2>5. Known(p.mac)'
    <3>1. CASE verify_secoc_mac(p)
      <4>1. Len(sent) + 1 \in 1 .. Len(sent')
        BY <2>2
      <4> QED
        BY <2>2, <3>1, <4>1 DEF Known, verify_secoc_mac, calculate_secoc_mac
    <3>2. CASE p.mac = NoMac
      BY <3>2 DEF Known
    <3>3. CASE \E i \in 1 .. Len(sent) : p.mac = sent[i].mac
      BY <2>4, <3>3 DEF MacsAreSent
    <3> QED
      BY <2>1, <3>1, <3>2, <3>3
  <2>6. \A k \in 1 .. Len(sent') : Known(sent[k].mac)'
    <3> SUFFICES ASSUME NEW k \in 1 .. Len(sent') PROVE Known(sent[k].mac)'
      OBVIOUS
    <3>1. k = Len(sent) + 1 \/ k \in 1 .. Len(sent)
      BY <2>2
    <3> QED
      BY <2>2, <2>4, <2>5, <3>1 DEF MacsAreSent
  <2>7. \A k \in 1 .. Len(bus') : Known(bus[k].mac)'
    <3> SUFFICES ASSUME NEW k \in 1 .. Len(bus') PROVE Known(bus[k].mac)'
      OBVIOUS
    <3>1. k = Len(bus) + 1 \/ k \in 1 .. Len(bus)
      BY <2>3
    <3> QED
      BY <2>3, <2>4, <2>5, <3>1 DEF MacsAreSent
  <2> QED
    BY <2>6, <2>7 DEF MacsAreSent
<1>2. ASSUME NEW i \in 1 .. Len(sent), NEW p \in PDUs,
             bus' = Append(bus, p), p.mac = sent[i].mac, sent' = sent
      PROVE  MacsAreSent'
  <2>1. \A mac : Known(mac)' = Known(mac)
    BY <1>2 DEF Known
  <2>2. /\ Len(bus) \in Nat /\ Len(bus') = Len(bus) + 1 /\ bus'[Len(bus) + 1] = p
        /\ \A k \in 1 .. Len(bus) : bus'[k] = bus[k]
    BY <1>2, AppendedPDU DEF TypeOK
  <2>3. \A k \in 1 .. Len(bus') : Known(bus'[k].mac)
    <3> SUFFICES ASSUME NEW k \in 1 .. Len(bus') PROVE Known(bus'[k].mac)
      OBVIOUS
    <3>1. k = Len(bus) + 1 \/ k \in 1 .. Len(bus)
      BY <2>2
    <3> QED
      BY <1>2, <2>2, <3>1 DEF MacsAreSent
  <2> QED
    BY <1>2, <2>1, <2>3 DEF MacsAreSent
<1>3. ASSUME bus # <<>>, bus' = Tail(bus), sent' = sent PROVE MacsAreSent'
  <2>1. \A mac : Known(mac)' = Known(mac)
    BY <1>3 DEF Known
  <2>2. \A k \in 1 .. Len(bus') : k + 1 \in 1 .. Len(bus) /\ bus'[k] = bus[k + 1]
    BY <1>3 DEF TypeOK
  <2> QED
    BY <1>3, <2>1, <2>2 DEF MacsAreSent
<1>4. CASE UNCHANGED vars
  BY <1>4 DEF vars, MacsAreSent, Known
<1> QED
  BY <1>1, <1>2, <1>3, <1>4, BusSteps

\* A PDU on the bus that verifies is one that was transmitted.
LEMMA VerifiedIsSent ==
  ASSUME TypeOK, MacsAreSent, NEW j \in 1 .. Len(bus), verify_secoc_mac(bus[j])
  PROVE  \E i \in 1 .. Len(sent) : bus[j] = sent[i]
<1>1. bus[j].mac # NoMac
  <2>1. bus[j].mac = <<bus[j].data, bus[j].freshness>>
    BY DEF verify_secoc_mac, calculate_secoc_mac
  <2> QED
    BY <2>1 DEF NoMac
<1>2. PICK i \in 1 .. Len(sent) : verify_secoc_mac(sent[i]) /\ bus[j].mac = sent[i].mac
  BY <1>1 DEF MacsAreSent, Known
<1>3. bus[j] \in PDUs /\ sent[i] \in PDUs
  BY DEF TypeOK
<1>4. bus[j].data = sent[i].data /\ bus[j].freshness = sent[i].freshness
  BY <1>2 DEF verify_secoc_mac, calculate_secoc_mac
<1>5. bus[j] = sent[i]
  BY <1>2, <1>3, <1>4 DEF PDUs
<1> QED
  BY <1>5

LEMMA Lengths ==
  ASSUME TypeOK, CountersCount
  PROVE  /\ Len(sent) \in 0 .. Mod - 1 /\ Len(accepted) \in 0 .. Mod - 1
         /\ Start \in Nat /\ Mod \in Nat /\ MaxSends \in Nat /\ faults \in Nat
  BY LifetimeAssumption, CounterAssumption DEF TypeOK, CountersCount

\* The PDU that the receiver accepts is the one it has not accepted yet.
LEMMA AcceptsNext ==
  ASSUME Inv, Accept
  PROVE  Len(accepted) + 1 <= Len(sent) /\ Head(bus) = sent[Len(accepted) + 1]
<1>0. TypeOK /\ MacsAreSent /\ CountersCount /\ SentIsNumbered
  BY DEF Inv
<1>1. bus # <<>> /\ Head(bus) = bus[1] /\ 1 \in 1 .. Len(bus) /\ Expected(bus[1])
  BY <1>0 DEF Accept, TypeOK
<1>2. PICK i \in 1 .. Len(sent) : bus[1] = sent[i]
  BY <1>0, <1>1, VerifiedIsSent DEF Expected
<1>3. Fresh(i - 1) = Fresh(Len(accepted))
  BY <1>0, <1>1, <1>2 DEF Expected, SentIsNumbered, CountersCount
<1>4. i - 1 \in 0 .. Mod - 1 /\ Len(accepted) \in 0 .. Mod - 1
  BY <1>0, Lengths
<1>5. i = Len(accepted) + 1
  BY <1>3, <1>4, FreshIsInjective
<1> QED
  BY <1>1, <1>2, <1>5

LEMMA InvStep == Inv /\ [Next]_vars => Inv'
<1> SUFFICES ASSUME Inv, [Next]_vars
             PROVE  (CountersCount /\ SentIsNumbered /\ AcceptedWasSent)'
  BY TypeStep, MacsStep DEF Inv
<1>0. TypeOK /\ TypeOK' /\ CountersCount /\ SentIsNumbered /\ AcceptedWasSent
  BY TypeStep DEF Inv
<1>1. /\ Len(sent) \in 0 .. Mod - 1 /\ Len(accepted) \in 0 .. Mod - 1
      /\ MaxSends \in Nat /\ faults \in Nat /\ Mod \in Nat
  BY <1>0, Lengths
<1>2. ASSUME NEW d \in Data, Send(d) \/ SendUnmade(d)
      PROVE  (CountersCount /\ SentIsNumbered /\ AcceptedWasSent)'
  <2>1. PICK p \in PDUs : sent' = Append(sent, p) /\ p.freshness = tx_counter
    BY <1>0, <1>2, Transmitted
  <2>2. faults' \in {faults, faults + 1}
    BY <1>2 DEF Send, SendUnmade, Fault
  <2>3. /\ Len(sent) < MaxSends /\ tx_counter' = Inc(tx_counter)
        /\ UNCHANGED <<rx_counter, accepted, blind>>
    BY <1>2 DEF Send, SendUnmade, Transmit
  <2>4. /\ Len(sent') = Len(sent) + 1 /\ sent'[Len(sent) + 1] = p
        /\ \A k \in 1 .. Len(sent) : sent'[k] = sent[k]
    BY <1>0, <2>1, AppendedPDU DEF TypeOK
  <2>5. CountersCount'
    <3>1. tx_counter' = Fresh(Len(sent'))
      BY <1>0, <1>1, <2>3, <2>4, IncIsNext DEF CountersCount
    <3>2. Len(sent') <= MaxSends /\ Len(accepted) <= MaxSends + faults'
      BY <1>0, <1>1, <2>2, <2>3, <2>4 DEF CountersCount
    <3> QED
      BY <1>0, <2>3, <3>1, <3>2 DEF CountersCount
  <2>6. SentIsNumbered'
    <3> SUFFICES ASSUME NEW k \in 1 .. Len(sent')
                 PROVE  sent'[k].freshness = Fresh(k - 1)
      BY DEF SentIsNumbered
    <3>1. CASE k = Len(sent) + 1
      BY <1>0, <1>1, <2>1, <2>4, <3>1 DEF CountersCount
    <3>2. CASE k \in 1 .. Len(sent)
      BY <1>0, <2>4, <3>2 DEF SentIsNumbered
    <3> QED
      BY <1>1, <2>4, <3>1, <3>2
  <2>7. AcceptedWasSent'
    <3> SUFFICES ASSUME NEW k \in 1 .. Len(accepted), k \notin blind
                 PROVE  k <= Len(sent') /\ accepted[k] = sent'[k].data
      BY <2>3 DEF AcceptedWasSent
    <3>1. k \in 1 .. Len(sent) /\ accepted[k] = sent[k].data
      BY <1>0, <1>1 DEF AcceptedWasSent
    <3> QED
      BY <1>1, <2>4, <3>1
  <2> QED
    BY <2>5, <2>6, <2>7
<1>3. ASSUME Accept \/ AcceptBlind
      PROVE  (CountersCount /\ SentIsNumbered /\ AcceptedWasSent)'
  <2>1. /\ rx_counter' = Inc(rx_counter) /\ UNCHANGED <<tx_counter, sent>>
        /\ bus # <<>> /\ accepted' = Append(accepted, Head(bus).data)
    BY <1>3 DEF Accept, AcceptBlind
  <2>2. Head(bus).data \in Data
    BY <1>0, <2>1 DEF TypeOK, PDUs
  <2>3. /\ Len(accepted') = Len(accepted) + 1
        /\ accepted'[Len(accepted) + 1] = Head(bus).data
        /\ \A k \in 1 .. Len(accepted) : accepted'[k] = accepted[k]
    BY <1>0, <2>1, <2>2, AcceptTypes
  <2>4. CountersCount'
    <3>1. Len(accepted') <= MaxSends + faults'
      <4>1. CASE Accept
        BY <1>0, <1>1, <2>3, <4>1, AcceptsNext DEF Accept, CountersCount
      <4>2. CASE AcceptBlind
        BY <1>0, <1>1, <2>3, <4>2 DEF AcceptBlind, Fault, CountersCount
      <4> QED
        BY <1>3, <4>1, <4>2
    <3>2. rx_counter' = Fresh(Len(accepted'))
      BY <1>0, <1>1, <2>1, <2>3, IncIsNext DEF CountersCount
    <3> QED
      BY <1>0, <2>1, <3>1, <3>2 DEF CountersCount
  <2>5. SentIsNumbered'
    BY <1>0, <2>1 DEF SentIsNumbered
  <2>6. AcceptedWasSent'
    <3> SUFFICES ASSUME NEW k \in 1 .. Len(accepted) + 1, k \notin blind'
                 PROVE  k <= Len(sent) /\ accepted'[k] = sent[k].data
      BY <2>1, <2>3 DEF AcceptedWasSent
    <3>1. CASE k = Len(accepted) + 1
      <4>1. Accept
        BY <1>3, <3>1 DEF AcceptBlind
      <4> QED
        BY <2>3, <3>1, <4>1, AcceptsNext
    <3>2. CASE k \in 1 .. Len(accepted)
      <4>1. k \notin blind
        BY <1>3 DEF Accept, AcceptBlind
      <4> QED
        BY <1>0, <2>3, <3>2, <4>1 DEF AcceptedWasSent
    <3> QED
      BY <1>1, <3>1, <3>2
  <2> QED
    BY <2>4, <2>5, <2>6
<1>4. ASSUME UNCHANGED <<tx_counter, rx_counter, sent, accepted, blind>>,
             faults' \in {faults, faults + 1}
      PROVE  (CountersCount /\ SentIsNumbered /\ AcceptedWasSent)'
  <2>1. Len(accepted') <= MaxSends + faults'
    BY <1>0, <1>1, <1>4 DEF CountersCount
  <2> QED
    BY <1>0, <1>4, <2>1 DEF CountersCount, SentIsNumbered, AcceptedWasSent
<1> QED
  BY <1>0, <1>2, <1>3, <1>4, BusSteps DEF vars

LEMMA Invariance == Spec => []Inv
<1>1. Init => Inv
  <2> SUFFICES ASSUME Init PROVE Inv
    OBVIOUS
  <2>1. Fresh(0) = Start
    BY CounterAssumption DEF Fresh
  <2> QED
    BY <2>1, TypeAtStart, LifetimeAssumption
       DEF Init, Inv, CountersCount, SentIsNumbered, MacsAreSent, AcceptedWasSent
<1> QED
  BY <1>1, InvStep, PTL DEF Spec

\* Whatever is replayed, altered, lost or sent without a MAC, and also across
\* the wrap-around of the counters, the receiver accepts at each place what
\* was transmitted there, unless it had no MAC to compare with.
THEOREM AcceptedWasAlwaysSent == Spec => []AcceptedWasSent
  BY Invariance, PTL DEF Inv

\* No PDU takes the place of the one the receiver waits for, except one it
\* accepts blindly.
THEOREM LossIsNeverBridged == Spec => LossIsNotBridged
<1>1. ASSUME Inv, [Next]_vars, Gap, blind' = blind PROVE UNCHANGED <<accepted, rx_counter>>
  <2>1. ~Accept
    <3> SUFFICES ASSUME Accept PROVE FALSE
      OBVIOUS
    <3>1. bus[1] = sent[Len(accepted) + 1] /\ 1 \in DOMAIN bus
      BY <1>1, AcceptsNext DEF Accept, Inv, TypeOK
    <3> QED
      BY <1>1, <3>1 DEF Gap
  <2>2. ~AcceptBlind
    <3> SUFFICES ASSUME AcceptBlind PROVE FALSE
      OBVIOUS
    <3>1. Len(accepted) + 1 \in blind
      BY <1>1 DEF AcceptBlind
    <3>2. Len(accepted) \in Nat /\ Len(accepted) + 1 \in 1 .. Len(accepted)
      BY <1>1, <3>1 DEF Inv, TypeOK
    <3> QED
      BY <3>2
  <2> QED
    BY <1>1, <2>1, <2>2, BusSteps DEF Inv, Send, SendUnmade, Transmit, vars
<1> QED
  BY <1>1, Invariance, PTL DEF Spec, LossIsNotBridged

---------------------------------------------------------------------------
(* What the receiver reports.                                              *)

\* Before the counters wrap, everything reported as replayed lies behind
\* the receiver's counter.
ReportsAreBehind ==
  NoWrap => \A p \in replays : p.freshness < Start + Len(accepted)

\* What was transmitted and not yet accepted is on the bus.
NothingIsMissing ==
  \A m \in 1 .. Len(sent) : m > Len(accepted) =>
    \E j \in 1 .. Len(bus) : bus[j] = sent[m]

\* It comes in the order of transmission: ahead of a PDU that is not due yet
\* is the one transmitted before it.
BusIsOrdered ==
  \A j \in 1 .. Len(bus), i \in 1 .. Len(sent) :
    bus[j] = sent[i] /\ i > Len(accepted) + 1 =>
      \E h \in 1 .. j - 1 : bus[h] = sent[i - 1]

AllGenuine == blind = {} /\ \A k \in 1 .. Len(sent) : verify_secoc_mac(sent[k])

NoLossInv == losses = 0 => NothingIsMissing /\ BusIsOrdered /\ AllGenuine

LEMMA FreshBeforeWrap ==
  ASSUME NoWrap, TypeOK
  PROVE  /\ \A n \in 0 .. Len(sent) : Fresh(n) = Start + n
         /\ Fresh(Len(accepted)) = Start + Len(accepted)
  BY CounterAssumption DEF NoWrap, Fresh, TypeOK

\* Neither counter ever goes back.
LEMMA LongerThanBefore ==
  ASSUME TypeOK, [Next]_vars
  PROVE  /\ Len(sent) \in Nat /\ Len(accepted) \in Nat
         /\ Len(sent') \in Nat /\ Len(accepted') \in Nat
         /\ Len(sent) <= Len(sent') /\ Len(accepted) <= Len(accepted')
         /\ NoWrap' => NoWrap
<1>0. Len(sent) \in Nat /\ Len(accepted) \in Nat
  BY DEF TypeOK
<1>1. ASSUME NEW d \in Data, Send(d) \/ SendUnmade(d)
      PROVE  Len(sent') = Len(sent) + 1 /\ accepted' = accepted
  <2>1. PICK p \in PDUs : sent' = Append(sent, p)
    BY <1>1, Transmitted
  <2>2. accepted' = accepted
    BY <1>1 DEF Send, SendUnmade, Transmit
  <2> QED
    BY <2>1, <2>2, AppendedPDU DEF TypeOK
<1>2. ASSUME Accept \/ AcceptBlind
      PROVE  Len(accepted') = Len(accepted) + 1 /\ sent' = sent
  <2>1. bus # <<>> /\ accepted' = Append(accepted, Head(bus).data) /\ sent' = sent
    BY <1>2 DEF Accept, AcceptBlind
  <2>2. Head(bus).data \in Data
    <3>1. Head(bus) \in PDUs
      BY <2>1 DEF TypeOK
    <3> QED
      BY <3>1 DEF PDUs
  <2> QED
    BY <2>1, <2>2, AcceptTypes
<1>3. \/ Len(sent') = Len(sent) + 1 /\ accepted' = accepted
      \/ Len(accepted') = Len(accepted) + 1 /\ sent' = sent
      \/ UNCHANGED <<sent, accepted>>
  BY <1>1, <1>2, BusSteps DEF vars
<1>4. /\ Len(sent') \in Nat /\ Len(accepted') \in Nat
      /\ Len(sent) <= Len(sent') /\ Len(accepted) <= Len(accepted')
  BY <1>0, <1>3
<1> QED
  BY <1>0, <1>4, CounterAssumption DEF NoWrap

LEMMA ReportsStep ==
  ASSUME Inv, ReportsAreBehind, [Next]_vars
  PROVE  ReportsAreBehind'
<1> SUFFICES ASSUME NoWrap', NEW p \in replays' PROVE p.freshness < Start + Len(accepted')
  BY DEF ReportsAreBehind
<1>0. TypeOK /\ CountersCount
  BY DEF Inv
<1>1. /\ NoWrap /\ Len(accepted) \in Nat /\ Len(accepted') \in Nat /\ Start \in Nat
      /\ Len(accepted) <= Len(accepted')
  BY <1>0, LongerThanBefore, CounterAssumption
<1>2. rx_counter = Start + Len(accepted)
  BY <1>0, <1>1, FreshBeforeWrap DEF CountersCount
<1>3. p.freshness \in Nat
  <2>1. TypeOK'
    BY <1>0, TypeStep
  <2> QED
    BY <2>1 DEF TypeOK, PDUs, Counters
<1>4. CASE p \in replays
  BY <1>1, <1>3, <1>4 DEF ReportsAreBehind
<1>5. CASE p \notin replays
  <2>1. replays' # replays
    BY <1>5
  <2>2. (Refuse \/ RefuseBlind) /\ p = Head(bus) /\ Outdated(p)
    BY <1>5, <2>1
       DEF Next, Receive, Send, SendUnmade, Transmit, Accept, AcceptBlind, Refuse, RefuseBlind,
           Replay, Tamper, Lose, vars
  <2> QED
    BY <1>1, <1>2, <1>3, <2>2 DEF Outdated
<1> QED
  BY <1>4, <1>5

\* Before the counters wrap, a PDU the receiver still waits for never raises
\* the replay alarm.
THEOREM ReportsAreAlwaysReplays == Spec => []ReportsAreReplays
<1>1. Init => ReportsAreBehind
  BY DEF Init, ReportsAreBehind
<1>2. ASSUME Inv, ReportsAreBehind PROVE ReportsAreReplays
  <2> SUFFICES ASSUME NoWrap, NEW k \in 1 .. Len(sent), sent[k] \in replays
               PROVE  k <= Len(accepted)
    BY DEF ReportsAreReplays
  <2>1. k - 1 \in 0 .. Len(sent) /\ Len(accepted) \in Nat /\ Start \in Nat
    BY <1>2, CounterAssumption DEF Inv, TypeOK
  <2>2. sent[k].freshness = Start + (k - 1)
    BY <1>2, <2>1, FreshBeforeWrap DEF Inv, SentIsNumbered
  <2>3. sent[k].freshness < Start + Len(accepted)
    BY <1>2 DEF ReportsAreBehind
  <2> QED
    BY <2>1, <2>2, <2>3
<1> QED
  BY <1>1, <1>2, ReportsStep, Invariance, PTL DEF Spec

LEMMA SentIsDistinct ==
  ASSUME Inv, NEW a \in 1 .. Len(sent), NEW b \in 1 .. Len(sent), sent[a] = sent[b]
  PROVE  a = b
<1>1. a - 1 \in 0 .. Mod - 1 /\ b - 1 \in 0 .. Mod - 1
  BY Lengths DEF Inv
<1>2. Fresh(a - 1) = Fresh(b - 1)
  BY DEF Inv, SentIsNumbered
<1>3. a - 1 = b - 1
  BY <1>1, <1>2, FreshIsInjective
<1> QED
  BY <1>3

\* When nothing was lost, the PDU that leaves the bus is never one that the
\* receiver will still wait for.
LEMMA HeadIsDispensable ==
  ASSUME Inv, NothingIsMissing, BusIsOrdered, AllGenuine, bus # <<>>, Accept \/ Refuse,
         NEW m \in 1 .. Len(sent), bus[1] = sent[m]
  PROVE  m <= Len(accepted')
<1>0. TypeOK /\ 1 \in 1 .. Len(bus) /\ Head(bus) = bus[1] /\ Len(accepted) \in Nat
  BY DEF Inv, TypeOK
<1>1. CASE Accept
  <2>1. Len(accepted) + 1 \in 1 .. Len(sent) /\ bus[1] = sent[Len(accepted) + 1]
    BY <1>0, <1>1, AcceptsNext DEF TypeOK
  <2>2. m = Len(accepted) + 1
    BY <2>1, SentIsDistinct
  <2>3. PICK d : accepted' = Append(accepted, d)
    BY <1>1 DEF Accept
  <2>4. Len(accepted') = Len(accepted) + 1
    BY <1>0, <2>3 DEF TypeOK
  <2> QED
    BY <1>0, <2>2, <2>4
<1>2. CASE Refuse
  <2>1. accepted' = accepted /\ ~Expected(bus[1])
    BY <1>0, <1>2 DEF Refuse
  <2>2. ~(m > Len(accepted) + 1)
    BY <1>0 DEF BusIsOrdered
  <2>3. m # Len(accepted) + 1
    <3> SUFFICES ASSUME m = Len(accepted) + 1 PROVE FALSE
      OBVIOUS
    <3>1. bus[1].freshness = Fresh(Len(accepted)) /\ verify_secoc_mac(bus[1])
      BY <1>0 DEF Inv, SentIsNumbered, AllGenuine
    <3> QED
      BY <2>1, <3>1 DEF Expected, Inv, CountersCount
  <2> QED
    BY <1>0, <2>1, <2>2, <2>3
<1> QED
  BY <1>1, <1>2

LEMMA NoLossStep ==
  ASSUME Inv, NoLossInv, [Next]_vars
  PROVE  NoLossInv'
<1>0. TypeOK /\ TypeOK'
  BY TypeStep DEF Inv
<1>1. Len(accepted) \in Nat /\ Len(sent) \in Nat /\ Len(bus) \in Nat
  BY <1>0 DEF TypeOK
<1>2. ASSUME NEW d \in Data, Send(d), losses = 0
      PROVE  NothingIsMissing' /\ BusIsOrdered' /\ AllGenuine'
  <2>1. PICK p \in PDUs : /\ bus' = Append(bus, p) /\ sent' = Append(sent, p)
                          /\ p.freshness = tx_counter /\ verify_secoc_mac(p)
    <3>1. losses' = losses /\ losses \in Nat
      BY <1>0, <1>2 DEF Send, TypeOK
    <3> QED
      BY <1>0, <1>2, <3>1, Transmitted
  <2>2. /\ Len(bus') = Len(bus) + 1 /\ bus'[Len(bus) + 1] = p
        /\ \A j \in 1 .. Len(bus) : bus'[j] = bus[j]
        /\ Len(sent') = Len(sent) + 1 /\ sent'[Len(sent) + 1] = p
        /\ \A k \in 1 .. Len(sent) : sent'[k] = sent[k]
    BY <1>0, <2>1 DEF TypeOK
  <2>3. /\ accepted' = accepted /\ blind' = blind
        /\ NothingIsMissing /\ BusIsOrdered /\ AllGenuine
    BY <1>2 DEF Send, Transmit, NoLossInv
  <2>4. \A k \in 1 .. Len(sent) : sent[k] # p
    <3> SUFFICES ASSUME NEW k \in 1 .. Len(sent), sent[k] = p PROVE FALSE
      OBVIOUS
    <3>1. Fresh(k - 1) = Fresh(Len(sent))
      BY <2>1 DEF Inv, CountersCount, SentIsNumbered
    <3>2. k - 1 \in 0 .. Mod - 1 /\ Len(sent) \in 0 .. Mod - 1
      BY Lengths DEF Inv
    <3>3. k - 1 = Len(sent)
      BY <3>1, <3>2, FreshIsInjective
    <3> QED
      BY <1>1, <3>3
  <2>5. \A j \in 1 .. Len(bus) : bus[j] # p
    BY <2>1, <2>4, VerifiedIsSent DEF Inv
  <2>6. NothingIsMissing'
    <3> SUFFICES ASSUME NEW m \in 1 .. Len(sent'), m > Len(accepted)
                 PROVE  \E j \in 1 .. Len(bus') : bus'[j] = sent'[m]
      BY <2>3 DEF NothingIsMissing
    <3>1. CASE m = Len(sent) + 1
      BY <1>1, <2>2, <3>1
    <3>2. CASE m \in 1 .. Len(sent)
      BY <1>1, <2>2, <2>3, <3>2 DEF NothingIsMissing
    <3> QED
      BY <1>1, <2>2, <3>1, <3>2, SMTT(60)
  <2>7. BusIsOrdered'
    <3> SUFFICES ASSUME NEW j \in 1 .. Len(bus'), NEW i \in 1 .. Len(sent'),
                        bus'[j] = sent'[i], i > Len(accepted) + 1
                 PROVE  \E h \in 1 .. j - 1 : bus'[h] = sent'[i - 1]
      BY <2>3 DEF BusIsOrdered
    <3>1. i - 1 \in 1 .. Len(sent) /\ i - 1 > Len(accepted) /\ sent'[i - 1] = sent[i - 1]
      BY <1>1, <2>2
    <3>2. CASE j = Len(bus) + 1
      <4>1. PICK h \in 1 .. Len(bus) : bus[h] = sent[i - 1]
        BY <2>3, <3>1 DEF NothingIsMissing
      <4> QED
        BY <1>1, <2>2, <3>1, <3>2, <4>1
    <3>3. CASE j \in 1 .. Len(bus)
      <4>1. i \in 1 .. Len(sent) /\ bus[j] = sent[i]
        BY <1>1, <2>2, <2>5, <3>3, SMTT(60)
      <4>2. PICK h \in 1 .. j - 1 : bus[h] = sent[i - 1]
        BY <2>3, <3>3, <4>1 DEF BusIsOrdered
      <4>3. h \in 1 .. Len(bus) /\ bus'[h] = bus[h]
        BY <2>2, <3>3, <4>2
      <4> QED
        BY <3>1, <4>2, <4>3
    <3> QED
      BY <1>1, <2>2, <3>2, <3>3
  <2>8. AllGenuine'
    <3> SUFFICES ASSUME NEW k \in 1 .. Len(sent') PROVE verify_secoc_mac(sent'[k])
      BY <2>3 DEF AllGenuine, verify_secoc_mac, calculate_secoc_mac
    <3>1. k = Len(sent) + 1 \/ k \in 1 .. Len(sent)
      BY <1>1, <2>2
    <3> QED
      BY <2>1, <2>2, <2>3, <3>1 DEF AllGenuine
  <2> QED
    BY <2>6, <2>7, <2>8
<1>3. ASSUME NEW p \in PDUs, bus' = Append(bus, p), UNCHANGED <<sent, accepted, blind>>,
             losses = 0
      PROVE  NothingIsMissing' /\ BusIsOrdered' /\ AllGenuine'
  <2>1. /\ Len(bus') = Len(bus) + 1 /\ bus'[Len(bus) + 1] = p
        /\ \A j \in 1 .. Len(bus) : bus'[j] = bus[j]
    BY <1>0, <1>3 DEF TypeOK
  <2>2. NothingIsMissing /\ BusIsOrdered /\ AllGenuine
    BY <1>3 DEF NoLossInv
  <2>3. NothingIsMissing'
    BY <1>1, <1>3, <2>1, <2>2 DEF NothingIsMissing
  <2>4. BusIsOrdered'
    <3> SUFFICES ASSUME NEW j \in 1 .. Len(bus'), NEW i \in 1 .. Len(sent),
                        bus'[j] = sent[i], i > Len(accepted) + 1
                 PROVE  \E h \in 1 .. j - 1 : bus'[h] = sent[i - 1]
      BY <1>3 DEF BusIsOrdered
    <3>1. PICK h \in 1 .. Len(bus) : bus[h] = sent[i - 1] /\ h <= j - 1
      <4>1. CASE j \in 1 .. Len(bus)
        BY <1>1, <2>1, <2>2, <4>1 DEF BusIsOrdered
      <4>2. CASE j = Len(bus) + 1
        <5>1. i - 1 \in 1 .. Len(sent) /\ i - 1 > Len(accepted)
          BY <1>1
        <5> QED
          BY <1>1, <2>2, <4>2, <5>1 DEF NothingIsMissing
      <4> QED
        BY <1>1, <2>1, <4>1, <4>2, SMTT(60)
    <3> QED
      BY <1>1, <2>1, <3>1
  <2>5. AllGenuine'
    BY <1>3, <2>2 DEF AllGenuine
  <2> QED
    BY <2>3, <2>4, <2>5
<1>4. ASSUME Accept \/ Refuse, losses = 0
      PROVE  NothingIsMissing' /\ BusIsOrdered' /\ AllGenuine'
  <2>1. bus # <<>> /\ bus' = Tail(bus) /\ sent' = sent /\ blind' = blind
    BY <1>4 DEF Accept, Refuse
  <2>2. /\ Len(bus') = Len(bus) - 1
        /\ \A j \in 1 .. Len(bus) - 1 : bus'[j] = bus[j + 1]
    BY <1>0, <2>1 DEF TypeOK
  <2>3. NothingIsMissing /\ BusIsOrdered /\ AllGenuine
    BY <1>4 DEF NoLossInv
  <2>4. Len(accepted') \in Nat /\ Len(accepted') >= Len(accepted)
    <3>1. CASE Accept
      <4>1. PICK d : accepted' = Append(accepted, d)
        BY <3>1 DEF Accept
      <4> QED
        BY <1>0, <1>1, <4>1 DEF TypeOK
    <3>2. CASE Refuse
      BY <1>1, <3>2 DEF Refuse
    <3> QED
      BY <1>4, <3>1, <3>2
  <2>5. \A m \in 1 .. Len(sent) : m > Len(accepted') => bus[1] # sent[m]
    BY <1>4, <2>1, <2>3, <2>4, HeadIsDispensable
  <2>6. NothingIsMissing'
    <3> SUFFICES ASSUME NEW m \in 1 .. Len(sent), m > Len(accepted')
                 PROVE  \E j \in 1 .. Len(bus') : bus'[j] = sent[m]
      BY <2>1 DEF NothingIsMissing
    <3>1. PICK j \in 1 .. Len(bus) : bus[j] = sent[m]
      BY <1>1, <2>3, <2>4 DEF NothingIsMissing
    <3>2. j # 1
      BY <2>5, <3>1
    <3>3. j - 1 \in 1 .. Len(bus') /\ bus'[j - 1] = bus[j]
      BY <1>1, <2>2, <3>2
    <3> QED
      BY <3>1, <3>3
  <2>7. BusIsOrdered'
    <3> SUFFICES ASSUME NEW j \in 1 .. Len(bus'), NEW i \in 1 .. Len(sent),
                        bus'[j] = sent[i], i > Len(accepted') + 1
                 PROVE  \E h \in 1 .. j - 1 : bus'[h] = sent[i - 1]
      BY <2>1 DEF BusIsOrdered
    <3>1. j + 1 \in 1 .. Len(bus) /\ bus[j + 1] = sent[i] /\ i > Len(accepted) + 1
      BY <1>1, <2>2, <2>4
    <3>2. PICK h \in 1 .. j : bus[h] = sent[i - 1]
      BY <2>3, <3>1, SMTT(60) DEF BusIsOrdered
    <3>3. h # 1
      BY <1>1, <2>4, <2>5, <3>2, SMTT(60)
    <3>4. h - 1 \in 1 .. j - 1 /\ bus'[h - 1] = bus[h]
      <4>1. j + 1 \in 1 .. Len(bus) /\ j \in Nat /\ Len(bus) \in Nat
        BY <1>1, <2>2, <3>1
      <4>2. h - 1 \in 1 .. j - 1 /\ h - 1 \in 1 .. Len(bus) - 1 /\ h - 1 + 1 = h
        BY <3>3, <4>1
      <4> QED
        BY <2>2, <4>2
    <3> QED
      BY <3>2, <3>4
  <2>8. AllGenuine'
    BY <2>1, <2>3 DEF AllGenuine
  <2> QED
    BY <2>6, <2>7, <2>8
<1>5. ASSUME losses' = losses + 1 PROVE NoLossInv'
  BY <1>0, <1>5 DEF NoLossInv, TypeOK
<1>6. ASSUME UNCHANGED losses PROVE (losses' = 0) = (losses = 0)
  BY <1>6
<1>7. ASSUME NEW i \in DOMAIN sent, Replay(i) PROVE NoLossInv'
  <2>1. /\ sent[i] \in PDUs /\ bus' = Append(bus, sent[i])
        /\ UNCHANGED <<sent, accepted, losses, blind>>
    BY <1>0, <1>7 DEF Replay, TypeOK
  <2> QED
    BY <1>3, <2>1 DEF NoLossInv
<1>8. ASSUME NEW i \in DOMAIN sent, NEW d \in Data, Tamper(i, d) PROVE NoLossInv'
  <2>1. UNCHANGED <<sent, accepted, losses, blind>>
    BY <1>8 DEF Tamper
  <2>2. PICK p \in PDUs : bus' = Append(bus, p)
    BY <1>0, <1>8, TamperedIsPDU DEF Tamper, TypeOK
  <2> QED
    BY <1>3, <2>1, <2>2 DEF NoLossInv
<1>9. CASE UNCHANGED vars
  <2>1. UNCHANGED <<bus, sent, accepted, losses, blind>>
    BY <1>9 DEF vars
  <2>2. NothingIsMissing' = NothingIsMissing
    BY <2>1 DEF NothingIsMissing
  <2>3. BusIsOrdered' = BusIsOrdered
    BY <2>1 DEF BusIsOrdered
  <2>4. AllGenuine' = AllGenuine
    BY <2>1 DEF AllGenuine
  <2> QED
    BY <2>1, <2>2, <2>3, <2>4 DEF NoLossInv
<1>10. ASSUME NEW d \in Data, Send(d) PROVE NoLossInv'
  BY <1>2, <1>10 DEF Send, NoLossInv
<1>11. CASE Accept \/ Refuse
  BY <1>4, <1>11 DEF Accept, Refuse, NoLossInv
<1> QED
  BY <1>5, <1>7, <1>8, <1>9, <1>10, <1>11
     DEF Next, Receive, SendUnmade, AcceptBlind, RefuseBlind, Lose

LEMMA RefusalsStep ==
  ASSUME Inv, NoLossInv, RefusalsAreReported, [Next]_vars
  PROVE  RefusalsAreReported'
<1>0. TypeOK
  BY DEF Inv
<1>1. CASE Refuse
  <2> SUFFICES ASSUME NoWrap, losses = 0, ~Outdated(Head(bus)), verify_secoc_mac(Head(bus))
               PROVE  FALSE
    BY <1>1 DEF Refuse, RefusalsAreReported, NoWrap
  <2>1. bus # <<>> /\ Head(bus) = bus[1] /\ 1 \in 1 .. Len(bus) /\ accepted' = accepted
    BY <1>0, <1>1 DEF Refuse, TypeOK
  <2>2. PICK i \in 1 .. Len(sent) : bus[1] = sent[i]
    BY <2>1, VerifiedIsSent DEF Inv
  <2>3. i <= Len(accepted)
    BY <1>1, <2>1, <2>2, HeadIsDispensable DEF NoLossInv
  <2>4. /\ i - 1 \in 0 .. Len(sent) /\ Len(accepted) \in Nat /\ Start \in Nat
    BY <1>0, CounterAssumption DEF TypeOK
  <2>5. bus[1].freshness = Start + (i - 1) /\ rx_counter = Start + Len(accepted)
    BY <1>0, <2>2, <2>4, FreshBeforeWrap DEF Inv, SentIsNumbered, CountersCount
  <2> QED
    BY <2>1, <2>3, <2>4, <2>5 DEF Outdated
<1>2. ASSUME UNCHANGED silent, losses' = 0 => losses = 0
      PROVE  RefusalsAreReported'
  BY <1>0, <1>2, LongerThanBefore DEF RefusalsAreReported
<1>3. ASSUME losses' = losses + 1 PROVE RefusalsAreReported'
  BY <1>0, <1>3 DEF RefusalsAreReported, TypeOK
<1> QED
  BY <1>1, <1>2, <1>3
     DEF Next, Receive, Send, SendUnmade, Transmit, Accept, AcceptBlind, RefuseBlind, Replay,
         Tamper, Lose, vars

\* When nothing is lost, and before the counters wrap, the receiver
\* says of every PDU it refuses whether it was replayed or altered.
THEOREM RefusalsAreAlwaysReported == Spec => []RefusalsAreReported
<1>1. Init => NoLossInv /\ RefusalsAreReported
  BY DEF Init, NoLossInv, NothingIsMissing, BusIsOrdered, AllGenuine, RefusalsAreReported
<1> QED
  BY <1>1, NoLossStep, RefusalsStep, Invariance, PTL DEF Spec

==========================================================================
