------------------------------ MODULE SecOC ------------------------------
(***************************************************************************)
(* 07_secoc_mac/src/secoc_sim.c: a transmitting and a receiving ECU that   *)
(* authenticate PDUs with a counter and a MAC over data and counter.  main *)
(* goes once through the transmitter's and the receiver's statements; here *)
(* both ECUs may run them again and again, with a bus in between that      *)
(* keeps its order.  The bus may present an earlier PDU once more and may  *)
(* present an altered one, as main does to show that both are noticed, and *)
(* it may lose one.  main is the behaviour                                 *)
(*   Send, Receive, Replay, Receive, Tamper, Receive.                      *)
(*                                                                         *)
(* The truncated CMAC is ideal: it is the pair it is computed from.  The   *)
(* calls that compute it may fail, and nothing looks at what they return:  *)
(* the transmitter then sends the bytes its array held, the receiver       *)
(* compares with them.                                                     *)
(***************************************************************************)
EXTENDS Integers, Sequences

CONSTANTS
  Data,       \* what a PDU can carry
  Mod,        \* the counters are integers modulo Mod (2^32 in the code)
  Start,      \* where both counters start (1000 in the code)
  MaxSends,   \* bound: how many PDUs are transmitted under one key
  MaxBus,     \* bound: how many PDUs are on the bus
  MaxFaults   \* bound: how many times the bus repeats, alters or loses a PDU,
              \* or a MAC cannot be computed

ASSUME CounterAssumption == Mod \in Nat /\ Start \in Nat /\ Start < Mod
\* No counter value is used twice under one key.
ASSUME LifetimeAssumption ==
  MaxSends \in Nat /\ MaxFaults \in Nat /\ MaxSends + MaxFaults < Mod

VARIABLES
  tx_counter,  \* transmitter: freshness of the next PDU
  rx_counter,  \* receiver: freshness it expects
  bus,         \* PDUs under way
  sent,        \* history: every PDU transmitted
  accepted,    \* history: the data the receiver accepted
  replays,     \* history: the PDUs reported as replayed
  silent,      \* history: some PDU was neither accepted nor reported
  blind,       \* history: which of them without a MAC to compare with
  losses,      \* history: PDUs lost on the bus or to a MAC not computed
  faults       \* how many times the bus or a MAC's computation failed

vars == <<tx_counter, rx_counter, bus, sent, accepted, replays, silent, blind, losses, faults>>

Counters == 0 .. Mod - 1
NoMac == <<>>   \* bytes that are nobody's MAC
PDUs == [data : Data, freshness : Counters, mac : (Data \X Counters) \cup {NoMac}]

\* ++ on a uint32_t.
Inc(c) == IF c = Mod - 1 THEN 0 ELSE c + 1

calculate_secoc_mac(data, freshness) == <<data, freshness>>

verify_secoc_mac(pdu) == pdu.mac = calculate_secoc_mac(pdu.data, pdu.freshness)

Init ==
  /\ tx_counter = Start /\ rx_counter = Start
  /\ bus = <<>> /\ sent = <<>> /\ accepted = <<>>
  /\ replays = {} /\ silent = FALSE /\ blind = {}
  /\ losses = 0 /\ faults = 0

---------------------------------------------------------------------------
(* The two ECUs                                                            *)

Transmit(d, mac) ==
  LET tx_pdu == [data |-> d, freshness |-> tx_counter, mac |-> mac]
  IN  /\ Len(sent) < MaxSends /\ Len(bus) < MaxBus
      /\ tx_counter' = Inc(tx_counter)
      /\ bus' = Append(bus, tx_pdu)
      /\ sent' = Append(sent, tx_pdu)
      /\ UNCHANGED <<rx_counter, accepted, replays, silent, blind>>

Send(d) == Transmit(d, calculate_secoc_mac(d, tx_counter)) /\ UNCHANGED <<losses, faults>>

Fault == faults < MaxFaults /\ faults' = faults + 1

\* A CMAC_* call of calculate_secoc_mac fails: full_mac is what the stack
\* held, at best a MAC the transmitter computed before.
SendUnmade(d) ==
  /\ Fault /\ losses' = losses + 1
  /\ \E full_mac \in {NoMac} \cup {sent[i].mac : i \in DOMAIN sent} : Transmit(d, full_mac)

\* Mutants: the MAC is not checked; a window of newer counters is accepted.
ExpectedUnverified(pdu) == pdu.freshness = rx_counter
ExpectedOrNewer(pdu) == pdu.freshness >= rx_counter /\ verify_secoc_mac(pdu)

Expected(pdu) == pdu.freshness = rx_counter /\ verify_secoc_mac(pdu)
\* Mutants: != in place of <; the last PDU accepted is not outdated.
OutdatedOrTooEarly(pdu) == pdu.freshness # rx_counter
OutdatedByTwo(pdu) == pdu.freshness + 1 < rx_counter

Outdated(pdu) == pdu.freshness < rx_counter

Accept ==
  /\ bus # <<>> /\ Expected(Head(bus))
  /\ rx_counter' = Inc(rx_counter)
  /\ accepted' = Append(accepted, Head(bus).data)
  /\ bus' = Tail(bus)
  /\ UNCHANGED <<tx_counter, sent, replays, silent, blind, losses, faults>>

\* Mutant: rx_counter++ stands after the if.
RefuseCounting ==
  /\ bus # <<>> /\ ~Expected(Head(bus))
  /\ bus' = Tail(bus)
  /\ rx_counter' = Inc(rx_counter)
  /\ UNCHANGED <<tx_counter, sent, accepted, replays, silent, blind, losses, faults>>

\* A PDU that is not accepted may be reported as replayed, as altered, as
\* both, or not at all: nothing is printed for one that comes too early.
Refuse ==
  /\ bus # <<>> /\ ~Expected(Head(bus))
  /\ bus' = Tail(bus)
  /\ replays' = IF Outdated(Head(bus)) THEN replays \cup {Head(bus)} ELSE replays
  /\ silent' = (silent \/ (~Outdated(Head(bus)) /\ verify_secoc_mac(Head(bus))))
  /\ UNCHANGED <<tx_counter, rx_counter, sent, accepted, blind, losses, faults>>

\* A CMAC_* call of verify_secoc_mac fails: expected_mac is what the stack
\* held, perhaps the very MAC the PDU carries.
AcceptBlind ==
  /\ Fault /\ losses' = losses + 1
  /\ bus # <<>> /\ Head(bus).freshness = rx_counter
  /\ rx_counter' = Inc(rx_counter)
  /\ accepted' = Append(accepted, Head(bus).data)
  /\ blind' = blind \cup {Len(accepted) + 1}
  /\ bus' = Tail(bus)
  /\ UNCHANGED <<tx_counter, sent, replays, silent>>

RefuseBlind ==
  /\ Fault /\ losses' = losses + 1
  /\ bus # <<>> /\ bus' = Tail(bus)
  /\ replays' = IF Outdated(Head(bus)) THEN replays \cup {Head(bus)} ELSE replays
  /\ silent' \in {silent, silent \/ ~Outdated(Head(bus))}
  /\ UNCHANGED <<tx_counter, rx_counter, sent, accepted, blind>>

Receive == Accept \/ Refuse \/ AcceptBlind \/ RefuseBlind

---------------------------------------------------------------------------
(* The bus                                                                 *)

Replay(i) ==
  /\ Fault /\ Len(bus) < MaxBus
  /\ bus' = Append(bus, sent[i])
  /\ UNCHANGED <<tx_counter, rx_counter, sent, accepted, replays, silent, blind, losses>>

\* Other data under the freshness the receiver expects, with the MAC of an
\* earlier PDU.
Tamper(i, d) ==
  /\ Fault /\ Len(bus) < MaxBus
  /\ bus' = Append(bus, [data |-> d, freshness |-> rx_counter, mac |-> sent[i].mac])
  /\ UNCHANGED <<tx_counter, rx_counter, sent, accepted, replays, silent, blind, losses>>

Lose ==
  /\ Fault /\ bus # <<>>
  /\ bus' = Tail(bus)
  /\ losses' = losses + 1
  /\ UNCHANGED <<tx_counter, rx_counter, sent, accepted, replays, silent, blind>>

Next ==
  \/ \E d \in Data : Send(d) \/ SendUnmade(d)
  \/ Receive
  \/ \E i \in DOMAIN sent : Replay(i)
  \/ \E i \in DOMAIN sent, d \in Data : Tamper(i, d)
  \/ Lose

Spec == Init /\ [][Next]_vars

(* The receiver runs whenever a PDU has arrived.                           *)
FairSpec == Spec /\ WF_vars(Receive)

---------------------------------------------------------------------------
(* Properties                                                              *)

(* Every variable stays in its domain.                                     *)
TypeOK ==
  /\ tx_counter \in Counters /\ rx_counter \in Counters
  /\ bus \in Seq(PDUs) /\ sent \in Seq(PDUs)
  /\ accepted \in Seq(Data)
  /\ replays \subseteq PDUs
  /\ silent \in BOOLEAN
  /\ blind \subseteq 1 .. Len(accepted)
  /\ losses \in Nat /\ faults \in 0 .. MaxFaults

(* The receiver accepts what was transmitted, in order, nothing twice and  *)
(* nothing altered, also when the counters wrap around, and the transmitter*)
(* may have failed to compute MACs: all it ever accepts otherwise, it      *)
(* accepted when it had no MAC to compare with, and that spoils only the   *)
(* one place.                                                              *)
AcceptedWasSent ==
  \A k \in 1 .. Len(accepted) :
    k \notin blind => k <= Len(sent) /\ accepted[k] = sent[k].data

(* The counters have not wrapped around.                                   *)
NoWrap == Start + Len(sent) < Mod /\ Start + Len(accepted) < Mod

(* A transmitted PDU that the receiver reports as replayed (freshness      *)
(* below rx_counter) is one whose place is taken by an accepted one, as    *)
(* long as the counters have not wrapped: a PDU the receiver still waits   *)
(* for never raises the alarm, whatever was lost or not computed.          *)
ReportsAreReplays ==
  NoWrap => \A k \in 1 .. Len(sent) : sent[k] \in replays => k <= Len(accepted)

(* When nothing was lost and every MAC computed, and before the counters   *)
(* wrap, the receiver reports every PDU it does not accept.                *)
RefusalsAreReported == (NoWrap /\ losses = 0) => ~silent

(* The receiver insists on the very next counter value: while the PDU with *)
(* that value is not on the bus, no other one takes its place, so what it  *)
(* accepted stays as it is until the bus presents the missing PDU again,   *)
(* unless it accepts one without a MAC to compare with.                    *)
Gap == /\ Len(accepted) < Len(sent)
       /\ \A j \in DOMAIN bus : bus[j] # sent[Len(accepted) + 1]
LossIsNotBridged == [][Gap /\ blind' = blind => UNCHANGED <<accepted, rx_counter>>]_vars

(* Everything transmitted is accepted in the end, whatever is replayed or  *)
(* altered in between, unless the bus loses a PDU or a MAC is not computed.*)
EverythingArrives ==
  \A n \in 1 .. MaxSends :
    (Len(sent) >= n) ~> (Len(accepted) >= n \/ losses > 0)

==========================================================================
