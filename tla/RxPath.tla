------------------------------- MODULE RxPath -------------------------------
(***************************************************************************)
(* The receiving side of a base station: a decoding thread of L1 for each   *)
(* user equipment, the two sockets from L1 - control messages and PDUs -    *)
(* and the rx thread, which takes a control message, takes a PDU if it was   *)
(* SubframeRx.Start, and then takes one more control message, if there is   *)
(* any, without looking at it: that should be the SubframeRx.End.           *)
(*                                                                          *)
(* The sockets keep the order; L1 does not look at the result of sendto, so *)
(* each datagram may be lost. What rx does with the metrics of a Start      *)
(* message and with control SDUs is in Parameters.                          *)
(***************************************************************************)
EXTENDS Air

CONSTANT Verbose    \* the verbosity flag

ASSUME RxAssumption == Verbose \in BOOLEAN

VARIABLES
    l1,             \* where each decoding thread of L1 is
    buffer,         \* the PDU it holds, if any
    controls,       \* the control messages in socketControlMessagesFromL1
    pdus,           \* the PDUs in socketPduFromL1
    dropped,        \* history: the number of PDUs lost on their way there
    rx,             \* where the rx thread is
    delivered       \* the packets of each UE written to TUN

rxVars == <<l1, buffer, controls, pdus, dropped, rx, delivered>>

RxInit ==
    /\ l1 = [u \in Ues |-> "receive"]
    /\ buffer = [u \in Ues |-> << >>]
    /\ controls = << >>
    /\ pdus = << >>
    /\ dropped = 0
    /\ rx = "poll"
    /\ delivered = [u \in Ues |-> << >>]

(***************************************************************************)
(* CoreL1::decoding: a PDU is announced, passed on and ended.               *)
(***************************************************************************)
L1At(u, from, to) == l1[u] = from /\ l1' = [l1 EXCEPT ![u] = to]

\* Whether a datagram arrives in L2.
Arrives(ok) ==
    /\ ok \/ faults < MaxFaults
    /\ faults' = IF ok THEN faults ELSE faults + 1

\* A PDU is received and announced.
L1Start(u) ==
    /\ L1At(u, "receive", "pdu")
    /\ air[u] # << >>
    /\ buffer' = [buffer EXCEPT ![u] = << Head(air[u]) >>]
    /\ air' = [air EXCEPT ![u] = Tail(@)]
    /\ \E ok \in BOOLEAN :
          /\ Arrives(ok)
          /\ controls' = IF ok THEN Append(controls, "SubframeRx.Start")
                         ELSE controls
    /\ UNCHANGED <<pdus, dropped, rx, delivered>>

L1Pdu(u) ==
    /\ L1At(u, "pdu", "end")
    /\ \E ok \in BOOLEAN :
          /\ Arrives(ok)
          /\ pdus' = IF ok THEN pdus \o buffer[u] ELSE pdus
          /\ dropped' = IF ok THEN dropped ELSE dropped + 1
    /\ buffer' = [buffer EXCEPT ![u] = << >>]
    /\ UNCHANGED <<controls, rx, delivered, air>>

L1End(u) ==
    /\ L1At(u, "end", "receive")
    /\ \E ok \in BOOLEAN :
          /\ Arrives(ok)
          /\ controls' = IF ok THEN Append(controls, "SubframeRx.End")
                         ELSE controls
    /\ UNCHANGED <<buffer, pdus, dropped, rx, delivered, air>>

(***************************************************************************)
(* ProtocolControl::receiveInterlayerMessages and MacController::decoding.  *)
(***************************************************************************)
\* Mutant: every message announces a PDU.
PollAny ==
    /\ rx = "poll" /\ controls # << >>
    /\ controls' = Tail(controls)
    /\ rx' = "decode"
    /\ UNCHANGED <<l1, buffer, pdus, dropped, delivered, airVars>>

\* The first receiveControlMessage, which returns at once.
Poll ==
    /\ rx = "poll" /\ controls # << >>
    /\ controls' = Tail(controls)
    /\ rx' = IF Head(controls) = "SubframeRx.Start" THEN "decode" ELSE "next"
    /\ UNCHANGED <<l1, buffer, pdus, dropped, delivered, airVars>>

\* Mutant: rx takes all the PDUs there are.
decodingAll ==
    /\ rx = "decode" /\ pdus # << >>
    /\ pdus' = << >>
    /\ LET pdu == Head(pdus) IN
       /\ rx' = IF pdu.ok \/ Verbose THEN "next" ELSE "terminated"
       /\ delivered' = [delivered EXCEPT ![pdu.source] =
                          IF pdu.ok THEN @ \o pdu.sdus ELSE @]
    /\ UNCHANGED <<l1, buffer, controls, dropped, airVars>>

\* decoding waits for a PDU. A damaged one is dropped - with verbosity;
\* without, its -2 is taken for a size, and the allocation that follows throws.
decoding ==
    /\ rx = "decode" /\ pdus # << >>
    /\ pdus' = Tail(pdus)
    /\ LET pdu == Head(pdus) IN
       /\ rx' = IF pdu.ok \/ Verbose THEN "next" ELSE "terminated"
       /\ delivered' = [delivered EXCEPT ![pdu.source] =
                          IF pdu.ok THEN @ \o pdu.sdus ELSE @]
    /\ UNCHANGED <<l1, buffer, controls, dropped, airVars>>

\* The second receiveControlMessage: what it returns is overwritten.
Drop ==
    /\ rx = "next"
    /\ controls' = IF controls = << >> THEN controls ELSE Tail(controls)
    /\ rx' = "poll"
    /\ UNCHANGED <<l1, buffer, pdus, dropped, delivered, airVars>>

L1Works(u) == L1Start(u) \/ L1Pdu(u) \/ L1End(u)

RxWorks == Poll \/ decoding \/ Drop

RxNext == (\E u \in Ues : L1Works(u)) \/ RxWorks

\* The threads run as long as the process does.
RxFairness ==
    /\ \A u \in Ues : WF_rxVars(L1Works(u))
    /\ WF_rxVars(RxWorks)

RxTypeOK ==
    /\ l1 \in [Ues -> {"receive", "pdu", "end"}]
    /\ buffer \in [Ues -> Seq(Pdu)]
    /\ \A u \in Ues : Len(buffer[u]) = IF l1[u] = "pdu" THEN 1 ELSE 0
    /\ controls \in Seq({"SubframeRx.Start", "SubframeRx.End"})
    /\ pdus \in Seq(Pdu)
    /\ dropped \in Nat
    /\ rx \in {"poll", "decode", "next", "terminated"}
    /\ delivered \in [Ues -> Seq(Packet)]
=============================================================================
