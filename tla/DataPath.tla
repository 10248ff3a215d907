------------------------------ MODULE DataPath ------------------------------
(***************************************************************************)
(* Data from the TUN interfaces of the user equipments to the TUN interface *)
(* of their base station: TxPath for each equipment, the air, and RxPath.   *)
(***************************************************************************)
EXTENDS TxPath, RxPath

vars == <<airVars, txVars, rxVars>>

Init == AirInit /\ TxInit /\ RxInit

Next ==
    \/ TxNext /\ UNCHANGED rxVars
    \/ AirNext /\ UNCHANGED <<txVars, rxVars>>
    \/ RxNext /\ UNCHANGED txVars

Spec == Init /\ [][Next]_vars

FairSpec == Spec /\ TxFairness /\ RxFairness

(***************************************************************************)
(* The abstraction: what is under way from u, the oldest first. A damaged   *)
(* PDU is as good as lost.                                                  *)
(***************************************************************************)
InTransit(u) ==
    Sdus(u, pdus) \o Sdus(u, buffer[u]) \o Sdus(u, air[u]) \o Sending(u)

Fifo == INSTANCE LossyFifo WITH
            Senders <- Ues,
            Packets <- [u \in Ues |-> {p \in Packet : p.from = u}],
            transit <- [u \in Ues |-> InTransit(u)]

(***************************************************************************)
(* Properties.                                                              *)
(***************************************************************************)
\* Every variable has its type.
TypeOK == AirTypeOK /\ TxTypeOK /\ RxTypeOK

\* Whatever the interleaving of the threads of L1 and L2, and though rx pairs
\* a Start message with whichever PDU comes next: the packets of a UE reach
\* TUN in order, none twice, none damaged and none of another UE in its place.
\* A packet is lost, repeated or late only by a fault of the network or of a
\* socket, and a fault concerns the packets of one PDU.
ImplementsLossyFifo == Fifo!Spec

\* When rx has taken a Start message it waits in a recv that blocks, and keeps
\* the manager from every reconfiguration and stop. There is a PDU for each
\* announcement that rx has not answered, in the socket or about to come,
\* unless that many PDUs were lost between L1 and L2.
Announcements ==
    Cardinality({i \in DOMAIN controls : controls[i] = "SubframeRx.Start"})
       + (IF rx = "decode" THEN 1 ELSE 0)

EachAnnouncedArrives ==
    Announcements <= Len(pdus) + Cardinality({u \in Ues : l1[u] = "pdu"})
                        + dropped

\* A packet in macHigh or in a transmission queue is put on the air, though it
\* may be alone in the queue for ever: neither a notification that is lost nor
\* one that starts the timeout anew keeps it there.
Held(u, k) == \E p \in ToSet(Sending(u)) : p.number = k

QueuedIsSent ==
    \A u \in Ues : \A k \in 1 .. MaxPackets[u] : Held(u, k) ~> ~Held(u, k)

\* rx comes back from every reception to look at the mode, as long as no PDU is
\* lost between L1 and L2: a Start or an End message may be.
RxReturns == (rx = "decode" /\ dropped = 0) ~> (rx = "poll" \/ dropped > 0)

\* MacController.cpp:438: a packet with a CRC error is dropped - and the process
\* goes on.
SurvivesDamage == rx # "terminated"
=============================================================================
