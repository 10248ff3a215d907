--------------------------------- MODULE Air ---------------------------------
(***************************************************************************)
(* The datagrams between the physical layers of the user equipments and of  *)
(* their base station: CoreL1 opens one UDP port for each equipment, and    *)
(* leaves to UDP what happens to a datagram. A PDU carries the data SDUs of *)
(* its source; ok tells whether its CRC checks.                             *)
(***************************************************************************)
EXTENDS Naturals, Sequences, SequencesExt, FiniteSets

CONSTANTS
    Ues,            \* the user equipments, the senders
    Kinds,          \* what the TUN of each UE may hand over
    MaxPackets,     \* bounds on the number of packets of each UE
    MaxFaults       \* bound on the number of PDUs lost, damaged, repeated or
                    \* overtaken, and of datagrams lost between L1 and L2

Destinations == {"unicast", "multicast", "broadcast", "not ipv4"}

ASSUME AirAssumption ==
    /\ IsFiniteSet(Ues)
    /\ Kinds \in [Ues -> SUBSET Destinations]
    /\ MaxPackets \in [Ues -> Nat] /\ MaxFaults \in Nat

Numbers == UNION {1 .. MaxPackets[u] : u \in Ues}
Packet  == [from : Ues, number : Numbers, kind : UNION {Kinds[u] : u \in Ues}]
Pdu     == [source : Ues, sdus : Seq(Packet), ok : BOOLEAN]

VARIABLES
    air,            \* the PDUs on their way from each UE
    faults          \* the number of faults so far

airVars == <<air, faults>>

AirInit ==
    /\ air = [u \in Ues |-> << >>]
    /\ faults = 0

Fault == faults < MaxFaults /\ faults' = faults + 1

\* The first datagram from u does not arrive,
LosePdu(u) ==
    /\ air[u] # << >> /\ Fault
    /\ air' = [air EXCEPT ![u] = Tail(@)]

\* or is damaged,
Damage(u) ==
    /\ air[u] # << >> /\ Fault /\ Head(air[u]).ok
    /\ air' = [air EXCEPT ![u][1].ok = FALSE]

\* or will arrive a second time,
RepeatPdu(u) ==
    /\ air[u] # << >> /\ Fault
    /\ air' = [air EXCEPT ![u] = Append(@, Head(@))]

\* or is overtaken by those sent after it.
DelayPdu(u) ==
    /\ Len(air[u]) > 1 /\ Fault
    /\ air' = [air EXCEPT ![u] = Append(Tail(@), Head(@))]

AirNext ==
    \E u \in Ues : LosePdu(u) \/ Damage(u) \/ RepeatPdu(u) \/ DelayPdu(u)

AirTypeOK ==
    /\ air \in [Ues -> Seq(Pdu)]
    /\ faults \in 0 .. MaxFaults
=============================================================================
