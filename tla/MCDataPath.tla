----------------------------- MODULE MCDataPath -----------------------------
(***************************************************************************)
(* DataPath with two UEs; and the bytes of PDUs.                            *)
(***************************************************************************)
EXTENDS DataPath, MacHeader, AddressTable, L1L2Interface

\* One UE sends two packets, the other one.
TwoAndOne == << 2, 1 >>

MCKinds == << {"unicast"}, {"multicast", "not ipv4"} >>

(***************************************************************************)
(* PDUs of up to three SDUs, with sizes below, at and above a byte's limit. *)
(* The properties of operators without state are evaluated in Init only.    *)
(***************************************************************************)
SampleSdus ==
    {[flag |-> 0, bytes |-> << 65, 67, 75 >>],
     [flag |-> 1, bytes |-> [i \in 1 .. 255 |-> i]],
     [flag |-> 1, bytes |-> [i \in 1 .. 256 |-> 256 - i]]}

\* What decoding takes out of a PDU, one SDU after the other, are the SDUs
\* that were multiplexed with their flags, and the source is that of the PDU.
HeaderInverts ==
    Init =>
    \A source, destination \in {0, 1, 15} : \A n \in 1 .. 3 :
    \A sdus \in [1 .. n -> SampleSdus] :
       LET pdu == insertMacHeader(source, destination, sdus)
       IN  /\ SourceOf(pdu) = source /\ decodedSdus(pdu) = sdus
           /\ DestinationOf(pdu) = destination

SampleBytes == {<< {} >>, << {0, 7}, 0 .. 7 >>, << {4}, {}, {1, 2, 3} >>}

Flipped(bytes, bit) ==
    [bytes EXCEPT ![bit \div 8 + 1] = Xor(@, {bit % 8})]

\* The check accepts a PDU as it was sent, and no PDU of which one or two bits
\* were changed, those of the CRC included.
CrcDetects ==
    Init =>
    \A bytes \in SampleBytes :
       LET sent == crcPackageCalculate(bytes)
           bits == 0 .. 8 * Len(sent) - 1
       IN  /\ crcPackageChecking(sent)
           /\ \A i \in bits : ~crcPackageChecking(Flipped(sent, i))
           /\ \A i, j \in bits :
                 i < j => ~crcPackageChecking(Flipped(Flipped(sent, i), j))

(***************************************************************************)
(* PDUs as sendPdu fills them, with the symbols a physical layer would add.  *)
(***************************************************************************)
SampleMimo ==
    {[conf |-> c, diversity |-> d, antenna |-> 1 - d, precoding |-> 5] :
       c, d \in {0, 1}}

SampleSymbols == {<< >>, << "x" >>, << "x", "y", "z" >>}

WithSymbols(p, s) ==
    [p EXCEPT !.symbols = s, !.controlSymbols = s \o s,
              !.mimoSymbols = << s, << >>, s \o << "w" >>, << "v" >> >>]

\* sendPdu closes the data of a PDU with the CRC and serializes the PDU; L1
\* makes a PDU of the bytes and passes its data on; receivePdu checks them. All
\* the fields arrive in L1, and the data in the other L2, whatever the lengths
\* of the vectors and the values that the division by a code rate of 0 gives.
PdusArrive ==
    Init =>
    \A flagBS \in BOOLEAN : \A mimo \in SampleMimo : \A coded \in {0, 2300} :
    \A data \in SampleBytes : \A s \in SampleSymbols :
       LET pdu  == WithSymbols(
                      PduToSend(flagBS, 1, mimo, 7, data, 132, coded), s)
           sent == sendPduToL1(pdu)
       IN  /\ [deserializePdu(sent) EXCEPT !.macData = data] = pdu
           /\ receivePdu(passOn(sent)) = data

\* Deleting an entry of the address table (MacAddressTable::deleteEntry) leaves
\* the answers for every other address as they were, for every table of up to
\* three entries. Without state, evaluated in Init only.
LookupsSurviveDeletion == Init => DeletionKeepsLookups
=============================================================================
