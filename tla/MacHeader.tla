------------------------------ MODULE MacHeader ------------------------------
(***************************************************************************)
(* The bytes of a PDU: the MAC header that ProtocolPackage puts in front of *)
(* multiplexed SDUs, and the way back, SDU by SDU, in MacController's        *)
(* decoding. An SDU is a record of its flag, 1 for data and 0 for control,  *)
(* and its bytes; the arrays of sizes and flags are read off the sequence.  *)
(***************************************************************************)
EXTENDS Naturals, SequencesExt

\* The bytes of all the SDUs, as TransmissionQueue keeps them.
Multiplexed(sdus) == FlattenSeq([i \in DOMAIN sdus |-> sdus[i].bytes])

\* Two bytes for each SDU: the flag above fifteen bits of size.
SduFields(sdus) ==
    FlattenSeq([i \in DOMAIN sdus |->
                  << 128 * sdus[i].flag + Len(sdus[i].bytes) \div 256,
                     Len(sdus[i].bytes) % 256 >>])

\* ProtocolPackage::insertMacHeader.
insertMacHeader(source, destination, sdus) ==
    << ((16 * source) % 256) + (destination % 16), Len(sdus) >>
       \o SduFields(sdus) \o Multiplexed(sdus)

\* decoding reads the source of a PDU from its first byte.
SourceOf(pdu) == (pdu[1] \div 16) % 16

\* L1 reads the destination there.
DestinationOf(pdu) == pdu[1] % 16

\* Mutant: the byte with the number of SDUs is not skipped.
removeMacHeaderShort(pdu) ==
    LET n == pdu[2] IN
    [flags  |-> [i \in 1 .. n |-> pdu[1 + 2 * i] \div 128],
     sizes  |-> [i \in 1 .. n |->
                   256 * (pdu[1 + 2 * i] % 128) + pdu[2 + 2 * i]],
     buffer |-> SubSeq(pdu, 2 + 2 * n, Len(pdu))]

\* ProtocolPackage::removeMacHeader.
removeMacHeader(pdu) ==
    LET n == pdu[2] IN
    [flags  |-> [i \in 1 .. n |-> pdu[1 + 2 * i] \div 128],
     sizes  |-> [i \in 1 .. n |->
                   256 * (pdu[1 + 2 * i] % 128) + pdu[2 + 2 * i]],
     buffer |-> SubSeq(pdu, 3 + 2 * n, Len(pdu))]

\* The bytes of SDUs of these sizes.
BytesOf(sizes) == FoldLeft(LAMBDA n, size : n + size, 0, sizes)

\* TransmissionQueue::getSDU, when offset SDUs were taken before.
getSDU(q, offset) ==
    LET position == BytesOf(SubSeq(q.sizes, 1, offset))
        size == q.sizes[offset + 1]
    IN  [flag  |-> q.flags[offset + 1],
         bytes |-> SubSeq(q.buffer, position + 1, position + size)]

\* decoding takes SDUs until there are none or one is empty.
decodedSdus(pdu) ==
    LET q == removeMacHeader(pdu)
        all == [i \in DOMAIN q.sizes |-> getSDU(q, i - 1)]
        empty == SelectInSeq(all, LAMBDA sdu : sdu.bytes = << >>)
    IN  IF empty = 0 THEN all ELSE SubSeq(all, 1, empty - 1)
=============================================================================
