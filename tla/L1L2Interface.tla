---------------------------- MODULE L1L2Interface ----------------------------
(***************************************************************************)
(* The bytes of a PDU between one L2 and another: L1L2Interface closes the   *)
(* data with a CRC and sends the serialized MacPDU, L1 passes the data on,  *)
(* and L1L2Interface checks them. What the sockets do is in RxPath.         *)
(***************************************************************************)
EXTENDS MacPdu, Crc

CrcError == << -2 >>        \* what receivePdu returns instead of a size

\* L1L2Interface::sendPdu.
sendPduToL1(pdu) ==
    serializePdu([pdu EXCEPT !.macData = crcPackageCalculate(@)])

\* CoreL1::encoding and decoding.
passOn(bytes) == deserializePdu(bytes).macData

\* L1L2Interface::receivePdu: the size returned leaves the CRC out.
receivePdu(bytes) ==
    IF crcPackageChecking(bytes) THEN SubSeq(bytes, 1, Len(bytes) - 2)
    ELSE CrcError
=============================================================================
