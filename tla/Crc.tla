--------------------------------- MODULE Crc ---------------------------------
(***************************************************************************)
(* The CRC with which L1L2Interface closes a PDU, and the check on the      *)
(* receiving side. A byte, and the 16 bits of the CRC, are the sets of the  *)
(* positions of their ones; the exclusive or of two is what is in one only. *)
(***************************************************************************)
EXTENDS Naturals, Sequences, SequencesExt

Xor(a, b) == (a \ b) \cup (b \ a)

\* 0x9299.
Polynomial == {0, 3, 4, 7, 9, 12, 15}

\* One bit of data: the CRC is shifted right.
Shifted(crc, bit) ==
    LET rest == {k - 1 : k \in crc \ {0}}
    IN  IF bit # (0 \in crc) THEN Xor(rest, Polynomial) ELSE rest

\* The bits of a byte, the lowest first.
auxiliaryCalculationCRC(data, crc) ==
    FoldLeft(LAMBDA c, i : Shifted(c, i \in data), crc,
             << 0, 1, 2, 3, 4, 5, 6, 7 >>)

CrcOf(bytes) == FoldLeft(LAMBDA c, b : auxiliaryCalculationCRC(b, c), {}, bytes)

\* The high byte of the CRC, then the low one, are put at the end.
crcPackageCalculate(bytes) ==
    LET crc == CrcOf(bytes)
    IN  bytes \o << {k - 8 : k \in {j \in crc : j > 7}}, {k \in crc : k < 8} >>

\* Mutant: the low byte of the CRC is not compared.
crcPackageCheckingHigh(bytes) ==
    bytes[Len(bytes) - 1] =
       {k - 8 : k \in {j \in CrcOf(SubSeq(bytes, 1, Len(bytes) - 2)) : j > 7}}

crcPackageChecking(bytes) ==
    LET crc == {k + 8 : k \in bytes[Len(bytes) - 1]} \cup bytes[Len(bytes)]
    IN  crc = CrcOf(SubSeq(bytes, 1, Len(bytes) - 2))
=============================================================================
