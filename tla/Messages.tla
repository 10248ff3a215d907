------------------------------ MODULE Messages ------------------------------
(***************************************************************************)
(* The messages that coreL2 turns into bytes: the parameters a base station *)
(* sends to a user equipment, the Start messages it exchanges with L1, and  *)
(* the reception metrics. A serialize pushes bytes at the end of a vector,  *)
(* the matching deserialize pops them from there, last one first.           *)
(*                                                                          *)
(* Fields narrower than a byte share one: shifts and masks are products,    *)
(* quotients and remainders of powers of two, and the bitwise or of fields  *)
(* that do not overlap is their sum. The lib5grange float is 4 bytes that   *)
(* are copied; it is left out of the messages that carry it.                *)
(***************************************************************************)
EXTENDS Integers, Sequences

Byte    == {n \in Nat : n < 256}
Nibble  == {n \in Nat : n < 16}
Octal   == {n \in Nat : n < 8}
Bit     == {n \in Nat : n < 2}

\* allocation_cfg_t.
Allocation == [target : Byte, first : Byte, number : Byte]

(***************************************************************************)
(* DynamicParameters::serialize and deserialize: the parameters of one UE.  *)
(* The mask of each field is the code's.                                    *)
(***************************************************************************)
MimoFields == [conf : Bit, diversity : Bit, antenna : Bit, closedLoop : Bit,
               precoding : Nibble]

UeParameters == [mcs : Nibble, per : Nibble, res : Allocation,
                 mimo : MimoFields, tpc : Byte]

MimoByte(m) ==
    (m.precoding % 16) + 16 * (m.closedLoop % 2) + 32 * (m.antenna % 2)
       + 64 * (m.diversity % 2) + 128 * (m.conf % 2)

serialize(p) ==
    <<(p.mcs % 16) + 16 * (p.per % 16),
      p.res.target, p.res.first, p.res.number, MimoByte(p.mimo), p.tpc>>

MimoOf(b) ==
    [precoding  |-> b % 16,           closedLoop |-> (b \div 16) % 2,
     antenna    |-> (b \div 32) % 2,  diversity  |-> (b \div 64) % 2,
     conf       |-> (b \div 128) % 2]

deserialize(b) ==
    [tpc |-> b[6], mimo |-> MimoOf(b[5]),
     res |-> [number |-> b[4], first |-> b[3], target |-> b[2]],
     per |-> (b[1] \div 16) % 16, mcs |-> b[1] % 16]

(***************************************************************************)
(* UESubframeTx.Start, from a UE to its L1.                                 *)
(***************************************************************************)
UeTxStart == [res : Allocation, numerology : Octal, gfdm : Bit, per : Nibble]

serializeUeTx(m) ==
    <<m.res.target, m.res.first, m.res.number,
      128 * m.gfdm + 16 * (m.numerology % 8) + m.per>>

deserializeUeTx(b) ==
    [per |-> b[4] % 16, numerology |-> (b[4] \div 16) % 8,
     gfdm |-> b[4] \div 128,
     res |-> [number |-> b[3], first |-> b[2], target |-> b[1]]]

(***************************************************************************)
(* BSSubframeTx.Start, from a base station to its L1: three bytes for each  *)
(* reservation between two at the front and eighteen at the end. fLut is    *)
(* fLutDL, 132 bits of which the last four share a byte.                    *)
(***************************************************************************)
Lut == [fill : [1 .. 16 -> Byte], last : Nibble]

BsTxStart(n) ==
    [numUEs : Byte, numPDUs : Byte, res : [1 .. n -> Allocation],
     fLut : Lut, numerology : Nibble, gfdm : Bit, per : Nibble]

\* Byte number k of a reservation.
AllocationByte(r, k) == IF k = 0 THEN r.target
                        ELSE IF k = 1 THEN r.first ELSE r.number

serializeBsTx(m) ==
    LET n == Len(m.res) IN
    [i \in 1 .. 20 + 3 * n |->
       CASE i = 1  -> m.numUEs
         [] i = 2  -> m.numPDUs
         [] i \in 3 .. 2 + 3 * n -> AllocationByte(m.res[i \div 3], i % 3)
         [] i \in 3 + 3 * n .. 18 + 3 * n -> m.fLut.fill[i - (2 + 3 * n)]
         [] i = 19 + 3 * n -> 16 * m.numerology + m.fLut.last
         [] OTHER -> 128 * m.gfdm + m.per]

\* Mutant: the two bytes at the front are not allowed for.
UesAllocatedRoundedUp(size) == (size + 1) \div 3

\* (bytes.size()-1)/sizeof(allocation_cfg_t), when two bytes and the
\* reservations are left.
UesAllocated(size) == (size - 1) \div 3

deserializeBsTx(b) ==
    LET n == UesAllocated(Len(b) - 18) IN
    [numUEs |-> b[1], numPDUs |-> b[2],
     res |-> [k \in 1 .. n |-> [target |-> b[3 * k], first |-> b[3 * k + 1],
                                number |-> b[3 * k + 2]]],
     fLut |-> [fill |-> [k \in 1 .. 16 |-> b[Len(b) - 18 + k]],
               last |-> b[Len(b) - 1] % 16],
     numerology |-> (b[Len(b) - 1] \div 16) % 16,
     gfdm |-> b[Len(b)] \div 128, per |-> b[Len(b)] % 16]

(***************************************************************************)
(* UESubframeRx.Start, from L1 to a UE, and RxMetrics, from a UE to its base *)
(* station: the same layout behind a float that is left out (sinr), and     *)
(* behind cqiReport. ss is ssm or ssReport, 132 bits.                       *)
(***************************************************************************)
Metrics == [head : Byte, pmi : Byte, ri : Nibble, ss : Lut]

serializeMetrics(m) ==
    [i \in 1 .. 19 |->
       CASE i = 1 -> m.head
         [] i = 2 -> m.pmi
         [] i \in 3 .. 18 -> m.ss.fill[i - 2]
         [] OTHER -> 16 * m.ri + m.ss.last]

deserializeMetrics(b) ==
    [ri |-> (b[19] \div 16) % 16,
     ss |-> [last |-> b[19] % 16, fill |-> [k \in 1 .. 16 |-> b[k + 2]]],
     pmi |-> b[2], head |-> b[1]]

\* Cosora::calculateSpectrumSensingValue, LinkAdaptation::
\* getSinrConvertToCqi, AdaptiveModulationCoding::getCqiConvertToMcs: what a
\* UE reports of a Start message, and what a base station makes of it.
spectrumSensingValue(ssm) == ssm
sinrToCqi == 10
cqiToMcs(cqi) == 9

ReportOf(start) ==
    [head |-> sinrToCqi, pmi |-> start.pmi, ri |-> start.ri,
     ss |-> spectrumSensingValue(start.ss)]
=============================================================================
