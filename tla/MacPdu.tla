------------------------------- MODULE MacPdu -------------------------------
(***************************************************************************)
(* lib5grange's MacPDU as bytes, the form in which L2 hands it to L1. The   *)
(* methods copy the memory of their operands, so that a value of width w is *)
(* here w cells, <<value, 1>> to <<value, w>>: what reads them with another *)
(* width or at another place gets no value. Each deserialize pops from the  *)
(* end what its serialize pushed, the last field first.                     *)
(***************************************************************************)
EXTENDS Integers, SequencesExt

Garbled == "garbled"

\* push_bytes of a value of width w: what is put behind the bytes.
Cells(w, value) == [k \in 1 .. w |-> <<value, k>>]

\* pop_bytes: the value, and the bytes that are left.
pop(w, bytes) ==
    LET size == Len(bytes) - w
        top  == SubSeq(bytes, size + 1, Len(bytes))
    IN  [value |-> IF size >= 0 /\ top = Cells(w, top[1][1]) THEN top[1][1]
                   ELSE Garbled,
         rest  |-> SubSeq(bytes, 1, size)]

\* Mutant: the field popped first is taken for the first of the structure.
popFieldsForward(ws, bytes) ==
    FoldRight(LAMBDA w, s : LET p == pop(w, s.rest)
                            IN [values |-> s.values \o << p.value >>,
                                rest |-> p.rest],
              ws, [values |-> << >>, rest |-> bytes])

\* Fields of the widths ws, popped from the last to the first.
popFields(ws, bytes) ==
    FoldRight(LAMBDA w, s : LET p == pop(w, s.rest)
                            IN [values |-> << p.value >> \o s.values,
                                rest |-> p.rest],
              ws, [values |-> << >>, rest |-> bytes])

\* serialize_vector: the elements, then their number as a size_t.
Vector(w, v) ==
    FlattenSeq([i \in DOMAIN v |-> Cells(w, v[i])]) \o Cells(8, Len(v))

\* As many elements as the number that was popped, from the bytes left.
popElements(w, n) ==
    LET s == popFields([i \in 1 .. n.value |-> w], n.rest)
    IN  [value |-> s.values, rest |-> s.rest]

\* deserialize_vector.
popVector(w, bytes) == popElements(w, pop(8, bytes))

(***************************************************************************)
(* The structures, as sequences of their fields in the order of the source. *)
(***************************************************************************)
PhyCtl     == << 1, 4, 1, 1 >>      \* macphyctl_t
Allocated  == << 1, 1, 1 >>         \* allocation_cfg_t
MimoCfg    == << 4, 8, 8 >>         \* mimo_cfg_t
McsCfg     == << 4, 8, 8, 8 >>      \* mcs_cfg_t

Struct(ws, values) ==
    FlattenSeq([i \in DOMAIN ws |-> Cells(ws[i], values[i])])

\* MacPDU::serialize. A complex<float> has eight bytes.
serializePdu(p) ==
    Cells(4, p.numID) \o Struct(PhyCtl, p.phyctl)
       \o Struct(Allocated, p.allocation) \o Struct(MimoCfg, p.mimo)
       \o Struct(McsCfg, p.mcs)
       \o Vector(1, p.macData) \o Vector(1, p.codedData)
       \o Vector(8, p.symbols) \o Vector(1, p.controlData)
       \o Vector(8, p.controlSymbols)
       \o Vector(8, p.mimoSymbols[1]) \o Vector(8, p.mimoSymbols[2])
       \o Vector(8, p.mimoSymbols[3]) \o Vector(8, p.mimoSymbols[4])

\* The constructor from bytes.
deserializePdu(bytes) ==
    LET m4 == popVector(8, bytes)
        m3 == popVector(8, m4.rest)
        m2 == popVector(8, m3.rest)
        m1 == popVector(8, m2.rest)
        cs == popVector(8, m1.rest)
        cd == popVector(1, cs.rest)
        sy == popVector(8, cd.rest)
        co == popVector(1, sy.rest)
        ma == popVector(1, co.rest)
        mc == popFields(McsCfg, ma.rest)
        mi == popFields(MimoCfg, mc.rest)
        al == popFields(Allocated, mi.rest)
        ph == popFields(PhyCtl, al.rest)
        id == pop(4, ph.rest)
    IN  [numID |-> id.value, phyctl |-> ph.values, allocation |-> al.values,
         mimo |-> mi.values, mcs |-> mc.values, macData |-> ma.value,
         codedData |-> co.value, symbols |-> sy.value,
         controlData |-> cd.value, controlSymbols |-> cs.value,
         mimoSymbols |-> << m1.value, m2.value, m3.value, m4.value >>]

(***************************************************************************)
(* The MacPDU that MacController::sendPdu fills. number_of_rb and           *)
(* num_coded_bytes are quotients by a code rate of 3/4 = 0, converted to    *)
(* size_t: any value. numID_ keeps the 0 of the constructor, as the vectors *)
(* of symbols stay empty; the structures, here zeros, are all overwritten.  *)
(***************************************************************************)
EmptyPdu ==
    [numID |-> 0, phyctl |-> << 0, 0, 0, 0 >>, allocation |-> << 0, 0, 0 >>,
     mimo |-> << 0, 0, 0 >>, mcs |-> << 0, 0, 0, 0 >>, macData |-> << >>,
     codedData |-> << >>, symbols |-> << >>, controlData |-> << >>,
     controlSymbols |-> << >>, mimoSymbols |-> << << >>, << >>, << >>, << >> >>]

QAM64 == 6

setMacPduStaticInformation(pdu, mac, mimo, tpc, bytes, anyRbs, anyCoded) ==
    [pdu EXCEPT
       !.phyctl     = << 1, 3, 1, 1 >>,
       !.allocation = << mac, 0, anyRbs >>,
       !.mimo       = << IF mimo.conf = 0 THEN 0 ELSE 1 + mimo.diversity,
                         IF mimo.antenna = 0 THEN 2 ELSE 4, mimo.precoding >>,
       !.mcs        = << QAM64, tpc, bytes, anyCoded >>]

\* MacCtHeader::getControlData. The fifth byte is an and of different bits.
getControlData(flagBS) == IF flagBS THEN << 4, 18, 2, 1, 0 >> ELSE << 4 >>

PduToSend(flagBS, mac, mimo, tpc, data, anyRbs, anyCoded) ==
    [setMacPduStaticInformation(EmptyPdu, mac, mimo, tpc, Len(data),
                                anyRbs, anyCoded)
       EXCEPT !.macData = data, !.controlData = getControlData(flagBS)]
=============================================================================
