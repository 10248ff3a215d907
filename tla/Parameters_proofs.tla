-------------------------- MODULE Parameters_proofs --------------------------
(***************************************************************************)
(* Proofs of the safety properties of Parameters for any number of user     *)
(* equipments, any Default.txt, any settings at the CLI, and any number of  *)
(* changes, reconfigurations, stops, crashes and SDUs that are lost,        *)
(* repeated or overtaken.                                                   *)
(***************************************************************************)
EXTENDS MCParameters, TLAPS

(***************************************************************************)
(* For every message whose fields fit their widths, deserialize inverts     *)
(* serialize.                                                               *)
(***************************************************************************)
\* What a half byte pushed above another one gives back.
LEMMA Halves ==
    ASSUME NEW a \in Nibble, NEW b \in Nibble
    PROVE  /\ (a + 16 * b) \in Byte
           /\ (a + 16 * b) % 16 = a
           /\ ((a + 16 * b) \div 16) % 16 = b
           /\ a % 16 = a
BY DEF Nibble, Byte

\* What a byte of a flag above three bits above four gives back.
LEMMA FlagByte ==
    ASSUME NEW g \in Bit, NEW o \in Octal, NEW p \in Nibble
    PROVE  LET x == 128 * g + 16 * o + p IN
           /\ x % 16 = p
           /\ (x \div 16) % 8 = o
           /\ x \div 128 = g
<1>1. g \in {0, 1} /\ o \in 0 .. 7 /\ p \in 0 .. 15
  BY DEF Bit, Octal, Nibble
<1>2. 128 * g + 16 * o + p = p + 16 * (o + 8 * g)
  BY <1>1
<1> QED BY <1>1, <1>2

\* The five MIMO fields come out of their byte as they went in.
LEMMA MimoInverse ==
    ASSUME NEW m \in MimoFields
    PROVE  MimoOf(MimoByte(m)) = m
<1> DEFINE p == m.precoding
<1> DEFINE o == m.closedLoop
<1> DEFINE a == m.antenna
<1> DEFINE d == m.diversity
<1> DEFINE c == m.conf
<1> DEFINE x == p + 16 * o + 32 * a + 64 * d + 128 * c
<1>1. p \in Nibble /\ o \in Bit /\ a \in Bit /\ d \in Bit /\ c \in Bit
  BY DEF MimoFields
<1>2. MimoByte(m) = x
  <2>1. p % 16 = p /\ o % 2 = o /\ a % 2 = a /\ d % 2 = d /\ c % 2 = c
    BY <1>1 DEF Nibble, Bit
  <2> QED BY <2>1 DEF MimoByte
<1>3. /\ x % 16 = p
      /\ (x \div 16) % 2 = o
      /\ (x \div 32) % 2 = a
      /\ (x \div 64) % 2 = d
      /\ (x \div 128) % 2 = c
  <2> HIDE DEF p, o, a, d, c
  <2>1. /\ p \in Nat /\ p < 16 /\ o \in {0, 1}
        /\ a \in {0, 1} /\ d \in {0, 1} /\ c \in {0, 1}
    BY <1>1 DEF Nibble, Bit
  <2> QED BY <2>1
<1>4. MimoOf(x) = [precoding |-> p, closedLoop |-> o, antenna |-> a,
                   diversity |-> d, conf |-> c]
  BY <1>3 DEF MimoOf
<1>5. m = [precoding |-> p, closedLoop |-> o, antenna |-> a,
           diversity |-> d, conf |-> c]
  BY DEF MimoFields
<1> QED BY <1>2, <1>4, <1>5

\* The parameters of a UE arrive as the base station serialized them.
THEOREM ParametersRoundTrip ==
    ASSUME NEW p \in UeParameters
    PROVE  deserialize(serialize(p)) = p
<1> DEFINE b == serialize(p)
<1>1. p.mcs \in Nibble /\ p.per \in Nibble /\ p.res \in Allocation
      /\ p.mimo \in MimoFields /\ p.tpc \in Byte
  BY DEF UeParameters
<1>2. b[1] % 16 = p.mcs /\ (b[1] \div 16) % 16 = p.per
  <2>1. b[1] = p.mcs + 16 * p.per
    BY <1>1, Halves DEF serialize
  <2> QED BY <2>1, <1>1, Halves
<1>3. MimoOf(b[5]) = p.mimo
  BY <1>1, MimoInverse DEF serialize
<1>4. /\ b[2] = p.res.target /\ b[3] = p.res.first
      /\ b[4] = p.res.number /\ b[6] = p.tpc
  BY DEF serialize
<1>5. p.res = [target |-> b[2], first |-> b[3], number |-> b[4]]
  BY <1>1, <1>4 DEF Allocation
<1>6. p = [mcs |-> p.mcs, per |-> p.per, res |-> p.res, mimo |-> p.mimo,
           tpc |-> p.tpc]
  BY DEF UeParameters
<1>7. deserialize(b) = [tpc |-> p.tpc, mimo |-> p.mimo, res |-> p.res,
                        per |-> p.per, mcs |-> p.mcs]
  BY <1>2, <1>3, <1>4, <1>5 DEF deserialize
<1> QED BY <1>6, <1>7

\* UESubframeTx.Start comes out of L1's deserialize as the UE wrote it.
THEOREM UeTxRoundTrip ==
    ASSUME NEW m \in UeTxStart
    PROVE  deserializeUeTx(serializeUeTx(m)) = m
<1> DEFINE b == serializeUeTx(m)
<1>1. /\ m.per \in Nibble /\ m.numerology \in Octal /\ m.gfdm \in Bit
      /\ m.res \in Allocation
  BY DEF UeTxStart
<1>2. /\ b[4] % 16 = m.per
      /\ (b[4] \div 16) % 8 = m.numerology
      /\ b[4] \div 128 = m.gfdm
  <2>1. b[4] = 128 * m.gfdm + 16 * m.numerology + m.per
    BY <1>1 DEF serializeUeTx, Octal
  <2> HIDE DEF b
  <2> QED BY <1>1, <2>1, FlagByte
<1>3. m.res = [target |-> b[1], first |-> b[2], number |-> b[3]]
  BY <1>1 DEF serializeUeTx, Allocation
<1>4. m = [res |-> m.res, numerology |-> m.numerology, gfdm |-> m.gfdm,
           per |-> m.per]
  BY DEF UeTxStart
<1>5. deserializeUeTx(b) = [per |-> m.per, numerology |-> m.numerology,
                            gfdm |-> m.gfdm, res |-> m.res]
  BY <1>2, <1>3 DEF deserializeUeTx
<1> QED BY <1>4, <1>5

\* The metrics of a UE arrive at its base station as they were reported.
THEOREM MetricsRoundTrip ==
    ASSUME NEW m \in Metrics
    PROVE  deserializeMetrics(serializeMetrics(m)) = m
<1> DEFINE b == serializeMetrics(m)
<1>1. m.head \in Byte /\ m.pmi \in Byte /\ m.ri \in Nibble /\ m.ss \in Lut
  BY DEF Metrics
<1>2. m.ss.fill \in [1 .. 16 -> Byte] /\ m.ss.last \in Nibble
  BY <1>1 DEF Lut
<1>3. b[1] = m.head /\ b[2] = m.pmi
  BY DEF serializeMetrics
<1>4. b[19] % 16 = m.ss.last /\ (b[19] \div 16) % 16 = m.ri
  <2>1. b[19] = 16 * m.ri + m.ss.last
    BY DEF serializeMetrics
  <2>2. b[19] = m.ss.last + 16 * m.ri
    BY <2>1, <1>1, <1>2 DEF Nibble
  <2> QED BY <2>2, <1>1, <1>2, Halves
<1>5. [k \in 1 .. 16 |-> b[k + 2]] = m.ss.fill
  <2>1. \A k \in 1 .. 16 : b[k + 2] = m.ss.fill[k]
    BY DEF serializeMetrics
  <2> QED BY <2>1, <1>2
<1>6. m.ss = [fill |-> m.ss.fill, last |-> m.ss.last]
  BY <1>1 DEF Lut
<1>7. m = [head |-> m.head, pmi |-> m.pmi, ri |-> m.ri, ss |-> m.ss]
  BY DEF Metrics
<1>8. deserializeMetrics(b) = [ri |-> m.ri, ss |-> m.ss, pmi |-> m.pmi,
                               head |-> m.head]
  BY <1>3, <1>4, <1>5, <1>6 DEF deserializeMetrics
<1> QED BY <1>7, <1>8

\* The number of reservations is recovered from the size of the message.
LEMMA UesAllocatedIs ==
    ASSUME NEW n \in Nat
    PROVE  UesAllocated(2 + 3 * n) = n
BY DEF UesAllocated

\* BSSubframeTx.Start comes out of L1's deserialize as the base station wrote
\* it, for any number of attached UEs.
THEOREM BsTxRoundTrip ==
    ASSUME NEW n \in Nat, NEW m \in BsTxStart(n)
    PROVE  deserializeBsTx(serializeBsTx(m)) = m
<1> DEFINE b == serializeBsTx(m)
<1>1. /\ m.res \in [1 .. n -> Allocation] /\ m.fLut \in Lut
      /\ m.numerology \in Nibble /\ m.gfdm \in Bit /\ m.per \in Nibble
  BY DEF BsTxStart
<1>2. m.fLut.fill \in [1 .. 16 -> Byte] /\ m.fLut.last \in Nibble
  BY <1>1 DEF Lut
<1>3. Len(m.res) = n
  BY <1>1
<1>4. Len(b) = 20 + 3 * n
  BY <1>3 DEF serializeBsTx
<1>5. UesAllocated(Len(b) - 18) = n
  BY <1>4, UesAllocatedIs
<1>6. b[1] = m.numUEs /\ b[2] = m.numPDUs
  BY <1>3 DEF serializeBsTx
<1>7. ASSUME NEW k \in 1 .. n
      PROVE  [target |-> b[3 * k], first |-> b[3 * k + 1],
              number |-> b[3 * k + 2]] = m.res[k]
  <2>1. /\ (3 * k) \div 3 = k /\ (3 * k) % 3 = 0
        /\ (3 * k + 1) \div 3 = k /\ (3 * k + 1) % 3 = 1
        /\ (3 * k + 2) \div 3 = k /\ (3 * k + 2) % 3 = 2
    OBVIOUS
  <2>2. 3 * k \in 3 .. 2 + 3 * n /\ 3 * k + 1 \in 3 .. 2 + 3 * n
        /\ 3 * k + 2 \in 3 .. 2 + 3 * n
    OBVIOUS
  <2>3. \A i \in 3 .. 2 + 3 * n : b[i] = AllocationByte(m.res[i \div 3], i % 3)
    BY <1>3, SMTT(30) DEF serializeBsTx
  <2>4. /\ b[3 * k] = m.res[k].target
        /\ b[3 * k + 1] = m.res[k].first
        /\ b[3 * k + 2] = m.res[k].number
    <3> HIDE DEF b
    <3> QED BY <2>1, <2>2, <2>3 DEF AllocationByte
  <2> QED BY <2>4, <1>1 DEF Allocation
<1>8. [k \in 1 .. n |-> [target |-> b[3 * k], first |-> b[3 * k + 1],
                         number |-> b[3 * k + 2]]] = m.res
  BY <1>7, <1>1
<1>9. [k \in 1 .. 16 |-> b[Len(b) - 18 + k]] = m.fLut.fill
  <2>1. ASSUME NEW k \in 1 .. 16
        PROVE  b[2 + 3 * n + k] = m.fLut.fill[k]
    <3>1. 2 + 3 * n + k \in 3 + 3 * n .. 18 + 3 * n
          /\ 2 + 3 * n + k \notin 3 .. 2 + 3 * n
          /\ 2 + 3 * n + k # 1 /\ 2 + 3 * n + k # 2
          /\ 2 + 3 * n + k \in 1 .. 20 + 3 * n
          /\ 2 + 3 * n + k - (2 + 3 * n) = k
      OBVIOUS
    <3>2. \A i \in 3 + 3 * n .. 18 + 3 * n :
             b[i] = m.fLut.fill[i - (2 + 3 * n)]
      BY <1>3 DEF serializeBsTx
    <3> HIDE DEF b
    <3> QED BY <3>1, <3>2
  <2>2. \A k \in 1 .. 16 : Len(b) - 18 + k = 2 + 3 * n + k
    BY <1>4
  <2> QED BY <2>1, <2>2, <1>2
<1>10. /\ b[19 + 3 * n] = 16 * m.numerology + m.fLut.last
       /\ b[20 + 3 * n] = 128 * m.gfdm + m.per
  BY <1>3 DEF serializeBsTx
<1>11. /\ b[Len(b) - 1] % 16 = m.fLut.last
       /\ (b[Len(b) - 1] \div 16) % 16 = m.numerology
       /\ b[Len(b)] % 16 = m.per
       /\ b[Len(b)] \div 128 = m.gfdm
  <2>1. b[Len(b) - 1] = m.fLut.last + 16 * m.numerology
        /\ b[Len(b)] = 128 * m.gfdm + m.per
    <3>1. Len(b) - 1 = 19 + 3 * n
      BY <1>4
    <3>2. 16 * m.numerology + m.fLut.last = m.fLut.last + 16 * m.numerology
      BY <1>1, <1>2, SMTT(30) DEF Nibble
    <3>3. Len(b) = 20 + 3 * n
      BY <1>4
    <3> HIDE DEF b
    <3> QED BY <3>1, <3>2, <3>3, <1>10
  <2>2. 0 \in Octal /\ 128 * m.gfdm + 16 * 0 + m.per = 128 * m.gfdm + m.per
    BY <1>1 DEF Octal, Bit, Nibble
  <2> HIDE DEF b
  <2>3. (b[Len(b) - 1]) % 16 = m.fLut.last
        /\ (b[Len(b) - 1] \div 16) % 16 = m.numerology
    BY <2>1, <1>1, <1>2, Halves, SMTT(30)
  <2>4. (b[Len(b)]) % 16 = m.per /\ b[Len(b)] \div 128 = m.gfdm
    BY <2>1, <2>2, <1>1, FlagByte
  <2> QED BY <2>3, <2>4
<1>12. m.fLut = [fill |-> m.fLut.fill, last |-> m.fLut.last]
  BY <1>1 DEF Lut
<1>13. m = [numUEs |-> m.numUEs, numPDUs |-> m.numPDUs, res |-> m.res,
            fLut |-> m.fLut, numerology |-> m.numerology, gfdm |-> m.gfdm,
            per |-> m.per]
  BY DEF BsTxStart
<1>14. deserializeBsTx(b) =
          [numUEs |-> m.numUEs, numPDUs |-> m.numPDUs, res |-> m.res,
           fLut |-> m.fLut, numerology |-> m.numerology, gfdm |-> m.gfdm,
           per |-> m.per]
  <2> HIDE DEF b
  <2> QED BY <1>5, <1>6, <1>8, <1>9, <1>11, <1>12 DEF deserializeBsTx
<1> QED BY <1>13, <1>14

(***************************************************************************)
(* The shapes of the parameter objects.                                     *)
(***************************************************************************)
\* A base station's: position u is UE u's.
BsShape(p) ==
    /\ p \in Pars
    /\ Len(p.res) = N /\ Len(p.radio) = N
    /\ p.per > 0
    /\ \A u \in Ues : p.res[u].target = u

\* The dynamic parameters of UE u: every reservation that was pushed is u's.
UeMade(u, p) ==
    /\ p \in Pars
    /\ Len(p.res) >= 1 /\ Len(p.radio) >= 1
    /\ p.per > 0
    /\ \A i \in 1 .. Len(p.res) : p.res[i].target = u

\* Its current parameters, and those of a message.
UeShape(u, p) == UeMade(u, p) /\ Len(p.res) = 1 /\ Len(p.radio) = 1

\* A message for UE u.
Message(u, b) ==
    /\ b \in Seq(Byte)
    /\ deserialize(b) \in UeParameters
    /\ deserialize(b).res.target = u
    /\ deserialize(b).per > 0

\* What a UE takes from a message is in p.
Same(p, q) == p.res = q.res /\ p.per = q.per

\* What is said to UE u last: the last message under way, or what it heard.
Latest(u) ==
    IF link[u] = << >>
    THEN [res |-> InForce(u).res[1], per |-> InForce(u).per]
    ELSE LET m == deserialize(link[u][Len(link[u])])
         IN  [res |-> m.res, per |-> m.per]

\* The base station is not between a take-over and the message to UE u.
SentTo(u) == \/ mode[BS] \in {"standby", "idle", "reconfig"}
             \/ mode[BS] = "send" /\ u < next

(***************************************************************************)
(* The inductive invariant.                                                 *)
(***************************************************************************)
BaseStation ==
    /\ BsShape(current[BS])
    /\ mode[BS] \notin {"off", "boot"} => BsShape(dynamic[BS])
    /\ mode[BS] \in {"standby", "idle", "send"} => file[BS] = current[BS]
    /\ mode[BS] \notin {"off", "boot"} /\ ~changed =>
          Same(dynamic[BS], current[BS])

UserEquipment(u) ==
    /\ UeShape(u, current[u]) /\ UeShape(u, InForce(u))
    /\ mode[u] = "boot" => dynamic[u] = Empty
    /\ mode[u] \notin {"off", "boot"} => UeMade(u, dynamic[u])
    /\ mode[u] \in {"standby", "idle"} => file[u] = current[u]
    /\ mode[u] \in {"boot", "standby", "idle", "record"} =>
          Same(current[u], InForce(u))
    /\ mode[u] = "reconfig" => Same(dynamic[u], InForce(u))

Underway(u) == \A i \in 1 .. Len(link[u]) : Message(u, link[u][i])

\* Nothing is lost between the two ends without the history saying so.
Synchronised(u) ==
    /\ synced[u] /\ mode[u] \in {"off", "boot"} => link[u] # << >>
    /\ synced[u] => mode[BS] \notin {"off", "boot"}
    /\ synced[u] /\ ~changed /\ SentTo(u) =>
          Latest(u) = [res |-> dynamic[BS].res[u], per |-> dynamic[BS].per]

IInv ==
    /\ TypeOK
    /\ BaseStation
    /\ \A u \in Ues : /\ UserEquipment(u)
                      /\ Underway(u)
                      /\ Synchronised(u)

\* The base station's address is no UE's.
LEMMA EquipmentIs ==
    /\ N \in Nat /\ N >= 1
    /\ BS \in Equipment /\ BS \notin Ues
    /\ \A u \in Ues : u \in Equipment /\ u \in Nat /\ 1 <= u /\ u <= N
    /\ \A e \in Equipment : e = BS \/ e \in Ues
BY ParametersAssumption DEF Equipment, Ues, BS

(***************************************************************************)
(* The operations on the parameter objects.                                 *)
(***************************************************************************)
\* The MIMO fields fill one byte.
LEMMA MimoByteIsByte ==
    ASSUME NEW m \in MimoFields
    PROVE  MimoByte(m) \in Byte
<1>1. /\ m.precoding \in Nibble
      /\ m.closedLoop \in {0, 1} /\ m.antenna \in {0, 1}
      /\ m.diversity \in {0, 1} /\ m.conf \in {0, 1}
  BY DEF MimoFields, Bit
<1>2. /\ m.precoding % 16 \in 0 .. 15
      /\ m.closedLoop % 2 = m.closedLoop /\ m.antenna % 2 = m.antenna
      /\ m.diversity % 2 = m.diversity /\ m.conf % 2 = m.conf
  BY <1>1 DEF Nibble
<1> QED
  BY <1>1, <1>2 DEF MimoByte, Byte

\* A parameter object by its fields.
LEMMA ParsAre ==
    ASSUME NEW p
    PROVE  p \in Pars <=> /\ p = [res |-> p.res, radio |-> p.radio,
                                  per |-> p.per]
                          /\ p.res \in Seq(Allocation)
                          /\ p.radio \in Seq(Radio)
                          /\ p.per \in Nibble
BY DEF Pars

\* A function on 1 .. n is a sequence of that length.
LEMMA FunctionIsSeq ==
    ASSUME NEW S, NEW n \in Nat, NEW f \in [1 .. n -> S]
    PROVE  f \in Seq(S) /\ Len(f) = n
OBVIOUS

\* No object that an equipment works with is empty: a torn file is told apart.
LEMMA EmptyIs ==
    /\ Empty \in Pars /\ Torn = Empty
    /\ \A p : BsShape(p) => p # Torn
    /\ \A p, u : UeMade(u, p) => p # Torn
<1>1. Empty \in Pars /\ Torn = Empty
  BY DEF Empty, Torn, Pars, Nibble
<1>2. Torn.per = 0
  BY DEF Empty, Torn
<1> QED
  BY <1>1, <1>2 DEF BsShape, UeMade

\* A base station finds UE u at position u,
LEMMA GetIndexBs ==
    ASSUME NEW p, BsShape(p), NEW u \in Ues
    PROVE  getIndex(p, u) = u
<1>1. u \in 1 .. Len(p.res) /\ u # BS /\ p.res[u].target = u
  BY EquipmentIs DEF BsShape
<1>2. \A i \in 1 .. Len(p.res) : p.res[i].target = u => i = u
  BY EquipmentIs DEF BsShape, Ues
<1> QED
  BY <1>1, <1>2, EquipmentIs DEF getIndex

\* and a UE its own address at the first position.
LEMMA GetIndexUe ==
    ASSUME NEW u \in Ues, NEW p, UeMade(u, p)
    PROVE  getIndex(p, u) = 1
<1>1. Len(p.res) \in Nat /\ 1 \in 1 .. Len(p.res) /\ u # BS
      /\ \A i \in 1 .. Len(p.res) : p.res[i].target = u
  BY EquipmentIs DEF UeMade, Pars
<1>2. \A i \in 1 .. Len(p.res) :
         (\A j \in 1 .. i - 1 : p.res[j].target # u) => i = 1
  BY <1>1
<1> QED
  BY <1>1, <1>2 DEF getIndex

\* Radio settings with other values.
LEMMA RadioWith ==
    ASSUME NEW x \in Radio
    PROVE  /\ \A c \in Nibble : [x EXCEPT !.mcs = c] \in Radio
           /\ \A m \in MimoFields, t \in Byte :
                 [x EXCEPT !.mimo = m, !.tpc = t] \in Radio
BY DEF Radio

\* The parts of a base station's parameters.
LEMMA BsParts ==
    ASSUME NEW d, BsShape(d), NEW u \in Ues
    PROVE  /\ d = [res |-> d.res, radio |-> d.radio, per |-> d.per]
           /\ d.res \in Seq(Allocation) /\ d.radio \in Seq(Radio)
           /\ d.per \in Nibble
           /\ u \in 1 .. Len(d.res) /\ u \in 1 .. Len(d.radio)
           /\ d.res[u] \in Allocation /\ d.radio[u] \in Radio
<1>1. /\ d.res \in Seq(Allocation) /\ d.radio \in Seq(Radio)
      /\ u \in 1 .. Len(d.res) /\ u \in 1 .. Len(d.radio)
  BY EquipmentIs DEF BsShape, Pars
<1>2. d.res[u] \in Allocation /\ d.radio[u] \in Radio
  BY <1>1
<1> QED
  BY <1>1, <1>2 DEF BsShape, Pars

\* A base station's parameters with another reservation of UE u.
LEMMA BsRes ==
    ASSUME NEW d, BsShape(d), NEW u \in Ues,
           NEW a \in Allocation, a.target = u
    PROVE  BsShape([d EXCEPT !.res[u] = a])
<1> DEFINE n == [d EXCEPT !.res[u] = a]
<1>1. n = [res |-> [d.res EXCEPT ![u] = a], radio |-> d.radio, per |-> d.per]
  BY BsParts, SMTT(30)
<1> HIDE DEF n
<1>2. n.res = [d.res EXCEPT ![u] = a] /\ n.radio = d.radio /\ n.per = d.per
  BY <1>1
<1>3. n.res \in Seq(Allocation) /\ Len(n.res) = Len(d.res)
  BY <1>2, BsParts
<1>4. \A v \in Ues : n.res[v].target = v
  <2> TAKE v \in Ues
  <2>1. v \in 1 .. Len(d.res) /\ d.res[v].target = v
    BY BsParts DEF BsShape
  <2> QED
    BY <1>2, <2>1, BsParts
<1>5. n \in Pars
  BY <1>1, <1>2, <1>3, BsParts DEF Pars
<1>6. BsShape(n)
  BY <1>2, <1>3, <1>4, <1>5 DEF BsShape
<1> QED
  BY <1>6 DEF n

\* And with other settings for it.
LEMMA BsRadio ==
    ASSUME NEW d, BsShape(d), NEW u \in Ues, NEW x \in Radio
    PROVE  BsShape([d EXCEPT !.radio[u] = x])
<1> DEFINE n == [d EXCEPT !.radio[u] = x]
<1>1. n = [res |-> d.res, radio |-> [d.radio EXCEPT ![u] = x], per |-> d.per]
  <2>1. d = [res |-> d.res, radio |-> d.radio, per |-> d.per]
    BY BsParts
  <2> QED
    BY <2>1
<1> HIDE DEF n
<1>2. n.res = d.res /\ n.radio = [d.radio EXCEPT ![u] = x] /\ n.per = d.per
  BY <1>1
<1>3. n.radio \in Seq(Radio) /\ Len(n.radio) = Len(d.radio)
  BY <1>2, BsParts
<1>4. n \in Pars
  BY <1>1, <1>2, <1>3, BsParts DEF Pars
<1>5. BsShape(n)
  BY <1>2, <1>3, <1>4 DEF BsShape
<1> QED
  BY <1>5 DEF n

\* A base station's take-over keeps every reservation at its place.
LEMMA TakeOverBs ==
    ASSUME NEW c, NEW d, BsShape(c), BsShape(d)
    PROVE  /\ BsShape(setCLIParameters(c, d))
           /\ Same(d, setCLIParameters(c, d))
<1> DEFINE s == setCLIParameters(c, d)
<1>1. s.res = d.res /\ s.per = d.per
  BY DEF setCLIParameters
<1>2. /\ c.radio \in Seq(Radio) /\ d.radio \in Seq(Radio)
      /\ Len(c.radio) = N /\ Len(d.radio) = N /\ Len(d.res) = N
  BY DEF BsShape, Pars
<1>3. \A i \in Ues : getIndex(d, d.res[i].target) = i
  BY GetIndexBs DEF BsShape
<1>4. \A i \in Ues : [d.radio[i] EXCEPT !.mcs = c.radio[i].mcs] \in Radio
  <2>1. \A i \in Ues : d.radio[i] \in Radio /\ c.radio[i] \in Radio
    BY <1>2 DEF Ues
  <2> QED
    BY <2>1 DEF Radio
<1>5. s.radio = [i \in 1 .. N |-> [d.radio[i] EXCEPT !.mcs = c.radio[i].mcs]]
  BY <1>2, <1>3 DEF setCLIParameters, Ues
<1>6. s.radio \in Seq(Radio) /\ Len(s.radio) = N
  <2>1. s.radio \in [1 .. N -> Radio]
    BY <1>4, <1>5 DEF Ues
  <2> QED
    BY <2>1, EquipmentIs, FunctionIsSeq
<1>7. s = [res |-> s.res, radio |-> s.radio, per |-> s.per]
  BY DEF setCLIParameters
<1>8. s \in Pars
  BY <1>1, <1>6, <1>7, ParsAre DEF BsShape
<1> QED
  BY <1>1, <1>6, <1>8 DEF BsShape, Same

\* A UE's take-over of one reservation.
LEMMA TakeOverUe ==
    ASSUME NEW u \in Ues, NEW c, NEW d, UeShape(u, c), UeMade(u, d),
           Len(d.res) = 1
    PROVE  /\ UeShape(u, setCLIParameters(c, d))
           /\ Same(d, setCLIParameters(c, d))
<1> DEFINE s == setCLIParameters(c, d)
<1>1. s.res = d.res /\ s.per = d.per
  BY DEF setCLIParameters
<1>2. /\ c.radio \in Seq(Radio) /\ d.radio \in Seq(Radio)
      /\ Len(c.radio) = 1 /\ Len(d.radio) >= 1 /\ Len(d.res) = 1
  BY DEF UeShape, UeMade, Pars
<1>3. getIndex(d, d.res[1].target) = 1
  BY <1>2, GetIndexUe DEF UeMade
<1>4. [d.radio[1] EXCEPT !.mcs = c.radio[1].mcs] \in Radio
  <2>1. d.radio[1] \in Radio /\ c.radio[1] \in Radio
    BY <1>2
  <2> QED
    BY <2>1 DEF Radio
<1>5. s.radio = [i \in 1 .. 1 |-> [d.radio[1] EXCEPT !.mcs = c.radio[i].mcs]]
  BY <1>2, <1>3 DEF setCLIParameters
<1>6. s.radio \in Seq(Radio) /\ Len(s.radio) = 1
  <2>1. s.radio \in [1 .. 1 -> Radio]
    BY <1>4, <1>5
  <2> QED
    BY <2>1, FunctionIsSeq
<1>7. s = [res |-> s.res, radio |-> s.radio, per |-> s.per]
  BY DEF setCLIParameters
<1>8. s \in Pars
  BY <1>1, <1>6, <1>7, ParsAre DEF UeMade
<1> QED
  BY <1>1, <1>2, <1>6, <1>8 DEF UeShape, UeMade, Same

\* A UE pushes its current parameters behind what it has.
LEMMA FillUe ==
    ASSUME NEW u \in Ues, NEW c, NEW d, UeShape(u, c),
           d = Empty \/ UeMade(u, d)
    PROVE  UeMade(u, fill(u, d, c))
<1> DEFINE s == fill(u, d, c)
<1>1. s = [res   |-> Append(d.res, c.res[1]),
           radio |-> Append(d.radio, c.radio[1]),
           per   |-> c.per]
  BY EquipmentIs DEF fill
<1>2. /\ d.res \in Seq(Allocation) /\ d.radio \in Seq(Radio)
      /\ \A i \in 1 .. Len(d.res) : d.res[i].target = u
  <2>1. CASE d = Empty
    BY <2>1 DEF Empty
  <2>2. CASE UeMade(u, d)
    BY <2>2 DEF UeMade, Pars
  <2> QED
    BY <2>1, <2>2
<1>3. /\ c.res[1] \in Allocation /\ c.radio[1] \in Radio /\ c.per \in Nibble
      /\ c.per > 0 /\ c.res[1].target = u
  BY DEF UeShape, UeMade, Pars
<1> HIDE DEF s
<1>4. s \in Pars
  BY <1>1, <1>2, <1>3 DEF Pars
<1> QED
  <2>1. s.res = Append(d.res, c.res[1]) /\ s.radio = Append(d.radio, c.radio[1])
        /\ s.per = c.per
    BY <1>1
  <2>2. /\ Len(s.res) = Len(d.res) + 1 /\ Len(s.radio) = Len(d.radio) + 1
        /\ Len(d.res) \in Nat /\ Len(d.radio) \in Nat
    BY <1>2, <1>3, <2>1
  <2>3. ASSUME NEW i \in 1 .. Len(s.res)
        PROVE  s.res[i].target = u
    <3>1. CASE i = Len(d.res) + 1
      BY <1>2, <1>3, <2>1, <3>1
    <3>2. CASE i \in 1 .. Len(d.res)
      <4>1. s.res[i] = d.res[i]
        BY <1>2, <1>3, <2>1, <3>2
      <4> QED
        BY <1>2, <3>2, <4>1
    <3> QED
      BY <2>2, <3>1, <3>2
  <2>4. UeMade(u, s)
    BY <1>3, <1>4, <2>1, <2>2, <2>3 DEF UeMade
  <2> QED
    BY <2>4 DEF s

\* A UE pushes what it received, but for its only reservation.
LEMMA ReceiveUe ==
    ASSUME NEW u \in Ues, NEW d, UeMade(u, d), NEW b, Message(u, b)
    PROVE  LET m == deserialize(b)
               h == [res |-> << m.res >>, per |-> m.per,
                     radio |-> << [mimo |-> m.mimo, tpc |-> m.tpc,
                                   mcs |-> m.mcs] >>]
           IN  /\ UeMade(u, deserialized(d, m))
               /\ UeShape(u, h)
               /\ Same(deserialized(d, m), h)
<1> DEFINE m == deserialize(b)
<1> DEFINE r == [mimo |-> m.mimo, tpc |-> m.tpc, mcs |-> m.mcs]
<1> DEFINE h == [res |-> << m.res >>, per |-> m.per, radio |-> << r >>]
<1> DEFINE s == deserialized(d, m)
<1>1. /\ m.res \in Allocation /\ m.per \in Nibble /\ r \in Radio
      /\ m.per > 0 /\ m.res.target = u
  BY DEF Message, UeParameters, Radio
<1>2. d.radio \in Seq(Radio)
  BY DEF UeMade, Pars
<1>3. s = [res |-> << m.res >>, radio |-> Append(d.radio, r), per |-> m.per]
  BY DEF deserialized
<1> HIDE DEF m, r
<1>4. s \in Pars /\ h \in Pars
  <2> HIDE DEF s
  <2> QED
    BY <1>1, <1>2, <1>3 DEF Pars
<1>5. UeMade(u, s)
  BY <1>1, <1>2, <1>3, <1>4 DEF UeMade
<1>6. UeShape(u, h)
  BY <1>1, <1>4 DEF UeShape, UeMade
<1>7. Same(s, h)
  BY <1>3 DEF Same
<1> QED
  BY <1>5, <1>6, <1>7 DEF m, r

\* What the base station sends to UE u is a message for u, with u's
\* reservation.
LEMMA SendUe ==
    ASSUME NEW u \in Ues, BsShape(dynamic[BS])
    PROVE  /\ Message(u, messageTo(u))
           /\ deserialize(messageTo(u)).res = dynamic[BS].res[u]
           /\ deserialize(messageTo(u)).per = dynamic[BS].per
<1> DEFINE d == dynamic[BS]
<1> DEFINE p == [mcs |-> d.radio[u].mcs, per |-> d.per, res |-> d.res[u],
                 mimo |-> d.radio[u].mimo, tpc |-> d.radio[u].tpc]
<1>1. messageTo(u) = serialize(p)
  BY GetIndexBs DEF messageTo
<1>2. /\ d.radio[u] \in Radio /\ d.res[u] \in Allocation /\ d.per \in Nibble
      /\ d.per > 0 /\ d.res[u].target = u
  BY EquipmentIs DEF BsShape, Pars
<1>3. p \in UeParameters
  BY <1>2 DEF UeParameters, Radio
<1>4. deserialize(serialize(p)) = p
  BY <1>3, ParametersRoundTrip
<1>5. serialize(p) \in Seq(Byte)
  <2>1. /\ p.mcs \in Nibble /\ p.per \in Nibble /\ p.tpc \in Byte
        /\ p.res.target \in Byte /\ p.res.first \in Byte
        /\ p.res.number \in Byte /\ p.mimo \in MimoFields
    BY <1>3 DEF UeParameters, Allocation
  <2>2. (p.mcs % 16) + 16 * (p.per % 16) \in Byte
    BY <2>1 DEF Nibble, Byte
  <2>3. MimoByte(p.mimo) \in Byte
    BY <2>1, MimoByteIsByte
  <2> HIDE DEF p
  <2> QED
    BY <2>1, <2>2, <2>3 DEF serialize
<1> QED
  BY <1>1, <1>2, <1>3, <1>4, <1>5 DEF Message

\* What Default.txt holds has the shape of what the equipment works with.
LEMMA DefaultIs ==
    /\ BsShape(Default[BS])
    /\ \A u \in Ues : UeShape(u, Default[u])
    /\ \A e \in Equipment : Default[e] \in Pars
BY ParametersAssumption, EquipmentIs DEF BsShape, UeShape, UeMade

(***************************************************************************)
(* What a step leaves alone.                                                *)
(***************************************************************************)
\* Nothing of the base station's changes.
LEMMA FrameBs ==
    ASSUME BaseStation, mode'[BS] = mode[BS], file'[BS] = file[BS],
           current'[BS] = current[BS], dynamic'[BS] = dynamic[BS],
           changed' = changed
    PROVE  BaseStation'
BY DEF BaseStation, Same

\* Nothing of UE u's changes.
LEMMA FrameUe ==
    ASSUME NEW u \in Ues, UserEquipment(u), mode'[u] = mode[u],
           file'[u] = file[u], current'[u] = current[u],
           dynamic'[u] = dynamic[u], heard'[u] = heard[u],
           received'[u] = received[u]
    PROVE  UserEquipment(u)'
BY DEF UserEquipment, InForce, Same

\* The link to UE u does not change.
LEMMA FrameLink ==
    ASSUME NEW u \in Ues, Underway(u), link'[u] = link[u]
    PROVE  Underway(u)'
BY DEF Underway

\* The history still tells the truth of UE u, if neither the channel to it nor
\* the base station's parameters are touched.
LEMMA FrameSync ==
    ASSUME NEW u \in Ues, Synchronised(u),
           synced'[u] => synced[u], ~changed' => ~changed,
           link'[u] = link[u], heard'[u] = heard[u],
           received'[u] = received[u],
           ~changed => /\ dynamic'[BS].res = dynamic[BS].res
                       /\ dynamic'[BS].per = dynamic[BS].per,
           synced'[u] => mode'[BS] \notin {"off", "boot"},
           synced'[u] /\ mode'[u] \in {"off", "boot"} =>
              mode[u] \in {"off", "boot"},
           SentTo(u)' => SentTo(u)
    PROVE  Synchronised(u)'
BY DEF Synchronised, Latest, InForce

(***************************************************************************)
(* Each action keeps the invariant.                                         *)
(***************************************************************************)
\* The invariant holds in every initial state.
LEMMA InitInvariant == Init => IInv
<1> SUFFICES ASSUME Init PROVE IInv
  OBVIOUS
<1>1. TypeOK
  <2>1. \A u \in Ues : Default[u] \in Pars /\ Default[u].per \in Nat
    BY DefaultIs, EquipmentIs DEF Pars, Nibble
  <2>2. Default \in [Equipment -> Pars] /\ Torn \in Pars /\ Empty \in Pars
        /\ 1 \in Ues
    BY ParametersAssumption, EmptyIs, EquipmentIs DEF Ues
  <2>3. /\ synced \in [Ues -> BOOLEAN] /\ changed \in BOOLEAN
        /\ received \in [Ues -> BOOLEAN]
    BY DEF Init
  <2>4. link \in [Ues -> Seq(Seq(Byte))]
    <3>1. << >> \in Seq(Seq(Byte))
      OBVIOUS
    <3> QED
      BY <3>1 DEF Init
  <2>5. /\ mode \in [Equipment -> {"off", "boot", "standby", "idle",
                                   "reconfig", "record", "send"}]
        /\ \A e \in Equipment : mode[e] = "send" => e = BS
    BY DEF Init
  <2>6. /\ file \in [Equipment -> Pars] /\ current \in [Equipment -> Pars]
        /\ dynamic \in [Equipment -> Pars] /\ heard \in [Ues -> Pars]
    BY <2>1, <2>2 DEF Init
  <2>7. /\ next \in Ues
        /\ sets \in Nat /\ requests \in Nat /\ faults \in Nat
    BY <2>1, <2>2 DEF Init
  <2> QED
    BY <2>3, <2>4, <2>5, <2>6, <2>7 DEF TypeOK
<1>2. BaseStation
  BY DefaultIs, EquipmentIs DEF Init, BaseStation
<1>3. ASSUME NEW u \in Ues
      PROVE  UserEquipment(u) /\ Underway(u) /\ Synchronised(u)
  <2>1. UserEquipment(u)
    BY DefaultIs, EquipmentIs DEF Init, UserEquipment, InForce
  <2>2. Underway(u) /\ Synchronised(u)
    BY DEF Init, Underway, Synchronised
  <2> QED
    BY <2>1, <2>2
<1> QED
  BY <1>1, <1>2, <1>3 DEF IInv

\* Default.txt has the shape that the equipment works with.
LEMMA BootKeeps ==
    ASSUME IInv, NEW e \in Equipment, Boot(e)
    PROVE  IInv'
<1> USE EquipmentIs DEF Go
<1>1. TypeOK'
  BY DefaultIs, EmptyIs
  DEF IInv, TypeOK, Boot, contents, history, bounds, UeShape, UeMade
<1>2. BaseStation'
  <2>1. CASE e = BS
    BY <2>1, DefaultIs DEF IInv, TypeOK, Boot, BaseStation
  <2>2. CASE e # BS
    BY <2>2, FrameBs DEF IInv, TypeOK, Boot
  <2> QED
    BY <2>1, <2>2
<1>3. ASSUME NEW u \in Ues
      PROVE  UserEquipment(u)'
  <2>1. CASE e = u
    BY <2>1, DefaultIs
    DEF IInv, TypeOK, Boot, UserEquipment, InForce, Same
  <2>2. CASE e # u
    BY <2>2, FrameUe DEF IInv, TypeOK, Boot
  <2> QED
    BY <2>1, <2>2
<1>4. ASSUME NEW u \in Ues
      PROVE  Underway(u)'
  BY FrameLink DEF IInv, Boot, bounds
<1>5. ASSUME NEW u \in Ues
      PROVE  Synchronised(u)'
  <2>1. CASE e = BS
    BY <2>1 DEF IInv, TypeOK, Boot, Synchronised
  <2>2. CASE e = u
    BY <2>2 DEF IInv, TypeOK, Boot, Synchronised, SentTo, Latest, InForce
  <2>3. CASE e \notin {BS, u}
    BY <2>3, FrameSync DEF IInv, TypeOK, Boot, Synchronised, SentTo
  <2> QED
    BY <2>1, <2>2, <2>3
<1> QED
  BY <1>1, <1>2, <1>3, <1>4, <1>5 DEF IInv

\* The file is written before the equipment stands by.
LEMMA BootedKeeps ==
    ASSUME IInv, NEW e \in Equipment, Booted(e)
    PROVE  IInv'
<1> USE EquipmentIs DEF Go
<1>1. fill(e, dynamic[e], current[e]) \in Pars
  <2>1. CASE e = BS
    BY <2>1 DEF fill, IInv, TypeOK
  <2>2. CASE e \in Ues
    BY <2>2, FillUe DEF IInv, UserEquipment, Booted, UeMade
  <2> QED
    BY <2>1, <2>2
<1>2. TypeOK'
  BY <1>1 DEF IInv, TypeOK, Booted, contents, history, bounds
<1>3. BaseStation'
  <2>1. CASE e = BS
    BY <2>1 DEF IInv, TypeOK, Booted, BaseStation, fill, Same, history
  <2>2. CASE e # BS
    BY <2>2, FrameBs DEF IInv, TypeOK, Booted, history
  <2> QED
    BY <2>1, <2>2
<1>4. ASSUME NEW u \in Ues
      PROVE  UserEquipment(u)'
  <2>1. CASE e = u
    BY <2>1, FillUe
    DEF IInv, TypeOK, Booted, UserEquipment, InForce, Same, history
  <2>2. CASE e # u
    BY <2>2, FrameUe DEF IInv, TypeOK, Booted, history
  <2> QED
    BY <2>1, <2>2
<1>5. ASSUME NEW u \in Ues
      PROVE  Underway(u)'
  BY FrameLink DEF IInv, Booted, history
<1>6. ASSUME NEW u \in Ues
      PROVE  Synchronised(u)'
  <2>1. CASE e = BS
    BY <2>1 DEF IInv, TypeOK, Booted, Synchronised, history
  <2>2. CASE e # BS
    BY <2>2, FrameSync
    DEF IInv, TypeOK, Booted, Synchronised, SentTo, history
  <2> QED
    BY <2>1, <2>2
<1> QED
  BY <1>2, <1>3, <1>4, <1>5, <1>6 DEF IInv

\* CONFIG_MODE finds a complete file: an equipment that boots goes to
\* STANDBY_MODE only when it has written it.
LEMMA StartKeeps ==
    ASSUME IInv, NEW e \in Equipment, Start(e)
    PROVE  IInv'
<1> USE EquipmentIs DEF Go
<1>1. mode[e] = "standby" /\ file[e] = current[e] /\ file[e] # Torn
  BY EmptyIs DEF Start, IInv, BaseStation, UserEquipment, UeShape
<1>2. /\ mode' = [mode EXCEPT ![e] = "idle"]
      /\ current' = [current EXCEPT ![e] = file[e]]
      /\ current'[e] = current[e] /\ current' = current
      /\ dynamic' = [dynamic EXCEPT ![e] = fill(e, @, current[e])]
  BY <1>1 DEF Start, IInv, TypeOK
<1>3. fill(e, dynamic[e], current[e]) \in Pars
  <2>1. CASE e = BS
    BY <2>1 DEF fill, IInv, TypeOK
  <2>2. CASE e \in Ues
    BY <2>2, <1>1, FillUe DEF IInv, UserEquipment, UeMade
  <2> QED
    BY <2>1, <2>2
<1>4. dynamic' \in [Equipment -> Pars]
  BY <1>2, <1>3 DEF IInv, TypeOK
<1>5. TypeOK'
  BY <1>2, <1>4 DEF IInv, TypeOK, Start, history, bounds
<1>6. BaseStation'
  <2>1. CASE e = BS
    BY <1>1, <1>2, <2>1
    DEF IInv, TypeOK, Start, BaseStation, fill, Same, history
  <2>2. CASE e # BS
    BY <1>2, <2>2, FrameBs DEF IInv, TypeOK, Start, history
  <2> QED
    BY <2>1, <2>2
<1>7. ASSUME NEW u \in Ues
      PROVE  UserEquipment(u)'
  <2>1. CASE e = u
    <3>1. UeMade(u, fill(u, dynamic[u], current[u]))
      BY <1>1, <2>1, FillUe DEF IInv, UserEquipment
    <3>2. /\ dynamic'[u] = fill(u, dynamic[u], current[u])
          /\ mode'[u] = "idle" /\ current'[u] = current[u]
          /\ file'[u] = file[u] /\ heard'[u] = heard[u]
          /\ received'[u] = received[u]
      BY <1>2, <2>1 DEF IInv, TypeOK, Start, history
    <3> QED
      BY <1>1, <2>1, <3>1, <3>2 DEF IInv, UserEquipment, InForce, Same
  <2>2. CASE e # u
    BY <1>2, <2>2, FrameUe DEF IInv, TypeOK, Start, history
  <2> QED
    BY <2>1, <2>2
<1>8. ASSUME NEW u \in Ues
      PROVE  Underway(u)'
  BY FrameLink DEF IInv, Start
<1>9. ASSUME NEW u \in Ues
      PROVE  Synchronised(u)'
  <2>1. CASE e = BS
    <3>1. ~changed => Same(dynamic'[BS], dynamic[BS])
      <4>1. dynamic'[BS] = current[BS]
        BY <1>2, <2>1 DEF IInv, TypeOK, fill
      <4> QED
        BY <1>1, <2>1, <4>1 DEF IInv, BaseStation, Same
    <3>2. SentTo(u)' => SentTo(u)
      BY <1>1, <1>2, <2>1 DEF SentTo
    <3> QED
      BY <1>1, <1>2, <2>1, <3>1, <3>2, FrameSync
      DEF IInv, TypeOK, Start, Same, history
  <2>2. CASE e # BS
    BY <1>1, <1>2, <2>2, FrameSync, SMTT(30)
    DEF IInv, TypeOK, Start, Synchronised, SentTo, history
  <2> QED
    BY <2>1, <2>2
<1> QED
  BY <1>5, <1>6, <1>7, <1>8, <1>9 DEF IInv

\* A stop touches no parameters.
LEMMA StopKeeps ==
    ASSUME IInv, NEW e \in Equipment, Stop(e)
    PROVE  IInv'
<1> USE EquipmentIs DEF Go, contents, history
<1>1. TypeOK'
  BY DEF IInv, TypeOK, Stop
<1>2. BaseStation'
  <2>1. CASE e = BS
    BY <2>1 DEF IInv, TypeOK, Stop, BaseStation, Same
  <2>2. CASE e # BS
    BY <2>2, FrameBs DEF IInv, TypeOK, Stop
  <2> QED
    BY <2>1, <2>2
<1>3. ASSUME NEW u \in Ues
      PROVE  UserEquipment(u)'
  <2>1. CASE e = u
    BY <2>1 DEF IInv, TypeOK, Stop, UserEquipment, InForce, Same
  <2>2. CASE e # u
    BY <2>2, FrameUe DEF IInv, TypeOK, Stop
  <2> QED
    BY <2>1, <2>2
<1>4. ASSUME NEW u \in Ues
      PROVE  Underway(u)'
  BY FrameLink DEF IInv, Stop
<1>5. ASSUME NEW u \in Ues
      PROVE  Synchronised(u)'
  BY FrameSync DEF IInv, TypeOK, Stop, Synchronised, SentTo
<1> QED
  BY <1>1, <1>2, <1>3, <1>4, <1>5 DEF IInv

\* A crash ends what the two ends knew of each other.
LEMMA CrashKeeps ==
    ASSUME IInv, NEW e \in Equipment, Crash(e)
    PROVE  IInv'
<1> USE EquipmentIs DEF contents, history
<1>1. TypeOK'
  <2>1. synced' \in [Ues -> BOOLEAN]
    BY DEF IInv, TypeOK, Crash
  <2> QED
    BY <2>1 DEF IInv, TypeOK, Crash
<1>2. BaseStation'
  <2>1. CASE e = BS
    BY <2>1 DEF IInv, TypeOK, Crash, BaseStation, Same
  <2>2. CASE e # BS
    BY <2>2, FrameBs DEF IInv, TypeOK, Crash
  <2> QED
    BY <2>1, <2>2
<1>3. ASSUME NEW u \in Ues
      PROVE  UserEquipment(u)'
  <2>1. CASE e = u
    BY <2>1 DEF IInv, TypeOK, Crash, UserEquipment, InForce, Same
  <2>2. CASE e # u
    BY <2>2, FrameUe DEF IInv, TypeOK, Crash
  <2> QED
    BY <2>1, <2>2
<1>4. ASSUME NEW u \in Ues
      PROVE  Underway(u)'
  BY FrameLink DEF IInv, Crash
<1>5. ASSUME NEW u \in Ues
      PROVE  Synchronised(u)'
  <2>1. CASE e \in {BS, u}
    BY <2>1 DEF IInv, TypeOK, Crash, Synchronised
  <2>2. CASE e \notin {BS, u}
    BY <2>2, FrameSync DEF IInv, TypeOK, Crash, Synchronised, SentTo
  <2> QED
    BY <2>1, <2>2
<1> QED
  BY <1>1, <1>2, <1>3, <1>4, <1>5 DEF IInv

\* A change at the CLI keeps each reservation at its place.
LEMMA CliSetKeeps ==
    ASSUME IInv, NEW d, BsShape(d), CliSet(d)
    PROVE  IInv'
<1> USE EquipmentIs
<1>1. TypeOK'
  BY DEF IInv, TypeOK, CliSet, BsShape
<1>2. BaseStation'
  BY DEF IInv, TypeOK, CliSet, BaseStation
<1>3. ASSUME NEW u \in Ues
      PROVE  UserEquipment(u)'
  BY FrameUe DEF IInv, TypeOK, CliSet
<1>4. ASSUME NEW u \in Ues
      PROVE  Underway(u)'
  BY FrameLink DEF IInv, CliSet
<1>5. ASSUME NEW u \in Ues
      PROVE  Synchronised(u)'
  BY DEF IInv, TypeOK, CliSet, Synchronised
<1> QED
  BY <1>1, <1>2, <1>3, <1>4, <1>5 DEF IInv

\* The setters write at the position of the UE's address.
LEMMA SettersKeep ==
    ASSUME IInv, NEW u \in Ues
    PROVE  /\ \A a \in Allocations : setUlReservation(u, a) => IInv'
           /\ \A r \in Radios : setRadio(u, r) => IInv'
           /\ \A p \in Periods : setRxMetricPeriodicity(p) => IInv'
<1> DEFINE d == dynamic[BS]
<1>1. ASSUME Up(BS)
      PROVE  BsShape(d) /\ getIndex(d, u) = u
  BY <1>1, GetIndexBs DEF IInv, BaseStation, Up
<1>2. ASSUME NEW a \in Allocations, setUlReservation(u, a)
      PROVE  IInv'
  <2> DEFINE r == [target |-> u, first |-> a.first, number |-> a.number]
  <2>1. Up(BS)
    BY <1>2 DEF setUlReservation, CliSet
  <2>2. CliSet([d EXCEPT !.res[u] = r])
    BY <1>1, <1>2, <2>1 DEF setUlReservation
  <2>3. r \in Allocation
    <3>1. d.res[u] \in Allocation /\ d.res[u].target = u
      BY <1>1, <2>1, BsParts DEF BsShape
    <3> QED
      BY <3>1, ParametersAssumption DEF Allocation
  <2> HIDE DEF r, d
  <2>4. BsShape([d EXCEPT !.res[u] = r])
    BY <1>1, <2>1, <2>3, BsRes DEF r
  <2> QED
    BY <2>2, <2>4, CliSetKeeps
<1>3. ASSUME NEW r \in Radios, setRadio(u, r)
      PROVE  IInv'
  <2> DEFINE x == [d.radio[u] EXCEPT !.mimo = r.mimo, !.tpc = r.tpc]
  <2>1. Up(BS)
    BY <1>3 DEF setRadio, CliSet
  <2>2. CliSet([d EXCEPT !.radio[u] = x])
    <3>1. CliSet([d EXCEPT !.radio[u].mimo = r.mimo, !.radio[u].tpc = r.tpc])
      BY <1>1, <1>3, <2>1 DEF setRadio
    <3>2. [d EXCEPT !.radio[u].mimo = r.mimo, !.radio[u].tpc = r.tpc]
            = [d EXCEPT !.radio[u] = x]
      <4> HIDE DEF d
      <4> QED
        BY <1>1, <2>1, BsParts DEF Radio
    <3> QED
      BY <3>1, <3>2
  <2>3. x \in Radio
    <3>1. r.mimo \in MimoFields /\ r.tpc \in Byte
      BY ParametersAssumption
    <3>2. d.radio[u] \in Radio
      BY <1>1, <2>1, BsParts
    <3> QED
      BY <3>1, <3>2, RadioWith
  <2> HIDE DEF x, d
  <2>4. BsShape([d EXCEPT !.radio[u] = x])
    BY <1>1, <2>1, <2>3, BsRadio
  <2> QED
    BY <2>2, <2>4, CliSetKeeps
<1>4. ASSUME NEW p \in Periods, setRxMetricPeriodicity(p)
      PROVE  IInv'
  <2> DEFINE n == [d EXCEPT !.per = p]
  <2>1. Up(BS) /\ CliSet(n)
    BY <1>4 DEF setRxMetricPeriodicity, CliSet
  <2>2. p \in Nibble /\ p > 0
    BY ParametersAssumption DEF Nibble
  <2>3. BsShape(n)
    BY <1>1, <2>1, <2>2 DEF BsShape, Pars
  <2> QED
    BY <2>1, <2>3, CliSetKeeps
<1> QED
  BY <1>2, <1>3, <1>4

\* The uplink MCS is no part of what the UEs are told but by the next message.
LEMMA SetMcsUplinkKeeps ==
    ASSUME IInv, NEW w \in Ues, setMcsUplink(w)
    PROVE  IInv'
<1> USE EquipmentIs DEF contents, history
<1> DEFINE d == dynamic[BS]
<1> DEFINE x == [d.radio[w] EXCEPT !.mcs = cqiToMcs(sinrToCqi)]
<1> DEFINE n == [d EXCEPT !.radio[w] = x]
<1>1. BsShape(d) /\ mode[BS] = "idle" /\ getIndex(d, w) = w
  BY GetIndexBs DEF IInv, BaseStation, setMcsUplink
<1>2. dynamic' = [dynamic EXCEPT ![BS] = n]
  <2>1. dynamic' = [dynamic EXCEPT ![BS].radio[w].mcs = cqiToMcs(sinrToCqi)]
    BY <1>1 DEF setMcsUplink
  <2> QED
    BY <2>1
<1>3. x \in Radio
  <2>1. cqiToMcs(sinrToCqi) \in Nibble
    BY DEF cqiToMcs, Nibble
  <2> QED
    BY <1>1, <2>1, RadioWith, BsParts
<1> HIDE DEF x, d
<1>4. n.res = d.res /\ n.per = d.per /\ BsShape(n)
  BY <1>1, <1>3, BsParts, BsRadio
<1> HIDE DEF n
<1>5. TypeOK'
  <2>1. n \in Pars
    BY <1>4 DEF BsShape
  <2> QED
    <3>1. dynamic' \in [Equipment -> Pars]
      BY <1>2, <2>1 DEF IInv, TypeOK
    <3> QED
      BY <3>1 DEF IInv, TypeOK, setMcsUplink, bounds
<1>6. dynamic'[BS] = n
  BY <1>2 DEF IInv, TypeOK
<1>7. BaseStation'
  BY <1>1, <1>4, <1>6 DEF IInv, setMcsUplink, BaseStation, Same, d
<1>8. ASSUME NEW u \in Ues
      PROVE  UserEquipment(u)'
  BY <1>2, FrameUe DEF IInv, TypeOK, setMcsUplink
<1>9. ASSUME NEW u \in Ues
      PROVE  Underway(u)'
  BY FrameLink DEF IInv, setMcsUplink
<1>10. ASSUME NEW u \in Ues
       PROVE  Synchronised(u)'
  BY <1>1, <1>4, <1>6, FrameSync DEF IInv, setMcsUplink, SentTo, d
<1> QED
  BY <1>5, <1>7, <1>8, <1>9, <1>10 DEF IInv

\* A request touches no parameters.
LEMMA RequestKeeps ==
    ASSUME IInv, Request
    PROVE  IInv'
<1> USE EquipmentIs DEF Go, contents, history
<1>1. TypeOK'
  BY DEF IInv, TypeOK, Request
<1>2. BaseStation'
  BY DEF IInv, TypeOK, Request, BaseStation, Same
<1>3. ASSUME NEW u \in Ues
      PROVE  UserEquipment(u)'
  BY FrameUe DEF IInv, TypeOK, Request
<1>4. ASSUME NEW u \in Ues
      PROVE  Underway(u)'
  BY FrameLink DEF IInv, Request
<1>5. ASSUME NEW u \in Ues
      PROVE  Synchronised(u)'
  BY FrameSync DEF IInv, TypeOK, Request, SentTo
<1> QED
  BY <1>1, <1>2, <1>3, <1>4, <1>5 DEF IInv

\* The take-over: what was received or set is what the equipment works with.
LEMMA TakeOverKeeps ==
    ASSUME IInv, NEW e \in Equipment, TakeOver(e)
    PROVE  IInv'
<1> USE EquipmentIs DEF Go
<1> DEFINE s == setCLIParameters(current[e], dynamic[e])
<1>1. e = BS => BsShape(s) /\ Same(dynamic[e], s)
  BY TakeOverBs DEF IInv, BaseStation, TakeOver
<1>2. e \in Ues => UeShape(e, s) /\ Same(dynamic[e], s)
                      /\ Same(dynamic[e], InForce(e))
  <2> SUFFICES ASSUME e \in Ues
               PROVE  UeShape(e, s) /\ Same(dynamic[e], s)
                        /\ Same(dynamic[e], InForce(e))
    OBVIOUS
  <2>1. UeShape(e, current[e]) /\ UeMade(e, dynamic[e])
           /\ Same(dynamic[e], InForce(e)) /\ UeShape(e, InForce(e))
    BY DEF IInv, UserEquipment, TakeOver
  <2>2. Len(dynamic[e].res) = 1
    BY <2>1 DEF Same, UeShape
  <2> QED
    BY <2>1, <2>2, TakeOverUe
<1>3. s \in Pars
  BY <1>1, <1>2 DEF BsShape, UeShape, UeMade
<1>4. current' = [current EXCEPT ![e] = s]
  BY DEF TakeOver
<1> HIDE DEF s
<1>5. TypeOK'
  <2>1. current' \in [Equipment -> Pars] /\ file' \in [Equipment -> Pars]
    BY <1>3, <1>4, EmptyIs DEF IInv, TypeOK, TakeOver
  <2>2. changed' \in BOOLEAN
    BY DEF TakeOver
  <2> QED
    BY <2>1, <2>2 DEF IInv, TypeOK, TakeOver, bounds
<1>6. BaseStation'
  <2>1. CASE e = BS
    BY <1>1, <1>4, <2>1 DEF IInv, TypeOK, TakeOver, BaseStation, Same
  <2>2. CASE e # BS
    <3>1. changed' = changed
      BY <2>2 DEF TakeOver, IInv, TypeOK
    <3> QED
      BY <1>4, <2>2, <3>1, FrameBs DEF IInv, TypeOK, TakeOver
  <2> QED
    BY <2>1, <2>2
<1>7. ASSUME NEW u \in Ues
      PROVE  UserEquipment(u)'
  <2>1. CASE e = u
    <3>1. /\ current'[u] = s /\ dynamic'[u] = dynamic[u]
          /\ InForce(u)' = InForce(u) /\ mode'[u] = "record"
          /\ mode[u] = "reconfig"
      BY <1>4, <2>1 DEF IInv, TypeOK, TakeOver, InForce
    <3>2. UeShape(u, s) /\ Same(s, InForce(u))
      BY <1>2, <2>1 DEF Same
    <3> QED
      BY <3>1, <3>2 DEF IInv, UserEquipment, Same
  <2>2. CASE e # u
    BY <1>4, <2>2, FrameUe DEF IInv, TypeOK, TakeOver
  <2> QED
    BY <2>1, <2>2
<1>8. ASSUME NEW u \in Ues
      PROVE  Underway(u)'
  BY FrameLink DEF IInv, TakeOver
<1>9. ASSUME NEW u \in Ues
      PROVE  Synchronised(u)'
  <2>1. CASE e = BS
    BY <2>1 DEF IInv, TypeOK, TakeOver, Synchronised, SentTo
  <2>2. CASE e # BS
    <3>1. ~changed' => ~changed
      BY <2>2 DEF TakeOver
    <3> QED
      BY <2>2, <3>1, FrameSync
      DEF IInv, TypeOK, TakeOver, Synchronised, SentTo
  <2> QED
    BY <2>1, <2>2
<1> QED
  BY <1>5, <1>6, <1>7, <1>8, <1>9 DEF IInv

\* The file is complete before the mode is left.
LEMMA RecordedKeeps ==
    ASSUME IInv, NEW e \in Equipment, Recorded(e)
    PROVE  IInv'
<1> USE EquipmentIs DEF Go, history
<1>1. TypeOK'
  <2>1. next' \in Ues
    BY DEF IInv, TypeOK, Recorded, Ues
  <2> QED
    BY <2>1 DEF IInv, TypeOK, Recorded, bounds
<1>2. BaseStation'
  <2>1. CASE e = BS
    BY <2>1 DEF IInv, TypeOK, Recorded, BaseStation, Same
  <2>2. CASE e # BS
    BY <2>2, FrameBs DEF IInv, TypeOK, Recorded
  <2> QED
    BY <2>1, <2>2
<1>3. ASSUME NEW u \in Ues
      PROVE  UserEquipment(u)'
  <2>1. CASE e = u
    BY <2>1 DEF IInv, TypeOK, Recorded, UserEquipment, InForce, Same
  <2>2. CASE e # u
    BY <2>2, FrameUe DEF IInv, TypeOK, Recorded
  <2> QED
    BY <2>1, <2>2
<1>4. ASSUME NEW u \in Ues
      PROVE  Underway(u)'
  BY FrameLink DEF IInv, Recorded
<1>5. ASSUME NEW u \in Ues
      PROVE  Synchronised(u)'
  <2>1. SentTo(u)' => SentTo(u)
    BY DEF IInv, TypeOK, Recorded, SentTo
  <2> QED
    BY <2>1, FrameSync DEF IInv, TypeOK, Recorded, Synchronised
<1> QED
  BY <1>1, <1>2, <1>3, <1>4, <1>5 DEF IInv

\* The base station tells the next UE what its dynamic parameters are by now.
LEMMA SendToKeeps ==
    ASSUME IInv, SendTo
    PROVE  IInv'
<1> USE EquipmentIs DEF Go, contents
<1> DEFINE b == messageTo(next)
<1>1. next \in Ues /\ mode[BS] = "send" /\ BsShape(dynamic[BS])
  BY DEF IInv, TypeOK, SendTo, BaseStation
<1>2. /\ Message(next, b)
      /\ deserialize(b).res = dynamic[BS].res[next]
      /\ deserialize(b).per = dynamic[BS].per
  BY <1>1, SendUe
<1>3. link' = [link EXCEPT ![next] = Append(link[next], b)]
  BY DEF SendTo
<1> HIDE DEF b
<1>4. b \in Seq(Byte) /\ link \in [Ues -> Seq(Seq(Byte))]
  BY <1>2 DEF Message, IInv, TypeOK
<1>5. link' \in [Ues -> Seq(Seq(Byte))]
  BY <1>1, <1>3, <1>4
<1>6. TypeOK'
  <2>1. next' \in Ues
    BY <1>1 DEF SendTo, Ues
  <2>2. synced' \in [Ues -> BOOLEAN]
    BY DEF IInv, TypeOK, SendTo
  <2> QED
    BY <1>5, <2>1, <2>2 DEF IInv, TypeOK, SendTo, bounds
<1>7. BaseStation'
  BY <1>1 DEF IInv, TypeOK, SendTo, BaseStation, Same
<1>8. ASSUME NEW u \in Ues
      PROVE  UserEquipment(u)'
  BY FrameUe DEF IInv, TypeOK, SendTo
<1>9. ASSUME NEW u \in Ues
      PROVE  Underway(u)'
  <2>1. CASE u = next
    BY <1>2, <1>3, <1>4, <2>1 DEF IInv, Underway
  <2>2. CASE u # next
    BY <1>1, <1>3, <1>4, <2>2, FrameLink DEF IInv
  <2> QED
    BY <2>1, <2>2
<1>10. ASSUME NEW u \in Ues
       PROVE  Synchronised(u)'
  <2>1. CASE u = next
    <3>1. /\ link'[u] = Append(link[u], b) /\ link'[u] # << >>
          /\ link'[u][Len(link'[u])] = b
      BY <1>3, <1>4, <2>1
    <3>2. Latest(u)' = [res |-> dynamic[BS].res[u], per |-> dynamic[BS].per]
      BY <1>2, <2>1, <3>1 DEF Latest
    <3>3. mode'[BS] \in {"idle", "send"}
      BY DEF SendTo, IInv, TypeOK
    <3> QED
      BY <3>1, <3>2, <3>3 DEF Synchronised, SendTo
  <2>2. CASE u # next
    <3>1. SentTo(u)' => SentTo(u)
      BY <1>1, <2>2 DEF IInv, TypeOK, SendTo, SentTo
    <3>2. link'[u] = link[u] /\ (synced'[u] => synced[u])
      BY <1>1, <1>3, <1>4, <2>2 DEF IInv, TypeOK, SendTo
    <3> QED
      BY <3>1, <3>2, FrameSync DEF IInv, TypeOK, SendTo, Synchronised
  <2> QED
    BY <2>1, <2>2
<1> QED
  BY <1>6, <1>7, <1>8, <1>9, <1>10 DEF IInv

\* What is left of a sequence without its first element.
LEMMA TailIs ==
    ASSUME NEW S, NEW s \in Seq(S), s # << >>
    PROVE  /\ Tail(s) \in Seq(S) /\ Head(s) = s[1] /\ 1 \in 1 .. Len(s)
           /\ Len(Tail(s)) = Len(s) - 1
           /\ \A i \in 1 .. Len(Tail(s)) : i + 1 \in 1 .. Len(s)
                                           /\ Tail(s)[i] = s[i + 1]
           /\ Tail(s) # << >> => Tail(s)[Len(Tail(s))] = s[Len(s)]
           /\ Len(s) > 1 <=> Tail(s) # << >>
           /\ Tail(s) = << >> => s[Len(s)] = s[1]
<1>1. Len(s) \in Nat /\ Len(s) >= 1
  OBVIOUS
<1>2. Tail(s) \in Seq(S) /\ Head(s) = s[1] /\ Len(Tail(s)) = Len(s) - 1
  OBVIOUS
<1>3. \A i \in 1 .. Len(Tail(s)) : i + 1 \in 1 .. Len(s)
                                  /\ Tail(s)[i] = s[i + 1]
  BY <1>1, <1>2
<1>4. Tail(s) # << >> <=> Len(Tail(s)) >= 1
  <2>1. \A t \in Seq(S) : t # << >> <=> Len(t) >= 1
    OBVIOUS
  <2> QED
    BY <1>2, <2>1
<1>5. /\ Len(s) - 1 \in Nat
      /\ Tail(s) # << >> => Len(s) - 1 \in 1 .. Len(Tail(s))
  BY <1>1, <1>2, <1>4
<1>6. Tail(s) # << >> => Tail(s)[Len(Tail(s))] = s[Len(s)]
  BY <1>1, <1>2, <1>3, <1>5
<1>7. Tail(s) = << >> => Len(s) = 1
  BY <1>1, <1>2, <1>4
<1> QED
  BY <1>1, <1>2, <1>3, <1>4, <1>6, <1>7

\* A disturbance keeps what is said last to a UE, or the history says so.
LEMMA DisturbKeeps ==
    ASSUME IInv, NEW w \in Ues, link[w] # << >>,
           NEW l \in Seq(Seq(Byte)), NEW same \in BOOLEAN,
           \A i \in 1 .. Len(l) : \E j \in 1 .. Len(link[w]) :
              l[i] = link[w][j],
           same => l # << >> /\ l[Len(l)] = link[w][Len(link[w])],
           Disturb(w, l, same)
    PROVE  IInv'
<1> USE EquipmentIs DEF contents
<1>1. /\ link' = [link EXCEPT ![w] = l] /\ link \in [Ues -> Seq(Seq(Byte))]
      /\ synced' = [synced EXCEPT ![w] = synced[w] /\ same]
      /\ synced \in [Ues -> BOOLEAN]
  BY DEF IInv, TypeOK, Disturb
<1>2. TypeOK'
  <2>1. link' \in [Ues -> Seq(Seq(Byte))] /\ synced' \in [Ues -> BOOLEAN]
    BY <1>1
  <2> QED
    BY <2>1 DEF IInv, TypeOK, Disturb
<1>3. BaseStation'
  BY FrameBs DEF IInv, Disturb
<1>4. ASSUME NEW u \in Ues
      PROVE  UserEquipment(u)'
  BY FrameUe DEF IInv, Disturb
<1>5. ASSUME NEW u \in Ues
      PROVE  Underway(u)'
  <2>1. CASE u = w
    BY <1>1, <2>1 DEF IInv, Underway
  <2>2. CASE u # w
    BY <1>1, <2>2, FrameLink DEF IInv
  <2> QED
    BY <2>1, <2>2
<1>6. ASSUME NEW u \in Ues
      PROVE  Synchronised(u)'
  <2>1. CASE u = w
    <3>1. synced'[u] => synced[u] /\ same
      BY <1>1, <2>1
    <3>2. same => Latest(u)' = Latest(u) /\ link'[u] # << >>
      BY <1>1, <2>1 DEF Latest
    <3> QED
      BY <3>1, <3>2 DEF IInv, Disturb, Synchronised, SentTo
  <2>2. CASE u # w
    <3>1. link'[u] = link[u] /\ synced'[u] = synced[u]
      BY <1>1, <2>2
    <3> QED
      BY <3>1, FrameSync DEF IInv, Disturb, SentTo, Synchronised
  <2> QED
    BY <2>1, <2>2
<1> QED
  BY <1>2, <1>3, <1>4, <1>5, <1>6 DEF IInv

\* A sequence with one of its elements repeated at the end,
LEMMA RepeatIs ==
    ASSUME NEW S, NEW s \in Seq(S), NEW i \in 1 .. Len(s)
    PROVE  LET t == Append(s, s[i]) IN
           /\ t \in Seq(S) /\ t # << >> /\ s # << >>
           /\ \A k \in 1 .. Len(t) : \E j \in 1 .. Len(s) : t[k] = s[j]
           /\ i = Len(s) => t[Len(t)] = s[Len(s)]
<1> DEFINE t == Append(s, s[i])
<1>1. s[i] \in S /\ Len(s) \in Nat /\ s # << >>
  OBVIOUS
<1>2. /\ t \in Seq(S) /\ Len(t) = Len(s) + 1 /\ t[Len(s) + 1] = s[i]
      /\ \A k \in 1 .. Len(s) : t[k] = s[k]
  BY <1>1
<1> HIDE DEF t
<1>3. \A k \in 1 .. Len(t) : \E j \in 1 .. Len(s) : t[k] = s[j]
  BY <1>1, <1>2
<1>4. t # << >> /\ (i = Len(s) => t[Len(t)] = s[Len(s)])
  BY <1>1, <1>2
<1> QED
  BY <1>1, <1>2, <1>3, <1>4 DEF t

\* and with two neighbours exchanged.
LEMMA OvertakeIs ==
    ASSUME NEW S, NEW s \in Seq(S), NEW i \in 1 .. Len(s) - 1
    PROVE  LET t == [s EXCEPT ![i] = s[i + 1], ![i + 1] = s[i]] IN
           /\ t \in Seq(S) /\ t # << >> /\ s # << >>
           /\ \A k \in 1 .. Len(t) : \E j \in 1 .. Len(s) : t[k] = s[j]
           /\ i + 1 < Len(s) => t[Len(t)] = s[Len(s)]
<1> DEFINE t == [s EXCEPT ![i] = s[i + 1], ![i + 1] = s[i]]
<1>1. /\ i \in 1 .. Len(s) /\ i + 1 \in 1 .. Len(s) /\ Len(s) \in Nat
      /\ s[i] \in S /\ s[i + 1] \in S /\ s # << >>
  OBVIOUS
<1>2. t \in Seq(S) /\ Len(t) = Len(s)
  BY <1>1
<1>3. \A k \in 1 .. Len(s) : t[k] = IF k = i + 1 THEN s[i]
                                    ELSE IF k = i THEN s[i + 1] ELSE s[k]
  BY <1>1
<1> HIDE DEF t
<1>4. \A k \in 1 .. Len(t) : \E j \in 1 .. Len(s) : t[k] = s[j]
  BY <1>1, <1>2, <1>3
<1>5. i + 1 < Len(s) => t[Len(t)] = s[Len(s)]
  BY <1>1, <1>2, <1>3
<1>6. t # << >>
  BY <1>1, <1>2
<1> QED
  BY <1>1, <1>2, <1>4, <1>5, <1>6 DEF t

\* A lost SDU that another one follows is made up for by that one, a repeated
\* one does no harm if it is the last, nor an overtaken one if it is not.
LEMMA NetworkKeeps ==
    ASSUME IInv, NEW w \in Ues, Lose(w) \/ Repeat(w) \/ Overtake(w)
    PROVE  IInv'
<1> DEFINE s == link[w]
<1>1. s \in Seq(Seq(Byte))
  BY DEF IInv, TypeOK
<1>2. CASE Lose(w)
  <2> DEFINE t == Tail(s)
  <2>1. s # << >> /\ Disturb(w, t, Len(s) > 1)
    BY <1>2 DEF Lose
  <2>2. /\ t \in Seq(Seq(Byte))
        /\ \A i \in 1 .. Len(t) : i + 1 \in 1 .. Len(s) /\ t[i] = s[i + 1]
        /\ Len(s) > 1 => t # << >> /\ t[Len(t)] = s[Len(s)]
    BY <1>1, <2>1, TailIs
  <2> HIDE DEF t
  <2>3. \A i \in 1 .. Len(t) : \E j \in 1 .. Len(s) : t[i] = s[j]
    BY <2>2
  <2>4. PICK same \in BOOLEAN : same <=> Len(s) > 1
    OBVIOUS
  <2>5. Disturb(w, t, same)
    BY <2>1, <2>4, Zenon DEF Disturb
  <2> QED
    BY <2>1, <2>2, <2>3, <2>4, <2>5, DisturbKeeps
<1>3. CASE Repeat(w)
  <2>1. PICK i \in 1 .. Len(s) : Disturb(w, Append(s, s[i]), i = Len(s))
    BY <1>3 DEF Repeat
  <2> DEFINE t == Append(s, s[i])
  <2>2. /\ t \in Seq(Seq(Byte)) /\ t # << >> /\ s # << >>
        /\ \A k \in 1 .. Len(t) : \E j \in 1 .. Len(s) : t[k] = s[j]
        /\ i = Len(s) => t[Len(t)] = s[Len(s)]
    BY <1>1, RepeatIs
  <2> HIDE DEF t
  <2>3. PICK same \in BOOLEAN : same <=> i = Len(s)
    OBVIOUS
  <2>4. Disturb(w, t, same)
    BY <2>1, <2>3, Zenon DEF Disturb, t
  <2> QED
    BY <2>2, <2>3, <2>4, DisturbKeeps
<1>4. CASE Overtake(w)
  <2>1. PICK i \in 1 .. Len(s) - 1 :
           Disturb(w, [s EXCEPT ![i] = s[i + 1], ![i + 1] = s[i]],
                   i + 1 < Len(s))
    BY <1>4 DEF Overtake
  <2> DEFINE t == [s EXCEPT ![i] = s[i + 1], ![i + 1] = s[i]]
  <2>2. /\ t \in Seq(Seq(Byte)) /\ t # << >> /\ s # << >>
        /\ \A k \in 1 .. Len(t) : \E j \in 1 .. Len(s) : t[k] = s[j]
        /\ i + 1 < Len(s) => t[Len(t)] = s[Len(s)]
    <3> HIDE DEF s
    <3> QED
      BY <1>1, OvertakeIs, Zenon
  <2> HIDE DEF t
  <2>3. PICK same \in BOOLEAN : same <=> i + 1 < Len(s)
    OBVIOUS
  <2>4. Disturb(w, t, same)
    BY <2>1, <2>3, Zenon DEF Disturb, t
  <2> QED
    BY <2>2, <2>3, <2>4, DisturbKeeps
<1> QED
  BY <1>2, <1>3, <1>4

\* A UE takes what the first message says.
LEMMA DeliverKeeps ==
    ASSUME IInv, NEW w \in Ues, Deliver(w)
    PROVE  IInv'
<1> USE EquipmentIs DEF Go
<1> DEFINE m == deserialize(Head(link[w]))
<1> DEFINE h == [res |-> << m.res >>, per |-> m.per,
                 radio |-> << [mimo |-> m.mimo, tpc |-> m.tpc,
                               mcs |-> m.mcs] >>]
<1> DEFINE d == deserialized(dynamic[w], m)
<1>1. /\ link \in [Ues -> Seq(Seq(Byte))] /\ link[w] # << >>
      /\ link[w] \in Seq(Seq(Byte)) /\ mode[w] = "idle"
      /\ UeMade(w, dynamic[w])
  BY DEF IInv, TypeOK, Deliver, UserEquipment
<1>2. Head(link[w]) = link[w][1] /\ Message(w, Head(link[w]))
  BY <1>1, TailIs DEF IInv, Underway
<1>3. /\ UeMade(w, d) /\ UeShape(w, h) /\ Same(d, h)
      /\ m.per \in Nat /\ m.per > 0
  BY <1>1, <1>2, ReceiveUe DEF Message, UeParameters, Nibble
<1>4. /\ mode' = [mode EXCEPT ![w] = "reconfig"]
      /\ dynamic' = [dynamic EXCEPT ![w] = d]
      /\ heard' = [heard EXCEPT ![w] = h]
      /\ link' = [link EXCEPT ![w] = Tail(link[w])]
      /\ received' = [received EXCEPT ![w] = TRUE]
      /\ UNCHANGED <<file, current, next, synced, changed, sets, requests,
                     faults>>
  BY DEF Deliver, bounds
<1>5. h.res[1] = m.res /\ h.per = m.per
  OBVIOUS
<1> HIDE DEF d, h
<1>6. /\ received' \in [Ues -> BOOLEAN]
      /\ InForce(w)' = h
      /\ \A u \in Ues \ {w} : received'[u] = received[u] /\ heard'[u] = heard[u]
  BY <1>4 DEF IInv, TypeOK, InForce
<1>7. TypeOK'
  <2>1. link' \in [Ues -> Seq(Seq(Byte))]
    BY <1>1, <1>4, TailIs
  <2>2. d \in Pars /\ h \in Pars
    BY <1>3 DEF UeShape, UeMade
  <2>3. dynamic' \in [Equipment -> Pars] /\ heard' \in [Ues -> Pars]
    BY <1>4, <2>2 DEF IInv, TypeOK
  <2> QED
    BY <1>4, <1>6, <2>1, <2>3 DEF IInv, TypeOK
<1>8. BaseStation'
  BY <1>4, FrameBs DEF IInv, TypeOK
<1>9. ASSUME NEW u \in Ues
      PROVE  UserEquipment(u)'
  <2>1. CASE u = w
    <3>1. /\ mode'[u] = "reconfig" /\ dynamic'[u] = d /\ InForce(u)' = h
          /\ current'[u] = current[u]
      BY <1>4, <1>6, <2>1 DEF IInv, TypeOK
    <3> QED
      BY <1>3, <2>1, <3>1 DEF IInv, UserEquipment
  <2>2. CASE u # w
    BY <1>4, <1>6, <2>2, FrameUe DEF IInv, TypeOK
  <2> QED
    BY <2>1, <2>2
<1>10. ASSUME NEW u \in Ues
       PROVE  Underway(u)'
  <2>1. CASE u = w
    BY <1>1, <1>4, <2>1, TailIs DEF IInv, Underway
  <2>2. CASE u # w
    BY <1>1, <1>4, <2>2, FrameLink DEF IInv
  <2> QED
    BY <2>1, <2>2
<1>11. ASSUME NEW u \in Ues
       PROVE  Synchronised(u)'
  <2>1. CASE u = w
    <3>1. Latest(u)' = Latest(u)
      <4>1. link'[u] = Tail(link[u]) /\ InForce(u)' = h
        BY <1>1, <1>4, <1>6, <2>1 DEF IInv, TypeOK
      <4>2. CASE Tail(link[u]) # << >>
        BY <1>1, <2>1, <4>1, <4>2, TailIs DEF Latest
      <4>3. CASE Tail(link[u]) = << >>
        <5>1. link[u][Len(link[u])] = Head(link[w])
          BY <1>1, <2>1, <4>3, TailIs
        <5> QED
          BY <1>1, <1>5, <2>1, <4>1, <4>3, <5>1 DEF Latest
      <4> QED
        BY <4>2, <4>3
    <3>2. mode'[u] = "reconfig" /\ mode'[BS] = mode[BS]
          /\ dynamic'[BS] = dynamic[BS]
      BY <1>4, <2>1 DEF IInv, TypeOK
    <3> QED
      BY <1>4, <3>1, <3>2 DEF IInv, Synchronised, SentTo
  <2>2. CASE u # w
    BY <1>1, <1>4, <1>6, <2>2, FrameSync
    DEF IInv, TypeOK, Synchronised, SentTo
  <2> QED
    BY <2>1, <2>2
<1> QED
  BY <1>6, <1>7, <1>8, <1>9, <1>10, <1>11 DEF IInv

\* Every step keeps the invariant.
LEMMA StepInvariant == IInv /\ [Next]_vars => IInv'
<1> SUFFICES ASSUME IInv, [Next]_vars PROVE IInv'
  OBVIOUS
<1>1. ASSUME NEW e \in Equipment,
             \/ Boot(e) \/ Booted(e) \/ Start(e) \/ Stop(e) \/ Crash(e)
             \/ TakeOver(e) \/ Recorded(e)
      PROVE  IInv'
  BY <1>1, BootKeeps, BootedKeeps, StartKeeps, StopKeeps, CrashKeeps,
     TakeOverKeeps, RecordedKeeps
<1>2. ASSUME NEW u \in Ues,
             \/ \E a \in Allocations : setUlReservation(u, a)
             \/ \E r \in Radios : setRadio(u, r)
             \/ setMcsUplink(u) \/ Deliver(u)
             \/ Lose(u) \/ Repeat(u) \/ Overtake(u)
      PROVE  IInv'
  BY <1>2, SettersKeep, SetMcsUplinkKeeps, NetworkKeeps, DeliverKeeps
<1>3. ASSUME NEW p \in Periods, setRxMetricPeriodicity(p)
      PROVE  IInv'
  <2>1. 1 \in Ues
    BY EquipmentIs DEF Ues
  <2> QED
    BY <1>3, <2>1, SettersKeep
<1>4. CASE Request \/ SendTo
  BY <1>4, RequestKeeps, SendToKeeps
<1>5. CASE UNCHANGED vars
  <2> USE <1>5, EquipmentIs DEF vars, contents, history, bounds
  <2>1. TypeOK'
    BY DEF IInv, TypeOK
  <2>2. BaseStation'
    BY FrameBs DEF IInv
  <2>3. ASSUME NEW u \in Ues
        PROVE  UserEquipment(u)' /\ Underway(u)' /\ Synchronised(u)'
    BY FrameUe, FrameLink, FrameSync DEF IInv, SentTo, Synchronised
  <2> QED
    BY <2>1, <2>2, <2>3 DEF IInv
<1> QED
  BY <1>1, <1>2, <1>3, <1>4, <1>5 DEF Next

(***************************************************************************)
(* The theorems.                                                            *)
(***************************************************************************)
\* The invariant of every state of the system.
THEOREM Invariant == Spec => []IInv
BY InitInvariant, StepInvariant, PTL DEF Spec

\* Every variable has its type in every state.
THEOREM TypeCorrect == Spec => []TypeOK
<1>1. IInv => TypeOK
  BY DEF IInv
<1> QED
  BY <1>1, Invariant, PTL

\* CONFIG_MODE never reads a torn Current.txt, wherever an equipment crashed
\* before, and reads what the equipment worked with.
THEOREM FilesAreCurrent == Spec => []FileIsCurrent
<1>1. IInv => FileIsCurrent
  BY EquipmentIs DEF IInv, BaseStation, UserEquipment, FileIsCurrent
<1> QED
  BY <1>1, Invariant, PTL

\* Every reservation stays at the place of its UE's address.
THEOREM ReservationsAddressed == Spec => []Addressed
<1>1. IInv => Addressed
  BY DEF IInv, BaseStation, UserEquipment, BsShape, UeShape, UeMade, Addressed
<1> QED
  BY <1>1, Invariant, PTL

\* A UE works with the reservation and the periodicity it received last since
\* it booted, and with those of Default.txt until it received any.
THEOREM WorksAsReceived == Spec => []AsReceived
<1>1. IInv => AsReceived
  BY DEF IInv, UserEquipment, Same, AsReceived
<1> QED
  BY <1>1, Invariant, PTL

\* The two ends agree whenever nothing is under way between them and nothing
\* was lost or changed, for any number of UEs, reconfigurations and faults.
THEOREM EndsAgree == Spec => []Agreement
<1>1. ASSUME IInv
      PROVE  Agreement
  BY <1>1 DEF IInv, BaseStation, UserEquipment, Synchronised, Same, SentTo,
              Latest, Agreement
<1> QED
  BY <1>1, Invariant, PTL

(***************************************************************************)
(* The Start messages of the run.                                           *)
(***************************************************************************)
\* A message of the run.
Sampled(n, r, l, x, g) ==
    [numUEs |-> n, numPDUs |-> 255, res |-> r, fLut |-> l,
     numerology |-> x, gfdm |-> g, per |-> 15 - x]

\* The samples at the limits of their fields have the types of the messages.
LEMMA SampledMessage ==
    ASSUME NEW n \in 0 .. 3, NEW r \in [1 .. n -> Reserved], NEW l \in Luts,
           NEW x \in {0, 9, 15}, NEW g \in {0, 1}
    PROVE  Sampled(n, r, l, x, g) \in BsTxStart(n)
<1>1. r \in [1 .. n -> Allocation]
  <2>1. Reserved \subseteq Allocation
    BY DEF Reserved, Allocation, Byte
  <2> QED
    BY <2>1
<1>2. l \in Lut
  <2>1. PICK last \in {0, 15} :
           l = [fill |-> [k \in 1 .. 16 |-> 9 * k + last], last |-> last]
    BY DEF Luts
  <2>2. \A k \in 1 .. 16 : 9 * k + last \in Byte
    BY DEF Byte
  <2>3. [k \in 1 .. 16 |-> 9 * k + last] \in [1 .. 16 -> Byte]
    BY <2>2
  <2>4. last \in Nibble
    BY DEF Nibble
  <2> DEFINE filling == [k \in 1 .. 16 |-> 9 * k + last]
  <2> HIDE DEF filling
  <2> QED
    BY <2>1, <2>3, <2>4 DEF Lut, filling
<1>3. /\ n \in Byte /\ 255 \in Byte /\ x \in Nibble /\ 15 - x \in Nibble
      /\ g \in Bit
  BY DEF Byte, Nibble, Bit
<1> QED
  BY <1>1, <1>2, <1>3 DEF BsTxStart, Sampled

\* The Start messages of the run are read as they were written, since every
\* message whose fields fit their widths is.
THEOREM StartMessagesCorrect == Spec => []StartMessagesInvert
<1>1. StartMessagesInvert
  <2>1. ASSUME NEW n \in 0 .. 3, NEW r \in [1 .. n -> Reserved], NEW l \in Luts,
               NEW x \in {0, 9, 15}, NEW g \in {0, 1}
        PROVE  deserializeBsTx(serializeBsTx(Sampled(n, r, l, x, g)))
                  = Sampled(n, r, l, x, g)
    <3>1. n \in Nat
      OBVIOUS
    <3>2. Sampled(n, r, l, x, g) \in BsTxStart(n)
      BY SampledMessage
    <3> QED
      BY <3>1, <3>2, BsTxRoundTrip
  <2> QED
    BY <2>1, Zenon DEF StartMessagesInvert, Sampled
<1> QED
  BY <1>1, PTL
=============================================================================
