-------------------------- MODULE Operators_proofs --------------------------
(***************************************************************************)
(* What the operators without state compute, for every input instead of the *)
(* samples that the runs evaluate: the MAC header and the way back, the     *)
(* deletion of an entry of the address table, and the way of the bytes of a *)
(* PDU from one L2 to the other.                                            *)
(***************************************************************************)
EXTENDS MCDataPath, Crc_proofs

(***************************************************************************)
(* MAC header.                                                              *)
(***************************************************************************)

\* BytesOf is the last of the partial sums.
LEMMA BytesOfIs ==
    ASSUME NEW s \in Seq(Nat), NEW r \in [0 .. Len(s) -> Nat],
           r[0] = 0, \A i \in 1 .. Len(s) : r[i] = r[i - 1] + s[i]
    PROVE  BytesOf(s) = r[Len(s)]
<1> DEFINE n == Len(s)
           D == SUBSET (1 .. n)
           step == [i \in 1 .. n |-> [v \in Nat |-> v + s[i]]]
           Eq(g) == g = [c \in D |-> IF c = {} THEN 0
                                     ELSE g[c \ {Max(c)}] + s[Max(c)]]
           g == CHOOSE f : Eq(f)
<1>1. n \in Nat /\ DOMAIN s = 1 .. n /\ \A i \in 1 .. n : s[i] \in Nat
  OBVIOUS
<1>2. BytesOf(s) = g[1 .. n]
  BY <1>1 DEF BytesOf, FoldLeft, MapThenFoldSet
<1>3. step \in [1 .. n -> [Nat -> Nat]]
  <2> HIDE DEF n
  <2> QED
    BY <1>1
<1>4. Eq(g)
  <2>1. PICK f \in [D -> Nat] : IsFold(f, 0, step, n)
    <3> HIDE DEF step, n
    <3> QED
      BY <1>1, <1>3, FoldExists
  <2>2. ASSUME NEW c \in D
        PROVE  f[c] = IF c = {} THEN 0 ELSE f[c \ {Max(c)}] + s[Max(c)]
    <3>1. CASE c = {}
      BY <3>1, <2>1 DEF IsFold
    <3>2. CASE c # {}
      <4>1. Max(c) \in 1 .. n /\ f[c \ {Max(c)}] \in Nat
        BY <1>1, <2>1, <3>2, MaxIs
      <4>2. f[c] = step[Max(c)][f[c \ {Max(c)}]]
        BY <2>1, <3>2 DEF IsFold
      <4> HIDE DEF n, D
      <4> QED
        BY <3>2, <4>1, <4>2
    <3> QED
      BY <3>1, <3>2
  <2>3. Eq(f)
    <3> HIDE DEF D
    <3> QED
      BY <2>2
  <2> HIDE DEF Eq
  <2> QED
    BY <2>3
<1> HIDE DEF g
<1>5. Chain(r, 0, step, n)
  <2>1. ASSUME NEW i \in 1 .. n
        PROVE  r[i] = step[i][r[i - 1]]
    <3>1. i - 1 \in 0 .. n
      BY <1>1
    <3>2. r[i - 1] \in Nat
      BY <3>1
    <3> QED
      BY <3>2
  <2> HIDE DEF step
  <2> QED
    BY <2>1 DEF Chain
<1>6. IsFoldOn(g, 0, step, n, Nat)
  <2>1. ASSUME NEW c \in D, c # {}, g[c \ {Max(c)}] \in Nat
        PROVE  g[c] = step[Max(c)][g[c \ {Max(c)}]]
    <3>1. Max(c) \in 1 .. n
      BY <1>1, <2>1, MaxIs
    <3>2. g[c] = g[c \ {Max(c)}] + s[Max(c)]
      BY <1>4, <2>1
    <3> HIDE DEF n
    <3> QED
      BY <2>1, <3>1, <3>2
  <2>2. {} \in D
    OBVIOUS
  <2>3. g[{}] = 0
    BY <1>4, <2>2
  <2> HIDE DEF step
  <2> QED
    BY <2>1, <2>3 DEF IsFoldOn
<1>7. g[1 .. n] = r[n]
  <2>1. r \in [0 .. n -> Nat]
    OBVIOUS
  <2> HIDE DEF step, n
  <2> QED
    BY <1>1, <1>5, <1>6, <2>1, FoldComputes
<1> QED
  BY <1>2, <1>7

\* Part k of a concatenation lies behind the bytes of the first k - 1 sizes.
LEMMA PartIs ==
    ASSUME NEW S, NEW ss \in Seq(Seq(S)), NEW sizes,
           sizes = [i \in 1 .. Len(ss) |-> Len(ss[i])],
           NEW k \in 1 .. Len(ss)
    PROVE  LET p == BytesOf(SubSeq(sizes, 1, k - 1)) IN
           SubSeq(FlattenSeq(ss), p + 1, p + sizes[k]) = ss[k]
<1> DEFINE n == Len(ss)
           all == FlattenSeq(ss)
           s == SubSeq(sizes, 1, k - 1)
<1>0. n \in Nat /\ k \in Nat /\ k - 1 \in 0 .. n
  OBVIOUS
<1>1. PICK r \in [0 .. Len(ss) -> Seq(S)] : Partial(r, ss, Len(ss))
  BY PartialExists
<1>2. ASSUME NEW i \in 1 .. n
      PROVE  PartAt(ss, r, i)
  BY <1>1, FlattenAt
<1>3. \A i \in 0 .. n : Len(r[i]) \in Nat
  OBVIOUS
<1>4. sizes \in Seq(Nat) /\ Len(sizes) = n
  OBVIOUS
<1>5. /\ s \in Seq(Nat) /\ Len(s) = k - 1
      /\ \A i \in 1 .. k - 1 : s[i] = Len(ss[i])
  <2>1. \A i \in 1 .. k - 1 : sizes[i] \in Nat /\ sizes[i] = Len(ss[i])
    BY <1>0, <1>4
  <2>2. /\ s \in Seq(Nat)
        /\ Len(s) = IF 1 <= k - 1 THEN k - 1 - 1 + 1 ELSE 0
        /\ \A i \in 1 .. k - 1 - 1 + 1 : s[i] = sizes[1 + i - 1]
    <3> HIDE DEF n
    <3> QED
      BY <1>0, <1>4, <2>1, SubSeqProperties
  <2> HIDE DEF s
  <2>3. Len(s) = k - 1
    BY <1>0, <2>2
  <2>4. ASSUME NEW i \in 1 .. k - 1
        PROVE  s[i] = Len(ss[i])
    <3>1. i \in 1 .. k - 1 - 1 + 1 /\ 1 + i - 1 = i
      BY <1>0
    <3> QED
      BY <2>1, <2>2, <3>1
  <2> QED
    BY <2>2, <2>3, <2>4
<1> DEFINE t == [i \in 0 .. k - 1 |-> Len(r[i])]
<1>6. BytesOf(s) = Len(r[k - 1])
  <2>1. t \in [0 .. Len(s) -> Nat]
    BY <1>0, <1>3, <1>5
  <2>2. t[0] = 0
    BY <1>0, <1>1 DEF Partial
  <2>3. ASSUME NEW i \in 1 .. Len(s)
        PROVE  t[i] = t[i - 1] + s[i]
    <3>1. i \in 1 .. n /\ i \in 0 .. k - 1 /\ i - 1 \in 0 .. k - 1
          /\ i \in 1 .. k - 1
      BY <1>0, <1>5
    <3>2. Len(r[i]) = Len(r[i - 1]) + Len(ss[i])
      BY <1>2, <3>1 DEF PartAt
    <3> QED
      BY <1>5, <3>1, <3>2
  <2>4. k - 1 \in 0 .. k - 1
    BY <1>0
  <2>5. t[k - 1] = Len(r[k - 1])
    BY <2>4
  <2> HIDE DEF t, s
  <2> QED
    BY <1>5, <2>1, <2>2, <2>3, <2>5, BytesOfIs
<1> DEFINE p == Len(r[k - 1])
           m == Len(ss[k])
<1>7. /\ p \in Nat /\ m \in Nat /\ p + m <= Len(all)
      /\ \A j \in 1 .. m : all[p + j] = ss[k][j]
  BY <1>2 DEF PartAt
<1>8. all \in Seq(S) /\ Len(all) \in Nat /\ ss[k] \in Seq(S)
  BY FlattenType
<1> HIDE DEF all, p, m
<1>9. \A i \in p + 1 .. p + m : all[i] \in S
  BY <1>7, <1>8
<1>10. /\ SubSeq(all, p + 1, p + m) \in Seq(S)
       /\ Len(SubSeq(all, p + 1, p + m)) =
             IF p + 1 <= p + m THEN p + m - (p + 1) + 1 ELSE 0
       /\ \A i \in 1 .. p + m - (p + 1) + 1 :
             SubSeq(all, p + 1, p + m)[i] = all[p + 1 + i - 1]
  BY <1>7, <1>8, <1>9, SubSeqProperties
<1> DEFINE c == SubSeq(all, p + 1, p + m)
<1>11. c \in Seq(S) /\ Len(c) = m
  BY <1>7, <1>10
<1>12. ASSUME NEW j \in 1 .. m
       PROVE  c[j] = ss[k][j]
  <2>1. j \in 1 .. p + m - (p + 1) + 1 /\ p + 1 + j - 1 = p + j
    BY <1>7
  <2> QED
    BY <1>7, <1>10, <2>1
<1> HIDE DEF c
<1>13. c = ss[k]
  BY <1>8, <1>11, <1>12, SeqEqual DEF m
<1>14. sizes[k] = m
  BY DEF m
<1> QED
  BY <1>6, <1>13, <1>14 DEF c, all, p

\* What is multiplexed: at most 32767 bytes, for the size has 15 bits.
ByteOf  == 0 .. 255
MaxSize == 32767
Payload == {b \in Seq(ByteOf) : Len(b) \in 1 .. MaxSize}
SduOf   == [flag : {0, 1}, bytes : Payload]

\* The largest size has more than a byte.
LEMMA SizeLimit == MaxSize \in Nat /\ MaxSize > 256
BY DEF MaxSize

\* Up to 256 bytes are a payload.
LEMMA IsPayload ==
    ASSUME NEW b \in Seq(ByteOf), Len(b) \in 1 .. 256
    PROVE  b \in Payload
<1> DEFINE n == Len(b)
<1>1. n \in 1 .. 256
  OBVIOUS
<1> HIDE DEF n
<1>2. n \in 1 .. MaxSize
  <2>1. MaxSize \in Nat /\ MaxSize > 256
    BY SizeLimit
  <2> QED
    BY <1>1, <2>1
<1> QED
  BY <1>2 DEF Payload, n

\* What the type says of an SDU.
LEMMA SduOfType ==
    ASSUME NEW sdus \in Seq(SduOf), NEW i \in 1 .. Len(sdus)
    PROVE  /\ sdus[i].flag \in {0, 1} /\ sdus[i].bytes \in Seq(ByteOf)
           /\ Len(sdus[i].bytes) \in 1 .. MaxSize
           /\ sdus[i] = [flag |-> sdus[i].flag, bytes |-> sdus[i].bytes]
<1>1. sdus[i] \in SduOf
  OBVIOUS
<1>2. \A x \in SduOf : /\ x.flag \in {0, 1} /\ x.bytes \in Payload
                       /\ x = [flag |-> x.flag, bytes |-> x.bytes]
  BY DEF SduOf
<1>3. \A b \in Payload : b \in Seq(ByteOf) /\ Len(b) \in 1 .. MaxSize
  BY DEF Payload
<1> QED
  BY <1>1, <1>2, <1>3

\* The flag is the highest bit of a byte.
LEMMA HighestBit ==
    ASSUME NEW flag \in {0, 1}, NEW q \in 0 .. 127
    PROVE  /\ 128 * flag + q \in Nat
           /\ (128 * flag + q) \div 128 = flag
           /\ (128 * flag + q) % 128 = q
<1>1. CASE flag = 0
  BY <1>1
<1>2. CASE flag = 1
  BY <1>2
<1> QED
  BY <1>1, <1>2

Field(flag, size) == << 128 * flag + size \div 256, size % 256 >>

IsField(f, flag, size) ==
    /\ f \in Seq(Nat) /\ Len(f) = 2
    /\ f[1] \div 128 = flag /\ 256 * (f[1] % 128) + f[2] = size

\* The flag and the size come out of their two bytes as they went in.
LEMMA FieldInverse ==
    ASSUME NEW flag \in {0, 1}, NEW size \in 1 .. MaxSize
    PROVE  IsField(Field(flag, size), flag, size)
<1> DEFINE q == size \div 256
           l == size % 256
           h == 128 * flag + q
           f == << h, l >>
<1>1. q \in 0 .. 127 /\ l \in 0 .. 255 /\ size = 256 * q + l
  BY SMTT(30) DEF MaxSize
<1> HIDE DEF q, l
<1>2. h \in Nat /\ h \div 128 = flag /\ h % 128 = q
  BY <1>1, HighestBit
<1>3. Field(flag, size) = f
  BY DEF Field, q, l
<1> HIDE DEF h
<1>4. f \in Seq(Nat) /\ Len(f) = 2 /\ f[1] = h /\ f[2] = l
  BY <1>1, <1>2
<1> HIDE DEF f
<1> QED
  BY <1>1, <1>2, <1>3, <1>4, SMTT(30) DEF IsField

\* SduFields has the two bytes of SDU i at its places 2 * i - 1 and 2 * i.
LEMMA SduFieldsAre ==
    ASSUME NEW sdus \in Seq(SduOf)
    PROVE  /\ SduFields(sdus) \in Seq(Nat)
           /\ Len(SduFields(sdus)) = 2 * Len(sdus)
           /\ \A i \in 1 .. Len(sdus) : \A j \in 1 .. 2 :
                 SduFields(sdus)[2 * (i - 1) + j] =
                    Field(sdus[i].flag, Len(sdus[i].bytes))[j]
<1> DEFINE n == Len(sdus)
           f(i) == Field(sdus[i].flag, Len(sdus[i].bytes))
           ss == [i \in 1 .. n |-> f(i)]
<1>1. n \in Nat /\ DOMAIN sdus = 1 .. n
  OBVIOUS
<1>2. SduFields(sdus) = FlattenSeq(ss)
  BY <1>1, Zenon DEF SduFields, Field
<1>3. ASSUME NEW i \in 1 .. n
      PROVE  f(i) \in Seq(Nat) /\ Len(f(i)) = 2
  <2>1. sdus[i].flag \in {0, 1} /\ Len(sdus[i].bytes) \in 1 .. MaxSize
    BY SduOfType
  <2> DEFINE flag == sdus[i].flag
             size == Len(sdus[i].bytes)
  <2>2. flag \in {0, 1} /\ size \in 1 .. MaxSize
    BY <2>1
  <2> HIDE DEF flag, size
  <2>3. IsField(Field(flag, size), flag, size)
    BY <2>2, FieldInverse
  <2> QED
    BY <2>3 DEF flag, size, IsField
<1> HIDE DEF f, n
<1>4. /\ ss \in Seq(Seq(Nat)) /\ Len(ss) = n
      /\ \A i \in 1 .. n : Len(ss[i]) = 2 /\ ss[i] = f(i)
  BY <1>1, <1>3
<1> HIDE DEF ss
<1>5. /\ FlattenSeq(ss) \in Seq(Nat) /\ Len(FlattenSeq(ss)) = 2 * Len(ss)
      /\ \A i \in 1 .. Len(ss) : \A j \in 1 .. 2 :
            FlattenSeq(ss)[2 * (i - 1) + j] = ss[i][j]
  <2>1. \A i \in 1 .. Len(ss) : Len(ss[i]) = 2
    BY <1>4
  <2> DEFINE w == 2
  <2>2. w \in Nat /\ \A i \in 1 .. Len(ss) : Len(ss[i]) = w
    BY <2>1
  <2> HIDE DEF w
  <2>3. IsEven(FlattenSeq(ss), ss, w, Nat)
    BY <1>4, <2>2, FlattenEven
  <2> QED
    BY <2>3 DEF w, IsEven
<1>6. \A i \in 1 .. n : \A j \in 1 .. 2 :
         FlattenSeq(ss)[2 * (i - 1) + j] = f(i)[j]
  <2>1. ASSUME NEW i \in 1 .. n, NEW j \in 1 .. 2
        PROVE  FlattenSeq(ss)[2 * (i - 1) + j] = f(i)[j]
    <3>1. FlattenSeq(ss)[2 * (i - 1) + j] = ss[i][j]
      BY <1>4, <1>5
    <3>2. ss[i] = f(i)
      BY <1>4
    <3> QED
      BY <3>1, <3>2
  <2> QED
    BY <2>1
<1>7. FlattenSeq(ss) \in Seq(Nat) /\ Len(FlattenSeq(ss)) = 2 * n
  BY <1>4, <1>5
<1> QED
  BY <1>2, <1>6, <1>7, Zenon DEF f, n

\* The parts of a PDU: its first two bytes, two bytes for each SDU, their bytes.
IsPdu(pdu, source, destination, sdus) ==
    /\ pdu[1] = 16 * source + destination /\ pdu[2] = Len(sdus)
    /\ \A i \in 1 .. Len(sdus) : \A j \in 1 .. 2 :
          pdu[2 + 2 * (i - 1) + j] = Field(sdus[i].flag, Len(sdus[i].bytes))[j]
    /\ SubSeq(pdu, 3 + 2 * Len(sdus), Len(pdu)) = Multiplexed(sdus)

\* The header that is put in front of SDUs has these parts.
LEMMA InsertedParts ==
    ASSUME NEW source \in 0 .. 15, NEW destination \in 0 .. 15,
           NEW sdus \in Seq(SduOf)
    PROVE  IsPdu(insertMacHeader(source, destination, sdus),
                 source, destination, sdus)
<1> DEFINE n == Len(sdus)
           hd == << 16 * source + destination, n >>
           F == SduFields(sdus)
           M == Multiplexed(sdus)
           front == Cat(hd, F)
           pdu == Cat(front, M)
<1>1. n \in Nat /\ hd \in Seq(Nat) /\ Len(hd) = 2
      /\ hd[1] = 16 * source + destination /\ hd[2] = n
  OBVIOUS
<1>2. insertMacHeader(source, destination, sdus) = pdu
  <2>1. << ((16 * source) % 256) + (destination % 16), n >> = hd
    OBVIOUS
  <2> HIDE DEF hd
  <2> QED
    BY <2>1, Zenon DEF insertMacHeader, Cat
<1>3. /\ F \in Seq(Nat) /\ Len(F) = 2 * n
      /\ \A i \in 1 .. n : \A j \in 1 .. 2 :
            F[2 * (i - 1) + j] = Field(sdus[i].flag, Len(sdus[i].bytes))[j]
  BY SduFieldsAre
<1>4. M \in Seq(Nat)
  <2> DEFINE ss == [i \in 1 .. n |-> sdus[i].bytes]
  <2>1. \A i \in 1 .. n : sdus[i].bytes \in Seq(Nat)
    <3>1. ByteOf \subseteq Nat
      BY DEF ByteOf
    <3>2. \A i \in 1 .. n : sdus[i].bytes \in Seq(ByteOf)
      BY SduOfType
    <3> QED
      BY <3>1, <3>2, SeqOfLarger
  <2>2. ss \in Seq(Seq(Nat))
    BY <1>1, <2>1
  <2>3. Multiplexed(sdus) = FlattenSeq(ss)
    <3>1. DOMAIN sdus = 1 .. n
      OBVIOUS
    <3> QED
      BY <3>1, Zenon DEF Multiplexed
  <2> HIDE DEF ss
  <2> QED
    BY <2>2, <2>3, FlattenType
<1> HIDE DEF hd, F, M
<1>5. IsCat(front, hd, F, Nat)
  BY <1>1, <1>3, CatIs
<1>6. front \in Seq(Nat) /\ Len(front) = 2 + 2 * n
  BY <1>1, <1>3, <1>5 DEF IsCat
<1> HIDE DEF front
<1>7. AreParts(pdu, front, M) /\ IsCat(pdu, front, M, Nat)
  BY <1>4, <1>6, CatParts, CatIs
<1> HIDE DEF pdu
<1>8. \A i \in 1 .. 2 + 2 * n : pdu[i] = front[i]
  BY <1>6, <1>7 DEF IsCat
<1>9. pdu[1] = 16 * source + destination /\ pdu[2] = n
  <2>1. front[1] = hd[1] /\ front[2] = hd[2]
    BY <1>1, <1>5 DEF IsCat
  <2> QED
    BY <1>1, <1>8, <2>1
<1>10. ASSUME NEW i \in 1 .. n, NEW j \in 1 .. 2
       PROVE  pdu[2 + 2 * (i - 1) + j] =
                 Field(sdus[i].flag, Len(sdus[i].bytes))[j]
  <2> DEFINE k == 2 * (i - 1) + j
             l == 2 + 2 * (i - 1) + j
  <2>1. k \in 1 .. 2 * n /\ l = 2 + k
    BY <1>1
  <2>2. F[k] = Field(sdus[i].flag, Len(sdus[i].bytes))[j]
    BY <1>3
  <2> HIDE DEF k, l
  <2>3. l \in 1 .. 2 + 2 * n
    BY <1>1, <2>1
  <2>4. front[l] = F[k]
    BY <1>1, <1>3, <1>5, <2>1 DEF IsCat
  <2>5. pdu[l] = F[k]
    BY <1>8, <2>3, <2>4
  <2> QED
    BY <2>2, <2>5 DEF l
<1>11. SubSeq(pdu, 3 + 2 * n, Len(pdu)) = M
  <2>1. Len(front) + 1 = 3 + 2 * n
    BY <1>1, <1>6
  <2>2. SubSeq(pdu, Len(front) + 1, Len(pdu)) = M
    BY <1>7, Zenon DEF AreParts
  <2> QED
    BY <2>1, <2>2, Zenon
<1>12. IsPdu(pdu, source, destination, sdus)
  BY <1>9, <1>10, <1>11, Zenon DEF IsPdu, M, n
<1> QED
  BY <1>2, <1>12

\* What decoding takes out of a PDU with these parts are its SDUs.
LEMMA DecodedSdusAre ==
    ASSUME NEW source \in 0 .. 15, NEW destination \in 0 .. 15,
           NEW sdus \in Seq(SduOf), NEW pdu,
           IsPdu(pdu, source, destination, sdus)
    PROVE  decodedSdus(pdu) = sdus
<1> DEFINE n == Len(sdus)
           q == removeMacHeader(pdu)
           sizes == [i \in 1 .. n |-> Len(sdus[i].bytes)]
           flags == [i \in 1 .. n |-> sdus[i].flag]
           ss == [i \in 1 .. n |-> sdus[i].bytes]
           joined == FlattenSeq(ss)
<1>1. n \in Nat /\ DOMAIN sdus = 1 .. n /\ pdu[2] = n
  BY DEF IsPdu
<1>2. ASSUME NEW i \in 1 .. n
      PROVE  /\ pdu[1 + 2 * i] \div 128 = flags[i]
             /\ 256 * (pdu[1 + 2 * i] % 128) + pdu[2 + 2 * i] = sizes[i]
  <2> DEFINE flag == sdus[i].flag
             size == Len(sdus[i].bytes)
             f == Field(flag, size)
  <2>1. flag \in {0, 1} /\ size \in 1 .. MaxSize
    BY SduOfType
  <2>2. pdu[2 + 2 * (i - 1) + 1] = f[1] /\ pdu[2 + 2 * (i - 1) + 2] = f[2]
    <3>1. 1 \in 1 .. 2 /\ 2 \in 1 .. 2
      OBVIOUS
    <3> HIDE DEF f
    <3> QED
      BY <3>1 DEF IsPdu, f
  <2>3. 2 + 2 * (i - 1) + 1 = 1 + 2 * i /\ 2 + 2 * (i - 1) + 2 = 2 + 2 * i
    BY <1>1
  <2>4. pdu[1 + 2 * i] = f[1] /\ pdu[2 + 2 * i] = f[2]
    BY <2>2, <2>3
  <2> HIDE DEF flag, size
  <2>5. IsField(f, flag, size)
    BY <2>1, FieldInverse
  <2> HIDE DEF f
  <2>6. flags[i] = flag /\ sizes[i] = size
    BY DEF flag, size
  <2> HIDE DEF flags, sizes
  <2> QED
    BY <2>4, <2>5, <2>6 DEF IsField
<1>3. Multiplexed(sdus) = joined
  BY <1>1, Zenon DEF Multiplexed
<1>4. q = [flags |-> flags, sizes |-> sizes, buffer |-> joined]
  <2>1. [i \in 1 .. n |-> pdu[1 + 2 * i] \div 128] = flags
    BY <1>2
  <2>2. [i \in 1 .. n |-> 256 * (pdu[1 + 2 * i] % 128) + pdu[2 + 2 * i]]
           = sizes
    BY <1>2
  <2>3. SubSeq(pdu, 3 + 2 * n, Len(pdu)) = joined
    BY <1>3, Zenon DEF IsPdu
  <2> HIDE DEF flags, sizes, joined, n
  <2> QED
    BY <1>1, <2>1, <2>2, <2>3, Zenon DEF removeMacHeader
<1> HIDE DEF q
<1>5. ASSUME NEW i \in 1 .. n
      PROVE  getSDU(q, i - 1) = sdus[i]
  <2>1. /\ ss \in Seq(Seq(ByteOf)) /\ Len(ss) = n
        /\ sizes = [k \in 1 .. Len(ss) |-> Len(ss[k])]
    <3>1. \A k \in 1 .. n : sdus[k].bytes \in Seq(ByteOf)
      BY SduOfType
    <3>2. ss \in Seq(Seq(ByteOf)) /\ Len(ss) = n
      BY <1>1, <3>1
    <3> QED
      BY <3>2
  <2>2. ss[i] = sdus[i].bytes /\ flags[i] = sdus[i].flag
    OBVIOUS
  <2>3. sdus[i] = [flag |-> sdus[i].flag, bytes |-> sdus[i].bytes]
    BY SduOfType
  <2> DEFINE p == BytesOf(SubSeq(sizes, 1, i - 1))
  <2>4. i - 1 + 1 = i
    BY <1>1
  <2>5. getSDU(q, i - 1) =
           [flag  |-> flags[i],
            bytes |-> SubSeq(joined, p + 1, p + sizes[i])]
    <3> HIDE DEF flags, sizes, joined, n
    <3> QED
      BY <1>4, <2>4, Zenon DEF getSDU
  <2> HIDE DEF ss, sizes, flags, n
  <2>6. SubSeq(joined, p + 1, p + sizes[i]) = ss[i]
    BY <2>1, PartIs
  <2> QED
    BY <2>2, <2>3, <2>5, <2>6, Zenon
<1>6. DOMAIN q.sizes = 1 .. n
  BY <1>4
<1> DEFINE all == [i \in DOMAIN q.sizes |-> getSDU(q, i - 1)]
<1>7. all = sdus
  <2>1. all = [i \in 1 .. n |-> sdus[i]]
    BY <1>5, <1>6
  <2> HIDE DEF all
  <2> QED
    BY <1>1, <2>1
<1>8. {i \in 1 .. Len(all) : all[i].bytes = << >>} = {}
  <2>1. \A i \in 1 .. n : sdus[i].bytes # << >>
    <3>1. ASSUME NEW i \in 1 .. n
          PROVE  Len(sdus[i].bytes) # 0
      <4> DEFINE m == Len(sdus[i].bytes)
      <4>1. m \in 1 .. MaxSize
        BY SduOfType
      <4> HIDE DEF m
      <4>2. m # 0
        BY <4>1, SizeLimit
      <4> QED
        BY <4>2 DEF m
    <3> QED
      BY <3>1
  <2> HIDE DEF all
  <2> QED
    BY <1>7, <2>1
<1>9. SelectInSeq(all, LAMBDA sdu : sdu.bytes = << >>) = 0
  <2> HIDE DEF all
  <2> QED
    BY <1>8 DEF SelectInSeq
<1>10. decodedSdus(pdu) = all
  <2>1. decodedSdus(pdu) =
           IF SelectInSeq(all, LAMBDA sdu : sdu.bytes = << >>) = 0 THEN all
           ELSE SubSeq(all, 1,
                   SelectInSeq(all, LAMBDA sdu : sdu.bytes = << >>) - 1)
    BY Zenon DEF decodedSdus, q
  <2> HIDE DEF all
  <2> QED
    BY <1>9, <2>1
<1> QED
  BY <1>7, <1>10

\* The MAC header (ProtocolPackage::insertMacHeader and removeMacHeader): for
\* every source and destination of four bits and every sequence of SDUs, none
\* of them empty, decoding the PDU gives the SDUs with their flags, in order,
\* and the addresses read from its first byte are those it was sent with.
THEOREM HeaderRoundTrip ==
    ASSUME NEW source \in 0 .. 15, NEW destination \in 0 .. 15,
           NEW sdus \in Seq(SduOf), Len(sdus) \in 0 .. 255
    PROVE  LET pdu == insertMacHeader(source, destination, sdus)
           IN  /\ SourceOf(pdu) = source /\ decodedSdus(pdu) = sdus
               /\ DestinationOf(pdu) = destination
<1> DEFINE pdu == insertMacHeader(source, destination, sdus)
<1>1. IsPdu(pdu, source, destination, sdus)
  BY InsertedParts
<1> HIDE DEF pdu
<1>2. SourceOf(pdu) = source /\ DestinationOf(pdu) = destination
  <2>1. pdu[1] = 16 * source + destination
    BY <1>1 DEF IsPdu
  <2> QED
    BY <2>1 DEF SourceOf, DestinationOf
<1>3. decodedSdus(pdu) = sdus
  BY <1>1, DecodedSdusAre
<1> QED
  BY <1>2, <1>3 DEF pdu

\* The SDUs of the samples have the type.
LEMMA SamplesHaveType == SampleSdus \subseteq SduOf
<1> DEFINE a == << 65, 67, 75 >>
           b == [i \in 1 .. 255 |-> i]
           c == [i \in 1 .. 256 |-> 256 - i]
<1>1. a \in Payload
  <2>1. a \in Seq(ByteOf) /\ Len(a) = 3
    BY DEF ByteOf
  <2> HIDE DEF a
  <2> QED
    BY <2>1, IsPayload, SMTT(30)
<1>2. b \in Payload
  <2>1. b \in Seq(ByteOf) /\ Len(b) = 255
    BY DEF ByteOf
  <2> HIDE DEF b
  <2> QED
    BY <2>1, IsPayload, SMTT(30)
<1>3. c \in Payload
  <2>1. c \in Seq(ByteOf) /\ Len(c) = 256
    BY DEF ByteOf
  <2> HIDE DEF c
  <2> QED
    BY <2>1, IsPayload, SMTT(30)
<1>4. SampleSdus = {[flag |-> 0, bytes |-> a], [flag |-> 1, bytes |-> b],
                    [flag |-> 1, bytes |-> c]}
  BY DEF SampleSdus
<1> HIDE DEF a, b, c
<1> QED
  BY <1>1, <1>2, <1>3, <1>4 DEF SduOf

\* The samples of the runs are instances of HeaderRoundTrip: HeaderInverts, what
\* decoding (MacController) takes out of a PDU is what was multiplexed, holds.
THEOREM HeaderCorrect == Spec => []HeaderInverts
<1>1. HeaderInverts
  <2>1. ASSUME NEW source \in {0, 1, 15}, NEW destination \in {0, 1, 15},
               NEW n \in 1 .. 3, NEW sdus \in [1 .. n -> SampleSdus]
        PROVE  LET pdu == insertMacHeader(source, destination, sdus)
               IN  /\ SourceOf(pdu) = source /\ decodedSdus(pdu) = sdus
                   /\ DestinationOf(pdu) = destination
    <3>1. source \in 0 .. 15 /\ destination \in 0 .. 15 /\ n \in Nat
      OBVIOUS
    <3>2. sdus \in Seq(SduOf) /\ Len(sdus) = n
      <4>1. sdus \in [1 .. n -> SduOf]
        BY SamplesHaveType
      <4> QED
        BY <3>1, <4>1, SeqDef
    <3>3. Len(sdus) \in 0 .. 255
      BY <3>2
    <3> QED
      BY <3>1, <3>2, <3>3, HeaderRoundTrip, Zenon
  <2> QED
    BY <2>1, Zenon DEF HeaderInverts
<1> QED
  BY <1>1, PTL
(***************************************************************************)
(* The address table.                                                       *)
(***************************************************************************)

\* The smallest of one number, and the search that finds one place or none.
LEMMA MinOfOne == ASSUME NEW k \in Nat PROVE Min({k}) = k
BY DEF Min

\* What the three searches return for an address at the only place k.
LEMMA LookupFinds ==
    ASSUME NEW S, NEW t \in Seq(S), NEW k \in 1 .. Len(t), Distinct(t)
    PROVE  /\ getMacAddress(t, t[k].ip) = t[k].mac
           /\ getIpAddress(t, t[k].mac) = t[k].ip
           /\ t[k].flagBS \in BOOLEAN =>
                 getFlagBS(t, t[k].mac) = t[k].flagBS
<1> DEFINE I == {i \in 1 .. Len(t) : t[i].ip = t[k].ip}
           M == {i \in 1 .. Len(t) : t[i].mac = t[k].mac}
<1>1. I = {k} /\ M = {k} /\ k # 0 /\ I # {} /\ M # {}
  <2>1. DOMAIN t = 1 .. Len(t)
    OBVIOUS
  <2> QED
    BY <2>1 DEF Distinct
<1>2. Min({k}) = k
  BY MinOfOne
<1>3. SelectInSeq(t, LAMBDA r : r.ip = t[k].ip) = k
  <2>1. SelectInSeq(t, LAMBDA r : r.ip = t[k].ip) =
           IF I # {} THEN Min(I) ELSE 0
    BY Zenon DEF SelectInSeq
  <2> HIDE DEF I
  <2> QED
    BY <1>1, <1>2, <2>1, Zenon
<1>4. SelectInSeq(t, LAMBDA r : r.mac = t[k].mac) = k
  <2>1. SelectInSeq(t, LAMBDA r : r.mac = t[k].mac) =
           IF M # {} THEN Min(M) ELSE 0
    BY Zenon DEF SelectInSeq
  <2> HIDE DEF M
  <2> QED
    BY <1>1, <1>2, <2>1, Zenon
<1> QED
  BY <1>1, <1>3, <1>4, Zenon DEF getMacAddress, getIpAddress, getFlagBS

\* What the three searches return for an address that is not in the table.
LEMMA LookupFails ==
    ASSUME NEW S, NEW t \in Seq(S), NEW ip, NEW mac,
           \A i \in 1 .. Len(t) : t[i].ip # ip /\ t[i].mac # mac
    PROVE  /\ getMacAddress(t, ip) = NoMac /\ getIpAddress(t, mac) = None
           /\ ~getFlagBS(t, mac)
<1>1. {i \in 1 .. Len(t) : t[i].ip = ip} = {}
  OBVIOUS
<1>2. {i \in 1 .. Len(t) : t[i].mac = mac} = {}
  OBVIOUS
<1>3. SelectInSeq(t, LAMBDA r : r.ip = ip) = 0
  BY <1>1, Zenon DEF SelectInSeq
<1>4. SelectInSeq(t, LAMBDA r : r.mac = mac) = 0
  BY <1>2, Zenon DEF SelectInSeq
<1> QED
  BY <1>3, <1>4, Zenon DEF getMacAddress, getIpAddress, getFlagBS

Registers(Ips, Macs) == [ip : Ips, mac : Macs, flagBS : BOOLEAN]

\* The address table (MacAddressTable::deleteEntry): for every table with no
\* address twice, of any length and over any addresses, an entry less leaves
\* every other answer as it was and forgets the deleted addresses.
THEOREM DeletionKeepsEveryLookup ==
    ASSUME NEW Ips, NEW Macs, NEW t \in Seq(Registers(Ips, Macs)),
           Distinct(t), NEW id \in 1 .. Len(t) + 1
    PROVE  KeepsLookups(t, id)
<1> DEFINE S == Registers(Ips, Macs)
           n == Len(t)
           d == deleteEntry(t, id)
<1>1. n \in Nat /\ DOMAIN t = 1 .. n /\ id \in Nat
      /\ \A i \in 1 .. n : t[i] \in S /\ t[i].flagBS \in BOOLEAN
  <2>1. n \in Nat /\ DOMAIN t = 1 .. n /\ id \in Nat
    OBVIOUS
  <2>2. \A x \in S : x.flagBS \in BOOLEAN
    BY DEF Registers
  <2> HIDE DEF S
  <2>3. \A i \in 1 .. n : t[i] \in S
    BY DEF S
  <2> QED
    BY <2>1, <2>2, <2>3
<1> HIDE DEF S
<1>2. CASE id > n
  <2>1. d = t
    BY <1>2 DEF deleteEntry
  <2>2. \A i \in 1 .. n : i # id
    BY <1>1, <1>2
  <2>3. ASSUME NEW i \in 1 .. n
        PROVE  /\ getMacAddress(t, t[i].ip) = t[i].mac
               /\ getIpAddress(t, t[i].mac) = t[i].ip
               /\ getFlagBS(t, t[i].mac) = t[i].flagBS
    BY <1>1, LookupFinds
  <2> HIDE DEF d
  <2>4. Len(d) = n - (IF id > n THEN 0 ELSE 1)
    BY <1>1, <1>2, <2>1
  <2> QED
    BY <1>1, <2>1, <2>2, <2>3, <2>4, Zenon DEF KeepsLookups, d
<1>3. CASE ~(id > n)
  <2>1. id \in 1 .. n /\ n - 1 \in Nat
    BY <1>1, <1>3
  <2>2. d = [i \in 1 .. n - 1 |-> IF i < id THEN t[i] ELSE t[i + 1]]
    BY <1>3, Zenon DEF deleteEntry
  <2> HIDE DEF d, n
  <2>3. /\ d \in Seq(S) /\ Len(d) = n - 1
        /\ \A i \in 1 .. n - 1 : d[i] = IF i < id THEN t[i] ELSE t[i + 1]
    <3>1. \A i \in 1 .. n - 1 : (IF i < id THEN t[i] ELSE t[i + 1]) \in S
      BY <1>1, <2>1
    <3> QED
      BY <2>1, <2>2, <3>1
  <2> DEFINE Old(i) == IF i < id THEN i ELSE i + 1
  <2>4. \A i \in 1 .. n - 1 : /\ Old(i) \in 1 .. n /\ Old(i) # id
                              /\ d[i] = t[Old(i)]
    BY <1>1, <2>1, <2>3
  <2>5. \A i, j \in 1 .. n - 1 : i # j => Old(i) # Old(j)
    BY <1>1, <2>1
  <2>6. \A i \in 1 .. n : i # id => \E j \in 1 .. n - 1 : i = Old(j)
    <3>1. ASSUME NEW i \in 1 .. n, i # id
          PROVE  \E j \in 1 .. n - 1 : i = Old(j)
      <4>1. CASE i < id
        <5>1. i \in 1 .. n - 1 /\ i = Old(i)
          BY <1>1, <2>1, <4>1
        <5> QED
          BY <5>1
      <4>2. CASE i > id
        <5>1. i - 1 \in 1 .. n - 1 /\ i = Old(i - 1)
          BY <1>1, <2>1, <4>2
        <5> HIDE DEF Old
        <5> QED
          BY <5>1
      <4> QED
        BY <1>1, <2>1, <3>1, <4>1, <4>2
    <3> QED
      BY <3>1
  <2> HIDE DEF Old
  <2>7. DOMAIN d = 1 .. n - 1
    BY <2>3
  <2>8. Distinct(d)
    BY <1>1, <2>4, <2>5, <2>7 DEF Distinct
  <2>9. ASSUME NEW i \in 1 .. n, i # id
        PROVE  /\ getMacAddress(d, t[i].ip) = t[i].mac
               /\ getIpAddress(d, t[i].mac) = t[i].ip
               /\ getFlagBS(d, t[i].mac) = t[i].flagBS
    <3>1. PICK j \in 1 .. n - 1 : i = Old(j)
      BY <2>6, <2>9
    <3>2. d[j] = t[i] /\ j \in 1 .. Len(d)
      BY <2>3, <2>4, <3>1
    <3>3. t[i].flagBS \in BOOLEAN
      BY <1>1
    <3>4. /\ getMacAddress(d, d[j].ip) = d[j].mac
          /\ getIpAddress(d, d[j].mac) = d[j].ip
          /\ d[j].flagBS \in BOOLEAN =>
                getFlagBS(d, d[j].mac) = d[j].flagBS
      BY <2>3, <2>8, <3>2, LookupFinds
    <3> QED
      BY <3>2, <3>3, <3>4
  <2>10. /\ getMacAddress(d, t[id].ip) = NoMac
         /\ getIpAddress(d, t[id].mac) = None
         /\ ~getFlagBS(d, t[id].mac)
    <3>1. ASSUME NEW i \in 1 .. Len(d)
          PROVE  d[i].ip # t[id].ip /\ d[i].mac # t[id].mac
      <4>1. i \in 1 .. n - 1
        BY <2>3
      <4>2. Old(i) \in DOMAIN t /\ id \in DOMAIN t /\ Old(i) # id
        BY <1>1, <2>1, <2>4, <4>1
      <4>3. t[Old(i)].ip # t[id].ip /\ t[Old(i)].mac # t[id].mac
        BY <4>2 DEF Distinct
      <4> QED
        BY <2>4, <4>1, <4>3
    <3> QED
      BY <2>3, <3>1, LookupFails
  <2>11. Len(d) = n - (IF id > n THEN 0 ELSE 1)
    BY <1>3, <2>3
  <2> QED
    BY <1>1, <2>9, <2>10, <2>11, Zenon DEF KeepsLookups, d, n
<1> QED
  BY <1>2, <1>3

\* The tables of the runs are instances of it: LookupsSurviveDeletion holds,
\* deleting an entry of the address table (MacAddressTable) keeps the others.
THEOREM AddressTableCorrect == Spec => []LookupsSurviveDeletion
<1> DEFINE Ips  == {"a", "b", "c", "10.0.0.10", "10.0.0.11", "10.0.0.12"}
           Macs == {0, 1, 2}
           S    == Registers(Ips, Macs)
<1>1. ASSUME NEW t \in Tables
      PROVE  t \in Seq(S) /\ Distinct(t)
  <2> DEFINE R == {Register(r[1], r[2], r[2] = 0) :
                      r \in {"a", "b", "c"} \X {0, 1, 2}}
  <2>1. ASSUME NEW r \in {"a", "b", "c"} \X {0, 1, 2}
        PROVE  Register(r[1], r[2], r[2] = 0) \in S
    <3>1. r[1] \in Ips /\ r[2] \in Macs /\ (r[2] = 0) \in BOOLEAN
      OBVIOUS
    <3> HIDE DEF Ips, Macs
    <3> QED
      BY <3>1 DEF Register, Registers
  <2>6. R \subseteq S
    <3> HIDE DEF S
    <3> QED
      BY <2>1
  <2>2. Tables = {u \in UNION {[1 .. n -> R] : n \in 0 .. 3} : Distinct(u)}
    BY Zenon DEF Tables
  <2> HIDE DEF R, S
  <2>3. PICK n \in 0 .. 3 : t \in [1 .. n -> R]
    BY <2>2
  <2>4. n \in Nat /\ t \in [1 .. n -> S]
    BY <2>3, <2>6
  <2>5. Distinct(t)
    BY <2>2
  <2> QED
    BY <2>4, <2>5, SeqDef
<1>2. ManagerTable \in Seq(S) /\ Distinct(ManagerTable)
  <2> DEFINE a == Register("10.0.0.10", 0, TRUE)
             b == Register("10.0.0.11", 1, FALSE)
             c == Register("10.0.0.12", 2, FALSE)
  <2>2. a \in S /\ b \in S /\ c \in S
    BY DEF Register, Registers
  <2>3. /\ a.ip # b.ip /\ a.ip # c.ip /\ b.ip # c.ip
        /\ a.mac # b.mac /\ a.mac # c.mac /\ b.mac # c.mac
    BY DEF Register
  <2>1. ManagerTable = Append(Append(Append(<< >>, a), b), c)
    BY Zenon DEF ManagerTable, addEntry
  <2> DEFINE one == Append(<< >>, a)
             two == Append(one, b)
             t   == Append(two, c)
  <2> HIDE DEF S, a, b, c
  <2>4. one \in Seq(S) /\ Len(one) = 1 /\ one[1] = a
    BY <2>2
  <2> HIDE DEF one
  <2>5. two \in Seq(S) /\ Len(two) = 2 /\ two[1] = a /\ two[2] = b
    BY <2>2, <2>4, AppendProperties
  <2> HIDE DEF two
  <2>6. t \in Seq(S) /\ Len(t) = 3 /\ t[1] = a /\ t[2] = b /\ t[3] = c
    <3>1. /\ t \in Seq(S) /\ Len(t) = Len(two) + 1 /\ t[Len(two) + 1] = c
          /\ \A i \in 1 .. Len(two) : t[i] = two[i]
      <4>1. two \in Seq(S) /\ c \in S
        BY <2>2, <2>5
      <4> QED
        BY <4>1, AppendProperties
    <3> HIDE DEF t
    <3>2. 1 \in 1 .. Len(two) /\ 2 \in 1 .. Len(two) /\ Len(two) + 1 = 3
      BY <2>5
    <3> QED
      BY <2>5, <3>1, <3>2
  <2> HIDE DEF t
  <2>7. DOMAIN t = 1 .. 3
    BY <2>6
  <2>8. Distinct(t)
    BY <2>3, <2>6, <2>7 DEF Distinct
  <2> QED
    BY <2>1, <2>6, <2>8 DEF t, two, one
<1>3. DeletionKeepsLookups
  <2> HIDE DEF S
  <2>1. \A t \in Tables \cup {ManagerTable} : t \in Seq(S) /\ Distinct(t)
    BY <1>1, <1>2
  <2> QED
    BY <2>1, DeletionKeepsEveryLookup, Zenon DEF DeletionKeepsLookups, S
<1>4. LookupsSurviveDeletion
  BY <1>3 DEF LookupsSurviveDeletion
<1> QED
  BY <1>4, PTL

(***************************************************************************)
(* The fields of a MacPDU.                                                  *)
(***************************************************************************)

\* One field of width w is popped: its value comes in front of the others.
Popped(w, s) == LET p == pop(w, s.rest)
                IN  [values |-> << p.value >> \o s.values, rest |-> p.rest]

\* popFields pops one field after the other, from the last to the first.
LEMMA PopFieldsIs ==
    ASSUME NEW S, NEW ws \in Seq(S), NEW bytes, NEW r,
           r[Len(ws)] = [values |-> << >>, rest |-> bytes],
           \A i \in 1 .. Len(ws) : r[i - 1] = Popped(ws[i], r[i])
    PROVE  popFields(ws, bytes) = r[0]
<1> DEFINE n == Len(ws)
           b == [values |-> << >>, rest |-> bytes]
           Eq(g, D) == g = [c \in D |-> IF c = {} THEN b
                                        ELSE Popped(ws[Min(c)],
                                                    g[c \ {Min(c)}])]
           g == CHOOSE f : Eq(f, SUBSET (1 .. n))
<1>1. n \in Nat /\ DOMAIN ws = 1 .. n
  OBVIOUS
<1>2. popFields(ws, bytes) = g[1 .. n]
  BY <1>1 DEF popFields, FoldRight, MapThenFoldSet, Popped
<1> HIDE DEF b, n
<1>3. \E f : Eq(f, SUBSET (1 .. n))
  <2> DEFINE From(m) == n - m + 1
             Ex(m) == \E f : Eq(f, SUBSET (From(m) .. n))
             S1 == {m \in 0 .. n : Ex(m)}
  <2>1. 0 \in S1
    <3> DEFINE D == SUBSET (From(0) .. n)
               f == [c \in D |-> b]
    <3>1. D = {{}}
      BY <1>1
    <3>2. Eq(f, D)
      BY <3>1
    <3>3. Ex(0)
      <4> HIDE DEF Eq, f
      <4> QED
        BY <3>2
    <3> HIDE DEF Ex
    <3> QED
      BY <1>1, <3>3
  <2>2. ASSUME NEW m \in 1 .. n, m - 1 \in S1
        PROVE  m \in S1
    <3> DEFINE k == From(m)
               D == SUBSET (k .. n)
    <3>1. /\ k \in 1 .. n /\ From(m - 1) = k + 1 /\ m \in 0 .. n
          /\ \A c \in D : c \in SUBSET {i \in Nat : i >= k}
      BY <1>1
    <3>2. Ex(m - 1)
      <4> HIDE DEF Ex
      <4> QED
        BY <2>2
    <3> HIDE DEF From
    <3>3. PICK f : Eq(f, SUBSET (k + 1 .. n))
      <4> HIDE DEF Eq
      <4> QED
        BY <3>1, <3>2
    <3> HIDE DEF k
    <3> DEFINE h == [c \in D |-> IF k \in c THEN Popped(ws[k], f[c \ {k}])
                                 ELSE f[c]]
    <3>4. \A c \in D : /\ c \ {k} \in SUBSET (k + 1 .. n)
                       /\ k \notin c => c \in SUBSET (k + 1 .. n)
                       /\ \A x : c \ {x} \in D
      <4>1. \A i \in k .. n : i # k => i \in k + 1 .. n
        BY <1>1, <3>1
      <4> QED
        BY <4>1
    <3>5. ASSUME NEW c \in D
          PROVE  h[c] = IF c = {} THEN b
                        ELSE Popped(ws[Min(c)], h[c \ {Min(c)}])
      <4>1. CASE k \in c
        <5>1. Min(c) = k /\ c # {}
          BY <3>1, <4>1, MinIs
        <5>2. h[c \ {k}] = f[c \ {k}]
          BY <3>4
        <5>3. h[c] = Popped(ws[k], f[c \ {k}])
          BY <4>1
        <5> HIDE DEF h
        <5> QED
          BY <5>1, <5>2, <5>3
      <4>2. CASE k \notin c
        <5>1. h[c] = f[c] /\ c \in SUBSET (k + 1 .. n)
          BY <3>4, <4>2
        <5>2. f[c] = IF c = {} THEN b
                     ELSE Popped(ws[Min(c)], f[c \ {Min(c)}])
          BY <3>3, <5>1
        <5>3. h[c \ {Min(c)}] = f[c \ {Min(c)}]
          BY <3>4, <4>2
        <5> HIDE DEF h
        <5> QED
          BY <5>1, <5>2, <5>3
      <4> QED
        BY <4>1, <4>2
    <3>6. Eq(h, D)
      <4> HIDE DEF D
      <4> QED
        BY <3>5
    <3>7. Ex(m)
      <4> HIDE DEF Eq, h
      <4> QED
        BY <3>6 DEF k
    <3> HIDE DEF Ex
    <3> QED
      BY <3>1, <3>7
  <2>3. n \in S1
    <3> HIDE DEF S1
    <3>1. 0 .. n \subseteq S1
      BY <1>1, <2>1, <2>2, InductionUpTo
    <3> QED
      BY <1>1, <3>1
  <2>4. Ex(n) /\ From(n) = 1
    <3>1. Ex(n)
      <4> HIDE DEF Ex
      <4> QED
        BY <2>3
    <3>2. From(n) = 1
      BY <1>1
    <3> HIDE DEF Ex
    <3> QED
      BY <3>1, <3>2
  <2> HIDE DEF From, Eq
  <2> QED
    BY <2>4
<1>4. Eq(g, SUBSET (1 .. n))
  <2> HIDE DEF Eq
  <2> QED
    BY <1>3
<1> HIDE DEF g
<1> DEFINE T == {m \in 0 .. n : g[n - m + 1 .. n] = r[n - m]}
<1>5. 0 \in T
  <2>1. n - 0 + 1 .. n = {} /\ n - 0 = n /\ {} \in SUBSET (1 .. n)
    BY <1>1
  <2>2. g[{}] = b
    BY <1>4, <2>1
  <2>3. r[n] = b
    BY DEF b, n
  <2> QED
    BY <1>1, <2>1, <2>2, <2>3
<1>6. ASSUME NEW m \in 1 .. n, m - 1 \in T
      PROVE  m \in T
  <2> DEFINE i == n - m + 1
             c == i .. n
  <2>1. /\ i \in 1 .. n /\ n - (m - 1) + 1 = i + 1 /\ n - (m - 1) = i
        /\ n - m = i - 1 /\ m \in 0 .. n
    BY <1>1
  <2>2. g[i + 1 .. n] = r[i]
    BY <1>6, <2>1
  <2> HIDE DEF i
  <2>3. /\ c \in SUBSET (1 .. n) /\ c # {} /\ i \in c /\ i \in Nat
        /\ c \in SUBSET {k \in Nat : k >= i}
    BY <1>1, <2>1
  <2>4. c \ {i} = i + 1 .. n
    BY <1>1, <2>1
  <2>5. Min(c) = i
    BY <2>3, MinIs
  <2>6. g[c] = Popped(ws[i], g[c \ {i}])
    BY <1>4, <2>3, <2>5
  <2>7. r[i - 1] = Popped(ws[i], r[i])
    BY <2>1 DEF n
  <2>8. g[i .. n] = r[n - m]
    BY <2>1, <2>2, <2>4, <2>6, <2>7
  <2> QED
    BY <2>1, <2>8 DEF i
<1>7. n \in T
  <2> HIDE DEF T
  <2>1. 0 .. n \subseteq T
    BY <1>1, <1>5, <1>6, InductionUpTo
  <2> QED
    BY <1>1, <2>1
<1>8. n - n + 1 = 1 /\ n - n = 0
  BY <1>1
<1> QED
  BY <1>2, <1>7, <1>8

\* The value put behind the bytes is popped.
LEMMA PopIs ==
    ASSUME NEW C, NEW s \in Seq(C), NEW w \in Nat \ {0}, NEW v,
           Cells(w, v) \in Seq(C)
    PROVE  pop(w, Cat(s, Cells(w, v))) = [value |-> v, rest |-> s]
<1> DEFINE c == Cat(s, Cells(w, v))
           t == Cells(w, v)
<1>1. Len(t) = w /\ t[1] = <<v, 1>> /\ t[1][1] = v
  BY DEF Cells
<1>2. Len(s) \in Nat
  OBVIOUS
<1>3. AreParts(c, s, t)
  BY CatParts
<1> HIDE DEF c
<1>4. Len(c) = Len(s) + w
  BY <1>1, <1>3 DEF AreParts
<1>5. Len(c) - w = Len(s) /\ Len(s) >= 0
  BY <1>2, <1>4
<1>6. SubSeq(c, Len(s) + 1, Len(c)) = t /\ SubSeq(c, 1, Len(s)) = s
  BY <1>3, Zenon DEF AreParts
<1> HIDE DEF t
<1>7. pop(w, c) =
         [value |-> IF Len(s) >= 0 /\ t = Cells(w, t[1][1]) THEN t[1][1]
                    ELSE Garbled,
          rest  |-> s]
  BY <1>5, <1>6, Zenon DEF pop
<1> QED
  BY <1>1, <1>5, <1>7 DEF c, t

\* Cells of values, and the widths of fields.
Cell(V)  == V \X Nat
Widths   == Nat \ {0}

LEMMA CellsType ==
    ASSUME NEW V, NEW v \in V, NEW w \in Nat
    PROVE  Cells(w, v) \in Seq(Cell(V))
BY DEF Cells, Cell

\* A structure and a vector are popped from c, and s is left.
PopsStruct(ws, c, s, values, V) ==
    /\ c \in Seq(Cell(V))
    /\ popFields(ws, c) = [values |-> values, rest |-> s]

PopsVector(w, c, s, v, V) ==
    /\ c \in Seq(Cell(V))
    /\ popVector(w, c) = [value |-> v, rest |-> s]

\* A structure put behind the bytes is popped, all its fields in their order.
LEMMA PopStruct ==
    ASSUME NEW V, NEW s \in Seq(Cell(V)), NEW ws \in Seq(Widths),
           NEW values \in Seq(V), Len(values) = Len(ws)
    PROVE  /\ PopsStruct(ws, Cat(s, Struct(ws, values)), s, values, V)
           /\ Struct(ws, values) \in Seq(Cell(V))
<1> DEFINE n == Len(ws)
           C == Cell(V)
           ss == [i \in 1 .. n |-> Cells(ws[i], values[i])]
<1>1. /\ n \in Nat /\ DOMAIN ws = 1 .. n
      /\ \A i \in 1 .. n : ws[i] \in Widths /\ ws[i] \in Nat /\ values[i] \in V
  BY DEF Widths
<1>2. Struct(ws, values) = FlattenSeq(ss)
  BY <1>1, Zenon DEF Struct
<1> HIDE DEF C
<1>3. ASSUME NEW i \in 1 .. n
      PROVE  /\ ss[i] = Cells(ws[i], values[i])
             /\ Cells(ws[i], values[i]) \in Seq(C)
  BY <1>1, CellsType DEF C
<1>4. ss \in Seq(Seq(C)) /\ Len(ss) = n
  BY <1>1, <1>3
<1> HIDE DEF ss
<1>5. PICK r \in [0 .. Len(ss) -> Seq(C)] : Partial(r, ss, Len(ss))
  BY <1>4, PartialExists
<1>6. /\ FlattenSeq(ss) = r[n] /\ \A i \in 0 .. n : r[i] \in Seq(C)
      /\ r[0] = << >> /\ \A i \in 1 .. n : r[i] = Cat(r[i - 1], ss[i])
  <2>1. FlattenSeq(ss) = r[n]
    BY <1>4, <1>5, FlattenIs
  <2>2. \A i \in 0 .. n : r[i] \in Seq(C)
    BY <1>4, <1>5
  <2>3. r[0] = << >> /\ \A i \in 1 .. n : r[i] = Cat(r[i - 1], ss[i])
    BY <1>4, <1>5, Zenon DEF Partial, Cat
  <2> QED
    BY <2>1, <2>2, <2>3
<1>7. s \in Seq(C)
  BY DEF C
<1> DEFINE q == [i \in 0 .. n |-> [values |-> SubSeq(values, i + 1, n),
                                   rest |-> Cat(s, r[i])]]
           bytes == Cat(s, Struct(ws, values))
<1> HIDE DEF n
<1>8. q[n] = [values |-> << >>, rest |-> bytes]
  <2>1. SubSeq(values, n + 1, n) = << >>
    BY <1>1
  <2>2. n \in 0 .. n
    BY <1>1
  <2>3. Cat(s, r[n]) = bytes
    BY <1>2, <1>6
  <2> HIDE DEF bytes
  <2> QED
    BY <2>1, <2>2, <2>3
<1>9. ASSUME NEW i \in 1 .. n
      PROVE  q[i - 1] = Popped(ws[i], q[i])
  <2>1. i - 1 \in 0 .. n /\ i \in 0 .. n /\ i - 1 + 1 = i
    BY <1>1
  <2>2. Cat(s, r[i]) = Cat(Cat(s, r[i - 1]), Cells(ws[i], values[i]))
    <3>1. r[i - 1] \in Seq(C) /\ Cells(ws[i], values[i]) \in Seq(C)
      BY <1>3, <1>6, <2>1
    <3>2. r[i] = Cat(r[i - 1], Cells(ws[i], values[i]))
      BY <1>3, <1>6
    <3> DEFINE c == Cells(ws[i], values[i])
    <3> HIDE DEF c
    <3>3. \A x, y, z \in Seq(C) : Cat(Cat(x, y), z) = Cat(x, Cat(y, z))
      BY CatLaws
    <3>4. Cat(Cat(s, r[i - 1]), c) = Cat(s, Cat(r[i - 1], c))
      BY <1>7, <3>1, <3>3 DEF c
    <3> QED
      BY <3>2, <3>4 DEF c
  <2>3. Cat(s, r[i - 1]) \in Seq(C)
    <3>1. r[i - 1] \in Seq(C)
      BY <1>6, <2>1
    <3>2. IsCat(Cat(s, r[i - 1]), s, r[i - 1], C)
      BY <1>7, <3>1, CatIs
    <3> QED
      BY <3>2 DEF IsCat
  <2>4. ws[i] \in Nat \ {0} /\ Cells(ws[i], values[i]) \in Seq(C)
    BY <1>1, <1>3 DEF Widths
  <2>5. pop(ws[i], Cat(s, r[i])) =
           [value |-> values[i], rest |-> Cat(s, r[i - 1])]
    BY <2>2, <2>3, <2>4, PopIs, SMTT(30)
  <2>6. Cat(<< values[i] >>, SubSeq(values, i + 1, n)) = SubSeq(values, i, n)
    BY <1>1, SubSeqCons DEF n
  <2>7. q[i].rest = Cat(s, r[i]) /\ q[i].values = SubSeq(values, i + 1, n)
    BY <2>1
  <2>8. q[i - 1] = [values |-> SubSeq(values, i, n),
                    rest |-> Cat(s, r[i - 1])]
    BY <2>1
  <2> HIDE DEF q
  <2>9. Popped(ws[i], q[i]) =
           [values |-> << values[i] >> \o SubSeq(values, i + 1, n),
            rest |-> Cat(s, r[i - 1])]
    <3> DEFINE p == pop(ws[i], q[i].rest)
    <3>1. p.value = values[i] /\ p.rest = Cat(s, r[i - 1])
      BY <2>5, <2>7
    <3>2. Popped(ws[i], q[i]) = [values |-> << p.value >> \o q[i].values,
                                 rest |-> p.rest]
      BY Zenon DEF Popped
    <3> HIDE DEF p
    <3> QED
      BY <2>7, <3>1, <3>2, Zenon
  <2> QED
    BY <2>6, <2>8, <2>9, Zenon DEF Cat
<1>10. q[0] = [values |-> values, rest |-> s]
  <2>1. SubSeq(values, 0 + 1, n) = values
    BY <1>1 DEF n
  <2>2. Cat(s, r[0]) = s
    BY <1>6, <1>7 DEF Cat
  <2>3. 0 \in 0 .. n
    BY <1>1
  <2> QED
    BY <2>1, <2>2, <2>3
<1>11. popFields(ws, bytes) = q[0]
  <2> HIDE DEF q, bytes
  <2> QED
    BY <1>8, <1>9, PopFieldsIs DEF n
<1>12. bytes \in Seq(C) /\ FlattenSeq(ss) \in Seq(C)
  <2>1. n \in 0 .. n
    BY <1>1
  <2>2. FlattenSeq(ss) \in Seq(C)
    BY <1>6, <2>1
  <2>3. IsCat(bytes, s, FlattenSeq(ss), C)
    BY <1>2, <1>7, <2>2, CatIs
  <2> QED
    BY <2>2, <2>3 DEF IsCat
<1> QED
  BY <1>2, <1>10, <1>11, <1>12 DEF C, PopsStruct

\* popElements, with a name for the widths.
LEMMA PopElementsOf ==
    ASSUME NEW w, NEW n, NEW us, us = [i \in 1 .. n.value |-> w]
    PROVE  popElements(w, n) = [value |-> popFields(us, n.rest).values,
                                rest  |-> popFields(us, n.rest).rest]
BY DEF popElements

\* A vector put behind the bytes is popped: its length first, then its elements.
LEMMA PopVectorIs ==
    ASSUME NEW V, Nat \subseteq V, NEW s \in Seq(Cell(V)), NEW w \in Widths,
           NEW v \in Seq(V)
    PROVE  PopsVector(w, Cat(s, Vector(w, v)), s, v, V)
<1> DEFINE n == Len(v)
           C == Cell(V)
           ws == [i \in 1 .. n |-> w]
           F == Struct(ws, v)
           N == Cells(8, n)
           bytes == Cat(s, Vector(w, v))
<1>1. n \in Nat /\ n \in V /\ DOMAIN v = 1 .. n
  OBVIOUS
<1>2. ws \in Seq(Widths) /\ Len(ws) = n /\ DOMAIN ws = 1 .. n
  BY <1>1
<1>3. Vector(w, v) = Cat(F, N)
  <2>1. [i \in DOMAIN v |-> Cells(w, v[i])] =
           [i \in DOMAIN ws |-> Cells(ws[i], v[i])]
    BY <1>1, <1>2
  <2> HIDE DEF ws, n
  <2> QED
    BY <2>1, Zenon DEF Vector, Struct, Cat, n
<1> HIDE DEF ws
<1>4. /\ popFields(ws, Cat(s, F)) = [values |-> v, rest |-> s]
      /\ Cat(s, F) \in Seq(C) /\ F \in Seq(C)
  BY <1>2, PopStruct DEF PopsStruct
<1>5. N \in Seq(C)
  BY <1>1, CellsType
<1> HIDE DEF C, F
<1>6. s \in Seq(C)
  BY DEF C
<1>7. bytes = Cat(Cat(s, F), N)
  <2> HIDE DEF N
  <2>1. \A x, y, z \in Seq(C) : Cat(Cat(x, y), z) = Cat(x, Cat(y, z))
    BY CatLaws
  <2>2. Cat(Cat(s, F), N) = Cat(s, Cat(F, N))
    BY <1>4, <1>5, <1>6, <2>1
  <2> QED
    BY <1>3, <2>2
<1> HIDE DEF bytes
<1>8. pop(8, bytes) = [value |-> n, rest |-> Cat(s, F)]
  <2>1. 8 \in Nat \ {0}
    OBVIOUS
  <2> DEFINE k == 8
  <2>2. k \in Nat \ {0} /\ Cells(k, n) \in Seq(C)
    BY <1>5
  <2> DEFINE t == Cat(s, F)
  <2> HIDE DEF k
  <2>3. pop(k, Cat(t, Cells(k, n))) = [value |-> n, rest |-> t]
    <3>1. t \in Seq(C)
      BY <1>4
    <3> HIDE DEF t
    <3> QED
      BY <2>2, <3>1, PopIs
  <2> QED
    BY <1>7, <2>3 DEF k
<1>9. pop(8, bytes).value = n /\ pop(8, bytes).rest = Cat(s, F)
  BY <1>8
<1>10. popVector(w, bytes) =
          [value |-> popFields(ws, Cat(s, F)).values,
           rest  |-> popFields(ws, Cat(s, F)).rest]
  <2> DEFINE P == pop(8, bytes)
  <2>1. ws = [i \in 1 .. P.value |-> w] /\ P.rest = Cat(s, F)
    BY <1>9 DEF ws
  <2>2. popVector(w, bytes) = popElements(w, P)
    BY Zenon DEF popVector
  <2> HIDE DEF P
  <2>3. popElements(w, P) = [value |-> popFields(ws, P.rest).values,
                             rest  |-> popFields(ws, P.rest).rest]
    BY <2>1, PopElementsOf
  <2> QED
    BY <2>1, <2>2, <2>3
<1>11. popVector(w, bytes) = [value |-> v, rest |-> s]
  BY <1>4, <1>10
<1>12. bytes \in Seq(C)
  <2>1. \A x, y \in Seq(C) : Cat(x, y) \in Seq(C)
    BY CatLaws
  <2> QED
    BY <1>4, <1>5, <1>7, <2>1
<1> QED
  BY <1>11, <1>12 DEF bytes, C, PopsVector

\* The structures as sendPdu and L1 fill them: fields and vectors of any values.
Pdus(V) ==
    [numID : V, phyctl : Seq(V), allocation : Seq(V), mimo : Seq(V),
     mcs : Seq(V), macData : Seq(V), codedData : Seq(V), symbols : Seq(V),
     controlData : Seq(V), controlSymbols : Seq(V), mimoSymbols : Seq(Seq(V))]

HasFields(p) ==
    /\ Len(p.phyctl) = 4 /\ Len(p.allocation) = 3 /\ Len(p.mimo) = 3
    /\ Len(p.mcs) = 4 /\ Len(p.mimoSymbols) = 4

\* The widths of the structures.
LEMMA WidthsAre ==
    /\ PhyCtl \in Seq(Widths) /\ Len(PhyCtl) = 4
    /\ Allocated \in Seq(Widths) /\ Len(Allocated) = 3
    /\ MimoCfg \in Seq(Widths) /\ Len(MimoCfg) = 3
    /\ McsCfg \in Seq(Widths) /\ Len(McsCfg) = 4
    /\ 1 \in Widths /\ 4 \in Widths /\ 8 \in Widths
BY DEF PhyCtl, Allocated, MimoCfg, McsCfg, Widths

\* A MacPDU (lib5grange): for all values of its fields and all lengths of its
\* vectors, the constructor from bytes reads what serialize has written.
THEOREM PduRoundTrip ==
    ASSUME NEW V, Nat \subseteq V, NEW p \in Pdus(V), HasFields(p)
    PROVE  deserializePdu(serializePdu(p)) = p
<1> DEFINE id == Cells(4, p.numID)
           ph == Cat(id, Struct(PhyCtl, p.phyctl))
           al == Cat(ph, Struct(Allocated, p.allocation))
           mi == Cat(al, Struct(MimoCfg, p.mimo))
           mc == Cat(mi, Struct(McsCfg, p.mcs))
           ma == Cat(mc, Vector(1, p.macData))
           co == Cat(ma, Vector(1, p.codedData))
           sy == Cat(co, Vector(8, p.symbols))
           cd == Cat(sy, Vector(1, p.controlData))
           cs == Cat(cd, Vector(8, p.controlSymbols))
           m1 == Cat(cs, Vector(8, p.mimoSymbols[1]))
           m2 == Cat(m1, Vector(8, p.mimoSymbols[2]))
           m3 == Cat(m2, Vector(8, p.mimoSymbols[3]))
           m4 == Cat(m3, Vector(8, p.mimoSymbols[4]))
           C  == Seq(Cell(V))
<1>1. /\ p.numID \in V /\ p.phyctl \in Seq(V) /\ p.allocation \in Seq(V)
      /\ p.mimo \in Seq(V) /\ p.mcs \in Seq(V) /\ p.macData \in Seq(V)
      /\ p.codedData \in Seq(V) /\ p.symbols \in Seq(V)
      /\ p.controlData \in Seq(V) /\ p.controlSymbols \in Seq(V)
      /\ p.mimoSymbols \in Seq(Seq(V))
  BY DEF Pdus
<1>2. /\ p.mimoSymbols[1] \in Seq(V) /\ p.mimoSymbols[2] \in Seq(V)
      /\ p.mimoSymbols[3] \in Seq(V) /\ p.mimoSymbols[4] \in Seq(V)
      /\ p.mimoSymbols = << p.mimoSymbols[1], p.mimoSymbols[2],
                            p.mimoSymbols[3], p.mimoSymbols[4] >>
  <2> DEFINE ms == p.mimoSymbols
  <2>1. ms \in Seq(Seq(V)) /\ Len(ms) = 4
    BY <1>1 DEF HasFields
  <2>a. 1 \in 1 .. 4 /\ 2 \in 1 .. 4 /\ 3 \in 1 .. 4 /\ 4 \in 1 .. 4
    OBVIOUS
  <2>b. \A i \in 1 .. 4 : ms[i] \in Seq(V)
    <3> DEFINE T == Seq(V)
    <3>1. ms \in Seq(T) /\ Len(ms) = 4
      BY <2>1
    <3> HIDE DEF T, ms
    <3>2. ASSUME NEW i \in 1 .. 4
          PROVE  ms[i] \in T
      <4>1. i \in 1 .. Len(ms)
        BY <3>1
      <4> QED
        BY <3>1, <4>1, ElementOfSeq
    <3> QED
      BY <3>2 DEF T
  <2> HIDE DEF ms
  <2>2. /\ ms[1] \in Seq(V) /\ ms[2] \in Seq(V) /\ ms[3] \in Seq(V)
        /\ ms[4] \in Seq(V)
    BY <2>a, <2>b
  <2>3. ms = << ms[1], ms[2], ms[3], ms[4] >>
    BY <2>1
  <2> QED
    BY <2>2, <2>3 DEF ms
<1>3. serializePdu(p) = m4
  BY Zenon DEF serializePdu, Cat
<1>4. id \in C /\ pop(4, id) = [value |-> p.numID, rest |-> << >>]
  <2> DEFINE w == 4
             e == << >>
             c == Cells(w, p.numID)
  <2>1. w \in Nat \ {0} /\ w \in Nat /\ e \in C
    OBVIOUS
  <2> HIDE DEF w, e
  <2>2. c \in C
    BY <1>1, <2>1, CellsType
  <2>3. pop(w, Cat(e, c)) = [value |-> p.numID, rest |-> e]
    BY <2>1, <2>2, PopIs
  <2>4. Cat(e, c) = c
    BY <2>2, CatLaws DEF e
  <2> QED
    BY <2>2, <2>3, <2>4 DEF w, e
<1> HIDE DEF id, C
<1>5. PopsStruct(PhyCtl, ph, id, p.phyctl, V)
  <2>1. id \in Seq(Cell(V))
    BY <1>4 DEF C
  <2>2. Len(p.phyctl) = Len(PhyCtl)
    BY WidthsAre DEF HasFields
  <2> QED
    BY <1>1, <2>1, <2>2, WidthsAre, PopStruct
<1> HIDE DEF ph
<1>6. PopsStruct(Allocated, al, ph, p.allocation, V)
  <2>1. ph \in Seq(Cell(V))
    BY <1>5 DEF PopsStruct
  <2>2. Len(p.allocation) = Len(Allocated)
    BY WidthsAre DEF HasFields
  <2> QED
    BY <1>1, <2>1, <2>2, WidthsAre, PopStruct
<1> HIDE DEF al
<1>7. PopsStruct(MimoCfg, mi, al, p.mimo, V)
  <2>1. al \in Seq(Cell(V))
    BY <1>6 DEF PopsStruct
  <2>2. Len(p.mimo) = Len(MimoCfg)
    BY WidthsAre DEF HasFields
  <2> QED
    BY <1>1, <2>1, <2>2, WidthsAre, PopStruct
<1> HIDE DEF mi
<1>8. PopsStruct(McsCfg, mc, mi, p.mcs, V)
  <2>1. mi \in Seq(Cell(V))
    BY <1>7 DEF PopsStruct
  <2>2. Len(p.mcs) = Len(McsCfg)
    BY WidthsAre DEF HasFields
  <2> QED
    BY <1>1, <2>1, <2>2, WidthsAre, PopStruct
<1> HIDE DEF mc
<1>9. PopsVector(1, ma, mc, p.macData, V)
  <2>1. mc \in Seq(Cell(V))
    BY <1>8 DEF PopsStruct
  <2> QED
    BY <1>1, <2>1, WidthsAre, PopVectorIs
<1> HIDE DEF ma
<1>10. PopsVector(1, co, ma, p.codedData, V)
  <2>1. ma \in Seq(Cell(V))
    BY <1>9 DEF PopsVector
  <2> QED
    BY <1>1, <2>1, WidthsAre, PopVectorIs
<1> HIDE DEF co
<1>11. PopsVector(8, sy, co, p.symbols, V)
  <2>1. co \in Seq(Cell(V))
    BY <1>10 DEF PopsVector
  <2> QED
    BY <1>1, <2>1, WidthsAre, PopVectorIs
<1> HIDE DEF sy
<1>12. PopsVector(1, cd, sy, p.controlData, V)
  <2>1. sy \in Seq(Cell(V))
    BY <1>11 DEF PopsVector
  <2> QED
    BY <1>1, <2>1, WidthsAre, PopVectorIs
<1> HIDE DEF cd
<1>13. PopsVector(8, cs, cd, p.controlSymbols, V)
  <2>1. cd \in Seq(Cell(V))
    BY <1>12 DEF PopsVector
  <2> QED
    BY <1>1, <2>1, WidthsAre, PopVectorIs
<1> HIDE DEF cs
<1>14. PopsVector(8, m1, cs, p.mimoSymbols[1], V)
  <2>1. cs \in Seq(Cell(V))
    BY <1>13 DEF PopsVector
  <2> QED
    BY <1>2, <2>1, WidthsAre, PopVectorIs
<1> HIDE DEF m1
<1>15. PopsVector(8, m2, m1, p.mimoSymbols[2], V)
  <2>1. m1 \in Seq(Cell(V))
    BY <1>14 DEF PopsVector
  <2> QED
    BY <1>2, <2>1, WidthsAre, PopVectorIs
<1> HIDE DEF m2
<1>16. PopsVector(8, m3, m2, p.mimoSymbols[3], V)
  <2>1. m2 \in Seq(Cell(V))
    BY <1>15 DEF PopsVector
  <2> QED
    BY <1>2, <2>1, WidthsAre, PopVectorIs
<1> HIDE DEF m3
<1>17. PopsVector(8, m4, m3, p.mimoSymbols[4], V)
  <2>1. m3 \in Seq(Cell(V))
    BY <1>16 DEF PopsVector
  <2> QED
    BY <1>2, <2>1, WidthsAre, PopVectorIs
<1> HIDE DEF m4
<1>18. deserializePdu(m4) =
          [numID |-> p.numID, phyctl |-> p.phyctl, allocation |-> p.allocation,
           mimo |-> p.mimo, mcs |-> p.mcs, macData |-> p.macData,
           codedData |-> p.codedData, symbols |-> p.symbols,
           controlData |-> p.controlData, controlSymbols |-> p.controlSymbols,
           mimoSymbols |-> << p.mimoSymbols[1], p.mimoSymbols[2],
                              p.mimoSymbols[3], p.mimoSymbols[4] >>]
  <2>1. popVector(8, m4).rest = m3 /\ popVector(8, m4).value = p.mimoSymbols[4]
    BY <1>17 DEF PopsVector
  <2>2. popVector(8, m3).rest = m2 /\ popVector(8, m3).value = p.mimoSymbols[3]
    BY <1>16 DEF PopsVector
  <2>3. popVector(8, m2).rest = m1 /\ popVector(8, m2).value = p.mimoSymbols[2]
    BY <1>15 DEF PopsVector
  <2>4. popVector(8, m1).rest = cs /\ popVector(8, m1).value = p.mimoSymbols[1]
    BY <1>14 DEF PopsVector
  <2>5. popVector(8, cs).rest = cd /\ popVector(8, cs).value = p.controlSymbols
    BY <1>13 DEF PopsVector
  <2>6. popVector(1, cd).rest = sy /\ popVector(1, cd).value = p.controlData
    BY <1>12 DEF PopsVector
  <2>7. popVector(8, sy).rest = co /\ popVector(8, sy).value = p.symbols
    BY <1>11 DEF PopsVector
  <2>8. popVector(1, co).rest = ma /\ popVector(1, co).value = p.codedData
    BY <1>10 DEF PopsVector
  <2>9. popVector(1, ma).rest = mc /\ popVector(1, ma).value = p.macData
    BY <1>9 DEF PopsVector
  <2>10. popFields(McsCfg, mc).rest = mi /\ popFields(McsCfg, mc).values = p.mcs
    BY <1>8 DEF PopsStruct
  <2>11. /\ popFields(MimoCfg, mi).rest = al
         /\ popFields(MimoCfg, mi).values = p.mimo
    BY <1>7 DEF PopsStruct
  <2>12. /\ popFields(Allocated, al).rest = ph
         /\ popFields(Allocated, al).values = p.allocation
    BY <1>6 DEF PopsStruct
  <2>13. /\ popFields(PhyCtl, ph).rest = id
         /\ popFields(PhyCtl, ph).values = p.phyctl
    BY <1>5 DEF PopsStruct
  <2>14. pop(4, id).value = p.numID
    BY <1>4
  <2> QED
    BY <2>1, <2>2, <2>3, <2>4, <2>5, <2>6, <2>7, <2>8, <2>9, <2>10, <2>11,
       <2>12, <2>13, <2>14, Zenon DEF deserializePdu
<1>19. deserializePdu(m4) = p
  <2>1. p = [numID |-> p.numID, phyctl |-> p.phyctl,
             allocation |-> p.allocation, mimo |-> p.mimo, mcs |-> p.mcs,
             macData |-> p.macData, codedData |-> p.codedData,
             symbols |-> p.symbols, controlData |-> p.controlData,
             controlSymbols |-> p.controlSymbols,
             mimoSymbols |-> p.mimoSymbols]
    BY DEF Pdus
  <2> QED
    BY <1>2, <1>18, <2>1, Zenon
<1> QED
  BY <1>3, <1>19

(***************************************************************************)
(* A PDU between one L2 and another.                                        *)
(***************************************************************************)

\* What crcPackageCalculate has closed: the data, and two bytes.
LEMMA ClosedData ==
    ASSUME NEW bytes \in Seq(Byte)
    PROVE  LET sent == crcPackageCalculate(bytes)
           IN  sent \in Seq(Byte) /\ SubSeq(sent, 1, Len(sent) - 2) = bytes
<1> DEFINE n == Len(bytes)
           sent == crcPackageCalculate(bytes)
<1>1. n \in Nat /\ IsClosed(sent, bytes, n)
  BY ClosedIs
<1> HIDE DEF n, sent
<1>2. sent \in Seq(Byte) /\ SubSeq(sent, 1, n) = bytes /\ Len(sent) - 2 = n
  BY <1>1 DEF IsClosed
<1> QED
  BY <1>2 DEF sent

\* sendPdu and receivePdu (L1L2Interface) with L1 between them: for all values
\* of the fields and all lengths of the vectors of a PDU, the data arrive in the
\* other L2 without the CRC, and all the other fields of the PDU in L1.
THEOREM PduArrives ==
    ASSUME NEW V, Nat \cup Byte \subseteq V, NEW p \in Pdus(V), HasFields(p),
           p.macData \in Seq(Byte)
    PROVE  LET sent == sendPduToL1(p)
           IN  /\ [deserializePdu(sent) EXCEPT !.macData = p.macData] = p
               /\ receivePdu(passOn(sent)) = p.macData
<1> DEFINE data == p.macData
           closed == crcPackageCalculate(data)
           q == [p EXCEPT !.macData = closed]
           sent == sendPduToL1(p)
<1>1. /\ closed \in Seq(Byte) /\ SubSeq(closed, 1, Len(closed) - 2) = data
      /\ crcPackageChecking(closed)
  BY ClosedData, CrcDetectsByte
<1>2. closed \in Seq(V)
  BY <1>1, SeqOfLarger
<1>3. sent = serializePdu(q)
  BY Zenon DEF sendPduToL1
<1> HIDE DEF closed
<1>4. q \in Pdus(V) /\ HasFields(q) /\ q.macData = closed
      /\ [q EXCEPT !.macData = data] = p
  BY <1>2 DEF Pdus, HasFields
<1> HIDE DEF q, data
<1>5. deserializePdu(serializePdu(q)) = q
  BY <1>4, PduRoundTrip
<1>6. passOn(sent) = closed
  BY <1>3, <1>4, <1>5 DEF passOn
<1>7. receivePdu(closed) = data
  BY <1>1, Zenon DEF receivePdu
<1> QED
  BY <1>3, <1>4, <1>5, <1>6, <1>7, Zenon DEF data

\* The values of the fields: numbers, the bytes of the data, symbols.
Symbols == {"x", "y", "z", "w", "v"}
Values  == Nat \cup Byte \cup Symbols

\* A PDU as sendPdu fills it, with any symbols, has fields of these values.
LEMMA SampleIsPdu ==
    ASSUME NEW flagBS \in BOOLEAN, NEW mimo \in SampleMimo, NEW coded \in Nat,
           NEW data \in Seq(Byte), NEW s \in Seq(Symbols)
    PROVE  LET pdu == WithSymbols(
                         PduToSend(flagBS, 1, mimo, 7, data, 132, coded), s)
           IN  pdu \in Pdus(Values) /\ HasFields(pdu) /\ pdu.macData = data
<1> DEFINE mi == << IF mimo.conf = 0 THEN 0 ELSE 1 + mimo.diversity,
                    IF mimo.antenna = 0 THEN 2 ELSE 4, mimo.precoding >>
           ct == getControlData(flagBS)
           ss == s \o s
           sw == s \o << "w" >>
           n == Len(data)
           V == Values
           pdu == WithSymbols(
                     PduToSend(flagBS, 1, mimo, 7, data, 132, coded), s)
<1>1. pdu = [numID |-> 0, phyctl |-> << 1, 3, 1, 1 >>,
             allocation |-> << 1, 0, 132 >>, mimo |-> mi,
             mcs |-> << QAM64, 7, n, coded >>, macData |-> data,
             codedData |-> << >>, symbols |-> s, controlData |-> ct,
             controlSymbols |-> ss,
             mimoSymbols |-> << s, << >>, sw, << "v" >> >>]
  <2> DEFINE stat == setMacPduStaticInformation(EmptyPdu, 1, mimo, 7, n, 132,
                                                coded)
             e == << >>
             es == << e, e, e, e >>
  <2>1. stat = [numID |-> 0, phyctl |-> << 1, 3, 1, 1 >>,
                allocation |-> << 1, 0, 132 >>, mimo |-> mi,
                mcs |-> << QAM64, 7, n, coded >>, macData |-> e,
                codedData |-> e, symbols |-> e, controlData |-> e,
                controlSymbols |-> e, mimoSymbols |-> es]
    <3> DEFINE z == << 0, 0, 0, 0 >>
               z3 == << 0, 0, 0 >>
               a == << 1, 3, 1, 1 >>
               b == << 1, 0, 132 >>
               c == << QAM64, 7, n, coded >>
    <3>1. stat = [EmptyPdu EXCEPT !.phyctl = a, !.allocation = b, !.mimo = mi,
                                  !.mcs = c]
      BY Zenon DEF setMacPduStaticInformation
    <3>2. EmptyPdu = [numID |-> 0, phyctl |-> z, allocation |-> z3,
                      mimo |-> z3, mcs |-> z, macData |-> e, codedData |-> e,
                      symbols |-> e, controlData |-> e, controlSymbols |-> e,
                      mimoSymbols |-> es]
      BY Zenon DEF EmptyPdu
    <3> HIDE DEF stat, mi, n, e, es, z, z3, a, b, c
    <3>3. stat = [numID |-> 0, phyctl |-> a, allocation |-> b, mimo |-> mi,
                  mcs |-> c, macData |-> e, codedData |-> e, symbols |-> e,
                  controlData |-> e, controlSymbols |-> e, mimoSymbols |-> es]
      BY <3>1, <3>2
    <3> QED
      BY <3>3 DEF a, b, c
  <2>2. pdu = [[stat EXCEPT !.macData = data, !.controlData = ct]
                  EXCEPT !.symbols = s, !.controlSymbols = ss,
                         !.mimoSymbols = << s, e, sw, << "v" >> >>]
    BY Zenon DEF WithSymbols, PduToSend
  <2> HIDE DEF stat, mi, ct, ss, sw, n, e, es, pdu
  <2>3. pdu = [numID |-> 0, phyctl |-> << 1, 3, 1, 1 >>,
             allocation |-> << 1, 0, 132 >>, mimo |-> mi,
             mcs |-> << QAM64, 7, n, coded >>, macData |-> data,
             codedData |-> e, symbols |-> s, controlData |-> ct,
             controlSymbols |-> ss,
             mimoSymbols |-> << s, e, sw, << "v" >> >>]
    BY <2>1, <2>2
  <2> QED
    BY <2>3 DEF e
<1>2. /\ mi \in Seq(V) /\ Len(mi) = 3
  <2>1. /\ mimo.conf \in {0, 1} /\ mimo.diversity \in {0, 1}
        /\ mimo.antenna \in Nat /\ mimo.precoding \in Nat
    BY DEF SampleMimo
  <2>2. 0 \in V /\ 1 + mimo.diversity \in V /\ 2 \in V /\ 4 \in V
        /\ mimo.precoding \in V
    BY <2>1 DEF Values
  <2> QED
    BY <2>2
<1>3. ct \in Seq(V)
  <2>1. 4 \in V /\ 18 \in V /\ 2 \in V /\ 1 \in V /\ 0 \in V
    BY DEF Values
  <2> QED
    BY <2>1 DEF getControlData
<1>4. data \in Seq(V) /\ s \in Seq(V)
  BY SeqOfLarger DEF Values
<1>5. /\ ss \in Seq(V) /\ sw \in Seq(V)
      /\ << "v" >> \in Seq(V) /\ << >> \in Seq(V)
  <2>1. "w" \in V /\ "v" \in V
    BY DEF Values, Symbols
  <2> HIDE DEF V
  <2> QED
    BY <1>4, <2>1
<1>6. << s, << >>, sw, << "v" >> >> \in Seq(Seq(V))
  <2> DEFINE S == Seq(V)
             x == << "v" >>
             e == << >>
  <2>1. s \in S /\ sw \in S /\ x \in S /\ e \in S
    BY <1>4, <1>5
  <2> HIDE DEF S, x, sw, e
  <2>2. << s, e, sw, x >> \in Seq(S)
    BY <2>1
  <2> QED
    BY <2>2 DEF S, x, e
<1>7. /\ << 1, 3, 1, 1 >> \in Seq(V) /\ << 1, 0, 132 >> \in Seq(V)
      /\ << QAM64, 7, n, coded >> \in Seq(V) /\ 0 \in V
  <2>1. \A k \in Nat : k \in V
    BY DEF Values
  <2>2. QAM64 \in Nat /\ n \in Nat
    BY DEF QAM64
  <2> HIDE DEF n, V
  <2>3. 0 \in V /\ 1 \in V /\ 3 \in V /\ 132 \in V /\ 7 \in V
    BY <2>1
  <2> QED
    BY <2>1, <2>2, <2>3
<1> HIDE DEF pdu, mi, ct, ss, sw, n
<1>8. pdu \in Pdus(V)
  <2> DEFINE ms == << s, << >>, sw, << "v" >> >>
             a == << 1, 3, 1, 1 >>
             b == << 1, 0, 132 >>
             c == << QAM64, 7, n, coded >>
             e == << >>
             S == Seq(V)
             T == Seq(Seq(V))
  <2>1. /\ 0 \in V /\ a \in S /\ b \in S /\ mi \in S /\ c \in S /\ data \in S
        /\ e \in S /\ s \in S /\ ct \in S /\ ss \in S /\ ms \in T
    BY <1>2, <1>3, <1>4, <1>5, <1>6, <1>7
  <2>2. pdu = [numID |-> 0, phyctl |-> a, allocation |-> b, mimo |-> mi,
               mcs |-> c, macData |-> data, codedData |-> e, symbols |-> s,
               controlData |-> ct, controlSymbols |-> ss, mimoSymbols |-> ms]
    BY <1>1
  <2> HIDE DEF a, b, c, e, ms, S, T
  <2>3. pdu \in [numID : V, phyctl : S, allocation : S, mimo : S, mcs : S,
                 macData : S, codedData : S, symbols : S, controlData : S,
                 controlSymbols : S, mimoSymbols : T]
    BY <2>1, <2>2
  <2> QED
    BY <2>3 DEF Pdus, S, T
<1>9. HasFields(pdu) /\ pdu.macData = data
  <2>1. /\ pdu.phyctl = << 1, 3, 1, 1 >> /\ pdu.allocation = << 1, 0, 132 >>
        /\ pdu.mimo = mi /\ pdu.mcs = << QAM64, 7, n, coded >>
        /\ pdu.mimoSymbols = << s, << >>, sw, << "v" >> >>
        /\ pdu.macData = data
    BY <1>1
  <2> QED
    BY <1>2, <2>1 DEF HasFields
<1> QED
  BY <1>8, <1>9 DEF pdu

\* What the run gives as data and as symbols.
LEMMA SamplesAre ==
    SampleBytes \subseteq Seq(Byte) /\ SampleSymbols \subseteq Seq(Symbols)
<1>1. SampleBytes \subseteq Seq(Byte)
  <2> DEFINE a == {}
             b == {0, 7}
             c == 0 .. 7
             d == {4}
             e == {1, 2, 3}
             B == Byte
  <2>1. a \in B /\ b \in B /\ c \in B /\ d \in B /\ e \in B
    BY DEF Byte
  <2>2. SampleBytes = {<< a >>, << b, c >>, << d, a, e >>}
    BY Zenon DEF SampleBytes
  <2> HIDE DEF B, a, b, c, d, e
  <2>3. << a >> \in Seq(B) /\ << b, c >> \in Seq(B) /\ << d, a, e >> \in Seq(B)
    BY <2>1
  <2> DEFINE x == << a >>
             y == << b, c >>
             z == << d, a, e >>
  <2>4. SampleBytes = {x, y, z} /\ x \in Seq(B) /\ y \in Seq(B) /\ z \in Seq(B)
    BY <2>2, <2>3, Zenon
  <2> HIDE DEF x, y, z
  <2>5. SampleBytes \subseteq Seq(B)
    BY <2>4
  <2> QED
    BY <2>5 DEF B
<1>2. SampleSymbols \subseteq Seq(Symbols)
  <2> DEFINE S == Symbols
             a == "x"
             b == "y"
             c == "z"
             x == << >>
             y == << a >>
             z == << a, b, c >>
  <2>1. a \in S /\ b \in S /\ c \in S
    BY DEF Symbols
  <2>2. SampleSymbols = {x, y, z}
    BY Zenon DEF SampleSymbols
  <2> HIDE DEF S, a, b, c
  <2>3. x \in Seq(S) /\ y \in Seq(S) /\ z \in Seq(S)
    BY <2>1
  <2> HIDE DEF x, y, z
  <2>4. SampleSymbols \subseteq Seq(S)
    BY <2>2, <2>3
  <2> QED
    BY <2>4 DEF S
<1> QED
  BY <1>1, <1>2

\* The PDUs of the run arrive, since every PDU does.
THEOREM PdusCorrect == Spec => []PdusArrive
<1>1. PdusArrive
  <2> SUFFICES ASSUME NEW flagBS \in BOOLEAN, NEW mimo \in SampleMimo,
                      NEW coded \in {0, 2300}, NEW data \in SampleBytes,
                      NEW s \in SampleSymbols
               PROVE  LET pdu  == WithSymbols(
                             PduToSend(flagBS, 1, mimo, 7, data, 132, coded), s)
                          sent == sendPduToL1(pdu)
                      IN  /\ [deserializePdu(sent) EXCEPT !.macData = data]
                                = pdu
                          /\ receivePdu(passOn(sent)) = data
    BY Zenon DEF PdusArrive
  <2> DEFINE pdu == WithSymbols(
                       PduToSend(flagBS, 1, mimo, 7, data, 132, coded), s)
  <2>1. coded \in Nat /\ data \in Seq(Byte) /\ s \in Seq(Symbols)
    <3>1. coded \in Nat
      OBVIOUS
    <3>2. data \in Seq(Byte) /\ s \in Seq(Symbols)
      BY SamplesAre
    <3> QED
      BY <3>1, <3>2
  <2>2. pdu \in Pdus(Values) /\ HasFields(pdu) /\ pdu.macData = data
    BY <2>1, SampleIsPdu
  <2>3. Nat \cup Byte \subseteq Values
    BY DEF Values
  <2> HIDE DEF pdu
  <2>4. /\ [deserializePdu(sendPduToL1(pdu)) EXCEPT !.macData = pdu.macData]
              = pdu
        /\ receivePdu(passOn(sendPduToL1(pdu))) = pdu.macData
    BY <2>1, <2>2, <2>3, PduArrives
  <2> DEFINE inL1 == deserializePdu(sendPduToL1(pdu))
  <2>5. [inL1 EXCEPT !.macData = data] = pdu
    <3> HIDE DEF inL1
    <3>1. [inL1 EXCEPT !.macData = pdu.macData] = pdu
      BY <2>4 DEF inL1
    <3> QED
      BY <2>2, <3>1
  <2>6. receivePdu(passOn(sendPduToL1(pdu))) = data
    BY <2>2, <2>4
  <2> QED
    BY <2>5, <2>6 DEF pdu
<1> QED
  BY <1>1, PTL

\* A position is that of its byte and its bit.
LEMMA PositionIs ==
    ASSUME NEW i \in Nat
    PROVE  i \div 8 \in Nat /\ i % 8 \in 0 .. 7 /\ i = 8 * (i \div 8) + (i % 8)
<1>1. i \div 8 \in Nat
  OBVIOUS
<1>2. i % 8 \in 0 .. 7
  OBVIOUS
<1>3. i = 8 * (i \div 8) + (i % 8)
  OBVIOUS
<1> QED
  BY <1>1, <1>2, <1>3

\* One bit of a sequence is turned over.
IsFlipped(t, s, i) ==
    /\ t \in Seq(Byte) /\ Len(t) = Len(s)
    /\ \A k \in 0 .. 8 * Len(s) - 1 : BitAt(t, k) <=> ~(BitAt(s, k) <=> k = i)

\* That is what Flipped does.
LEMMA FlippedIs ==
    ASSUME NEW s \in Seq(Byte), NEW i \in 0 .. 8 * Len(s) - 1
    PROVE  IsFlipped(Flipped(s, i), s, i)
<1> DEFINE at == i \div 8 + 1
           bit == i % 8
           b == Xor(s[at], {bit})
           t == [s EXCEPT ![at] = b]
           n == Len(s)
<1>1. n \in Nat /\ i \in Nat /\ i < 8 * n
  OBVIOUS
<1>2. at \in 1 .. n /\ bit \in 0 .. 7 /\ i = 8 * (at - 1) + bit
  BY <1>1, PositionIs
<1>3. Flipped(s, i) = t
  BY DEF Flipped
<1> HIDE DEF bit, at
<1>4. b \in Byte /\ \A k : k \in b <=> ~(k \in s[at] <=> k = bit)
  <2>1. s[at] \in Byte
    BY <1>2
  <2> QED
    BY <1>2, <2>1 DEF Xor, Byte
<1> HIDE DEF b
<1>5. /\ t \in Seq(Byte) /\ Len(t) = n
      /\ \A k \in 1 .. n : t[k] = IF k = at THEN b ELSE s[k]
  BY <1>2, <1>4
<1> HIDE DEF t
<1>6. ASSUME NEW k \in 0 .. 8 * n - 1
      PROVE  BitAt(t, k) <=> ~(BitAt(s, k) <=> k = i)
  <2> DEFINE to == k \div 8 + 1
             l == k % 8
  <2>1. k \in Nat /\ k < 8 * n
    BY <1>1
  <2>2. to \in 1 .. n /\ l \in 0 .. 7 /\ k = 8 * (to - 1) + l
    BY <1>1, <2>1, PositionIs
  <2>3. /\ BitAt(t, k) <=> l \in t[to]
        /\ BitAt(s, k) <=> l \in s[to]
    BY Zenon DEF BitAt
  <2> HIDE DEF to, l
  <2>4. k = i <=> to = at /\ l = bit
    BY <1>2, <2>2
  <2>5. t[to] = IF to = at THEN b ELSE s[to]
    BY <1>5, <2>2
  <2>6. CASE to = at
    BY <1>4, <2>3, <2>4, <2>5, <2>6
  <2>7. CASE to # at
    BY <2>3, <2>4, <2>5, <2>7
  <2> QED
    BY <2>6, <2>7
<1>7. IsFlipped(t, s, i)
  BY <1>5, <1>6 DEF IsFlipped, n
<1> QED
  BY <1>3, <1>7

\* The data of the run are no longer than three bytes.
LEMMA SamplesAreShort ==
    ASSUME NEW bytes \in SampleBytes
    PROVE  Len(bytes) <= 3
<1> DEFINE a == {}
           b == {0, 7}
           c == 0 .. 7
           d == {4}
           e == {1, 2, 3}
<1>1. SampleBytes = {<< a >>, << b, c >>, << d, a, e >>}
  BY Zenon DEF SampleBytes
<1> HIDE DEF a, b, c, d, e
<1>2. bytes = << a >> \/ bytes = << b, c >> \/ bytes = << d, a, e >>
  BY <1>1
<1>3. Len(<< a >>) = 1 /\ Len(<< b, c >>) = 2 /\ Len(<< d, a, e >>) = 3
  OBVIOUS
<1> DEFINE l == Len(bytes)
<1>4. l = 1 \/ l = 2 \/ l = 3
  BY <1>2, <1>3, Zenon
<1> HIDE DEF l
<1>5. l <= 3
  BY <1>4
<1> QED
  BY <1>5 DEF l

\* The PDUs of the run are of those for which all changes of one or two bits are
\* detected.
THEOREM CrcCorrect == Spec => []CrcDetects
<1>1. ASSUME NEW bytes \in SampleBytes
      PROVE  LET sent == crcPackageCalculate(bytes)
                 bits == 0 .. 8 * Len(sent) - 1
             IN  /\ crcPackageChecking(sent)
                 /\ \A i \in bits : ~crcPackageChecking(Flipped(sent, i))
                 /\ \A i, j \in bits :
                       i < j =>
                          ~crcPackageChecking(Flipped(Flipped(sent, i), j))
  <2> DEFINE sent == crcPackageCalculate(bytes)
             n == Len(sent)
             bits == 0 .. 8 * n - 1
  <2>1. bytes \in Seq(Byte) /\ Len(bytes) <= 3
    BY SamplesAre, SamplesAreShort
  <2>2. sent \in Seq(Byte) /\ n = Len(bytes) + 2
    BY <2>1, ClosedIs DEF IsClosed
  <2>3. n \in Nat /\ 8 * n <= Period
    BY <2>1, <2>2 DEF Period
  <2>4. crcPackageChecking(sent)
    BY <2>1, CrcDetectsByte
  <2> HIDE DEF sent
  <2>5. ASSUME NEW i \in bits
        PROVE  ~crcPackageChecking(Flipped(sent, i))
    <3> DEFINE y == Flipped(sent, i)
    <3>1. IsFlipped(y, sent, i)
      BY <2>2, FlippedIs
    <3> HIDE DEF y
    <3>2. Changed(sent, y) = {i}
      BY <3>1 DEF IsFlipped, Changed
    <3>3. Odd(Changed(sent, y))
      BY <3>2, OddOne
    <3>4. y \in Seq(Byte) /\ Len(y) = n
      BY <3>1 DEF IsFlipped
    <3>5. ~crcPackageChecking(y)
      BY <2>1, <3>3, <3>4, CrcDetectsOdd DEF sent
    <3> QED
      BY <3>5 DEF y
  <2>6. ASSUME NEW i \in bits, NEW j \in bits, i < j
        PROVE  ~crcPackageChecking(Flipped(Flipped(sent, i), j))
    <3> DEFINE y == Flipped(sent, i)
               z == Flipped(y, j)
    <3>1. IsFlipped(y, sent, i)
      BY <2>2, FlippedIs
    <3> HIDE DEF y
    <3>2. y \in Seq(Byte) /\ Len(y) = n
      BY <3>1 DEF IsFlipped
    <3>3. IsFlipped(z, y, j)
      BY <3>2, FlippedIs
    <3> HIDE DEF z
    <3>4. z \in Seq(Byte) /\ Len(z) = n
      BY <3>2, <3>3 DEF IsFlipped
    <3>5. ASSUME NEW k \in bits
          PROVE  ~(BitAt(sent, k) <=> BitAt(z, k)) <=> k = i \/ k = j
      <4>1. /\ BitAt(y, k) <=> ~(BitAt(sent, k) <=> k = i)
            /\ BitAt(z, k) <=> ~(BitAt(y, k) <=> k = j)
        BY <3>1, <3>2, <3>3 DEF IsFlipped
      <4>2. ~(k = i /\ k = j)
        BY <2>3, <2>6
      <4> QED
        BY <4>1, <4>2
    <3>6. Changed(sent, z) = {i, j}
      BY <3>5 DEF Changed
    <3>7. i \in Nat /\ j \in Nat /\ i # j
      BY <2>3, <2>6
    <3>8. ~crcPackageChecking(z)
      BY <2>1, <2>3, <3>4, <3>6, <3>7, CrcDetectsTwo DEF sent
    <3> QED
      BY <3>8 DEF y, z
  <2> QED
    BY <2>4, <2>5, <2>6 DEF sent
<1>2. CrcDetects
  BY <1>1, Zenon DEF CrcDetects
<1> QED
  BY <1>2, PTL
=============================================================================
