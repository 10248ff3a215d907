----------------------------- MODULE Crc_proofs -----------------------------
(***************************************************************************)
(* What the check of the CRC detects, for PDUs of every length: a change of *)
(* an odd number of bits, of bits within 16 in a row, and, up to the period *)
(* of the polynomial, of any two bits.                                      *)
(***************************************************************************)
EXTENDS Crc, Lists

Byte  == SUBSET (0 .. 7)
Word  == SUBSET (0 .. 15)

\* A bit more of data gives a CRC of 16 bits.
LEMMA ShiftedType ==
    ASSUME NEW crc \in Word, NEW bit \in BOOLEAN
    PROVE  Shifted(crc, bit) \in Word
<1>1. {k - 1 : k \in crc \ {0}} \in Word
  BY DEF Word
<1>2. Polynomial \in Word
  BY DEF Word, Polynomial
<1> QED
  BY <1>1, <1>2 DEF Shifted, Xor, Word

\* The polynomial was put in if and only if the highest bit is set.
LEMMA ShiftedIs ==
    ASSUME NEW crc \in Word, NEW bit \in BOOLEAN
    PROVE  /\ 15 \in Shifted(crc, bit) <=> bit # (0 \in crc)
           /\ \A k \in 0 .. 14 :
                 k \in Shifted(crc, bit) <=>
                    IF bit # (0 \in crc)
                    THEN k + 1 \in crc <=> k \notin Polynomial
                    ELSE k + 1 \in crc
<1> DEFINE rest == {k - 1 : k \in crc \ {0}}
<1>1. 15 \notin rest /\ 15 \in Polynomial
  BY DEF Word, Polynomial
<1>2. ASSUME NEW k \in 0 .. 14
      PROVE  k \in rest <=> k + 1 \in crc
  BY DEF Word
<1>3. Shifted(crc, bit) =
         IF bit # (0 \in crc) THEN Xor(rest, Polynomial) ELSE rest
  BY Zenon DEF Shifted
<1> HIDE DEF rest
<1>4. CASE bit # (0 \in crc)
  BY <1>1, <1>2, <1>3, <1>4 DEF Xor
<1>5. CASE ~(bit # (0 \in crc))
  BY <1>1, <1>2, <1>3, <1>5
<1> QED
  BY <1>4, <1>5

\* Two words differ at a position from j on.
Apart(c, d, j) == \E k \in j .. 15 : (k \in c) # (k \in d)

\* A difference survives a bit of data, one place lower or higher.
LEMMA ShiftedApart ==
    ASSUME NEW c \in Word, NEW d \in Word, NEW x \in BOOLEAN, NEW y \in BOOLEAN,
           NEW j \in 1 .. 15, Apart(c, d, j)
    PROVE  Apart(Shifted(c, x), Shifted(d, y), j - 1)
<1>1. PICK k \in j .. 15 : (k \in c) # (k \in d)
  BY DEF Apart
<1>2. k - 1 \in 0 .. 14 /\ k - 1 \in j - 1 .. 15 /\ k - 1 + 1 = k
      /\ 15 \in j - 1 .. 15
  OBVIOUS
<1> DEFINE s == Shifted(c, x)
           t == Shifted(d, y)
           l == k - 1
<1>3. /\ 15 \in s <=> x # (0 \in c)
      /\ l \in s <=> IF x # (0 \in c) THEN k \in c <=> l \notin Polynomial
                     ELSE k \in c
  BY <1>2, ShiftedIs
<1>4. /\ 15 \in t <=> y # (0 \in d)
      /\ l \in t <=> IF y # (0 \in d) THEN k \in d <=> l \notin Polynomial
                     ELSE k \in d
  BY <1>2, ShiftedIs
<1> HIDE DEF s, t, l
<1>5. (15 \in s) # (15 \in t) \/ (l \in s) # (l \in t)
  BY <1>1, <1>3, <1>4
<1>6. l \in j - 1 .. 15
  BY <1>2 DEF l
<1> QED
  BY <1>2, <1>5, <1>6 DEF Apart, s, t

\* Different bits part equal words at the highest place.
LEMMA BitApart ==
    ASSUME NEW c \in Word, NEW x \in BOOLEAN, NEW y \in BOOLEAN, x # y
    PROVE  Apart(Shifted(c, x), Shifted(c, y), 15)
<1>1. (15 \in Shifted(c, x)) # (15 \in Shifted(c, y))
  BY ShiftedIs
<1> QED
  BY <1>1 DEF Apart

\* The same bit keeps different words different.
LEMMA ShiftedInjective ==
    ASSUME NEW c \in Word, NEW d \in Word, NEW x \in BOOLEAN, c # d
    PROVE  Shifted(c, x) # Shifted(d, x)
<1>1. PICK k \in 0 .. 15 : (k \in c) # (k \in d)
  BY DEF Word
<1>2. CASE k = 0
  <2>1. (15 \in Shifted(c, x)) # (15 \in Shifted(d, x))
    BY <1>1, <1>2, ShiftedIs
  <2> QED
    BY <2>1
<1>3. CASE k # 0
  <2>1. k \in 1 .. 15
    BY <1>3
  <2>2. Apart(c, d, k)
    BY <1>1, <2>1 DEF Apart
  <2>3. Apart(Shifted(c, x), Shifted(d, x), k - 1)
    BY <2>1, <2>2, ShiftedApart
  <2> QED
    BY <2>3 DEF Apart
<1> QED
  BY <1>2, <1>3

\* r are the CRCs behind 0, 1, ... 8 bits of a byte, the lowest bit first.
Bits(r, byte, crc) ==
    /\ r \in [0 .. 8 -> Word] /\ r[0] = crc
    /\ \A i \in 1 .. 8 : r[i] = Shifted(r[i - 1], i - 1 \in byte)

\* The CRC behind a byte is the last of them.
LEMMA ByteIsBits ==
    ASSUME NEW byte, NEW crc \in Word
    PROVE  \E r : /\ Bits(r, byte, crc)
                  /\ auxiliaryCalculationCRC(byte, crc) = r[8]
<1> DEFINE n == 8
           s == << 0, 1, 2, 3, 4, 5, 6, 7 >>
           D == SUBSET (1 .. n)
           step == [i \in 1 .. n |-> [v \in Word |-> Shifted(v, s[i] \in byte)]]
           Eq(g) == g = [c \in D |-> IF c = {} THEN crc
                                     ELSE Shifted(g[c \ {Max(c)}],
                                                  s[Max(c)] \in byte)]
           g == CHOOSE f : Eq(f)
<1>1. n \in Nat /\ DOMAIN s = 1 .. n /\ \A i \in 1 .. n : s[i] = i - 1
  OBVIOUS
<1>2. auxiliaryCalculationCRC(byte, crc) = g[1 .. n]
  BY <1>1 DEF auxiliaryCalculationCRC, FoldLeft, MapThenFoldSet
<1> HIDE DEF n, s
<1>3. step \in [1 .. n -> [Word -> Word]]
  <2>1. ASSUME NEW i \in 1 .. n, NEW v \in Word
        PROVE  Shifted(v, s[i] \in byte) \in Word
    <3>1. (s[i] \in byte) \in BOOLEAN
      OBVIOUS
    <3> QED
      BY <3>1, ShiftedType
  <2> QED
    BY <2>1
<1>4. Eq(g)
  <2>1. PICK f \in [D -> Word] : IsFold(f, crc, step, n)
    <3> HIDE DEF step
    <3> QED
      BY <1>1, <1>3, FoldExists
  <2>2. ASSUME NEW c \in D
        PROVE  f[c] = IF c = {} THEN crc
                      ELSE Shifted(f[c \ {Max(c)}], s[Max(c)] \in byte)
    <3>1. CASE c = {}
      BY <3>1, <2>1 DEF IsFold
    <3>2. CASE c # {}
      <4>1. Max(c) \in 1 .. n /\ f[c \ {Max(c)}] \in Word
        BY <1>1, <2>1, <3>2, MaxIs
      <4>2. f[c] = step[Max(c)][f[c \ {Max(c)}]]
        BY <2>1, <3>2 DEF IsFold
      <4> HIDE DEF D
      <4> QED
        BY <3>2, <4>1, <4>2
    <3> QED
      BY <3>1, <3>2
  <2>3. Eq(f)
    <3> HIDE DEF D
    <3> QED
      BY <2>2
  <2> HIDE DEF Eq
  <2> QED
    BY <2>3
<1> HIDE DEF g
<1>5. PICK r \in [0 .. n -> Word] : Chain(r, crc, step, n)
  <2> HIDE DEF step
  <2> QED
    BY <1>1, <1>3, ChainExists
<1>6. IsFoldOn(g, crc, step, n, Word)
  <2>1. ASSUME NEW c \in D, c # {}, g[c \ {Max(c)}] \in Word
        PROVE  g[c] = step[Max(c)][g[c \ {Max(c)}]]
    <3>1. Max(c) \in 1 .. n
      BY <1>1, <2>1, MaxIs
    <3>2. g[c] = Shifted(g[c \ {Max(c)}], s[Max(c)] \in byte)
      BY <1>4, <2>1
    <3> QED
      BY <2>1, <3>1, <3>2
  <2>2. {} \in D
    OBVIOUS
  <2>3. g[{}] = crc
    BY <1>4, <2>2
  <2> HIDE DEF step
  <2> QED
    BY <2>1, <2>3 DEF IsFoldOn
<1>7. g[1 .. n] = r[n]
  <2> HIDE DEF step
  <2> QED
    BY <1>1, <1>5, <1>6, FoldComputes
<1>8. \A i \in 1 .. n : r[i] = Shifted(r[i - 1], i - 1 \in byte)
  <2>1. ASSUME NEW i \in 1 .. n
        PROVE  r[i] = Shifted(r[i - 1], i - 1 \in byte)
    <3>1. i - 1 \in 0 .. n /\ s[i] = i - 1
      BY <1>1
    <3>2. r[i - 1] \in Word
      BY <3>1
    <3>3. r[i] = step[i][r[i - 1]]
      BY <1>5 DEF Chain
    <3> QED
      BY <3>1, <3>2, <3>3
  <2> QED
    BY <2>1
<1>9. Bits(r, byte, crc)
  BY <1>5, <1>8 DEF Bits, Chain, n
<1> QED
  BY <1>2, <1>7, <1>9 DEF n

\* A byte more of data gives a CRC of 16 bits.
LEMMA ByteType ==
    ASSUME NEW byte, NEW crc \in Word
    PROVE  auxiliaryCalculationCRC(byte, crc) \in Word
<1>1. PICK r : Bits(r, byte, crc) /\ auxiliaryCalculationCRC(byte, crc) = r[8]
  BY ByteIsBits
<1>2. 8 \in 0 .. 8
  OBVIOUS
<1> QED
  BY <1>1, <1>2 DEF Bits

\* r are the CRCs behind each of the bytes.
Crcs(r, bytes) ==
    /\ r \in [0 .. Len(bytes) -> Word] /\ r[0] = {}
    /\ \A i \in 1 .. Len(bytes) :
          r[i] = auxiliaryCalculationCRC(bytes[i], r[i - 1])

\* The CRC of a sequence of bytes is the last of them.
LEMMA CrcIs ==
    ASSUME NEW bytes \in Seq(Byte)
    PROVE  \E r : Crcs(r, bytes) /\ CrcOf(bytes) = r[Len(bytes)]
<1> DEFINE n == Len(bytes)
           D == SUBSET (1 .. n)
           step == [i \in 1 .. n |->
                      [v \in Word |-> auxiliaryCalculationCRC(bytes[i], v)]]
           Eq(g) == g = [c \in D |->
                           IF c = {} THEN {}
                           ELSE auxiliaryCalculationCRC(bytes[Max(c)],
                                                        g[c \ {Max(c)}])]
           g == CHOOSE f : Eq(f)
<1>1. n \in Nat /\ DOMAIN bytes = 1 .. n
  OBVIOUS
<1>2. CrcOf(bytes) = g[1 .. n]
  BY <1>1 DEF CrcOf, FoldLeft, MapThenFoldSet
<1> HIDE DEF n
<1>3. step \in [1 .. n -> [Word -> Word]]
  <2>1. ASSUME NEW i \in 1 .. n, NEW v \in Word
        PROVE  auxiliaryCalculationCRC(bytes[i], v) \in Word
    BY ByteType
  <2> QED
    BY <2>1
<1>4. {} \in Word
  BY DEF Word
<1>5. Eq(g)
  <2>1. PICK f \in [D -> Word] : IsFold(f, {}, step, n)
    <3> HIDE DEF step
    <3> QED
      BY <1>1, <1>3, <1>4, FoldExists
  <2>2. ASSUME NEW c \in D
        PROVE  f[c] = IF c = {} THEN {}
                      ELSE auxiliaryCalculationCRC(bytes[Max(c)],
                                                   f[c \ {Max(c)}])
    <3>1. CASE c = {}
      BY <3>1, <2>1 DEF IsFold
    <3>2. CASE c # {}
      <4>1. Max(c) \in 1 .. n /\ f[c \ {Max(c)}] \in Word
        BY <1>1, <2>1, <3>2, MaxIs
      <4>2. f[c] = step[Max(c)][f[c \ {Max(c)}]]
        BY <2>1, <3>2 DEF IsFold
      <4> HIDE DEF D
      <4> QED
        BY <3>2, <4>1, <4>2
    <3> QED
      BY <3>1, <3>2
  <2>3. Eq(f)
    <3> HIDE DEF D
    <3> QED
      BY <2>2
  <2> HIDE DEF Eq
  <2> QED
    BY <2>3
<1> HIDE DEF g
<1>6. PICK r \in [0 .. n -> Word] : Chain(r, {}, step, n)
  <2> HIDE DEF step
  <2> QED
    BY <1>1, <1>3, <1>4, ChainExists
<1>7. IsFoldOn(g, {}, step, n, Word)
  <2>1. ASSUME NEW c \in D, c # {}, g[c \ {Max(c)}] \in Word
        PROVE  g[c] = step[Max(c)][g[c \ {Max(c)}]]
    <3>1. Max(c) \in 1 .. n
      BY <1>1, <2>1, MaxIs
    <3>2. g[c] = auxiliaryCalculationCRC(bytes[Max(c)], g[c \ {Max(c)}])
      BY <1>5, <2>1
    <3> QED
      BY <2>1, <3>1, <3>2
  <2>2. {} \in D
    OBVIOUS
  <2>3. g[{}] = {}
    BY <1>5, <2>2
  <2> HIDE DEF step
  <2> QED
    BY <2>1, <2>3 DEF IsFoldOn
<1>8. g[1 .. n] = r[n]
  <2> HIDE DEF step
  <2> QED
    BY <1>1, <1>6, <1>7, FoldComputes
<1>9. ASSUME NEW i \in 1 .. n
      PROVE  r[i] = auxiliaryCalculationCRC(bytes[i], r[i - 1])
  <2>1. r[i - 1] \in Word
    BY <1>1
  <2>2. r[i] = step[i][r[i - 1]]
    BY <1>6 DEF Chain
  <2> QED
    BY <2>1, <2>2
<1>10. Crcs(r, bytes)
  BY <1>6, <1>9 DEF Crcs, Chain, n
<1> QED
  BY <1>2, <1>8, <1>10 DEF n

\* The 16 bits of two bytes.
Joined(high, low) == {k + 8 : k \in high} \cup low

\* The two bytes that close a PDU join to its CRC.
LEMMA HalvesJoin ==
    ASSUME NEW crc \in Word
    PROVE  LET high == {k - 8 : k \in {j \in crc : j > 7}}
               low  == {k \in crc : k < 8}
           IN  high \in Byte /\ low \in Byte /\ Joined(high, low) = crc
<1> DEFINE high == {k - 8 : k \in {j \in crc : j > 7}}
           low  == {k \in crc : k < 8}
<1>a. \A k \in crc : k \in 0 .. 15
  BY DEF Word
<1>1. high \in Byte /\ low \in Byte
  <2>1. \A k \in {j \in crc : j > 7} : k - 8 \in 0 .. 7
    BY <1>a
  <2>2. \A k \in low : k \in 0 .. 7
    BY <1>a
  <2> QED
    BY <2>1, <2>2 DEF Byte
<1>b. ASSUME NEW k \in 0 .. 7
      PROVE  /\ k \in low <=> k \in crc
             /\ k \in high <=> k + 8 \in crc
  <2>1. k \in low <=> k \in crc
    BY <1>a
  <2>2. ASSUME k \in high
        PROVE  k + 8 \in crc
    <3>1. PICK j \in crc : j > 7 /\ k = j - 8
      BY <2>2
    <3>2. k + 8 = j
      BY <1>a, <3>1
    <3> QED
      BY <3>1, <3>2
  <2>3. ASSUME k + 8 \in crc
        PROVE  k \in high
    <3>1. k + 8 > 7 /\ k + 8 - 8 = k
      OBVIOUS
    <3>2. k + 8 \in {j \in crc : j > 7}
      BY <2>3, <3>1
    <3> QED
      BY <3>1, <3>2
  <2> QED
    BY <2>1, <2>2, <2>3
<1> HIDE DEF high, low
<1>2. ASSUME NEW k \in 0 .. 15
      PROVE  k \in Joined(high, low) <=> k \in crc
  <2>1. CASE k \in 0 .. 7
    <3>1. k \in Joined(high, low) <=> k \in low
      BY <1>1, <2>1 DEF Joined, Byte
    <3> QED
      BY <1>b, <2>1, <3>1
  <2>2. CASE k \notin 0 .. 7
    <3> DEFINE l == k - 8
    <3>1. l \in 0 .. 7 /\ l + 8 = k
      BY <2>2
    <3> HIDE DEF l
    <3>2. k \in Joined(high, low) <=> l \in high
      BY <1>1, <2>2, <3>1 DEF Joined, Byte
    <3> QED
      BY <1>b, <3>1, <3>2
  <2> QED
    BY <2>1, <2>2
<1>3. Joined(high, low) \subseteq 0 .. 15
  <2>1. \A k \in high : k + 8 \in 0 .. 15
    BY <1>1 DEF Byte
  <2>2. \A k \in low : k \in 0 .. 15
    BY <1>1 DEF Byte
  <2> QED
    BY <2>1, <2>2 DEF Joined
<1>4. Joined(high, low) = crc
  <2> HIDE DEF high, low
  <2> QED
    BY <1>2, <1>3 DEF Word
<1> QED
  BY <1>1, <1>4 DEF high, low

(***************************************************************************)
(* How the difference of two CRCs goes on from bit to bit.                  *)
(***************************************************************************)
\* A step of the CRC without data.
Turn(crc) == Shifted(crc, FALSE)

\* What is in one of two words only.
LEMMA XorIs ==
    ASSUME NEW a \in Word, NEW b \in Word
    PROVE  Xor(a, b) \in Word /\ (Xor(a, b) = {} <=> a = b)
<1>1. Xor(a, b) \in Word
  BY DEF Xor, Word
<1>2. Xor(a, b) = {} <=> a = b
  BY DEF Xor
<1> QED
  BY <1>1, <1>2

\* An element of it.
LEMMA InXor ==
    ASSUME NEW a, NEW b, NEW k
    PROVE  k \in Xor(a, b) <=> (k \in a) # (k \in b)
BY DEF Xor

\* The word behind a step.
LEMMA TurnIs ==
    ASSUME NEW crc \in Word
    PROVE  /\ Turn(crc) \in Word
           /\ 15 \in Turn(crc) <=> 0 \in crc
           /\ \A k \in 0 .. 14 :
                 k \in Turn(crc) <=> IF 0 \in crc
                                   THEN k + 1 \in crc <=> k \notin Polynomial
                                   ELSE k + 1 \in crc
<1>0. PICK x \in BOOLEAN : x = FALSE
  OBVIOUS
<1>1. x # (0 \in crc) <=> 0 \in crc
  BY <1>0
<1>2. Turn(crc) = Shifted(crc, x)
  BY <1>0 DEF Turn
<1> QED
  BY <1>1, <1>2, ShiftedIs, ShiftedType

\* Shifting is linear: the difference of two CRCs goes on by itself.
LEMMA ShiftedLinear ==
    ASSUME NEW c \in Word, NEW d \in Word, NEW x \in BOOLEAN, NEW y \in BOOLEAN,
           NEW z \in BOOLEAN, z <=> ~(x <=> y)
    PROVE  Xor(Shifted(c, x), Shifted(d, y)) = Shifted(Xor(c, d), z)
<1> DEFINE e == Xor(c, d)
           f == Xor(Shifted(c, x), Shifted(d, y))
           g == Shifted(e, z)
<1>1. Shifted(c, x) \in Word /\ Shifted(d, y) \in Word
  BY ShiftedType
<1>2. e \in Word /\ f \in Word
  BY <1>1, XorIs
<1>3. /\ \A k : k \in e <=> (k \in c) # (k \in d)
      /\ \A k : k \in f <=> (k \in Shifted(c, x)) # (k \in Shifted(d, y))
  BY InXor
<1> HIDE DEF e, f
<1>4. g \in Word
  BY <1>2, ShiftedType
<1>5. ASSUME NEW k \in 0 .. 15
      PROVE  k \in f <=> k \in g
  <2>1. CASE k = 15
    <3>1. /\ 15 \in g <=> z # (0 \in e)
          /\ 15 \in Shifted(c, x) <=> x # (0 \in c)
          /\ 15 \in Shifted(d, y) <=> y # (0 \in d)
      BY <1>2, ShiftedIs
    <3>2. /\ 15 \in f <=> (15 \in Shifted(c, x)) # (15 \in Shifted(d, y))
          /\ 0 \in e <=> (0 \in c) # (0 \in d)
      BY <1>3
    <3> HIDE DEF g
    <3> QED
      BY <2>1, <3>1, <3>2
  <2>2. CASE k # 15
    <3> DEFINE l == k + 1
    <3>1. k \in 0 .. 14
      BY <2>2
    <3>2. k \in g <=> IF z # (0 \in e) THEN l \in e <=> k \notin Polynomial
                      ELSE l \in e
      BY <1>2, <3>1, ShiftedIs
    <3>3. /\ k \in Shifted(c, x) <=>
                IF x # (0 \in c) THEN l \in c <=> k \notin Polynomial
                ELSE l \in c
          /\ k \in Shifted(d, y) <=>
                IF y # (0 \in d) THEN l \in d <=> k \notin Polynomial
                ELSE l \in d
      BY <3>1, ShiftedIs
    <3> HIDE DEF l, g
    <3>4. /\ k \in f <=> (k \in Shifted(c, x)) # (k \in Shifted(d, y))
          /\ l \in e <=> (l \in c) # (l \in d)
          /\ 0 \in e <=> (0 \in c) # (0 \in d)
      BY <1>3
    <3> QED
      BY <3>2, <3>3, <3>4
  <2> QED
    BY <2>1, <2>2
<1>6. f = g
  <2> HIDE DEF g
  <2> QED
    BY <1>2, <1>4, <1>5 DEF Word
<1> QED
  BY <1>6 DEF e, f

\* A bit of a sequence of bytes, the lowest bit of a byte first.
BitAt(bytes, i) == i % 8 \in bytes[i \div 8 + 1]

\* The byte of a bit.
LEMMA BitOfByte ==
    ASSUME NEW a \in Nat, NEW b \in 0 .. 7
    PROVE  (8 * a + b) \div 8 = a
OBVIOUS

\* r are the CRCs behind each of n bits.
BitCrcs(r, bytes, n) ==
    /\ r \in [0 .. n -> Word] /\ r[0] = {}
    /\ \A i \in 1 .. n : r[i] = Shifted(r[i - 1], BitAt(bytes, i - 1))

\* The CRC of a sequence of bytes is the one behind its last bit.
LEMMA CrcIsBitCrc ==
    ASSUME NEW bytes \in Seq(Byte)
    PROVE  \E r : /\ BitCrcs(r, bytes, 8 * Len(bytes))
                  /\ CrcOf(bytes) = r[8 * Len(bytes)]
<1> DEFINE n == Len(bytes)
           m == 8 * n
           step == [i \in 1 .. m |->
                      [v \in Word |-> Shifted(v, BitAt(bytes, i - 1))]]
<1>1. n \in Nat /\ m \in Nat
  OBVIOUS
<1> HIDE DEF m
<1>2. {} \in Word
  BY DEF Word
<1>3. step \in [1 .. m -> [Word -> Word]]
  <2>1. ASSUME NEW i \in 1 .. m, NEW v \in Word
        PROVE  Shifted(v, BitAt(bytes, i - 1)) \in Word
    <3>1. BitAt(bytes, i - 1) \in BOOLEAN
      BY DEF BitAt
    <3> QED
      BY <3>1, ShiftedType
  <2> QED
    BY <2>1
<1>4. PICK r \in [0 .. m -> Word] : Chain(r, {}, step, m)
  <2> HIDE DEF step
  <2> QED
    BY <1>1, <1>2, <1>3, ChainExists
<1>5. ASSUME NEW i \in 1 .. m
      PROVE  r[i] = Shifted(r[i - 1], BitAt(bytes, i - 1))
  <2>1. r[i - 1] \in Word
    BY <1>1
  <2>2. r[i] = step[i][r[i - 1]]
    BY <1>4 DEF Chain
  <2> QED
    BY <2>1, <2>2
<1>6. BitCrcs(r, bytes, m)
  BY <1>4, <1>5 DEF BitCrcs, Chain
<1>7. PICK t : Crcs(t, bytes) /\ CrcOf(bytes) = t[n]
  BY CrcIs
<1> HIDE DEF n
<1> DEFINE S == {k \in 0 .. n : r[8 * k] = t[k]}
<1>8. 0 \in S
  <2>1. 8 * 0 = 0 /\ 0 \in 0 .. n
    BY <1>1
  <2>2. r[0] = {} /\ t[0] = {}
    BY <1>6, <1>7 DEF BitCrcs, Crcs
  <2> QED
    BY <2>1, <2>2
<1>9. ASSUME NEW k \in 1 .. n, k - 1 \in S
      PROVE  k \in S
  <2> DEFINE at == 8 * (k - 1)
  <2>1. /\ k - 1 \in 0 .. n /\ at \in Nat /\ at + 8 <= m /\ at + 8 = 8 * k
        /\ k \in 0 .. n
    BY <1>1 DEF m
  <2>2. t[k - 1] \in Word /\ t[k] = auxiliaryCalculationCRC(bytes[k], t[k - 1])
    BY <1>7, <2>1 DEF Crcs, n
  <2>3. PICK b : /\ Bits(b, bytes[k], t[k - 1])
                 /\ auxiliaryCalculationCRC(bytes[k], t[k - 1]) = b[8]
    BY <2>2, ByteIsBits
  <2>4. r[at] = b[0]
    BY <1>9, <2>3 DEF Bits
  <2>5. ASSUME NEW i \in 1 .. 8
        PROVE  /\ at + i \in 1 .. m /\ at + i - 1 = at + (i - 1)
               /\ (at + (i - 1)) % 8 = i - 1
               /\ (at + (i - 1)) \div 8 + 1 = k
    <3>1. at + i \in 1 .. m /\ at + i - 1 = at + (i - 1)
      BY <1>1, <2>1
    <3> DEFINE a == k - 1
               e == i - 1
    <3>2. a \in Nat /\ e \in 0 .. 7 /\ k = a + 1
      BY <1>1
    <3> HIDE DEF a, e
    <3>3. (8 * a + e) % 8 = e
      BY <3>2
    <3>5. (8 * a + e) \div 8 = a
      BY <3>2, BitOfByte
    <3>4. at + (i - 1) = 8 * a + e
      BY DEF a, e
    <3> QED
      BY <3>1, <3>2, <3>3, <3>4, <3>5 DEF e
  <2> HIDE DEF at
  <2> DEFINE U == {i \in 0 .. 8 : r[at + i] = b[i]}
  <2>6. 0 \in U
    BY <2>1, <2>4
  <2>7. ASSUME NEW i \in 1 .. 8, i - 1 \in U
        PROVE  i \in U
    <3>1. r[at + (i - 1)] = b[i - 1]
      BY <2>7
    <3>2. b[i] = Shifted(b[i - 1], i - 1 \in bytes[k])
      BY <2>3 DEF Bits
    <3>3. r[at + i] = Shifted(r[at + (i - 1)], BitAt(bytes, at + (i - 1)))
      <4> DEFINE j == at + i
      <4>1. r[j] = Shifted(r[j - 1], BitAt(bytes, j - 1))
        BY <1>5, <2>5
      <4>2. j - 1 = at + (i - 1)
        BY <2>1
      <4> HIDE DEF j
      <4>3. r[j] = Shifted(r[at + (i - 1)], BitAt(bytes, at + (i - 1)))
        BY <4>1, <4>2, Zenon
      <4> QED
        BY <4>3, Zenon DEF j
    <3>4. BitAt(bytes, at + (i - 1)) <=> i - 1 \in bytes[k]
      BY <2>5, Zenon DEF BitAt
    <3>5. BitAt(bytes, at + (i - 1)) = (i - 1 \in bytes[k])
      BY <3>4 DEF BitAt
    <3> QED
      BY <3>1, <3>2, <3>3, <3>5
  <2>8. 8 \in U
    <3> HIDE DEF U
    <3>1. 0 .. 8 \subseteq U
      BY <2>6, <2>7, InductionUpTo
    <3> QED
      BY <3>1
  <2> QED
    BY <2>1, <2>2, <2>3, <2>8 DEF at
<1>10. n \in S
  <2> HIDE DEF S
  <2>1. 0 .. n \subseteq S
    BY <1>1, <1>8, <1>9, InductionUpTo
  <2> QED
    BY <1>1, <2>1
<1> QED
  BY <1>6, <1>7, <1>10 DEF n, m

\* d are the differences of the CRCs of two sequences behind each of n bits:
\* the CRCs of what was changed.
Differences(d, s, t, n) ==
    /\ d \in [0 .. n -> Word] /\ d[0] = {}
    /\ \A i \in 1 .. n :
          d[i] = Shifted(d[i - 1], BitAt(s, i - 1) # BitAt(t, i - 1))

\* The difference of the CRCs of two sequences is the one behind the last bit.
LEMMA CrcDifference ==
    ASSUME NEW s \in Seq(Byte), NEW t \in Seq(Byte), Len(s) = Len(t)
    PROVE  \E d : /\ Differences(d, s, t, 8 * Len(s))
                  /\ Xor(CrcOf(s), CrcOf(t)) = d[8 * Len(s)]
<1> DEFINE m == 8 * Len(s)
<1>1. m \in Nat /\ m = 8 * Len(t)
  OBVIOUS
<1>2. PICK u : BitCrcs(u, s, m) /\ CrcOf(s) = u[m]
  BY CrcIsBitCrc
<1>3. PICK v : BitCrcs(v, t, m) /\ CrcOf(t) = v[m]
  BY <1>1, CrcIsBitCrc
<1> HIDE DEF m
<1> DEFINE d == [i \in 0 .. m |-> Xor(u[i], v[i])]
<1>4. \A i \in 0 .. m : u[i] \in Word /\ v[i] \in Word
  BY <1>2, <1>3 DEF BitCrcs
<1>5. d \in [0 .. m -> Word]
  BY <1>4, XorIs
<1>6. d[0] = {}
  BY <1>1, <1>2, <1>3 DEF BitCrcs, Xor
<1>7. ASSUME NEW i \in 1 .. m
      PROVE  d[i] = Shifted(d[i - 1], BitAt(s, i - 1) # BitAt(t, i - 1))
  <2>1. i \in 0 .. m /\ i - 1 \in 0 .. m
    BY <1>1
  <2> DEFINE x == BitAt(s, i - 1)
             y == BitAt(t, i - 1)
             z == x # y
  <2>2. u[i] = Shifted(u[i - 1], x) /\ v[i] = Shifted(v[i - 1], y)
    BY <1>2, <1>3 DEF BitCrcs
  <2>3. x \in BOOLEAN /\ y \in BOOLEAN /\ z \in BOOLEAN
    BY DEF BitAt
  <2>4. d[i] = Xor(u[i], v[i]) /\ d[i - 1] = Xor(u[i - 1], v[i - 1])
    BY <2>1
  <2>5. z <=> ~(x <=> y)
    <3> HIDE DEF x, y
    <3> QED
      BY <2>3
  <2>6. u[i - 1] \in Word /\ v[i - 1] \in Word
    BY <1>4, <2>1
  <2> HIDE DEF d, x, y, z
  <2>7. Xor(Shifted(u[i - 1], x), Shifted(v[i - 1], y))
           = Shifted(Xor(u[i - 1], v[i - 1]), z)
    <3> DEFINE a == u[i - 1]
               b == v[i - 1]
    <3>1. a \in Word /\ b \in Word
      BY <2>6
    <3> HIDE DEF a, b
    <3>2. Xor(Shifted(a, x), Shifted(b, y)) = Shifted(Xor(a, b), z)
      BY <2>3, <2>5, <3>1, ShiftedLinear
    <3> QED
      BY <3>2 DEF a, b
  <2>8. d[i] = Shifted(d[i - 1], z)
    BY <2>2, <2>4, <2>7
  <2> QED
    BY <2>8, Zenon DEF x, y, z
<1>8. Xor(CrcOf(s), CrcOf(t)) = d[m]
  BY <1>1, <1>2, <1>3
<1>9. Differences(d, s, t, m)
  <2> HIDE DEF d
  <2> QED
    BY <1>5, <1>6, <1>7 DEF Differences
<1> HIDE DEF d
<1> QED
  BY <1>8, <1>9 DEF m

(***************************************************************************)
(* The powers of the step: a CRC with one bit, turned again and again. The  *)
(* polynomial is x + 1 times one of degree 15 that is primitive, so that    *)
(* the first to come back is the one behind 32767 steps.                    *)
(***************************************************************************)
\* u are the words that come from the highest bit.
Turns(u, m) ==
    /\ u \in [0 .. m -> Word] /\ u[0] = {15}
    /\ \A i \in 1 .. m : u[i] = Turn(u[i - 1])

a ## b == a # b

\* The bits of a word d behind those of c: a step.
TurnBits(c, d) ==
    LET x(k) == k \in c
        y(k) == k \in d
    IN
        /\ y(0) <=> x(1) ## x(0)
        /\ y(1) <=> x(2)
        /\ y(2) <=> x(3)
        /\ y(3) <=> x(4) ## x(0)
        /\ y(4) <=> x(5) ## x(0)
        /\ y(5) <=> x(6)
        /\ y(6) <=> x(7)
        /\ y(7) <=> x(8) ## x(0)
        /\ y(8) <=> x(9)
        /\ y(9) <=> x(10) ## x(0)
        /\ y(10) <=> x(11)
        /\ y(11) <=> x(12)
        /\ y(12) <=> x(13) ## x(0)
        /\ y(13) <=> x(14)
        /\ y(14) <=> x(15)
        /\ y(15) <=> x(0)

\* The bits of the square of a polynomial with two elements to add: what is
\* linear in the bits.
IsSquare(c, d) ==
    LET x(k) == k \in c
        y(k) == k \in d
    IN
        /\ y(0) <=> x(0) ## x(1) ## x(2) ## x(3) ## x(6) ## x(7)
        /\ y(1) <=> x(0) ## x(1) ## x(2) ## x(6) ## x(8)
        /\ y(2) <=> x(0) ## x(1) ## x(2) ## x(4)
        /\ y(3) <=> x(0) ## x(1) ## x(2) ## x(3) ## x(7) ## x(9)
        /\ y(4) <=> x(0) ## x(5) ## x(6) ## x(7)
        /\ y(5) <=> x(0) ## x(3) ## x(4) ## x(6) ## x(10)
        /\ y(6) <=> x(1) ## x(3) ## x(6)
        /\ y(7) <=> x(0) ## x(1) ## x(4) ## x(5) ## x(7) ## x(11)
        /\ y(8) <=> x(1) ## x(3) ## x(4) ## x(6)
        /\ y(9) <=>
              x(0) ## x(1) ## x(2) ## x(3) ## x(5) ## x(6) ## x(7) ## x(12)
        /\ y(10) <=> x(0) ## x(1) ## x(3) ## x(4) ## x(5) ## x(6)
        /\ y(11) <=> x(1) ## x(2) ## x(4) ## x(6) ## x(13)
        /\ y(12) <=> x(0) ## x(1) ## x(2) ## x(4) ## x(5) ## x(6) ## x(7)
        /\ y(13) <=> x(1) ## x(5) ## x(6) ## x(14)
        /\ y(14) <=> x(0) ## x(1) ## x(2) ## x(5) ## x(6)
        /\ y(15) <=> x(2) ## x(6) ## x(7) ## x(15)

\* There are such words.
LEMMA TurnsExist ==
    ASSUME NEW m \in Nat
    PROVE  \E u : Turns(u, m)
<1> DEFINE step == [i \in 1 .. m |-> [v \in Word |-> Turn(v)]]
<1>1. step \in [1 .. m -> [Word -> Word]]
  BY TurnIs
<1>2. {15} \in Word
  BY DEF Word
<1>3. PICK u \in [0 .. m -> Word] : Chain(u, {15}, step, m)
  <2> HIDE DEF step
  <2> QED
    BY <1>1, <1>2, ChainExists
<1>4. ASSUME NEW i \in 1 .. m
      PROVE  u[i] = Turn(u[i - 1])
  <2>1. u[i - 1] \in Word
    OBVIOUS
  <2>2. u[i] = step[i][u[i - 1]]
    BY <1>3 DEF Chain
  <2> QED
    BY <2>1, <2>2
<1>5. Turns(u, m)
  BY <1>3, <1>4 DEF Turns, Chain
<1> QED
  BY <1>5

\* A step, bit by bit.
LEMMA TurnIsBits ==
    ASSUME NEW c \in Word
    PROVE  TurnBits(c, Turn(c))
<1>1. \A k \in 0 .. 14 :
         k \in Turn(c) <=> IF 0 \in c THEN k + 1 \in c <=> k \notin Polynomial
                         ELSE k + 1 \in c
  BY TurnIs
<1>2. 15 \in Turn(c) <=> 0 \in c
  BY TurnIs
<1> QED
  BY <1>1, <1>2 DEF TurnBits, Polynomial, ##

\* Squaring goes on with two steps for one.
LEMMA SquareTurns ==
    ASSUME NEW c \in Word, NEW d \in Word, IsSquare(c, d)
    PROVE  IsSquare(Turn(c), Turn(Turn(d)))
<1> DEFINE e == Turn(c)
           f == Turn(d)
           g == Turn(f)
<1>1. TurnBits(c, e) /\ TurnBits(d, f) /\ TurnBits(f, g)
  BY TurnIsBits, TurnIs
<1> HIDE DEF e, f, g
<1>2. IsSquare(e, g)
  BY <1>1 DEF TurnBits, IsSquare, ##
<1> QED
  BY <1>2 DEF e, f, g

\* The first steps move the bit down.
LEMMA FirstTurns ==
    ASSUME NEW m \in Nat, m >= 15, NEW u, Turns(u, m), NEW i \in 0 .. 15
    PROVE  u[i] = {15 - i}
<1> DEFINE S == {j \in 0 .. 15 : u[j] = {15 - j}}
<1>1. 0 \in S
  BY DEF Turns
<1>2. ASSUME NEW j \in 1 .. 15, j - 1 \in S
      PROVE  j \in S
  <2> DEFINE c == u[j - 1]
  <2>1. j \in 1 .. m /\ j - 1 \in 0 .. m /\ c = {16 - j}
    BY <1>2
  <2>2. c \in Word /\ u[j] = Turn(c)
    BY <2>1 DEF Turns
  <2>3. 0 \notin c /\ \A k \in 0 .. 14 : k + 1 \in c <=> k = 15 - j
    BY <2>1
  <2> HIDE DEF c
  <2>4. /\ u[j] \in Word /\ 15 \notin u[j]
        /\ \A k \in 0 .. 14 : k \in u[j] <=> k = 15 - j
    BY <2>2, <2>3, TurnIs
  <2>5. u[j] = {15 - j}
    BY <2>4 DEF Word
  <2> QED
    BY <2>5
<1>3. i \in S
  <2> HIDE DEF S
  <2>1. 0 .. 15 \subseteq S
    BY <1>1, <1>2, InductionUpTo
  <2> QED
    BY <2>1
<1> QED
  BY <1>3

\* Twice as many steps give the square.
LEMMA TwiceIsSquare ==
    ASSUME NEW m \in Nat, NEW u, Turns(u, m), NEW n \in Nat, 2 * n <= m
    PROVE  IsSquare(u[n], u[2 * n])
<1> DEFINE S == {i \in 0 .. n : IsSquare(u[i], u[2 * i])}
<1>1. 0 \in S
  <2>1. u[0] = {15} /\ 2 * 0 = 0 /\ 0 \in 0 .. n
    BY DEF Turns
  <2>2. IsSquare({15}, {15})
    BY DEF IsSquare, ##
  <2> QED
    BY <2>1, <2>2
<1>2. ASSUME NEW i \in 1 .. n, i - 1 \in S
      PROVE  i \in S
  <2> DEFINE j == i - 1
             k == 2 * j
  <2>1. /\ j \in 0 .. m /\ k \in 0 .. m /\ i \in 1 .. m /\ k + 1 \in 1 .. m
        /\ k + 2 \in 1 .. m /\ k + 1 - 1 = k
        /\ k + 2 - 1 = k + 1 /\ k + 2 = 2 * i
    OBVIOUS
  <2>2. u[i] = Turn(u[j]) /\ u[j] \in Word
    BY <2>1 DEF Turns
  <2>3. IsSquare(u[j], u[k])
    BY <1>2
  <2> HIDE DEF j, k
  <2>4. u[k + 1] = Turn(u[k]) /\ u[k + 2] = Turn(u[k + 1]) /\ u[k] \in Word
    BY <2>1 DEF Turns
  <2>5. IsSquare(u[i], u[k + 2])
    BY <2>2, <2>3, <2>4, SquareTurns
  <2>6. IsSquare(u[i], u[2 * i])
    BY <2>1, <2>5
  <2> QED
    BY <2>6
<1>3. n \in S
  <2> HIDE DEF S
  <2>1. 0 .. n \subseteq S
    BY <1>1, <1>2, InductionUpTo
  <2> QED
    BY <2>1
<1> QED
  BY <1>3

Period == 32767

\* Bits tell the words: a square,
LEMMA SquareUnique ==
    ASSUME NEW b, NEW c \in Word, NEW d \in Word, IsSquare(b, c), IsSquare(b, d)
    PROVE  c = d
<1>1. \A k \in 0 .. 15 : k \in c <=> k \in d
  BY DEF IsSquare, ##
<1> QED
  BY <1>1 DEF Word

\* and a step.
LEMMA TurnUnique ==
    ASSUME NEW b, NEW c \in Word, NEW d \in Word, TurnBits(b, c), TurnBits(b, d)
    PROVE  c = d
<1>1. \A k \in 0 .. 15 : k \in c <=> k \in d
  BY DEF TurnBits, ##
<1> QED
  BY <1>1 DEF Word

\* The word behind k steps is b.
At(u, k, b) == u[k] = b

\* Twice as many steps, computed.
LEMMA Doubling ==
    ASSUME NEW m \in Nat, NEW u, Turns(u, m), NEW n \in Nat, NEW a, At(u, n, a),
           NEW k, k = 2 * n, k <= m, NEW b \in Word, IsSquare(a, b)
    PROVE  At(u, k, b)
<1>1. k \in 0 .. m
  OBVIOUS
<1>2. u[k] \in Word
  BY <1>1 DEF Turns
<1>3. IsSquare(u[n], u[k])
  <2>1. 2 * n <= m
    OBVIOUS
  <2>2. IsSquare(u[n], u[2 * n])
    BY <2>1, TwiceIsSquare
  <2> QED
    BY <2>2
<1>4. IsSquare(a, u[k])
  BY <1>3 DEF At
<1>5. u[k] = b
  BY <1>2, <1>4, SquareUnique
<1> QED
  BY <1>5 DEF At

\* One more than twice as many.
LEMMA DoublingAndOne ==
    ASSUME NEW m \in Nat, NEW u, Turns(u, m), NEW n \in Nat, NEW a, At(u, n, a),
           NEW k, k = 2 * n + 1, k <= m, NEW b \in Word, IsSquare(a, b),
           NEW c \in Word, TurnBits(b, c)
    PROVE  At(u, k, c)
<1> DEFINE l == 2 * n
<1>1. l <= m /\ k \in 1 .. m /\ k - 1 = l
  OBVIOUS
<1>2. At(u, l, b)
  BY <1>1, Doubling
<1> HIDE DEF l
<1>3. u[k] = Turn(b)
  BY <1>1, <1>2 DEF Turns, At
<1>4. Turn(b) \in Word /\ TurnBits(b, Turn(b))
  BY TurnIs, TurnIsBits
<1>5. Turn(b) = c
  BY <1>4, TurnUnique
<1> QED
  BY <1>3, <1>5 DEF At

\* Seven times 31 steps do not come back.
LEMMA At217 ==
    ASSUME NEW m \in Nat, m > Period, NEW u, Turns(u, m)
    PROVE  u[217] # {15}
<1>0. m >= 32768
  BY DEF Period
<1> DEFINE w13 == {2}
           w26 == {0, 1, 2, 3, 9, 11, 12, 14, 15}
           w27 == {1, 2, 3, 4, 7, 8, 9, 10, 11, 12, 13, 14, 15}
           w54 == {1, 2, 3, 4, 5, 8, 9, 10, 15}
           w108 == {0, 1, 2, 4, 5, 7, 8, 11, 14}
           w216 == {4, 6, 9, 11, 13}
           w217 == {3, 5, 8, 10, 12}
<1>1. At(u, 13, w13)
  BY <1>0, FirstTurns DEF At
<1>2. IsSquare(w13, w26)
  BY SMT DEF IsSquare, ##
<1>3. TurnBits(w26, w27)
  BY SMT DEF TurnBits, ##
<1>4. IsSquare(w27, w54)
  BY SMT DEF IsSquare, ##
<1>5. IsSquare(w54, w108)
  BY SMT DEF IsSquare, ##
<1>6. IsSquare(w108, w216)
  BY SMT DEF IsSquare, ##
<1>7. TurnBits(w216, w217)
  BY SMT DEF TurnBits, ##
<1>8. /\ w26 \in Word
      /\ w27 \in Word
      /\ w54 \in Word
      /\ w108 \in Word
      /\ w216 \in Word
      /\ w217 \in Word
  BY DEF Word
<1> HIDE DEF w13, w26, w27, w54, w108, w216, w217
<1>9. At(u, 27, w27)
  BY <1>0, <1>1, <1>2, <1>3, <1>8, DoublingAndOne
<1>10. At(u, 54, w54)
  BY <1>0, <1>9, <1>4, <1>8, Doubling
<1>11. At(u, 108, w108)
  BY <1>0, <1>10, <1>5, <1>8, Doubling
<1>12. At(u, 217, w217)
  BY <1>0, <1>11, <1>6, <1>7, <1>8, DoublingAndOne
<1> QED
  BY <1>12 DEF At, w217

\* Nor do 7 times 151.
LEMMA At1057 ==
    ASSUME NEW m \in Nat, m > Period, NEW u, Turns(u, m)
    PROVE  u[1057] # {15}
<1>0. m >= 32768
  BY DEF Period
<1> DEFINE w8 == {7}
           w16 == {0, 3, 4, 7, 9, 12, 15}
           w32 == {0, 1, 5, 6, 7, 10, 11, 12, 14}
           w33 == {3, 5, 6, 7, 10, 11, 12, 13, 15}
           w66 == {0, 1, 4, 5, 7, 9, 10, 12, 15}
           w132 == {0, 2, 4, 5, 6, 7, 9, 12, 14}
           w264 == {1, 2, 5, 6, 11, 13, 15}
           w528 == {0, 1, 5, 7, 10, 13, 15}
           w1056 == {0, 3, 4, 6, 8, 10, 14}
           w1057 == {0, 2, 4, 5, 12, 13, 15}
<1>1. At(u, 8, w8)
  BY <1>0, FirstTurns DEF At
<1>2. IsSquare(w8, w16)
  BY SMT DEF IsSquare, ##
<1>3. IsSquare(w16, w32)
  BY SMT DEF IsSquare, ##
<1>4. TurnBits(w32, w33)
  BY SMT DEF TurnBits, ##
<1>5. IsSquare(w33, w66)
  BY SMT DEF IsSquare, ##
<1>6. IsSquare(w66, w132)
  BY SMT DEF IsSquare, ##
<1>7. IsSquare(w132, w264)
  BY SMT DEF IsSquare, ##
<1>8. IsSquare(w264, w528)
  BY SMT DEF IsSquare, ##
<1>9. IsSquare(w528, w1056)
  BY SMT DEF IsSquare, ##
<1>10. TurnBits(w1056, w1057)
  BY SMT DEF TurnBits, ##
<1>11. /\ w16 \in Word
      /\ w32 \in Word
      /\ w33 \in Word
      /\ w66 \in Word
      /\ w132 \in Word
      /\ w264 \in Word
      /\ w528 \in Word
      /\ w1056 \in Word
      /\ w1057 \in Word
  BY DEF Word
<1> HIDE DEF w8, w16, w32, w33, w66, w132, w264, w528, w1056, w1057
<1>12. At(u, 16, w16)
  BY <1>0, <1>1, <1>2, <1>11, Doubling
<1>13. At(u, 33, w33)
  BY <1>0, <1>12, <1>3, <1>4, <1>11, DoublingAndOne
<1>14. At(u, 66, w66)
  BY <1>0, <1>13, <1>5, <1>11, Doubling
<1>15. At(u, 132, w132)
  BY <1>0, <1>14, <1>6, <1>11, Doubling
<1>16. At(u, 264, w264)
  BY <1>0, <1>15, <1>7, <1>11, Doubling
<1>17. At(u, 528, w528)
  BY <1>0, <1>16, <1>8, <1>11, Doubling
<1>18. At(u, 1057, w1057)
  BY <1>0, <1>17, <1>9, <1>10, <1>11, DoublingAndOne
<1> QED
  BY <1>18 DEF At, w1057

\* Nor do 31 times 151.
LEMMA At4681 ==
    ASSUME NEW m \in Nat, m > Period, NEW u, Turns(u, m)
    PROVE  u[4681] # {15}
<1>0. m >= 32768
  BY DEF Period
<1> DEFINE w9 == {6}
           w18 == {0, 1, 4, 5, 6, 8, 9, 10, 11, 12, 13, 14, 15}
           w36 == {0, 2, 3, 4, 7, 8, 9, 10, 12}
           w72 == {1, 2, 3, 6, 7, 9, 10}
           w73 == {0, 1, 2, 5, 6, 8, 9}
           w146 == {1, 2, 4, 7, 9, 11, 12, 13, 14}
           w292 == {0, 2, 4, 5, 6}
           w584 == {0, 1, 2, 4, 5, 6, 7, 11, 12}
           w585 == {1, 5, 6, 7, 9, 10, 11, 12, 15}
           w1170 == {0, 2, 3, 4, 9, 10, 13, 14, 15}
           w2340 == {0, 2, 4, 6, 9, 10, 11, 12, 13}
           w4680 == {0, 1, 2, 3, 6, 7, 10, 13, 14}
           w4681 == {1, 2, 3, 4, 5, 6, 7, 13, 15}
<1>1. At(u, 9, w9)
  BY <1>0, FirstTurns DEF At
<1>2. IsSquare(w9, w18)
  BY SMT DEF IsSquare, ##
<1>3. IsSquare(w18, w36)
  BY SMT DEF IsSquare, ##
<1>4. IsSquare(w36, w72)
  BY SMT DEF IsSquare, ##
<1>5. TurnBits(w72, w73)
  BY SMT DEF TurnBits, ##
<1>6. IsSquare(w73, w146)
  BY SMT DEF IsSquare, ##
<1>7. IsSquare(w146, w292)
  BY SMT DEF IsSquare, ##
<1>8. IsSquare(w292, w584)
  BY SMT DEF IsSquare, ##
<1>9. TurnBits(w584, w585)
  BY SMT DEF TurnBits, ##
<1>10. IsSquare(w585, w1170)
  BY SMT DEF IsSquare, ##
<1>11. IsSquare(w1170, w2340)
  BY SMT DEF IsSquare, ##
<1>12. IsSquare(w2340, w4680)
  BY SMT DEF IsSquare, ##
<1>13. TurnBits(w4680, w4681)
  BY SMT DEF TurnBits, ##
<1>14. /\ w18 \in Word
      /\ w36 \in Word
      /\ w72 \in Word
      /\ w73 \in Word
      /\ w146 \in Word
      /\ w292 \in Word
      /\ w584 \in Word
      /\ w585 \in Word
      /\ w1170 \in Word
      /\ w2340 \in Word
      /\ w4680 \in Word
      /\ w4681 \in Word
  BY DEF Word
<1> HIDE DEF w9, w18, w36, w72, w73, w146, w292, w584, w585,
         w1170, w2340, w4680, w4681
<1>15. At(u, 18, w18)
  BY <1>0, <1>1, <1>2, <1>14, Doubling
<1>16. At(u, 36, w36)
  BY <1>0, <1>15, <1>3, <1>14, Doubling
<1>17. At(u, 73, w73)
  BY <1>0, <1>16, <1>4, <1>5, <1>14, DoublingAndOne
<1>18. At(u, 146, w146)
  BY <1>0, <1>17, <1>6, <1>14, Doubling
<1>19. At(u, 292, w292)
  BY <1>0, <1>18, <1>7, <1>14, Doubling
<1>20. At(u, 585, w585)
  BY <1>0, <1>19, <1>8, <1>9, <1>14, DoublingAndOne
<1>21. At(u, 1170, w1170)
  BY <1>0, <1>20, <1>10, <1>14, Doubling
<1>22. At(u, 2340, w2340)
  BY <1>0, <1>21, <1>11, <1>14, Doubling
<1>23. At(u, 4681, w4681)
  BY <1>0, <1>22, <1>12, <1>13, <1>14, DoublingAndOne
<1> QED
  BY <1>23 DEF At, w4681

\* One step more than the period is the first step.
LEMMA At32768 ==
    ASSUME NEW m \in Nat, m > Period, NEW u, Turns(u, m)
    PROVE  u[32768] = {14}
<1>0. m >= 32768
  BY DEF Period
<1> DEFINE w8 == {7}
           w16 == {0, 3, 4, 7, 9, 12, 15}
           w32 == {0, 1, 5, 6, 7, 10, 11, 12, 14}
           w64 == {1, 3, 5, 7, 12}
           w128 == {0, 1, 2, 3, 5, 7, 9, 10, 11, 12, 15}
           w256 == {0, 1, 2, 4, 5, 7, 9, 12, 15}
           w512 == {1, 3, 4, 6, 7, 11, 15}
           w1024 == {3, 5, 6, 11, 15}
           w2048 == {1, 3, 9, 10, 11}
           w4096 == {1, 2, 3, 11, 12, 13, 14}
           w8192 == {0, 3, 5, 11, 15}
           w16384 == {1, 2, 6, 7, 8, 9, 10, 13, 15}
           w32768 == {14}
<1>1. At(u, 8, w8)
  BY <1>0, FirstTurns DEF At
<1>2. IsSquare(w8, w16)
  BY SMT DEF IsSquare, ##
<1>3. IsSquare(w16, w32)
  BY SMT DEF IsSquare, ##
<1>4. IsSquare(w32, w64)
  BY SMT DEF IsSquare, ##
<1>5. IsSquare(w64, w128)
  BY SMT DEF IsSquare, ##
<1>6. IsSquare(w128, w256)
  BY SMT DEF IsSquare, ##
<1>7. IsSquare(w256, w512)
  BY SMT DEF IsSquare, ##
<1>8. IsSquare(w512, w1024)
  BY SMT DEF IsSquare, ##
<1>9. IsSquare(w1024, w2048)
  BY SMT DEF IsSquare, ##
<1>10. IsSquare(w2048, w4096)
  BY SMT DEF IsSquare, ##
<1>11. IsSquare(w4096, w8192)
  BY SMT DEF IsSquare, ##
<1>12. IsSquare(w8192, w16384)
  BY SMT DEF IsSquare, ##
<1>13. IsSquare(w16384, w32768)
  BY SMT DEF IsSquare, ##
<1>14. /\ w16 \in Word
      /\ w32 \in Word
      /\ w64 \in Word
      /\ w128 \in Word
      /\ w256 \in Word
      /\ w512 \in Word
      /\ w1024 \in Word
      /\ w2048 \in Word
      /\ w4096 \in Word
      /\ w8192 \in Word
      /\ w16384 \in Word
      /\ w32768 \in Word
  BY DEF Word
<1> HIDE DEF w8, w16, w32, w64, w128, w256, w512, w1024, w2048,
         w4096, w8192, w16384, w32768
<1>15. At(u, 16, w16)
  BY <1>0, <1>1, <1>2, <1>14, Doubling
<1>16. At(u, 32, w32)
  BY <1>0, <1>15, <1>3, <1>14, Doubling
<1>17. At(u, 64, w64)
  BY <1>0, <1>16, <1>4, <1>14, Doubling
<1>18. At(u, 128, w128)
  BY <1>0, <1>17, <1>5, <1>14, Doubling
<1>19. At(u, 256, w256)
  BY <1>0, <1>18, <1>6, <1>14, Doubling
<1>20. At(u, 512, w512)
  BY <1>0, <1>19, <1>7, <1>14, Doubling
<1>21. At(u, 1024, w1024)
  BY <1>0, <1>20, <1>8, <1>14, Doubling
<1>22. At(u, 2048, w2048)
  BY <1>0, <1>21, <1>9, <1>14, Doubling
<1>23. At(u, 4096, w4096)
  BY <1>0, <1>22, <1>10, <1>14, Doubling
<1>24. At(u, 8192, w8192)
  BY <1>0, <1>23, <1>11, <1>14, Doubling
<1>25. At(u, 16384, w16384)
  BY <1>0, <1>24, <1>12, <1>14, Doubling
<1>26. At(u, 32768, w32768)
  BY <1>0, <1>25, <1>13, <1>14, Doubling
<1> QED
  BY <1>26 DEF At, w32768

Divides(d, n) == \E k \in Nat : k * d = n

\* A divisor of the period, other than itself, divides one of three numbers.
LEMMA Divisors ==
    ASSUME NEW d \in Nat, NEW q \in Nat, q * d = Period, d < Period
    PROVE  Divides(d, 217) \/ Divides(d, 1057) \/ Divides(d, 4681)
<1>1. q * d = 32767 /\ d * q = 32767 /\ q # 1 /\ d > 0 /\ q > 0
  BY DEF Period
<1>2. CASE q <= 181
  <2>1. q \in 1 .. 181
    BY <1>1, <1>2
  <2>2. q \in {7, 31, 151}
    <3>1. q \in {1, 7, 31, 151}
      BY <1>1, <2>1, SMTT(30)
    <3> QED
      BY <1>1, <3>1
  <2>3. 1 * d \in {217, 1057, 4681}
    BY <1>1, <2>2
  <2> QED
    BY <2>3 DEF Divides
<1>3. CASE d <= 181
  <2>1. d \in 1 .. 181
    BY <1>1, <1>3
  <2>2. d \in {1, 7, 31, 151}
    BY <1>1, <2>1, SMTT(30)
  <2>3. \/ d = 1 /\ 217 * d = 217
        \/ d = 7 /\ 31 * d = 217
        \/ d = 31 /\ 7 * d = 217
        \/ d = 151 /\ 7 * d = 1057
    BY <2>2
  <2> QED
    BY <2>3 DEF Divides
<1>4. CASE q > 181 /\ d > 181
  <2>1. q * d > 32767
    BY <1>4, SMTT(30)
  <2> QED
    BY <1>1, <2>1
<1> QED
  BY <1>2, <1>3, <1>4

\* A step keeps different words different.
LEMMA TurnInjective ==
    ASSUME NEW c \in Word, NEW d \in Word, Turn(c) = Turn(d)
    PROVE  c = d
BY ShiftedInjective DEF Turn

\* What is the same after i steps was the same i steps before.
LEMMA SameBefore ==
    ASSUME NEW m \in Nat, NEW u, Turns(u, m), NEW i \in Nat, NEW p \in Nat,
           i + p <= m, u[i] = u[i + p]
    PROVE  u[0] = u[p]
<1> DEFINE S == {k \in 0 .. i : u[i - k] = u[i - k + p]}
<1>1. 0 \in S
  OBVIOUS
<1>2. ASSUME NEW k \in 1 .. i, k - 1 \in S
      PROVE  k \in S
  <2> DEFINE j == i - k
  <2>1. /\ j \in Nat /\ j + 1 = i - (k - 1) /\ j + 1 \in 1 .. m
        /\ j + 1 - 1 = j /\ j + p + 1 \in 1 .. m /\ j + p + 1 - 1 = j + p
        /\ j \in 0 .. m /\ j + p \in 0 .. m
        /\ i - (k - 1) + p = j + p + 1
    OBVIOUS
  <2>2. u[j + 1] = u[j + p + 1]
    BY <1>2, <2>1
  <2> HIDE DEF j
  <2>3. /\ u[j + 1] = Turn(u[j]) /\ u[j + p + 1] = Turn(u[j + p])
        /\ u[j] \in Word /\ u[j + p] \in Word
    BY <2>1 DEF Turns
  <2>4. u[j] = u[j + p]
    BY <2>2, <2>3, TurnInjective
  <2> QED
    BY <2>4 DEF j
<1>3. i \in S
  <2> HIDE DEF S
  <2>1. 0 .. i \subseteq S
    BY <1>1, <1>2, InductionUpTo
  <2> QED
    BY <2>1
<1> QED
  BY <1>3

\* What comes back after d steps comes back after every multiple of d.
LEMMA SameAfter ==
    ASSUME NEW m \in Nat, NEW u, Turns(u, m), NEW d \in Nat, d <= m,
           u[d] = u[0], NEW q \in Nat, NEW k \in Nat, q * d + k <= m
    PROVE  u[q * d + k] = u[k]
<1> DEFINE A == {i \in Nat : d + i <= m => u[d + i] = u[i]}
<1>1. 0 \in A
  OBVIOUS
<1>2. ASSUME NEW i \in Nat, i \in A
      PROVE  i + 1 \in A
  <2>1. SUFFICES ASSUME d + (i + 1) <= m
                 PROVE  u[d + (i + 1)] = u[i + 1]
    OBVIOUS
  <2>2. /\ i + 1 \in 1 .. m /\ i + 1 - 1 = i /\ d + (i + 1) \in 1 .. m
        /\ d + (i + 1) - 1 = d + i /\ d + i <= m
    BY <2>1
  <2>3. u[d + i] = u[i]
    BY <1>2, <2>2
  <2>4. u[d + (i + 1)] = Turn(u[d + i]) /\ u[i + 1] = Turn(u[i])
    BY <2>2 DEF Turns
  <2> QED
    BY <2>3, <2>4
<1>3. \A i \in Nat : d + i <= m => u[d + i] = u[i]
  <2>1. Nat \subseteq A
    <3> HIDE DEF A
    <3> QED
      BY <1>1, <1>2, Induction
  <2> QED
    BY <2>1
<1> HIDE DEF A
<1> DEFINE S == {p \in Nat : p * d + k <= m => u[p * d + k] = u[k]}
<1>4. 0 \in S
  OBVIOUS
<1>5. ASSUME NEW p \in Nat, p \in S
      PROVE  p + 1 \in S
  <2>1. SUFFICES ASSUME (p + 1) * d + k <= m
                 PROVE  u[(p + 1) * d + k] = u[k]
    OBVIOUS
  <2> DEFINE i == p * d + k
  <2>2. i \in Nat /\ (p + 1) * d + k = d + i
    OBVIOUS
  <2>3. d + i <= m /\ i <= m
    BY <2>1, <2>2
  <2>4. u[i] = u[k]
    BY <1>5, <2>3
  <2> HIDE DEF i
  <2>5. u[d + i] = u[i]
    BY <1>3, <2>2, <2>3
  <2> QED
    BY <2>2, <2>4, <2>5
<1>6. q \in S
  <2> HIDE DEF S
  <2> QED
    BY <1>4, <1>5, Induction
<1> QED
  BY <1>6

\* What comes back after d steps comes back then.
LEMMA SameAtMultiples ==
    ASSUME NEW m \in Nat, NEW u, Turns(u, m), NEW d \in Nat, d <= m,
           u[d] = u[0], NEW n \in Nat, Divides(d, n), n <= m
    PROVE  u[n] = u[0]
<1>1. PICK q \in Nat : q * d = n
  BY DEF Divides
<1> DEFINE i == q * d
<1>2. i = n
  BY <1>1
<1>3. \A k \in Nat : i + k <= m => u[i + k] = u[k]
  BY SameAfter
<1> HIDE DEF i
<1> QED
  BY <1>2, <1>3

\* The words behind fewer steps than the period are different.
LEMMA TurnsDiffer ==
    ASSUME NEW m \in Nat, m > Period, NEW u, Turns(u, m),
           NEW i \in Nat, NEW p \in Nat, 0 < p, p < Period, i + p <= m
    PROVE  u[i] # u[i + p]
<1>1. SUFFICES ASSUME u[i] = u[i + p] PROVE FALSE
  OBVIOUS
<1>2. Period \in Nat /\ Period = 32767
  BY DEF Period
<1> DEFINE D == {e \in Nat : 0 < e /\ e < Period /\ u[e] = u[0]}
<1>3. p \in D
  <2>1. u[0] = u[p]
    BY <1>1, SameBefore
  <2> QED
    BY <2>1
<1>4. PICK d \in D : \A e \in D : ~(e < d)
  <2>1. PICK d \in D : \A e \in D : ~(<<e, d>> \in OpToRel(<, Nat))
    <3>1. D \subseteq Nat /\ D # {}
      BY <1>3
    <3> HIDE DEF D
    <3> QED
      BY <3>1, NatLessThanWellFounded, WFMin
  <2>2. ASSUME NEW e \in D
        PROVE  ~(e < d)
    <3>1. e \in Nat /\ d \in Nat
      OBVIOUS
    <3> HIDE DEF D
    <3> QED
      BY <2>1, <3>1 DEF OpToRel
  <2> HIDE DEF D
  <2> QED
    BY <2>2
<1>5. d \in Nat /\ 0 < d /\ d < Period /\ u[d] = u[0] /\ d <= m
  <2>1. d \in Nat /\ 0 < d /\ d < Period /\ u[d] = u[0]
    OBVIOUS
  <2> HIDE DEF D
  <2> QED
    BY <1>2, <2>1
<1>6. u[Period] = u[0]
  <2>1. u[Period + 1] = {14}
    BY <1>2, At32768
  <2>2. m >= 15 /\ 1 \in 0 .. 15 /\ 15 - 1 = 14 /\ 15 - 0 = 15 /\ 0 \in 0 .. 15
    BY <1>2
  <2>3. u[1] = {15 - 1}
    BY <2>2, FirstTurns
  <2>4. u[1] = u[1 + Period] /\ 1 + Period <= m
    BY <1>2, <2>1, <2>2, <2>3
  <2> QED
    BY <1>2, <2>4, SameBefore
<1> DEFINE q == Period \div d
           r == Period % d
<1>7. q \in Nat /\ r \in Nat /\ r < d /\ Period = q * d + r
  BY <1>2, <1>5
<1> HIDE DEF D, q, r
<1>8. r = 0
  <2>1. q * d + r <= m
    BY <1>2, <1>7
  <2>2. u[r] = u[0]
    BY <1>5, <1>6, <1>7, <2>1, SameAfter
  <2>3. SUFFICES ASSUME 0 < r PROVE FALSE
    BY <1>7
  <2>4. r \in D
    BY <1>5, <1>7, <2>2, <2>3 DEF D
  <2> QED
    BY <1>4, <1>7, <2>4
<1>9. q * d = Period
  BY <1>2, <1>5, <1>7, <1>8
<1>10. Divides(d, 217) \/ Divides(d, 1057) \/ Divides(d, 4681)
  BY <1>5, <1>7, <1>9, Divisors
<1>11. ASSUME NEW n \in Nat, Divides(d, n), n <= m
       PROVE  u[n] = {15}
  BY <1>5, <1>11, SameAtMultiples, ZenonT(30) DEF Turns
<1> QED
  BY <1>2, <1>10, <1>11, At217, At1057, At4681

\* The CRC of a sequence of bytes has 16 bits.
LEMMA CrcType ==
    ASSUME NEW bytes \in Seq(Byte)
    PROVE  CrcOf(bytes) \in Word
<1>1. PICK r : Crcs(r, bytes) /\ CrcOf(bytes) = r[Len(bytes)]
  BY CrcIs
<1>2. Len(bytes) \in 0 .. Len(bytes)
  OBVIOUS
<1> QED
  BY <1>1, <1>2 DEF Crcs

\* The bits of two bytes that are joined.
LEMMA InJoined ==
    ASSUME NEW high \in Byte, NEW low \in Byte, NEW k \in 0 .. 7
    PROVE  /\ Joined(high, low) \in Word
           /\ k \in Joined(high, low) <=> k \in low
           /\ k + 8 \in Joined(high, low) <=> k \in high
<1>1. Joined(high, low) \in Word
  <2>1. \A l \in high : l + 8 \in 0 .. 15
    BY DEF Byte
  <2>2. \A l \in low : l \in 0 .. 15
    BY DEF Byte
  <2> QED
    BY <2>1, <2>2 DEF Joined, Word
<1>2. k \in Joined(high, low) <=> k \in low
  BY DEF Joined, Byte
<1>3. k + 8 \in Joined(high, low) <=> k \in high
  BY DEF Joined, Byte
<1> QED
  BY <1>1, <1>2, <1>3

\* A PDU of n bytes of data, and behind them their CRC.
IsClosed(sent, bytes, n) ==
    /\ sent \in Seq(Byte) /\ Len(sent) = n + 2 /\ SubSeq(sent, 1, n) = bytes
    /\ \A i \in 1 .. n : sent[i] = bytes[i]
    /\ Joined(sent[n + 1], sent[n + 2]) = CrcOf(bytes)

\* It is what crcPackageCalculate makes.
LEMMA ClosedIs ==
    ASSUME NEW bytes \in Seq(Byte)
    PROVE  IsClosed(crcPackageCalculate(bytes), bytes, Len(bytes))
<1> DEFINE n == Len(bytes)
           sent == crcPackageCalculate(bytes)
           crc == CrcOf(bytes)
           high == {k - 8 : k \in {j \in crc : j > 7}}
           low  == {k \in crc : k < 8}
           tail == << high, low >>
<1>1. n \in Nat /\ crc \in Word
  BY CrcType
<1> HIDE DEF crc
<1>2. high \in Byte /\ low \in Byte /\ Joined(high, low) = crc
  BY <1>1, HalvesJoin
<1>3. sent = Cat(bytes, tail)
  BY Zenon DEF crcPackageCalculate, Cat, crc
<1> HIDE DEF high, low
<1>4. tail \in Seq(Byte) /\ Len(tail) = 2 /\ tail[1] = high /\ tail[2] = low
  BY <1>2
<1> HIDE DEF tail, sent, n
<1>5. IsCat(sent, bytes, tail, Byte) /\ AreParts(sent, bytes, tail)
  BY <1>3, <1>4, CatIs, CatParts
<1>6. /\ sent \in Seq(Byte) /\ Len(sent) = n + 2
      /\ \A i \in 1 .. n : sent[i] = bytes[i]
      /\ sent[n + 1] = high /\ sent[n + 2] = low
  BY <1>1, <1>4, <1>5 DEF IsCat, n
<1>7. SubSeq(sent, 1, n) = bytes
  BY <1>5 DEF AreParts, n
<1>8. IsClosed(sent, bytes, n)
  BY <1>2, <1>6, <1>7 DEF crc, IsClosed
<1> QED
  BY <1>8 DEF sent, n

\* The check of a PDU with the n bytes c of data.
IsChecked(y, c, n) ==
    /\ crcPackageChecking(y) <=> Joined(y[n + 1], y[n + 2]) = CrcOf(c)
    /\ c \in Seq(Byte) /\ Len(c) = n /\ \A i \in 1 .. n : c[i] = y[i]

\* It takes the bytes in front of the last two.
LEMMA CheckedIs ==
    ASSUME NEW n \in Nat, NEW y \in Seq(Byte), Len(y) = n + 2
    PROVE  IsChecked(y, SubSeq(y, 1, n), n)
<1>1. Len(y) - 1 = n + 1 /\ Len(y) - 2 = n
  OBVIOUS
<1>2. crcPackageChecking(y) <=>
         Joined(y[n + 1], y[n + 2]) = CrcOf(SubSeq(y, 1, n))
  BY <1>1, Zenon DEF crcPackageChecking, Joined
<1>3. \A i \in 1 .. n : y[i] \in Byte
  OBVIOUS
<1>4. /\ SubSeq(y, 1, n) \in Seq(Byte)
      /\ Len(SubSeq(y, 1, n)) = IF 1 <= n THEN n - 1 + 1 ELSE 0
      /\ \A i \in 1 .. n - 1 + 1 : SubSeq(y, 1, n)[i] = y[1 + i - 1]
  BY <1>3, SubSeqProperties
<1>5. Len(SubSeq(y, 1, n)) = n
  BY <1>4
<1>6. ASSUME NEW i \in 1 .. n
      PROVE  SubSeq(y, 1, n)[i] = y[i]
  <2>1. i \in 1 .. n - 1 + 1 /\ 1 + i - 1 = i
    OBVIOUS
  <2> QED
    BY <1>4, <2>1
<1> QED
  BY <1>2, <1>4, <1>5, <1>6 DEF IsChecked

\* The bits in which two PDUs of the same length differ.
Changed(s, t) == 
    {i \in 0 .. 8 * Len(s) - 1 : ~(BitAt(s, i) <=> BitAt(t, i))}

(***************************************************************************)
(* What the bits F that were changed do to a PDU with m bits of data: d are  *)
(* the differences of its CRC behind each bit, w that of the CRC it brings,  *)
(* whose high byte comes first.                                             *)
(***************************************************************************)
IsDamage(d, w, F, m) ==
    /\ d \in [0 .. m -> Word] /\ d[0] = {}
    /\ \A i \in 1 .. m : d[i] = Shifted(d[i - 1], i - 1 \in F)
    /\ w \in Word /\ F \subseteq 0 .. m + 15
    /\ \A k \in 0 .. 7 : /\ k + 8 \in w <=> m + k \in F
                         /\ k \in w <=> m + (k + 8) \in F

\* Words that differ from the same word in the same are the same.
LEMMA XorCancels ==
    ASSUME NEW a \in Word, NEW b \in Word, NEW c \in Word
    PROVE  Xor(a, b) = Xor(a, c) <=> b = c
<1>1. ASSUME Xor(a, b) = Xor(a, c) PROVE b = c
  <2>1. ASSUME NEW k PROVE k \in b <=> k \in c
    <3>1. k \in Xor(a, b) <=> k \in Xor(a, c)
      BY <1>1
    <3> QED
      BY <3>1, InXor
  <2> QED
    BY <2>1
<1> QED
  BY <1>1

\* The check of a PDU in which bits were changed compares the two differences.
LEMMA CheckComparesDamage ==
    ASSUME NEW bytes \in Seq(Byte), NEW y \in Seq(Byte),
           Len(y) = Len(crcPackageCalculate(bytes))
    PROVE  \E d, w :
              /\ IsDamage(d, w, Changed(crcPackageCalculate(bytes), y),
                        8 * Len(bytes))
              /\ crcPackageChecking(y) <=> d[8 * Len(bytes)] = w
<1> DEFINE n == Len(bytes)
           m == 8 * n
           sent == crcPackageCalculate(bytes)
           t == SubSeq(y, 1, n)
           crc == CrcOf(bytes)
           F == Changed(sent, y)
<1>1. n \in Nat /\ m \in Nat /\ m = 8 * n /\ n = Len(bytes)
      /\ Len(y) = Len(sent)
  OBVIOUS
<1> HIDE DEF n, m, sent
<1>2. /\ sent \in Seq(Byte) /\ Len(sent) = n + 2
      /\ \A i \in 1 .. n : sent[i] = bytes[i]
      /\ Joined(sent[n + 1], sent[n + 2]) = crc
  <2>1. IsClosed(sent, bytes, n)
    BY ClosedIs DEF n, sent
  <2> QED
    BY <2>1 DEF IsClosed
<1>3. /\ crcPackageChecking(y) <=> Joined(y[n + 1], y[n + 2]) = CrcOf(t)
      /\ t \in Seq(Byte) /\ Len(t) = n /\ \A i \in 1 .. n : t[i] = y[i]
  <2>1. IsChecked(y, t, n)
    BY <1>1, <1>2, CheckedIs
  <2> QED
    BY <2>1 DEF IsChecked
<1> HIDE DEF t
<1> DEFINE j == Joined(y[n + 1], y[n + 2])
           w == Xor(crc, j)
<1>4. PICK d : Differences(d, bytes, t, m) /\ Xor(crc, CrcOf(t)) = d[m]
  BY <1>1, <1>3, CrcDifference DEF n
<1>5. /\ sent[n + 1] \in Byte /\ sent[n + 2] \in Byte
      /\ y[n + 1] \in Byte /\ y[n + 2] \in Byte
  BY <1>1, <1>2
<1>6. crc \in Word /\ CrcOf(t) \in Word /\ j \in Word /\ w \in Word
  <2>1. crc \in Word /\ CrcOf(t) \in Word
    BY <1>3, CrcType
  <2>2. 0 \in 0 .. 7
    OBVIOUS
  <2>3. j \in Word
    BY <1>5, <2>2, InJoined
  <2> HIDE DEF j, crc
  <2> QED
    BY <2>1, <2>3, XorIs
<1>7. crcPackageChecking(y) <=> d[m] = w
  BY <1>3, <1>4, <1>6, XorCancels
<1>8. /\ F \subseteq 0 .. m + 15
      /\ \A i \in 0 .. m + 15 : i \in F <=> ~(BitAt(sent, i) <=> BitAt(y, i))
  <2>1. 8 * Len(sent) - 1 = m + 15
    BY <1>1, <1>2
  <2> QED
    BY <2>1 DEF Changed
<1> HIDE DEF F
<1>9. ASSUME NEW i \in 1 .. m
      PROVE  d[i] = Shifted(d[i - 1], i - 1 \in F)
  <2> DEFINE l == i - 1
             at == l \div 8 + 1
  <2>1. l \in 0 .. m + 15 /\ l \in Nat /\ l < 8 * n
    BY <1>1
  <2> HIDE DEF l
  <2>2. at \in 1 .. n
    BY <1>1, <2>1
  <2>3. sent[at] = bytes[at] /\ y[at] = t[at]
    BY <1>2, <1>3, <2>2
  <2>4. /\ BitAt(sent, l) <=> BitAt(bytes, l)
        /\ BitAt(y, l) <=> BitAt(t, l)
    BY <2>3, Zenon DEF BitAt
  <2> HIDE DEF at
  <2>5. l \in F <=> ~(BitAt(bytes, l) <=> BitAt(t, l))
    BY <1>8, <2>1, <2>4
  <2>6. (l \in F) = (BitAt(bytes, l) # BitAt(t, l))
    BY <2>5 DEF BitAt
  <2>7. d[i] = Shifted(d[i - 1], BitAt(bytes, l) # BitAt(t, l))
    BY <1>4 DEF Differences, l
  <2> QED
    BY <2>6, <2>7 DEF l
<1>10. ASSUME NEW k \in 0 .. 7
       PROVE  /\ k + 8 \in w <=> m + k \in F
              /\ k \in w <=> m + (k + 8) \in F
  <2>1. /\ m + k \in 0 .. m + 15 /\ m + (k + 8) \in 0 .. m + 15
        /\ (m + k) % 8 = k /\ (m + (k + 8)) % 8 = k
    BY <1>1
  <2>2. (8 * n + k) \div 8 = n
    BY <1>1, BitOfByte
  <2>3. (8 * (n + 1) + k) \div 8 = n + 1
    BY <1>1, BitOfByte
  <2>4. (m + k) \div 8 + 1 = n + 1 /\ (m + (k + 8)) \div 8 + 1 = n + 2
    <3>1. m + k = 8 * n + k /\ m + (k + 8) = 8 * (n + 1) + k
      BY <1>1
    <3>2. n + 1 + 1 = n + 2
      BY <1>1
    <3> QED
      BY <2>2, <2>3, <3>1, <3>2
  <2>5. ASSUME NEW s
        PROVE  /\ BitAt(s, m + k) <=> k \in s[n + 1]
               /\ BitAt(s, m + (k + 8)) <=> k \in s[n + 2]
    BY <2>1, <2>4, Zenon DEF BitAt
  <2>6. /\ m + k \in F <=> (k \in sent[n + 1]) # (k \in y[n + 1])
        /\ m + (k + 8) \in F <=> (k \in sent[n + 2]) # (k \in y[n + 2])
    <3> DEFINE a == m + k
               b == m + (k + 8)
    <3>1. /\ a \in F <=> ~(BitAt(sent, a) <=> BitAt(y, a))
          /\ b \in F <=> ~(BitAt(sent, b) <=> BitAt(y, b))
      BY <1>8, <2>1
    <3>2. \A s : /\ BitAt(s, a) <=> k \in s[n + 1]
                 /\ BitAt(s, b) <=> k \in s[n + 2]
      BY <2>5
    <3> HIDE DEF a, b
    <3>3. /\ a \in F <=> (k \in sent[n + 1]) # (k \in y[n + 1])
          /\ b \in F <=> (k \in sent[n + 2]) # (k \in y[n + 2])
      BY <3>1, <3>2
    <3> QED
      BY <3>3 DEF a, b
  <2>7. /\ k + 8 \in crc <=> k \in sent[n + 1]
        /\ k \in crc <=> k \in sent[n + 2]
        /\ k + 8 \in j <=> k \in y[n + 1]
        /\ k \in j <=> k \in y[n + 2]
    <3> DEFINE a == sent[n + 1]
               b == sent[n + 2]
               p == y[n + 1]
               q == y[n + 2]
    <3>1. /\ a \in Byte /\ b \in Byte /\ p \in Byte /\ q \in Byte
          /\ Joined(a, b) = crc /\ Joined(p, q) = j
      BY <1>2, <1>5
    <3> HIDE DEF a, b, p, q, crc, j
    <3>2. /\ k \in crc <=> k \in b
          /\ k + 8 \in crc <=> k \in a
      BY <3>1, InJoined
    <3>3. /\ k \in j <=> k \in q
          /\ k + 8 \in j <=> k \in p
      BY <3>1, InJoined
    <3> QED
      BY <3>2, <3>3 DEF a, b, p, q
  <2> HIDE DEF crc, j
  <2>8. /\ k \in w <=> (k \in crc) # (k \in j)
        /\ k + 8 \in w <=> (k + 8 \in crc) # (k + 8 \in j)
    BY InXor
  <2> HIDE DEF w
  <2> QED
    BY <2>6, <2>7, <2>8
<1>11. IsDamage(d, w, F, m)
  <2> HIDE DEF crc, w
  <2>1. d \in [0 .. m -> Word] /\ d[0] = {}
    BY <1>4 DEF Differences
  <2> QED
    BY <1>6, <1>8, <1>9, <1>10, <2>1 DEF IsDamage
<1> QED
  BY <1>7, <1>11 DEF F, m, n, sent

\* A step leaves nothing only of nothing, or of what the bit takes away.
LEMMA ShiftedToNothing ==
    ASSUME NEW c \in Word, NEW x \in BOOLEAN
    PROVE  Shifted(c, x) = {} <=> IF x THEN c = {0} ELSE c = {}
<1> DEFINE s == Shifted(c, x)
<1>1. /\ 15 \in s <=> x # (0 \in c)
      /\ \A k \in 0 .. 14 :
            k \in s <=> IF x # (0 \in c)
                        THEN k + 1 \in c <=> k \notin Polynomial
                        ELSE k + 1 \in c
  BY ShiftedIs
<1>2. s \in Word
  BY ShiftedType
<1> HIDE DEF s
<1>3. s = {} <=> (x <=> 0 \in c) /\ \A k \in 0 .. 14 : k + 1 \notin c
  <2>1. CASE 15 \in s
    BY <1>1, <2>1
  <2>2. CASE 15 \notin s
    <3>1. (x <=> 0 \in c) /\ \A k \in 0 .. 14 : k \in s <=> k + 1 \in c
      BY <1>1, <2>2
    <3>2. s = {} <=> \A k \in 0 .. 14 : k \notin s
      <4>1. ASSUME NEW k \in s PROVE k \in 0 .. 14
        BY <1>2, <2>2 DEF Word
      <4> QED
        BY <4>1
    <3> QED
      BY <3>1, <3>2
  <2> QED
    BY <2>1, <2>2
<1>4. (\A k \in 0 .. 14 : k + 1 \notin c) <=> c \subseteq {0}
  <2>1. ASSUME \A k \in 0 .. 14 : k + 1 \notin c, NEW l \in c
        PROVE  l = 0
    <3>1. l \in 0 .. 15
      BY DEF Word
    <3>2. SUFFICES ASSUME l # 0 PROVE FALSE
      OBVIOUS
    <3>3. l - 1 \in 0 .. 14 /\ l - 1 + 1 = l
      BY <3>1, <3>2
    <3> QED
      BY <2>1, <3>3
  <2> QED
    BY <2>1
<1>5. s = {} <=> IF x THEN c = {0} ELSE c = {}
  BY <1>3, <1>4
<1> QED
  BY <1>5 DEF s

\* A bit that is changed in nothing leaves what is left of the lowest bit.
LEMMA ShiftedFromNothing == Shifted({}, TRUE) = Turn({0})
<1>1. {k - 1 : k \in {} \ {0}} = {} /\ {k - 1 : k \in {0} \ {0}} = {}
  OBVIOUS
<1>2. 0 \in {0} /\ 0 \notin {}
  OBVIOUS
<1>3. Shifted({}, TRUE) = Xor({}, Polynomial)
  BY <1>1, <1>2, Zenon DEF Shifted
<1>4. Turn({0}) = Xor({}, Polynomial)
  BY <1>1, <1>2, Zenon DEF Shifted, Turn
<1> QED
  BY <1>3, <1>4

\* Two changed bits of a PDU shorter than the period do not cancel.
LEMMA DamageOfTwo ==
    ASSUME NEW m \in Nat, m + 16 <= Period,
           NEW i \in 0 .. m + 15, NEW j \in 0 .. m + 15, i < j,
           NEW d, NEW w, IsDamage(d, w, {i, j}, m)
    PROVE  d[m] # w
<1> DEFINE F == {i, j}
           M == Period + 1
<1>1. M \in Nat /\ M > Period /\ M >= 15 /\ m + 15 < Period /\ Period \in Nat
  BY DEF Period
<1>2. PICK u : Turns(u, M)
  BY <1>1, TurnsExist
<1>3. /\ \A k \in 0 .. M : u[k] \in Word
      /\ \A k \in 0 .. M - 1 : u[k + 1] = Turn(u[k])
  <2>1. ASSUME NEW k \in 0 .. M - 1
        PROVE  u[k + 1] = Turn(u[k])
    <3>1. k + 1 \in 1 .. M /\ k + 1 - 1 = k
      BY <1>1
    <3> QED
      BY <1>2, <3>1 DEF Turns
  <2> QED
    BY <1>2, <2>1 DEF Turns
<1>4. /\ \A k \in 0 .. m : d[k] \in Word
      /\ d[0] = {} /\ w \in Word
      /\ \A k \in 1 .. m : d[k] = Shifted(d[k - 1], k - 1 \in F)
      /\ \A k \in 0 .. 7 : /\ k + 8 \in w <=> m + k \in F
                           /\ k \in w <=> m + (k + 8) \in F
  BY DEF IsDamage
<1>5. \A l \in 0 .. 15 : u[15 - l] = {l}
  <2>1. ASSUME NEW l \in 0 .. 15
        PROVE  u[15 - l] = {l}
    <3>1. 15 - l \in 0 .. 15 /\ 15 - (15 - l) = l
      OBVIOUS
    <3>2. u[15 - l] = {15 - (15 - l)}
      BY <1>1, <1>2, <3>1, FirstTurns
    <3> QED
      BY <3>1, <3>2
  <2> QED
    BY <2>1
<1>6. ASSUME NEW l \in 0 .. 15, NEW p \in Nat, 0 < p, p < Period,
             15 - l + p <= M
      PROVE  u[15 - l + p] # {l}
  <2>1. 15 - l \in Nat
    OBVIOUS
  <2>2. u[15 - l] # u[15 - l + p]
    BY <1>1, <1>2, <1>6, <2>1, TurnsDiffer
  <2> QED
    BY <1>5, <2>2
<1> HIDE DEF M
<1> DEFINE S == {k \in 0 .. m : /\ k <= i => d[k] = {}
                                /\ i < k /\ k <= j => d[k] = u[15 + (k - i)]
                                /\ j < k => d[k] # {}}
<1>7. 0 \in S
  BY <1>4
<1>8. ASSUME NEW k \in 1 .. m, k - 1 \in S
      PROVE  k \in S
  <2> DEFINE l == k - 1
             x == l \in F
             c == d[l]
  <2>1. /\ l \in 0 .. m /\ k \in 0 .. m /\ k = l + 1 /\ c \in Word
        /\ d[k] = Shifted(c, x) /\ x \in BOOLEAN
    BY <1>4
  <2>2. /\ l <= i => c = {}
        /\ i < l /\ l <= j => c = u[15 + (l - i)]
        /\ j < l => c # {}
    BY <1>8
  <2>3. x <=> l = i \/ l = j
    OBVIOUS
  <2> HIDE DEF c, l, x
  <2>4. CASE l < i
    <3>1. ~x /\ c = {}
      BY <2>1, <2>2, <2>3, <2>4
    <3>2. d[k] = {}
      BY <2>1, <3>1, ShiftedToNothing
    <3> QED
      BY <2>1, <2>4, <3>2
  <2>5. CASE l = i
    <3>1. x /\ c = {}
      BY <2>1, <2>2, <2>3, <2>5
    <3>2. x = TRUE
      BY <2>1, <3>1
    <3>3. d[k] = Turn({0})
      BY <2>1, <3>1, <3>2, ShiftedFromNothing
    <3>4. u[15] = {0}
      <4>1. 0 \in 0 .. 15 /\ 15 - 0 = 15
        OBVIOUS
      <4> QED
        BY <1>5, <4>1
    <3>5. u[15 + 1] = Turn(u[15])
      <4>1. 15 \in 0 .. M - 1
        BY <1>1
      <4> QED
        BY <1>3, <4>1
    <3>6. 15 + (k - i) = 15 + 1
      BY <2>1, <2>5
    <3>7. d[k] = u[15 + (k - i)]
      BY <3>3, <3>4, <3>5, <3>6
    <3> QED
      BY <2>1, <2>5, <3>7
  <2>6. CASE i < l /\ l < j
    <3>1. ~x /\ c = u[15 + (l - i)]
      BY <2>1, <2>2, <2>3, <2>6
    <3>2. x = FALSE
      BY <2>1, <3>1
    <3>3. d[k] = Turn(c)
      BY <2>1, <3>2 DEF Turn
    <3> DEFINE e == 15 + (l - i)
    <3>4. e \in 0 .. M - 1 /\ 15 + (k - i) = e + 1
      BY <1>1, <2>1, <2>6
    <3>5. u[e + 1] = Turn(u[e])
      BY <1>3, <3>4
    <3>6. d[k] = u[15 + (k - i)]
      BY <3>1, <3>3, <3>4, <3>5
    <3> HIDE DEF e
    <3> QED
      BY <2>1, <2>6, <3>6
  <2>7. CASE l = j
    <3>1. x /\ c = u[15 + (l - i)]
      BY <2>1, <2>2, <2>3, <2>7
    <3> DEFINE p == l - i
    <3>2. /\ p \in Nat /\ 0 < p /\ p < Period /\ 15 - 0 + p <= M
          /\ 15 + (l - i) = 15 - 0 + p /\ 0 \in 0 .. 15
      BY <1>1, <2>1, <2>7
    <3>3. u[15 - 0 + p] # {0}
      BY <1>6, <3>2
    <3>4. c # {0}
      BY <3>1, <3>2, <3>3
    <3>5. d[k] # {}
      <4>1. c \in Word /\ x \in BOOLEAN /\ d[k] = Shifted(c, x)
        BY <2>1
      <4>2. Shifted(c, x) = {} <=> IF x THEN c = {0} ELSE c = {}
        BY <4>1, ShiftedToNothing
      <4> QED
        BY <3>1, <3>4, <4>1, <4>2
    <3> QED
      BY <2>1, <2>7, <3>5
  <2>8. CASE j < l
    <3>1. ~x /\ c # {}
      BY <2>1, <2>2, <2>3, <2>8
    <3>2. d[k] # {}
      BY <2>1, <3>1, ShiftedToNothing
    <3> QED
      BY <2>1, <2>8, <3>2
  <2> QED
    BY <2>1, <2>4, <2>5, <2>6, <2>7, <2>8
<1>9. m \in S
  <2> HIDE DEF S
  <2>1. 0 .. m \subseteq S
    BY <1>7, <1>8, InductionUpTo
  <2> QED
    BY <2>1
\* A changed bit of the CRC.
<1>10. ASSUME NEW e \in F, e >= m
       PROVE  \E l \in 0 .. 15 : l \in w
  <2>1. e - m \in 0 .. 15
    BY <1>10
  <2>2. CASE e - m \in 0 .. 7
    <3>1. m + (e - m) = e
      BY <2>1
    <3>2. (e - m) + 8 \in w /\ (e - m) + 8 \in 0 .. 15
      BY <1>4, <2>2, <3>1
    <3> QED
      BY <3>2
  <2>3. CASE e - m \notin 0 .. 7
    <3> DEFINE l == e - m - 8
    <3>1. l \in 0 .. 7 /\ m + (l + 8) = e
      BY <2>1, <2>3
    <3>2. l \in w /\ l \in 0 .. 15
      BY <1>4, <3>1
    <3> QED
      BY <3>2
  <2> QED
    BY <2>2, <2>3
<1>11. CASE m <= i
  <2>1. d[m] = {}
    BY <1>9, <1>11
  <2>2. w # {}
    BY <1>10, <1>11
  <2> QED
    BY <2>1, <2>2
<1>12. CASE i < m /\ m <= j
  <2>1. PICK l \in 0 .. 15 : l \in w
    BY <1>10, <1>12
  <2>2. w = {l}
    <3>1. ASSUME NEW k \in 0 .. 15
          PROVE  k \in w <=> j = IF k < 8 THEN m + (k + 8) ELSE m + (k - 8)
      <4>1. CASE k < 8
        <5>1. k \in 0 .. 7 /\ m + (k + 8) # i
          BY <1>12, <4>1
        <5>2. k \in w <=> m + (k + 8) \in F
          BY <1>4, <5>1
        <5> QED
          BY <4>1, <5>1, <5>2
      <4>2. CASE ~(k < 8)
        <5> DEFINE h == k - 8
        <5>1. h \in 0 .. 7 /\ h + 8 = k /\ m + h # i
          BY <1>12, <4>2
        <5>2. h + 8 \in w <=> m + h \in F
          BY <1>4, <5>1
        <5> QED
          BY <4>2, <5>1, <5>2
      <4> QED
        BY <4>1, <4>2
    <3>2. ASSUME NEW k \in w PROVE k = l
      <4>0. k \in 0 .. 15
        BY <1>4 DEF Word
      <4>1. /\ j = IF k < 8 THEN m + (k + 8) ELSE m + (k - 8)
            /\ j = IF l < 8 THEN m + (l + 8) ELSE m + (l - 8)
        BY <2>1, <3>1, <4>0
      <4> QED
        BY <4>0, <4>1
    <3> QED
      BY <2>1, <3>2
  <2>3. d[m] = u[15 + (m - i)]
    BY <1>9, <1>12
  <2> DEFINE p == m - i + l
  <2>4. /\ p \in Nat /\ 0 < p /\ p < Period /\ 15 - l + p <= M
        /\ 15 + (m - i) = 15 - l + p
    BY <1>1, <1>12
  <2>5. u[15 - l + p] # {l}
    BY <1>6, <2>4
  <2> QED
    BY <2>2, <2>3, <2>4, <2>5
<1>13. CASE j < m
  <2>1. d[m] # {}
    BY <1>9, <1>13
  <2>2. w = {}
    <3>1. ASSUME NEW k \in w PROVE FALSE
      <4>1. k \in 0 .. 15
        BY <1>4 DEF Word
      <4>2. CASE k < 8
        <5>1. k \in 0 .. 7 /\ m + (k + 8) \notin F
          BY <1>13, <4>1, <4>2
        <5> QED
          BY <1>4, <3>1, <5>1
      <4>3. CASE ~(k < 8)
        <5> DEFINE h == k - 8
        <5>1. h \in 0 .. 7 /\ h + 8 = k /\ m + h \notin F
          BY <1>13, <4>1, <4>3
        <5> QED
          BY <1>4, <3>1, <5>1
      <4> QED
        BY <4>2, <4>3
    <3> QED
      BY <3>1
  <2> QED
    BY <2>1, <2>2
<1> QED
  BY <1>11, <1>12, <1>13

\* The CRC (L1L2Interface): for every PDU of fewer bits than the period, 4095
\* bytes with the CRC, the check finds any two bits that were changed, wherever
\* in the data and the CRC they are. The MTU is at most 1500 (README.md:12).
THEOREM CrcDetectsTwo ==
    ASSUME NEW bytes \in Seq(Byte), NEW y \in Seq(Byte),
           Len(y) = Len(crcPackageCalculate(bytes)), 8 * Len(y) <= Period,
           NEW i \in Nat, NEW j \in Nat, i # j,
           Changed(crcPackageCalculate(bytes), y) = {i, j}
    PROVE  ~crcPackageChecking(y)
<1> DEFINE m == 8 * Len(bytes)
           sent == crcPackageCalculate(bytes)
<1>1. PICK d, w : /\ IsDamage(d, w, Changed(sent, y), m)
                  /\ crcPackageChecking(y) <=> d[m] = w
  BY CheckComparesDamage
<1>2. IsDamage(d, w, {i, j}, m) /\ {j, i} = {i, j}
  BY <1>1
<1>3. i \in 0 .. m + 15 /\ j \in 0 .. m + 15
  BY <1>2 DEF IsDamage
<1>4. m \in Nat /\ m + 16 <= Period
  <2>1. Len(sent) = Len(bytes) + 2
    BY ClosedIs DEF IsClosed
  <2> HIDE DEF sent
  <2> QED
    BY <2>1 DEF sent
<1> HIDE DEF m, sent
<1>5. d[m] # w
  <2>1. CASE i < j
    BY <1>2, <1>3, <1>4, <2>1, DamageOfTwo
  <2>2. CASE j < i
    <3>1. IsDamage(d, w, {j, i}, m)
      BY <1>2
    <3> QED
      BY <1>3, <1>4, <2>2, <3>1, DamageOfTwo
  <2> QED
    BY <2>1, <2>2
<1> QED
  BY <1>1, <1>5

\* The number of elements of a finite set is odd.
Odd(S) == Cardinality(S) % 2 = 1

\* What is in one of two finite sets only.
LEMMA OddXor ==
    ASSUME NEW A, NEW B, IsFiniteSet(A), IsFiniteSet(B)
    PROVE  IsFiniteSet(Xor(A, B)) /\ (Odd(Xor(A, B)) <=> ~(Odd(A) <=> Odd(B)))
<1> DEFINE I == A \cap B
           a == A \ B
           b == B \ A
<1>1. /\ IsFiniteSet(I) /\ IsFiniteSet(a) /\ IsFiniteSet(b)
  <2>1. I \in SUBSET A /\ a \in SUBSET A /\ b \in SUBSET B
    OBVIOUS
  <2> HIDE DEF I, a, b
  <2> QED
    BY <2>1, FS_Subset
<1>2. /\ A = a \cup I /\ B = b \cup I /\ Xor(A, B) = b \cup a
      /\ a \cap I = {} /\ b \cap I = {} /\ b \cap a = {}
  BY DEF Xor
<1> HIDE DEF I, a, b
<1>3. Cardinality(I) \in Nat /\ Cardinality(a) \in Nat /\ Cardinality(b) \in Nat
  BY <1>1, FS_CardinalityType
<1>4. Cardinality({}) = 0
  BY FS_EmptySet
<1>5. /\ Cardinality(A) = Cardinality(a) + Cardinality(I)
      /\ Cardinality(B) = Cardinality(b) + Cardinality(I)
      /\ Cardinality(Xor(A, B)) = Cardinality(b) + Cardinality(a)
      /\ IsFiniteSet(Xor(A, B))
  <2>1. ASSUME NEW S, NEW T, IsFiniteSet(S), IsFiniteSet(T), S \cap T = {},
               Cardinality(S) \in Nat, Cardinality(T) \in Nat
        PROVE  /\ Cardinality(S \cup T) = Cardinality(S) + Cardinality(T)
               /\ IsFiniteSet(S \cup T)
    <3>1. /\ IsFiniteSet(S \cup T)
          /\ Cardinality(S \cup T) =
                Cardinality(S) + Cardinality(T) - Cardinality(S \cap T)
      BY <2>1, FS_Union, Zenon
    <3>2. Cardinality(S \cap T) = 0
      BY <1>4, <2>1
    <3> QED
      BY <2>1, <3>1, <3>2
  <2>2. /\ Cardinality(a \cup I) = Cardinality(a) + Cardinality(I)
        /\ Cardinality(b \cup I) = Cardinality(b) + Cardinality(I)
        /\ Cardinality(b \cup a) = Cardinality(b) + Cardinality(a)
        /\ IsFiniteSet(b \cup a)
    BY <1>1, <1>2, <1>3, <2>1
  <2> QED
    BY <1>2, <2>2
<1> DEFINE i == Cardinality(I)
           p == Cardinality(a)
           q == Cardinality(b)
<1>6. /\ i \in Nat /\ p \in Nat /\ q \in Nat
      /\ Odd(A) <=> (p + i) % 2 = 1
      /\ Odd(B) <=> (q + i) % 2 = 1
      /\ Odd(Xor(A, B)) <=> (q + p) % 2 = 1
  BY <1>3, <1>5 DEF Odd
<1> HIDE DEF i, p, q
<1>7. Odd(Xor(A, B)) <=> ~(Odd(A) <=> Odd(B))
  BY <1>6
<1> QED
  BY <1>5, <1>7

\* One element and nothing.
LEMMA OddOne ==
    /\ \A x : IsFiniteSet({x}) /\ Odd({x})
    /\ IsFiniteSet({}) /\ ~Odd({})
<1>1. \A x : IsFiniteSet({x}) /\ Cardinality({x}) = 1
  BY FS_Singleton, Zenon
<1>2. IsFiniteSet({}) /\ Cardinality({}) = 0
  BY FS_EmptySet, Zenon
<1>3. 1 % 2 = 1 /\ 0 % 2 = 0
  OBVIOUS
<1>4. IsFiniteSet({}) /\ ~Odd({})
  BY <1>2, <1>3 DEF Odd
<1>5. ASSUME NEW x
      PROVE  IsFiniteSet({x}) /\ Odd({x})
  BY <1>1, <1>3 DEF Odd
<1> QED
  BY <1>4, <1>5

\* Sets with as many elements.
LEMMA OneToOne ==
    ASSUME NEW S, IsFiniteSet(S), NEW T, NEW f \in [S -> T],
           \A k, l \in S : f[k] = f[l] => k = l,
           \A t \in T : \E k \in S : f[k] = t
    PROVE  IsFiniteSet(T) /\ Cardinality(T) = Cardinality(S)
<1>1. f \in Bijection(S, T)
  BY DEF Bijection, Injection, IsInjective, Surjection
<1>2. ExistsBijection(S, T)
  BY <1>1 DEF ExistsBijection
<1> QED
  BY <1>2, FS_Bijection

\* The polynomial has an odd number of terms below the highest.
LEMMA PolynomialIsOdd == IsFiniteSet(Polynomial) /\ Odd(Polynomial)
<1> DEFINE a == {0}
           b == a \cup {3}
           c == b \cup {4}
           d == c \cup {7}
           e == d \cup {9}
           f == e \cup {12}
           g == f \cup {15}
<1>1. g = Polynomial
  BY DEF Polynomial
<1>2. /\ 3 \notin a /\ 4 \notin b /\ 7 \notin c /\ 9 \notin d /\ 12 \notin e
      /\ 15 \notin f
  OBVIOUS
<1>3. IsFiniteSet(a) /\ Cardinality(a) = 1
  BY FS_Singleton
<1> HIDE DEF a
<1>4. IsFiniteSet(b) /\ Cardinality(b) = 2
  BY <1>2, <1>3, FS_AddElement
<1> HIDE DEF b
<1>5. IsFiniteSet(c) /\ Cardinality(c) = 3
  BY <1>2, <1>4, FS_AddElement
<1> HIDE DEF c
<1>6. IsFiniteSet(d) /\ Cardinality(d) = 4
  BY <1>2, <1>5, FS_AddElement
<1> HIDE DEF d
<1>7. IsFiniteSet(e) /\ Cardinality(e) = 5
  BY <1>2, <1>6, FS_AddElement
<1> HIDE DEF e
<1>8. IsFiniteSet(f) /\ Cardinality(f) = 6
  BY <1>2, <1>7, FS_AddElement
<1> HIDE DEF f
<1>9. IsFiniteSet(g) /\ Cardinality(g) = 7
  BY <1>2, <1>8, FS_AddElement
<1> QED
  BY <1>1, <1>9 DEF Odd

\* Words are finite.
LEMMA WordIsFinite ==
    ASSUME NEW w \in Word
    PROVE  IsFiniteSet(w)
<1>1. IsFiniteSet(0 .. 15)
  <2> DEFINE a == 0
             b == 15
  <2>1. a \in Int /\ b \in Int
    OBVIOUS
  <2> HIDE DEF a, b
  <2>2. IsFiniteSet(a .. b)
    BY <2>1, FS_Interval
  <2> QED
    BY <2>2 DEF a, b
<1> QED
  BY <1>1, FS_Subset DEF Word

\* A one that is shifted in, and nothing else, changes whether the number of
\* ones is odd.
LEMMA ShiftedIsOdd ==
    ASSUME NEW c \in Word, NEW x \in BOOLEAN
    PROVE  Odd(Shifted(c, x)) <=> ~(Odd(c) <=> x)
<1> DEFINE low  == c \cap {0}
           high == c \ {0}
           rest == {k - 1 : k \in high}
<1>1. IsFiniteSet(c) /\ high \in SUBSET c /\ \A k \in c : k \in 0 .. 15
  BY WordIsFinite DEF Word
<1>2. IsFiniteSet(high)
  <2> HIDE DEF high
  <2> QED
    BY <1>1, FS_Subset
<1>3. Odd(high) <=> ~(Odd(c) <=> 0 \in c)
  <2>1. IsFiniteSet(low) /\ (Odd(low) <=> 0 \in c)
    <3>1. CASE 0 \in c
      <4>1. low = {0}
        BY <3>1
      <4> HIDE DEF low
      <4> QED
        BY <3>1, <4>1, OddOne
    <3>2. CASE 0 \notin c
      <4>1. low = {}
        BY <3>2
      <4> HIDE DEF low
      <4> QED
        BY <3>2, <4>1, OddOne
    <3> QED
      BY <3>1, <3>2
  <2>2. high = Xor(c, low)
    BY DEF Xor
  <2> HIDE DEF low, high
  <2>3. Odd(high) <=> ~(Odd(c) <=> Odd(low))
    BY <1>1, <2>1, <2>2, OddXor
  <2> QED
    BY <2>1, <2>3
<1>4. IsFiniteSet(rest) /\ Cardinality(rest) = Cardinality(high)
  <2> DEFINE f == [k \in high |-> k - 1]
  <2>1. f \in [high -> rest]
    OBVIOUS
  <2>2. \A k, l \in high : f[k] = f[l] => k = l
    BY <1>1
  <2>3. \A r \in rest : \E k \in high : f[k] = r
    OBVIOUS
  <2> HIDE DEF f, high, rest
  <2> QED
    BY <1>2, <2>1, <2>2, <2>3, OneToOne
<1>5. Shifted(c, x) = IF x # (0 \in c) THEN Xor(rest, Polynomial) ELSE rest
  BY Zenon DEF Shifted
<1> HIDE DEF high, rest
<1>6. Odd(rest) <=> ~(Odd(c) <=> 0 \in c)
  BY <1>3, <1>4 DEF Odd
<1>7. Odd(Xor(rest, Polynomial)) <=> ~Odd(rest)
  BY <1>4, OddXor, PolynomialIsOdd
<1>8. CASE x <=> 0 \in c
  <2>1. Shifted(c, x) = rest
    BY <1>5, <1>8
  <2> QED
    BY <1>6, <1>8, <2>1
<1>9. CASE ~(x <=> 0 \in c)
  <2>1. Shifted(c, x) = Xor(rest, Polynomial)
    BY <1>5, <1>9
  <2> QED
    BY <1>6, <1>7, <1>9, <2>1
<1> QED
  BY <1>8, <1>9

\* An odd number of changed bits does not cancel.
LEMMA DamageOfOdd ==
    ASSUME NEW m \in Nat, NEW F, NEW d, NEW w, IsDamage(d, w, F, m), Odd(F)
    PROVE  d[m] # w
<1> DEFINE P(k) == {i \in F : i < k}
           S == {k \in 0 .. m : Odd(d[k]) <=> Odd(P(k))}
<1>1. /\ \A k \in 0 .. m : d[k] \in Word
      /\ d[0] = {} /\ w \in Word
      /\ \A k \in 1 .. m : d[k] = Shifted(d[k - 1], k - 1 \in F)
      /\ \A k \in 0 .. 7 : /\ k + 8 \in w <=> m + k \in F
                           /\ k \in w <=> m + (k + 8) \in F
      /\ \A i \in F : i \in 0 .. m + 15
  BY DEF IsDamage
<1>2. IsFiniteSet(F)
  <2> DEFINE a == 0
             b == m + 15
  <2>1. F \in SUBSET (a .. b) /\ a \in Int /\ b \in Int
    BY DEF IsDamage
  <2> HIDE DEF a, b
  <2>2. IsFiniteSet(a .. b)
    BY <2>1, FS_Interval
  <2> QED
    BY <2>1, <2>2, FS_Subset
<1>3. \A k : IsFiniteSet(P(k))
  <2>1. \A k : P(k) \in SUBSET F
    OBVIOUS
  <2> HIDE DEF P
  <2> QED
    BY <1>2, <2>1, FS_Subset
<1>4. 0 \in S
  <2>1. P(0) = {}
    BY <1>1
  <2>2. Odd(d[0]) <=> Odd(P(0))
    <3> HIDE DEF P
    <3> QED
      BY <1>1, <2>1
  <2>3. 0 \in 0 .. m
    OBVIOUS
  <2> QED
    BY <2>2, <2>3
<1>5. ASSUME NEW k \in 1 .. m, k - 1 \in S
      PROVE  k \in S
  <2> DEFINE l == k - 1
             x == l \in F
             c == d[l]
             A == P(l)
             B == P(k)
             one == F \cap {l}
  <2>1. /\ c \in Word /\ d[k] = Shifted(c, x) /\ x \in BOOLEAN
        /\ Odd(c) <=> Odd(A)
    BY <1>1, <1>5
  <2>2. B = Xor(A, one)
    <3>1. \A i \in F : i < k <=> i < l \/ i = l
      BY <1>1
    <3> QED
      BY <1>1, <3>1 DEF Xor
  <2>3. one = IF x THEN {l} ELSE {}
    OBVIOUS
  <2>4. IsFiniteSet(A)
    BY <1>3
  <2> HIDE DEF c, x, A, B, one, l
  <2>5. IsFiniteSet(one) /\ (Odd(one) <=> x)
    BY <2>1, <2>3, OddOne
  <2>6. Odd(B) <=> ~(Odd(A) <=> x)
    BY <2>2, <2>4, <2>5, OddXor
  <2>7. Odd(d[k]) <=> ~(Odd(c) <=> x)
    BY <2>1, ShiftedIsOdd
  <2>8. Odd(d[k]) <=> Odd(B)
    BY <2>1, <2>6, <2>7
  <2> QED
    BY <2>8 DEF B
<1>6. Odd(d[m]) <=> Odd(P(m))
  <2>1. m \in S
    <3> HIDE DEF S
    <3>1. 0 .. m \subseteq S
      BY <1>4, <1>5, InductionUpTo
    <3> QED
      BY <3>1
  <2> QED
    BY <2>1
<1> DEFINE T == {i \in F : i >= m}
<1>7. Odd(T) <=> Odd(w)
  <2> DEFINE Place(k) == IF k < 8 THEN m + (k + 8) ELSE m + (k - 8)
             f == [k \in w |-> Place(k)]
  <2>1. w \subseteq 0 .. 15
    BY <1>1 DEF Word
  <2>2. ASSUME NEW k \in 0 .. 15
        PROVE  k \in w <=> Place(k) \in T
    <3>1. CASE k < 8
      <4>1. k \in 0 .. 7 /\ Place(k) = m + (k + 8) /\ Place(k) >= m
        BY <3>1
      <4> QED
        BY <1>1, <4>1
    <3>2. CASE ~(k < 8)
      <4> DEFINE h == k - 8
      <4>1. h \in 0 .. 7 /\ h + 8 = k /\ Place(k) = m + h /\ Place(k) >= m
        BY <3>2
      <4> HIDE DEF h, Place
      <4>2. k \in w <=> m + h \in F
        BY <1>1, <4>1
      <4> QED
        BY <4>1, <4>2
    <3> QED
      BY <3>1, <3>2
  <2>3. \A k, l \in w : Place(k) = Place(l) => k = l
    BY <2>1
  <2>4. ASSUME NEW i \in T
        PROVE  \E k \in w : Place(k) = i
    <3>1. i \in m .. m + 15 /\ i \in F
      BY <1>1
    <3> DEFINE k == IF i - m < 8 THEN i - m + 8 ELSE i - m - 8
    <3>2. k \in 0 .. 15 /\ Place(k) = i
      BY <3>1
    <3> HIDE DEF k, Place, T
    <3>3. k \in w
      BY <2>2, <3>2
    <3> QED
      BY <3>2, <3>3
  <2> HIDE DEF Place, T
  <2>5. f \in [w -> T] /\ \A k \in w : f[k] = Place(k)
    BY <2>1, <2>2
  <2> HIDE DEF f
  <2>6. /\ \A k, l \in w : f[k] = f[l] => k = l
        /\ \A i \in T : \E k \in w : f[k] = i
    BY <2>3, <2>4, <2>5
  <2>7. Cardinality(T) = Cardinality(w)
    BY <1>1, <2>5, <2>6, OneToOne, WordIsFinite
  <2> QED
    BY <2>7 DEF Odd
<1>8. F = Xor(P(m), T) /\ IsFiniteSet(T)
  <2>1. F = Xor(P(m), T)
    BY <1>1 DEF Xor
  <2>2. T \in SUBSET F
    OBVIOUS
  <2> HIDE DEF T
  <2> QED
    BY <1>2, <2>1, <2>2, FS_Subset
<1> HIDE DEF P, T
<1>9. Odd(F) <=> ~(Odd(P(m)) <=> Odd(T))
  BY <1>3, <1>8, OddXor
<1> QED
  BY <1>6, <1>7, <1>9

\* The CRC (L1L2Interface): the number of changed bits of an accepted PDU of
\* any length is even: the check finds every odd number of them.
THEOREM CrcDetectsOdd ==
    ASSUME NEW bytes \in Seq(Byte), NEW y \in Seq(Byte),
           Len(y) = Len(crcPackageCalculate(bytes)),
           Odd(Changed(crcPackageCalculate(bytes), y))
    PROVE  ~crcPackageChecking(y)
<1> DEFINE m == 8 * Len(bytes)
           F == Changed(crcPackageCalculate(bytes), y)
<1>1. PICK d, w : /\ IsDamage(d, w, F, m)
                  /\ crcPackageChecking(y) <=> d[m] = w
  BY CheckComparesDamage
<1>2. m \in Nat /\ Odd(F)
  OBVIOUS
<1> HIDE DEF m, F
<1> QED
  BY <1>1, <1>2, DamageOfOdd

\* Up to 16 bits in a row within the data, or within the CRC, do not cancel.
LEMMA DamageOfBurst ==
    ASSUME NEW m \in Nat, NEW F, NEW d, NEW w, IsDamage(d, w, F, m), F # {},
           NEW a \in Nat, F \subseteq a .. a + 15,
           (\A i \in F : i < m) \/ (\A i \in F : m <= i)
    PROVE  d[m] # w
<1>1. /\ \A k \in 0 .. m : d[k] \in Word
      /\ d[0] = {} /\ w \in Word
      /\ \A k \in 1 .. m : d[k] = Shifted(d[k - 1], k - 1 \in F)
      /\ \A k \in 0 .. 7 : /\ k + 8 \in w <=> m + k \in F
                           /\ k \in w <=> m + (k + 8) \in F
      /\ \A i \in F : i \in 0 .. m + 15
  BY DEF IsDamage
<1> DEFINE None(k) == \A i \in F : ~(i < k)
           S == {k \in 0 .. m : /\ None(k) => d[k] = {}
                                /\ ~None(k) => d[k] # {}
                                /\ ~None(k) /\ k <= a + 16 =>
                                      Apart(d[k], {}, 16 - (k - a))}
<1>2. 0 \in S
  <2>1. None(0)
    BY <1>1
  <2> HIDE DEF None
  <2> QED
    BY <1>1, <2>1
<1>3. ASSUME NEW k \in 1 .. m, k - 1 \in S
      PROVE  k \in S
  <2> DEFINE l == k - 1
             x == l \in F
             c == d[l]
  <2>1. /\ c \in Word /\ d[k] = Shifted(c, x) /\ x \in BOOLEAN
        /\ l \in 0 .. m /\ k = l + 1
    BY <1>1
  <2>2. /\ None(l) => c = {}
        /\ ~None(l) => c # {}
        /\ ~None(l) /\ l <= a + 16 => Apart(c, {}, 16 - (l - a))
    BY <1>3
  <2>3. None(k) <=> None(l) /\ ~x
    <3>1. \A i \in F : i < k <=> i < l \/ i = l
      BY <1>1
    <3> QED
      BY <3>1
  <2>4. /\ x => a <= l /\ l <= a + 15
        /\ ~None(l) => a < l
    BY <1>1
  <2> HIDE DEF None, c, x, l
  <2>5. {} \in Word /\ FALSE \in BOOLEAN
    BY DEF Word
  <2>6. PICK no \in BOOLEAN : no = FALSE
    OBVIOUS
  <2>7. Shifted({}, no) = {}
    BY <2>5, <2>6, ShiftedToNothing
  <2>8. CASE None(l) /\ ~x
    <3>1. d[k] = {}
      BY <2>1, <2>2, <2>8, ShiftedToNothing
    <3> QED
      BY <2>1, <2>3, <2>8, <3>1
  <2>9. CASE None(l) /\ x
    <3>1. Apart(Shifted({}, x), Shifted({}, no), 15)
      BY <2>1, <2>5, <2>6, <2>9, BitApart
    <3>2. Apart(d[k], {}, 15)
      BY <2>1, <2>2, <2>7, <2>9, <3>1
    <3> DEFINE j == 16 - (k - a)
    <3>3. 15 \in j .. 15
      BY <2>1, <2>4, <2>9
    <3> HIDE DEF j
    <3>4. 15 \in d[k]
      BY <3>2 DEF Apart
    <3>5. Apart(d[k], {}, j) /\ d[k] # {}
      BY <3>3, <3>4 DEF Apart
    <3>6. Apart(d[k], {}, 16 - (k - a))
      BY <3>5 DEF j
    <3>7. ~None(k) /\ k \in 0 .. m
      BY <2>3, <2>9
    <3> QED
      BY <3>5, <3>6, <3>7
  <2>10. CASE ~None(l) /\ l <= a + 15
    <3> DEFINE j == 16 - (l - a)
    <3>1. j \in 1 .. 15 /\ j - 1 = 16 - (k - a)
      BY <2>1, <2>4, <2>10
    <3>2. Apart(c, {}, j)
      BY <2>1, <2>2, <2>10
    <3> HIDE DEF j
    <3>3. Apart(Shifted(c, x), Shifted({}, no), j - 1)
      BY <2>1, <2>5, <3>1, <3>2, ShiftedApart
    <3>4. Apart(d[k], {}, j - 1)
      BY <2>1, <2>7, <3>3
    <3>5. Apart(d[k], {}, 16 - (k - a))
      BY <3>1, <3>4
    <3>6. d[k] # {}
      BY <3>4 DEF Apart
    <3>7. ~None(k) /\ k \in 0 .. m
      BY <2>3, <2>10
    <3> QED
      BY <3>5, <3>6, <3>7
  <2>11. CASE ~None(l) /\ ~(l <= a + 15)
    <3>1. ~x /\ c # {}
      BY <2>2, <2>4, <2>11
    <3>2. d[k] # {}
      BY <2>1, <3>1, ShiftedToNothing
    <3>3. ~(k <= a + 16)
      BY <2>1, <2>11
    <3> QED
      BY <2>1, <2>3, <2>11, <3>2, <3>3
  <2> QED
    BY <2>8, <2>9, <2>10, <2>11
<1>4. m \in S
  <2> HIDE DEF S
  <2>1. 0 .. m \subseteq S
    BY <1>2, <1>3, InductionUpTo
  <2> QED
    BY <2>1
<1>5. CASE \A i \in F : i < m
  <2>1. d[m] # {}
    <3>3. ~None(m)
      BY <1>5
    <3> HIDE DEF None
    <3> QED
      BY <1>4, <3>3
  <2>2. ASSUME NEW k \in w PROVE FALSE
    <3>1. k \in 0 .. 15
      BY <1>1 DEF Word
    <3>2. CASE k < 8
      <4>1. k \in 0 .. 7 /\ m + (k + 8) \notin F
        BY <1>5, <3>1, <3>2
      <4> QED
        BY <1>1, <2>2, <4>1
    <3>3. CASE ~(k < 8)
      <4> DEFINE h == k - 8
      <4>1. h \in 0 .. 7 /\ h + 8 = k /\ m + h \notin F
        BY <1>5, <3>1, <3>3
      <4> QED
        BY <1>1, <2>2, <4>1
    <3> QED
      BY <3>2, <3>3
  <2> QED
    BY <2>1, <2>2
<1>6. CASE \A i \in F : m <= i
  <2>1. PICK i \in F : i \in m .. m + 15
    <3>1. PICK i \in F : i \in 0 .. m + 15
      BY <1>1
    <3> QED
      BY <1>6, <3>1
  <2>2. d[m] = {}
    <3>1. None(m)
      BY <1>1, <1>6
    <3> QED
      BY <1>4, <3>1
  <2>3. w # {}
    <3>1. CASE i - m < 8
      <4>1. i - m \in 0 .. 7 /\ m + (i - m) = i
        BY <2>1, <3>1
      <4> QED
        BY <1>1, <4>1
    <3>2. CASE ~(i - m < 8)
      <4> DEFINE h == i - m - 8
      <4>1. h \in 0 .. 7 /\ m + (h + 8) = i
        BY <2>1, <3>2
      <4> QED
        BY <1>1, <4>1
    <3> QED
      BY <3>1, <3>2
  <2> QED
    BY <2>2, <2>3
<1> QED
  BY <1>5, <1>6

\* The CRC (L1L2Interface): for a PDU of any length the check finds any changes
\* within 16 bits in a row of the data, and any changes of the CRC alone.
\* Nothing is said of a row across the border between the two, where the high
\* byte of the CRC stands in front of the low one.
THEOREM CrcDetectsBurst ==
    ASSUME NEW bytes \in Seq(Byte), NEW y \in Seq(Byte),
           Len(y) = Len(crcPackageCalculate(bytes)), NEW a \in Nat,
           Changed(crcPackageCalculate(bytes), y) \subseteq a .. a + 15,
           Changed(crcPackageCalculate(bytes), y) # {},
           \/ \A i \in Changed(crcPackageCalculate(bytes), y) :
                 i < 8 * Len(bytes)
           \/ \A i \in Changed(crcPackageCalculate(bytes), y) :
                 8 * Len(bytes) <= i
    PROVE  ~crcPackageChecking(y)
<1> DEFINE m == 8 * Len(bytes)
           F == Changed(crcPackageCalculate(bytes), y)
<1>1. PICK d, w : /\ IsDamage(d, w, F, m)
                  /\ crcPackageChecking(y) <=> d[m] = w
  BY CheckComparesDamage
<1>2. /\ m \in Nat /\ F # {} /\ F \subseteq a .. a + 15
      /\ (\A i \in F : i < m) \/ (\A i \in F : m <= i)
  OBVIOUS
<1> HIDE DEF m, F
<1> QED
  BY <1>1, <1>2, DamageOfBurst

\* The CRC (L1L2Interface): the check accepts every PDU as it was closed, and
\* for every PDU, whatever its length, none in which one byte was changed, be it
\* of the data or of the CRC, whatever the byte became: eight bits in a row.
THEOREM CrcDetectsByte ==
    ASSUME NEW bytes \in Seq(Byte)
    PROVE  LET sent == crcPackageCalculate(bytes)
           IN  /\ crcPackageChecking(sent)
               /\ \A i \in 1 .. Len(sent) : \A b \in Byte :
                     b # sent[i] =>
                        ~crcPackageChecking([sent EXCEPT ![i] = b])
<1> DEFINE n == Len(bytes)
           m == 8 * n
           sent == crcPackageCalculate(bytes)
<1>1. n \in Nat /\ m \in Nat
  OBVIOUS
<1>2. IsClosed(sent, bytes, n)
  BY ClosedIs
<1>3. sent \in Seq(Byte) /\ Len(sent) = n + 2
  BY <1>2 DEF IsClosed
<1>4. crcPackageChecking(sent)
  <2> HIDE DEF n, sent
  <2>1. IsChecked(sent, SubSeq(sent, 1, n), n)
    BY <1>1, <1>3, CheckedIs
  <2> QED
    BY <1>2, <2>1 DEF IsClosed, IsChecked
<1>5. ASSUME NEW i \in 1 .. Len(sent), NEW b \in Byte, b # sent[i]
      PROVE  ~crcPackageChecking([sent EXCEPT ![i] = b])
  <2> DEFINE y == [sent EXCEPT ![i] = b]
             F == Changed(sent, y)
             a == 8 * (i - 1)
  <2> HIDE DEF n, sent
  <2>1. /\ y \in Seq(Byte) /\ Len(y) = n + 2 /\ y[i] = b
        /\ \A k \in 1 .. n + 2 : k # i => y[k] = sent[k]
    BY <1>3, <1>5
  <2> HIDE DEF y
  <2>2. i \in 1 .. n + 2 /\ a \in Nat /\ sent[i] \in Byte
    BY <1>1, <1>3
  <2>3. ASSUME NEW k \in F
        PROVE  k \in a .. a + 7
    <3> DEFINE at == k \div 8 + 1
    <3>1. k \in Nat /\ k < 8 * (n + 2)
      BY <1>1, <1>3 DEF Changed
    <3>2. at \in 1 .. n + 2 /\ k \in 8 * (at - 1) .. 8 * (at - 1) + 7
      BY <1>1, <3>1
    <3>3. ~(BitAt(sent, k) <=> BitAt(y, k))
      BY DEF Changed
    <3>4. at = i
      BY <2>1, <3>2, <3>3 DEF BitAt
    <3> QED
      BY <3>2, <3>4
  <2>4. PICK l \in 0 .. 7 : ~(l \in sent[i] <=> l \in b)
    BY <1>5, <2>2 DEF Byte
  <2>5. a + l \in F
    <3>1. a + l \in 0 .. 8 * Len(sent) - 1
      BY <1>1, <1>3, <2>2
    <3>2. (a + l) % 8 = l
      BY <2>2
    <3>3. (a + l) \div 8 + 1 = i
      <4>1. i - 1 \in Nat
        BY <2>2
      <4>2. (8 * (i - 1) + l) \div 8 = i - 1
        BY <4>1, BitOfByte
      <4> QED
        BY <2>2, <4>2
    <3>4. ~(BitAt(sent, a + l) <=> BitAt(y, a + l))
      BY <2>1, <2>4, <3>2, <3>3 DEF BitAt
    <3> QED
      BY <3>1, <3>4 DEF Changed
  <2>6. F \subseteq a .. a + 15
    BY <2>2, <2>3
  <2>7. (\A k \in F : k < m) \/ (\A k \in F : m <= k)
    <3>1. CASE i <= n
      <4>1. a + 7 < m
        BY <1>1, <2>2, <3>1
      <4> QED
        BY <1>1, <2>2, <2>3, <4>1
    <3>2. CASE ~(i <= n)
      <4>1. m <= a
        BY <1>1, <2>2, <3>2
      <4> QED
        BY <1>1, <2>2, <2>3, <4>1
    <3> QED
      BY <3>1, <3>2
  <2>8. F # {}
    BY <2>5
  <2> HIDE DEF F, a, m
  <2>9. ~crcPackageChecking(y)
    BY <1>3, <2>1, <2>2, <2>6, <2>7, <2>8, CrcDetectsBurst DEF sent, F, m, n
  <2> QED
    BY <2>9 DEF y
<1> QED
  BY <1>4, <1>5
=============================================================================
