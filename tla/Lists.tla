-------------------------------- MODULE Lists --------------------------------
(***************************************************************************)
(* Lemmas about what the modules compute by running through a sequence: the *)
(* concatenation of a sequence of sequences and the folds. The principle    *)
(* behind them is that every set of naturals has a least element.           *)
(***************************************************************************)
EXTENDS Integers, SequencesExt, SequenceTheorems, FunctionTheorems,
        FiniteSetTheorems, WellFoundedInduction, TLAPS

\* Induction, for a set instead of a predicate.
LEMMA Induction ==
    ASSUME NEW S, 0 \in S, \A n \in Nat : n \in S => n + 1 \in S
    PROVE  Nat \subseteq S
<1> DEFINE T == Nat \ S
           R == OpToRel(<, Nat)
<1>1. SUFFICES ASSUME T # {} PROVE FALSE
  OBVIOUS
<1>2. PICK x \in T : \A y \in T : ~(<<y, x>> \in R)
  <2>1. T \subseteq Nat
    OBVIOUS
  <2> HIDE DEF T, R
  <2> QED
    BY <1>1, <2>1, NatLessThanWellFounded, WFMin DEF R
<1>3. x \in Nat /\ x # 0 /\ x - 1 \in Nat /\ x - 1 + 1 = x /\ x - 1 < x
  OBVIOUS
<1>4. x - 1 \in T
  BY <1>3
<1>5. <<x - 1, x>> \in R
  BY <1>3 DEF OpToRel
<1> QED
  BY <1>2, <1>4, <1>5

\* Induction up to n, from each number to the next.
LEMMA InductionUpTo ==
    ASSUME NEW n \in Nat, NEW S, 0 \in S,
           \A i \in 1 .. n : i - 1 \in S => i \in S
    PROVE  0 .. n \subseteq S
<1> DEFINE T == {m \in Nat : m <= n => m \in S}
<1>1. 0 \in T
  OBVIOUS
<1>2. ASSUME NEW m \in Nat, m \in T
      PROVE  m + 1 \in T
  <2>1. SUFFICES ASSUME m + 1 <= n PROVE m + 1 \in S
    OBVIOUS
  <2>2. m + 1 \in 1 .. n /\ m + 1 - 1 = m /\ m \in S
    BY <1>2, <2>1
  <2> QED
    BY <2>2
<1>3. Nat \subseteq T
  <2> HIDE DEF T
  <2> QED
    BY <1>1, <1>2, Induction
<1> QED
  BY <1>3

(***************************************************************************)
(* A chain: the values that a loop over n elements computes from b.         *)
(***************************************************************************)
Chain(r, b, step, n) == r[0] = b /\ \A i \in 1 .. n : r[i] = step[i][r[i - 1]]

\* Every loop has its chain.
LEMMA ChainExists ==
    ASSUME NEW V, NEW b \in V, NEW n \in Nat, NEW step \in [1 .. n -> [V -> V]]
    PROVE  \E r \in [0 .. n -> V] : Chain(r, b, step, n)
<1> DEFINE S == {m \in Nat : m <= n =>
                    \E r \in [0 .. m -> V] : Chain(r, b, step, m)}
<1>1. 0 \in S
  <2>1. [i \in 0 .. 0 |-> b] \in [0 .. 0 -> V]
    OBVIOUS
  <2>2. Chain([i \in 0 .. 0 |-> b], b, step, 0)
    BY DEF Chain
  <2> QED
    BY <2>1, <2>2
<1>2. ASSUME NEW m \in Nat, m \in S
      PROVE  m + 1 \in S
  <2>1. SUFFICES ASSUME m + 1 <= n
                 PROVE \E r \in [0 .. m + 1 -> V] : Chain(r, b, step, m + 1)
    OBVIOUS
  <2>2. PICK r \in [0 .. m -> V] : Chain(r, b, step, m)
    BY <1>2, <2>1
  <2> DEFINE t == [i \in 0 .. m + 1 |->
                     IF i <= m THEN r[i] ELSE step[m + 1][r[m]]]
  <2>3. step[m + 1] \in [V -> V] /\ r[m] \in V
    BY <2>1
  <2>4. t \in [0 .. m + 1 -> V]
    BY <2>3
  <2>5. Chain(t, b, step, m + 1)
    <3>1. t[0] = b
      BY <2>2 DEF Chain
    <3>2. ASSUME NEW i \in 1 .. m + 1
          PROVE  t[i] = step[i][t[i - 1]]
      <4>1. CASE i <= m
        <5>1. /\ i \in 1 .. m /\ i \in 0 .. m + 1 /\ i - 1 \in 0 .. m + 1
              /\ i - 1 <= m
          BY <4>1
        <5> QED
          BY <2>2, <4>1, <5>1 DEF Chain
      <4>2. CASE i = m + 1
        <5>1. /\ i \in 0 .. m + 1 /\ i - 1 \in 0 .. m + 1 /\ i - 1 <= m
              /\ i - 1 = m
              /\ ~(i <= m)
          BY <4>2
        <5> QED
          BY <4>2, <5>1
      <4> QED
        BY <4>1, <4>2
    <3> HIDE DEF t
    <3> QED
      BY <3>1, <3>2 DEF Chain
  <2> QED
    BY <2>4, <2>5
<1> HIDE DEF S
<1>3. n \in S
  BY <1>1, <1>2, Induction
<1> QED
  BY <1>3 DEF S

\* A loop that takes the same steps computes the same values.
LEMMA ChainUnique ==
    ASSUME NEW b, NEW n \in Nat, NEW step, NEW r, NEW t,
           Chain(r, b, step, n), Chain(t, b, step, n)
    PROVE  \A i \in 0 .. n : r[i] = t[i]
<1> DEFINE S == {i \in 0 .. n : r[i] = t[i]}
<1>1. 0 \in S
  BY DEF Chain
<1>2. ASSUME NEW i \in 1 .. n, i - 1 \in S
      PROVE  i \in S
  BY <1>2 DEF Chain
<1>3. 0 .. n \subseteq S
  <2> HIDE DEF S
  <2> QED
    BY <1>1, <1>2, InductionUpTo
<1> QED
  BY <1>3

IsAssociative(S) == \A s, t, u \in Seq(S) : (s \o t) \o u = s \o (t \o u)

\* Concatenation is associative; in this form the provers can instantiate it.
LEMMA Associative == \A S : IsAssociative(S)
BY ConcatAssociative DEF IsAssociative

\* r[i] is the concatenation of the first i sequences of ss, for i up to n.
Partial(r, ss, n) ==
    r[0] = << >> /\ \A i \in 1 .. n : r[i] = r[i - 1] \o ss[i]

\* The concatenations of the prefixes of a sequence of sequences exist.
LEMMA PartialExists ==
    ASSUME NEW S, NEW ss \in Seq(Seq(S))
    PROVE  \E r \in [0 .. Len(ss) -> Seq(S)] : Partial(r, ss, Len(ss))
<1> DEFINE n == Len(ss)
           V == Seq(S)
           step == [i \in 1 .. n |-> [v \in V |-> v \o ss[i]]]
<1>1. n \in Nat /\ << >> \in V /\ \A i \in 1 .. n : ss[i] \in V
  OBVIOUS
<1>2. step \in [1 .. n -> [V -> V]]
  <2>1. \A i \in 1 .. n : \A v \in V : v \o ss[i] \in V
    BY <1>1, ConcatProperties
  <2> HIDE DEF V, n
  <2> QED
    BY <2>1
<1>3. PICK r \in [0 .. n -> V] : Chain(r, << >>, step, n)
  <2> HIDE DEF step, V, n
  <2> QED
    BY <1>1, <1>2, ChainExists
<1>4. ASSUME NEW i \in 1 .. n
      PROVE  r[i] = r[i - 1] \o ss[i]
  <2>1. i - 1 \in 0 .. n
    BY <1>1
  <2>2. r[i - 1] \in V
    BY <2>1
  <2> HIDE DEF V, n
  <2> QED
    BY <1>3, <2>2 DEF Chain
<1> QED
  BY <1>3, <1>4 DEF Chain, Partial

\* They are unique.
LEMMA PartialUnique ==
    ASSUME NEW ss, NEW n \in Nat, NEW r, NEW t,
           Partial(r, ss, n), Partial(t, ss, n)
    PROVE  r[n] = t[n]
<1> DEFINE S == {i \in 0 .. n : r[i] = t[i]}
<1>1. 0 \in S
  BY DEF Partial
<1>2. ASSUME NEW i \in 1 .. n, i - 1 \in S
      PROVE  i \in S
  <2>1. r[i - 1] = t[i - 1]
    BY <1>2
  <2>2. r[i] = t[i]
    BY <2>1, Zenon DEF Partial
  <2> QED
    BY <2>2
<1>3. 0 .. n \subseteq S
  <2> HIDE DEF S
  <2> QED
    BY <1>1, <1>2, InductionUpTo
<1> QED
  BY <1>3

\* FlattenSeq is the last of them.
LEMMA FlattenIs ==
    ASSUME NEW S, NEW ss \in Seq(Seq(S)),
           NEW r \in [0 .. Len(ss) -> Seq(S)], Partial(r, ss, Len(ss))
    PROVE  FlattenSeq(ss) = r[Len(ss)]
<1> DEFINE n == Len(ss)
<1>1. n \in Nat
  OBVIOUS
<1>2. CASE n = 0
  BY <1>2 DEF FlattenSeq, Partial
<1>3. CASE n # 0
  <2> DEFINE Eq(f) == f = [i \in 1 .. n |-> IF i = 1 THEN ss[i]
                                            ELSE f[i - 1] \o ss[i]]
             g == CHOOSE f : Eq(f)
             t == [i \in 1 .. n |-> r[i]]
  <2>1. FlattenSeq(ss) = g[n]
    BY <1>3 DEF FlattenSeq
  <2>2. r[1] = ss[1]
    <3>1. 1 \in 1 .. n /\ ss[1] \in Seq(S) /\ 1 - 1 = 0
      BY <1>1, <1>3
    <3>2. r[1] = << >> \o ss[1]
      BY <3>1 DEF Partial
    <3> QED
      BY <3>1, <3>2, ConcatEmptySeq
  <2>3. Eq(t)
    <3>1. ASSUME NEW i \in 1 .. n
          PROVE  t[i] = IF i = 1 THEN ss[i] ELSE t[i - 1] \o ss[i]
      <4>1. CASE i = 1
        BY <2>2, <4>1
      <4>2. CASE i # 1
        <5>1. i - 1 \in 1 .. n
          BY <1>1, <4>2
        <5> QED
          BY <4>2, <5>1 DEF Partial
      <4> QED
        BY <4>1, <4>2
    <3> QED
      BY <3>1
  <2>4. Eq(g)
    <3> HIDE DEF Eq, t
    <3> QED
      BY <2>3
  <2> HIDE DEF g
  <2> DEFINE f == [i \in 0 .. n |-> IF i = 0 THEN << >> ELSE g[i]]
  <2>5. f[0] = << >> /\ f[n] = g[n]
    BY <1>1, <1>3
  <2>6. ASSUME NEW i \in 1 .. n
        PROVE  f[i] = f[i - 1] \o ss[i]
    <3>1. ss[i] \in Seq(S) /\ i - 1 \in 0 .. n /\ f[i] = g[i]
      BY <1>1
    <3>2. CASE i = 1
      <4>1. f[i] = ss[i] /\ f[i - 1] = << >>
        BY <2>4, <3>1, <3>2
      <4> QED
        BY <3>1, <4>1, ConcatEmptySeq
    <3>3. CASE i # 1
      <4>1. i - 1 \in 1 .. n /\ f[i - 1] = g[i - 1]
        BY <1>1, <3>1, <3>3
      <4> QED
        BY <2>4, <3>1, <3>3, <4>1
    <3> QED
      BY <3>2, <3>3
  <2> HIDE DEF f
  <2>7. f[n] = r[n]
    <3>1. Partial(f, ss, n)
      BY <2>5, <2>6, Zenon DEF Partial
    <3> HIDE DEF n
    <3> QED
      BY <1>1, <3>1, PartialUnique DEF n
  <2> QED
    BY <2>1, <2>5, <2>7
<1> QED
  BY <1>2, <1>3

\* What FlattenSeq yields is a sequence; of nothing, the empty one.
LEMMA FlattenType ==
    ASSUME NEW S, NEW ss \in Seq(Seq(S))
    PROVE  FlattenSeq(ss) \in Seq(S)
<1>1. PICK r \in [0 .. Len(ss) -> Seq(S)] : Partial(r, ss, Len(ss))
  BY PartialExists
<1>2. Len(ss) \in 0 .. Len(ss)
  OBVIOUS
<1>3. r[Len(ss)] \in Seq(S)
  BY <1>2
<1> QED
  BY <1>1, <1>3, FlattenIs

LEMMA FlattenEmpty == FlattenSeq(<< >>) = << >>
BY DEF FlattenSeq

\* One more sequence is put behind the others.
LEMMA FlattenAppend ==
    ASSUME NEW S, NEW ss \in Seq(Seq(S)), NEW s \in Seq(S)
    PROVE  FlattenSeq(Append(ss, s)) = FlattenSeq(ss) \o s
<1> DEFINE n == Len(ss)
           new == Append(ss, s)
<1>1. /\ n \in Nat /\ new \in Seq(Seq(S)) /\ Len(new) = n + 1
      /\ new[n + 1] = s /\ \A i \in 1 .. n : new[i] = ss[i]
  BY AppendProperties
<1> HIDE DEF new
<1>2. PICK t \in [0 .. Len(new) -> Seq(S)] : Partial(t, new, Len(new))
  BY <1>1, PartialExists
<1>3. FlattenSeq(new) = t[n + 1]
  BY <1>1, <1>2, FlattenIs
<1>4. PICK r \in [0 .. Len(ss) -> Seq(S)] : Partial(r, ss, Len(ss))
  BY PartialExists
<1>5. FlattenSeq(ss) = r[n]
  BY <1>4, FlattenIs
<1>6. Partial(t, ss, n)
  <2>1. ASSUME NEW i \in 1 .. n
        PROVE  t[i] = t[i - 1] \o ss[i]
    <3>1. i \in 1 .. Len(new) /\ new[i] = ss[i]
      BY <1>1
    <3>2. t[i] = t[i - 1] \o new[i]
      BY <1>2, <3>1, Zenon DEF Partial
    <3> QED
      BY <3>1, <3>2, Zenon
  <2> QED
    BY <1>2, <2>1, Zenon DEF Partial
<1>7. t[n] = r[n]
  BY <1>1, <1>4, <1>6, PartialUnique
<1>8. t[n + 1] = t[n] \o s
  <2>1. ASSUME NEW i \in 1 .. Len(new)
        PROVE  t[i] = t[i - 1] \o new[i]
    BY <1>2, Zenon DEF Partial
  <2>2. n + 1 \in 1 .. Len(new) /\ n + 1 - 1 = n
    BY <1>1
  <2>3. \E i \in 1 .. Len(new) : i = n + 1 /\ i - 1 = n
    BY <2>2
  <2> QED
    BY <1>1, <2>1, <2>3
<1> QED
  BY <1>3, <1>5, <1>7, <1>8 DEF new

\* ss is h, followed by the n elements of rest.
IsCons(ss, h, rest, n) ==
    /\ Len(rest) = n /\ Len(ss) = n + 1 /\ ss[1] = h
    /\ \A i \in 1 .. n : ss[i + 1] = rest[i]

\* One more sequence is put in front of the others.
LEMMA FlattenCons ==
    ASSUME NEW S, NEW ss \in Seq(Seq(S)), NEW h \in Seq(S),
           NEW rest \in Seq(Seq(S)), NEW n \in Nat, IsCons(ss, h, rest, n)
    PROVE  FlattenSeq(ss) = h \o FlattenSeq(rest)
<1>0. IsAssociative(S)
  BY Associative
<1>a. /\ Len(rest) = n /\ Len(ss) = n + 1 /\ ss[1] = h
      /\ \A i \in 1 .. n : ss[i + 1] = rest[i]
  BY DEF IsCons
<1>1. PICK r \in [0 .. n + 1 -> Seq(S)] : Partial(r, ss, n + 1)
  BY <1>a, PartialExists
<1>2. PICK t \in [0 .. n -> Seq(S)] : Partial(t, rest, n)
  BY <1>a, PartialExists
<1>3. FlattenSeq(ss) = r[n + 1] /\ FlattenSeq(rest) = t[n]
  BY <1>a, <1>1, <1>2, FlattenIs
<1> DEFINE T == {i \in 0 .. n : r[i + 1] = h \o t[i]}
<1>4. ASSUME NEW i \in 1 .. n + 1
      PROVE  r[i] = r[i - 1] \o ss[i]
  BY <1>1, Zenon DEF Partial
<1>5. ASSUME NEW i \in 1 .. n
      PROVE  t[i] = t[i - 1] \o rest[i]
  BY <1>2, Zenon DEF Partial
<1>6. 0 \in T
  <2>1. \E i \in 1 .. n + 1 : i = 1 /\ i - 1 = 0
    OBVIOUS
  <2>2. r[1] = r[0] \o h
    BY <1>a, <1>4, <2>1
  <2>3. r[0] = << >> /\ t[0] = << >>
    BY <1>1, <1>2 DEF Partial
  <2>4. r[1] = h \o t[0]
    BY <2>2, <2>3, ConcatEmptySeq
  <2> QED
    BY <2>4
<1>7. ASSUME NEW i \in 1 .. n, i - 1 \in T
      PROVE  i \in T
  <2>1. /\ i + 1 \in 1 .. n + 1 /\ i + 1 - 1 = i /\ i - 1 + 1 = i
        /\ i - 1 \in 0 .. n /\ i \in 0 .. n
    OBVIOUS
  <2>2. r[i] = h \o t[i - 1]
    BY <1>7, <2>1
  <2>3. t[i - 1] \in Seq(S) /\ rest[i] \in Seq(S)
    BY <1>a, <2>1, SMTT(30)
  <2>4. \E j \in 1 .. n + 1 : j = i + 1 /\ j - 1 = i
    BY <2>1
  <2>5. r[i + 1] = r[i] \o ss[i + 1]
    BY <1>4, <2>4
  <2>6. r[i + 1] = (h \o t[i - 1]) \o rest[i]
    BY <1>a, <2>1, <2>2, <2>5
  <2>7. (h \o t[i - 1]) \o rest[i] = h \o (t[i - 1] \o rest[i])
    BY <1>0, <2>3 DEF IsAssociative
  <2>8. r[i + 1] = h \o t[i]
    BY <1>5, <2>6, <2>7, Zenon
  <2> QED
    BY <2>1, <2>8, Zenon
<1>8. 0 .. n \subseteq T
  <2> HIDE DEF T
  <2> QED
    BY <1>6, <1>7, InductionUpTo
<1>9. n \in 0 .. n
  OBVIOUS
<1> QED
  BY <1>3, <1>8, <1>9

\* The first sequence comes first.
LEMMA FlattenHeadTail ==
    ASSUME NEW S, NEW ss \in Seq(Seq(S)), ss # << >>
    PROVE  FlattenSeq(ss) = Head(ss) \o FlattenSeq(Tail(ss))
<1>1. /\ Tail(ss) \in Seq(Seq(S)) /\ Head(ss) \in Seq(S) /\ Head(ss) = ss[1]
      /\ Len(Tail(ss)) \in Nat /\ Len(ss) = Len(Tail(ss)) + 1
      /\ \A i \in 1 .. Len(Tail(ss)) : ss[i + 1] = Tail(ss)[i]
  BY HeadTailProperties
<1>2. IsCons(ss, Head(ss), Tail(ss), Len(Tail(ss)))
  BY <1>1 DEF IsCons
<1> DEFINE h == Head(ss)
           rest == Tail(ss)
           n == Len(rest)
<1>3. /\ h \in Seq(S) /\ rest \in Seq(Seq(S)) /\ n \in Nat
      /\ IsCons(ss, h, rest, n)
  BY <1>1, <1>2
<1> HIDE DEF h, rest, n
<1>4. FlattenSeq(ss) = h \o FlattenSeq(rest)
  BY <1>3, FlattenCons
<1> QED
  BY <1>4 DEF h, rest

(***************************************************************************)
(* How often an element is in a sequence.                                   *)
(***************************************************************************)
Positions(s, x) == {i \in DOMAIN s : s[i] = x}

\* There are finitely many, one more behind an element that is appended.
LEMMA PositionsAppend ==
    ASSUME NEW S, NEW s \in Seq(S), NEW x, NEW y \in S
    PROVE  /\ IsFiniteSet(Positions(s, x))
           /\ Cardinality(Positions(s, x)) \in Nat
           /\ Cardinality(Positions(Append(s, y), x)) =
                 Cardinality(Positions(s, x)) + IF y = x THEN 1 ELSE 0
<1> DEFINE n == Len(s)
           P == Positions(s, x)
           Q == Positions(Append(s, y), x)
<1>1. /\ n \in Nat /\ DOMAIN s = 1 .. n /\ DOMAIN Append(s, y) = 1 .. n + 1
      /\ Append(s, y)[n + 1] = y /\ \A i \in 1 .. n : Append(s, y)[i] = s[i]
  BY AppendProperties
<1>2. IsFiniteSet(P) /\ Cardinality(P) \in Nat
  <2>1. P \in SUBSET (1 .. n) /\ IsFiniteSet(1 .. n)
    BY <1>1, FS_Interval DEF Positions
  <2> HIDE DEF P, n
  <2> QED
    BY <2>1, FS_Subset, FS_CardinalityType
<1>3. n + 1 \notin P
  BY <1>1 DEF Positions
<1>4. Q = IF y = x THEN P \cup {n + 1} ELSE P
  <2>1. ASSUME NEW i \in 1 .. n + 1
        PROVE  Append(s, y)[i] = IF i = n + 1 THEN y ELSE s[i]
    BY <1>1
  <2>2. n + 1 \in 1 .. n + 1 /\ 1 .. n \subseteq 1 .. n + 1
        /\ \A i \in 1 .. n + 1 : i # n + 1 => i \in 1 .. n
        /\ n + 1 \notin 1 .. n
    BY <1>1
  <2> HIDE DEF n
  <2> QED
    BY <1>1, <2>1, <2>2 DEF Positions
<1> HIDE DEF P, Q, n
<1>5. Cardinality(P \cup {n + 1}) = Cardinality(P) + 1
  BY <1>2, <1>3, FS_AddElement
<1> QED
  BY <1>2, <1>4, <1>5 DEF P, Q

\* Without its head, a sequence has one position less of that element.
LEMMA PositionsTail ==
    ASSUME NEW S, NEW s \in Seq(S), NEW x, s # << >>
    PROVE  Cardinality(Positions(s, x)) =
              Cardinality(Positions(Tail(s), x)) + IF Head(s) = x THEN 1 ELSE 0
<1> DEFINE n == Len(s)
           P == Positions(s, x)
           Q == Positions(Tail(s), x)
           f == [i \in Q |-> i + 1]
<1>1. /\ n \in Nat /\ n # 0 /\ DOMAIN s = 1 .. n /\ DOMAIN Tail(s) = 1 .. n - 1
      /\ Head(s) = s[1] /\ \A i \in 1 .. n - 1 : Tail(s)[i] = s[i + 1]
      /\ Tail(s) \in Seq(S)
  BY HeadTailProperties
<1>2. IsFiniteSet(P) /\ IsFiniteSet(Q) /\ Cardinality(P) \in Nat
      /\ Cardinality(Q) \in Nat
  <2>1. P \in SUBSET (1 .. n) /\ IsFiniteSet(1 .. n)
        /\ Q \in SUBSET (1 .. n - 1) /\ IsFiniteSet(1 .. n - 1)
    BY <1>1, FS_Interval DEF Positions
  <2> HIDE DEF P, Q, n
  <2> QED
    BY <2>1, FS_Subset, FS_CardinalityType
<1>3. f \in Bijection(Q, P \ {1})
  <2>1. ASSUME NEW i \in Q
        PROVE  i + 1 \in P \ {1}
    BY <1>1 DEF Positions
  <2>2. ASSUME NEW j \in P \ {1}
        PROVE  \E i \in Q : f[i] = j
    <3>1. j - 1 \in Q /\ j - 1 + 1 = j
      BY <1>1 DEF Positions
    <3> QED
      BY <3>1
  <2>3. \A i, j \in Q : f[i] = f[j] => i = j
    BY <1>1 DEF Positions
  <2>4. f \in [Q -> P \ {1}]
    BY <2>1
  <2> HIDE DEF f, P, Q
  <2> QED
    BY <2>2, <2>3, <2>4, Fun_IsBij
<1>4. 1 \in P <=> Head(s) = x
  BY <1>1 DEF Positions
<1> HIDE DEF P, Q, f, n
<1>5. Cardinality(P \ {1}) = Cardinality(Q)
  BY <1>2, <1>3, FS_Bijection DEF ExistsBijection
<1>6. Cardinality(P \ {1}) = IF 1 \in P THEN Cardinality(P) - 1
                             ELSE Cardinality(P)
  BY <1>2, FS_RemoveElement
<1> QED
  BY <1>2, <1>4, <1>5, <1>6 DEF P, Q

(***************************************************************************)
(* Concatenation under a name: the provers reason about it by these lemmas. *)
(***************************************************************************)
Cat(s, t) == s \o t

\* The laws of concatenation.
LEMMA CatLaws ==
    ASSUME NEW S
    PROVE  /\ \A s, t \in Seq(S) : Cat(s, t) \in Seq(S)
           /\ \A s, t, u \in Seq(S) : Cat(Cat(s, t), u) = Cat(s, Cat(t, u))
           /\ \A s \in Seq(S) : Cat(s, << >>) = s /\ Cat(<< >>, s) = s
<1>1. IsAssociative(S)
  BY Associative
<1>2. ASSUME NEW s \in Seq(S), NEW t \in Seq(S)
      PROVE  s \o t \in Seq(S)
  BY ConcatProperties
<1>3. ASSUME NEW s \in Seq(S)
      PROVE  s \o << >> = s /\ << >> \o s = s
  BY ConcatEmptySeq
<1> QED
  BY <1>1, <1>2, <1>3 DEF Cat, IsAssociative

\* An element is appended to the second of two sequences.
LEMMA CatAppend ==
    ASSUME NEW S, NEW s \in Seq(S), NEW t \in Seq(S), NEW x \in S
    PROVE  /\ Append(t, x) \in Seq(S)
           /\ Append(Cat(s, t), x) = Cat(s, Append(t, x))
<1>1. /\ << x >> \in Seq(S) /\ Append(t, x) = Cat(t, << x >>)
      /\ Append(t, x) \in Seq(S)
  BY AppendIsConcat DEF Cat
<1>2. Cat(s, t) \in Seq(S) /\ Cat(Cat(s, t), << x >>) = Cat(s, Cat(t, << x >>))
  <2> DEFINE u == << x >>
  <2>1. u \in Seq(S)
    BY <1>1
  <2> HIDE DEF u
  <2>2. Cat(Cat(s, t), u) = Cat(s, Cat(t, u)) /\ Cat(s, t) \in Seq(S)
    BY <2>1, CatLaws
  <2> QED
    BY <2>2 DEF u
<1>3. Append(Cat(s, t), x) = Cat(Cat(s, t), << x >>)
  BY <1>2, AppendIsConcat DEF Cat
<1> QED
  BY <1>1, <1>2, <1>3

\* A sequence is its head and its tail.
LEMMA CatHeadTail ==
    ASSUME NEW S, NEW s \in Seq(S), s # << >>
    PROVE  /\ << Head(s) >> \in Seq(S) /\ Tail(s) \in Seq(S)
           /\ s = Cat(<< Head(s) >>, Tail(s))
<1>1. << Head(s) >> \in Seq(S) /\ Tail(s) \in Seq(S)
  OBVIOUS
<1>2. << Head(s) >> \o Tail(s) = s
  <2> DEFINE h == << Head(s) >>
             t == Tail(s)
  <2>1. /\ Len(s) \in Nat \ {0} /\ Len(h) = 1 /\ h[1] = s[1]
        /\ Len(t) = Len(s) - 1 /\ \A i \in 1 .. Len(t) : t[i] = s[i + 1]
    BY HeadTailProperties
  <2>2. h \in Seq(S) /\ t \in Seq(S)
    BY <1>1
  <2> HIDE DEF h, t
  <2>a. /\ h \o t \in Seq(S) /\ Len(h \o t) = Len(h) + Len(t)
        /\ \A i \in 1 .. Len(h) + Len(t) : (h \o t)[i] =
              IF i <= Len(h) THEN h[i] ELSE t[i - Len(h)]
    BY <2>2, ConcatProperties
  <2>3. /\ h \o t \in Seq(S) /\ Len(h \o t) = Len(s)
        /\ \A i \in 1 .. Len(h) + Len(t) : (h \o t)[i] =
              IF i <= Len(h) THEN h[i] ELSE t[i - Len(h)]
    BY <2>1, <2>a
  <2>4. ASSUME NEW i \in 1 .. Len(s)
        PROVE  (h \o t)[i] = s[i]
    <3>1. CASE i = 1
      BY <2>1, <2>3, <3>1
    <3>2. CASE i # 1
      <4>1. i - 1 \in 1 .. Len(t) /\ ~(i <= 1) /\ i - 1 + 1 = i
        BY <2>1, <3>2
      <4>2. (h \o t)[i] = t[i - 1]
        BY <2>1, <2>3, <4>1
      <4> QED
        BY <2>1, <4>1, <4>2
    <3> QED
      BY <3>1, <3>2
  <2>5. h \o t = s
    BY <2>3, <2>4, SeqEqual
  <2> QED
    BY <2>5 DEF h, t
<1> QED
  BY <1>1, <1>2 DEF Cat

\* c is s and then t, as its subsequences tell.
AreParts(c, s, t) ==
    /\ Len(c) = Len(s) + Len(t)
    /\ SubSeq(c, 1, Len(s)) = s
    /\ SubSeq(c, Len(s) + 1, Len(c)) = t

\* The elements of c are those of s and then those of t.
IsCat(c, s, t, S) ==
    /\ c \in Seq(S) /\ Len(c) = Len(s) + Len(t)
    /\ \A i \in 1 .. Len(s) : c[i] = s[i]
    /\ \A i \in 1 .. Len(t) : c[Len(s) + i] = t[i]

\* A concatenation has the elements of both sequences.
LEMMA CatIs ==
    ASSUME NEW S, NEW s \in Seq(S), NEW t \in Seq(S)
    PROVE  IsCat(Cat(s, t), s, t, S)
<1> DEFINE m == Len(s)
           n == Len(t)
           c == Cat(s, t)
<1>1. /\ m \in Nat /\ n \in Nat /\ c \in Seq(S) /\ Len(c) = m + n
      /\ \A i \in 1 .. m + n : c[i] = IF i <= m THEN s[i] ELSE t[i - m]
  BY ConcatProperties DEF Cat
<1> HIDE DEF c, m, n
<1>2. \A i \in 1 .. m : c[i] = s[i]
  BY <1>1
<1>3. ASSUME NEW i \in 1 .. n
      PROVE  c[m + i] = t[i]
  <2> DEFINE l == m + i
  <2>1. l \in 1 .. m + n /\ ~(l <= m) /\ l - m = i
    BY <1>1
  <2> HIDE DEF l
  <2>2. c[l] = t[l - m]
    BY <1>1, <2>1
  <2> QED
    BY <2>1, <2>2 DEF l
<1> QED
  BY <1>1, <1>2, <1>3 DEF IsCat, c, m, n

\* A sequence of elements of S is one of elements of any larger set.
LEMMA SeqOfLarger ==
    ASSUME NEW S, NEW T, S \subseteq T, NEW s \in Seq(S)
    PROVE  s \in Seq(T)
<1>1. Len(s) \in Nat /\ s \in [1 .. Len(s) -> S]
  OBVIOUS
<1>2. s \in [1 .. Len(s) -> T]
  BY <1>1
<1> QED
  BY <1>1, <1>2, SeqDef

\* The two parts of a concatenation are its subsequences.
LEMMA CatParts ==
    ASSUME NEW S, NEW s \in Seq(S), NEW t \in Seq(S)
    PROVE  AreParts(Cat(s, t), s, t)
<1> DEFINE m == Len(s)
           n == Len(t)
           c == Cat(s, t)
<1>1. /\ m \in Nat /\ n \in Nat /\ c \in Seq(S) /\ Len(c) = m + n
      /\ \A i \in 1 .. m + n : c[i] = IF i <= m THEN s[i] ELSE t[i - m]
  BY ConcatProperties DEF Cat
<1>2. \A i \in 1 .. m + n : c[i] \in S
  BY <1>1
<1> HIDE DEF c
<1>3. SubSeq(c, 1, m) = s
  <2>1. /\ SubSeq(c, 1, m) \in Seq(S)
        /\ Len(SubSeq(c, 1, m)) = IF 1 <= m THEN m - 1 + 1 ELSE 0
        /\ \A i \in 1 .. m - 1 + 1 : SubSeq(c, 1, m)[i] = c[1 + i - 1]
    <3>1. \A i \in 1 .. m : c[i] \in S
      BY <1>1, <1>2
    <3> HIDE DEF m
    <3> QED
      BY <1>1, <3>1, SubSeqProperties
  <2>2. Len(SubSeq(c, 1, m)) = m
    BY <1>1, <2>1
  <2>3. \A i \in 1 .. m : SubSeq(c, 1, m)[i] = s[i]
    BY <1>1, <2>1
  <2> QED
    BY <2>1, <2>2, <2>3, SeqEqual
<1>4. SubSeq(c, m + 1, m + n) = t
  <2>1. /\ SubSeq(c, m + 1, m + n) \in Seq(S)
        /\ Len(SubSeq(c, m + 1, m + n)) =
              IF m + 1 <= m + n THEN m + n - (m + 1) + 1 ELSE 0
        /\ \A i \in 1 .. m + n - (m + 1) + 1 :
              SubSeq(c, m + 1, m + n)[i] = c[m + 1 + i - 1]
    <3>1. \A i \in m + 1 .. m + n : c[i] \in S
      BY <1>1, <1>2
    <3> HIDE DEF m, n
    <3> QED
      BY <1>1, <3>1, SubSeqProperties
  <2>2. Len(SubSeq(c, m + 1, m + n)) = n
    BY <1>1, <2>1
  <2>3. ASSUME NEW i \in 1 .. n
        PROVE  SubSeq(c, m + 1, m + n)[i] = t[i]
    <3>1. /\ i \in 1 .. m + n - (m + 1) + 1 /\ m + 1 + i - 1 = m + i
          /\ m + i \in 1 .. m + n /\ ~(m + i <= m) /\ m + i - m = i
      BY <1>1
    <3> QED
      BY <1>1, <2>1, <3>1
  <2> HIDE DEF m, n
  <2> QED
    BY <1>1, <2>1, <2>2, <2>3, SeqEqual DEF n
<1> QED
  BY <1>1, <1>3, <1>4 DEF AreParts, c

(***************************************************************************)
(* The folds of the community modules run through subsets of the positions, *)
(* from the largest one down.                                               *)
(***************************************************************************)
IsFold(f, b, step, n) ==
    \A s \in SUBSET (1 .. n) :
       f[s] = IF s = {} THEN b ELSE step[Max(s)][f[s \ {Max(s)}]]

\* The largest of the numbers up to n is n, of others it is in the set.
LEMMA MaxIs ==
    ASSUME NEW n \in Nat, NEW s \in SUBSET (1 .. n)
    PROVE  /\ n \in s => Max(s) = n
           /\ s # {} => Max(s) \in s
<1>1. ASSUME NEW m \in s, \A y \in s : m >= y
      PROVE  Max(s) = m
  <2>1. Max(s) \in s /\ \A y \in s : Max(s) >= y
    BY <1>1 DEF Max
  <2> DEFINE x == Max(s)
  <2>2. x \in s /\ \A y \in s : x >= y
    BY <2>1
  <2> HIDE DEF x
  <2>3. x >= m /\ m >= x /\ x \in Nat /\ m \in Nat
    BY <1>1, <2>2
  <2>4. x = m
    BY <2>3
  <2> QED
    BY <2>4 DEF x
<1>2. ASSUME s # {}
      PROVE  \E m \in s : \A y \in s : m >= y
  <2> DEFINE T == {n - y : y \in s}
             R == OpToRel(<, Nat)
  <2>1. T # {} /\ T \subseteq Nat
    <3>1. \A y \in s : n - y \in Nat
      OBVIOUS
    <3> QED
      BY <1>2, <3>1
  <2>2. PICK x \in T : \A y \in T : ~(<<y, x>> \in R)
    <3> HIDE DEF T, R
    <3> QED
      BY <2>1, NatLessThanWellFounded, WFMin DEF R
  <2>3. PICK m \in s : x = n - m
    OBVIOUS
  <2>4. ASSUME NEW y \in s
        PROVE  m >= y
    <3>1. n - y \in T /\ n - y \in Nat /\ x \in Nat
      BY <2>1
    <3>2. ~(n - y < x)
      BY <2>2, <3>1 DEF OpToRel
    <3> QED
      BY <2>3, <3>2
  <2> QED
    BY <2>4
<1>3. n \in s => Max(s) = n
  <2>1. \A y \in s : n >= y
    OBVIOUS
  <2> QED
    BY <1>1, <2>1
<1> QED
  BY <1>1, <1>2, <1>3

\* Every fold is defined.
LEMMA FoldExists ==
    ASSUME NEW V, NEW b \in V, NEW n \in Nat, NEW step \in [1 .. n -> [V -> V]]
    PROVE  \E f \in [SUBSET (1 .. n) -> V] : IsFold(f, b, step, n)
<1> DEFINE Ex(m) == \E f \in [SUBSET (1 .. m) -> V] : IsFold(f, b, step, m)
           S == {m \in Nat : m <= n => Ex(m)}
<1>1. 0 \in S
  <2> DEFINE f == [s \in SUBSET (1 .. 0) |-> b]
  <2>1. f \in [SUBSET (1 .. 0) -> V]
    OBVIOUS
  <2>2. IsFold(f, b, step, 0)
    <3>1. 1 .. 0 = {}
      OBVIOUS
    <3> QED
      BY <3>1 DEF IsFold
  <2> QED
    BY <2>1, <2>2
<1>2. ASSUME NEW m \in Nat, m \in S
      PROVE  m + 1 \in S
  <2>1. SUFFICES ASSUME m + 1 <= n PROVE Ex(m + 1)
    <3> HIDE DEF Ex
    <3> QED
      OBVIOUS
  <2>a. Ex(m)
    <3> HIDE DEF Ex
    <3> QED
      BY <1>2, <2>1
  <2>2. PICK f \in [SUBSET (1 .. m) -> V] : IsFold(f, b, step, m)
    BY <2>a
  <2> DEFINE k == m + 1
             D == SUBSET (1 .. k)
             g == [s \in D |-> IF k \in s THEN step[k][f[s \ {k}]] ELSE f[s]]
  <2>3. /\ step[k] \in [V -> V]
        /\ \A s \in D : s \ {k} \in SUBSET (1 .. m)
        /\ \A s \in D : k \notin s => s \in SUBSET (1 .. m)
        /\ k \in Nat
    BY <2>1
  <2>4. g \in [D -> V]
    <3> HIDE DEF k, D
    <3>1. ASSUME NEW s \in D
          PROVE (IF k \in s THEN step[k][f[s \ {k}]] ELSE f[s]) \in V
      BY <2>3
    <3> QED
      BY <3>1
  <2>5. ASSUME NEW s \in D
        PROVE  g[s] = IF s = {} THEN b ELSE step[Max(s)][g[s \ {Max(s)}]]
    <3>1. CASE k \in s
      <4>1. Max(s) = k
        BY <2>3, <3>1, MaxIs
      <4>2. g[s \ {k}] = f[s \ {k}]
        OBVIOUS
      <4>3. g[s] = step[k][f[s \ {k}]]
        BY <3>1
      <4> QED
        BY <3>1, <4>1, <4>2, <4>3
    <3>2. CASE k \notin s
      <4>1. s \in SUBSET (1 .. m) /\ g[s] = f[s]
        BY <2>3, <3>2
      <4>2. CASE s = {}
        BY <4>1, <4>2, <2>2 DEF IsFold
      <4>3. CASE s # {}
        <5>1. Max(s) \in s
          BY <4>1, <4>3, MaxIs
        <5>2. s \ {Max(s)} \in D /\ k \notin s \ {Max(s)}
          BY <3>2
        <5>3. g[s \ {Max(s)}] = f[s \ {Max(s)}]
          BY <5>2
        <5>4. f[s] = step[Max(s)][f[s \ {Max(s)}]]
          BY <2>2, <4>1, <4>3 DEF IsFold
        <5> HIDE DEF g
        <5> QED
          BY <4>1, <4>3, <5>3, <5>4
      <4> QED
        BY <4>2, <4>3
    <3> QED
      BY <3>1, <3>2
  <2>6. IsFold(g, b, step, k)
    <3> HIDE DEF g
    <3> QED
      BY <2>5 DEF IsFold
  <2> QED
    BY <2>4, <2>6
<1>3. Ex(n)
  <2> HIDE DEF S
  <2>1. n \in S
    BY <1>1, <1>2, Induction
  <2> HIDE DEF Ex
  <2> QED
    BY <2>1 DEF S
<1> QED
  BY <1>3

\* g is computed as a fold is, wherever its values are in V.
IsFoldOn(g, b, step, n, V) ==
    /\ g[{}] = b
    /\ \A s \in SUBSET (1 .. n) :
          s # {} /\ g[s \ {Max(s)}] \in V =>
             g[s] = step[Max(s)][g[s \ {Max(s)}]]

\* It has the values of the chain.
LEMMA FoldComputes ==
    ASSUME NEW V, NEW n \in Nat, NEW g, NEW b, NEW step,
           NEW r \in [0 .. n -> V], Chain(r, b, step, n),
           IsFoldOn(g, b, step, n, V)
    PROVE  g[1 .. n] = r[n]
<1> DEFINE S == {i \in 0 .. n : g[1 .. i] = r[i]}
<1>1. 0 \in S
  <2>1. 1 .. 0 = {}
    OBVIOUS
  <2> QED
    BY <2>1 DEF Chain, IsFoldOn
<1>2. ASSUME NEW i \in 1 .. n, i - 1 \in S
      PROVE  i \in S
  <2>1. /\ 1 .. i \in SUBSET (1 .. n) /\ 1 .. i # {} /\ i \in 1 .. i
        /\ (1 .. i) \ {i} = 1 .. i - 1
    <3>1. 1 .. i \in SUBSET (1 .. n) /\ 1 .. i # {} /\ i \in 1 .. i
      OBVIOUS
    <3>2. (1 .. i) \ {i} = 1 .. i - 1
      OBVIOUS
    <3> QED
      BY <3>1, <3>2
  <2>a. i - 1 \in 0 .. n
    OBVIOUS
  <2>2. Max(1 .. i) = i
    BY <2>1, MaxIs
  <2>3. g[1 .. i - 1] = r[i - 1] /\ r[i - 1] \in V
    BY <1>2, <2>a
  <2>4. g[1 .. i] = step[i][g[1 .. i - 1]]
    BY <2>1, <2>2, <2>3 DEF IsFoldOn
  <2> QED
    BY <2>3, <2>4 DEF Chain
<1>3. 0 .. n \subseteq S
  <2> HIDE DEF S
  <2> QED
    BY <1>1, <1>2, InductionUpTo
<1> QED
  BY <1>3

(***************************************************************************)
(* Where the elements of the parts are in a concatenation.                  *)
(***************************************************************************)

\* Part i of ss is in the concatenation behind the first i - 1.
PartAt(ss, r, i) ==
    /\ Len(r[i - 1]) \in Nat /\ Len(ss[i]) \in Nat
    /\ Len(r[i]) = Len(r[i - 1]) + Len(ss[i])
    /\ Len(r[i]) <= Len(FlattenSeq(ss))
    /\ \A j \in 1 .. Len(ss[i]) :
          FlattenSeq(ss)[Len(r[i - 1]) + j] = ss[i][j]

\* Part i begins where the first i - 1 parts end.
LEMMA FlattenAt ==
    ASSUME NEW S, NEW ss \in Seq(Seq(S)),
           NEW r \in [0 .. Len(ss) -> Seq(S)], Partial(r, ss, Len(ss)),
           NEW i \in 1 .. Len(ss)
    PROVE  PartAt(ss, r, i)
<1> DEFINE n == Len(ss)
           a == Len(r[i - 1])
           m == Len(ss[i])
           Has(k) == /\ Len(r[k]) >= a + m
                     /\ \A j \in 1 .. m : r[k][a + j] = ss[i][j]
           T == {k \in 0 .. n : k >= i => Has(k)}
<1>0. n \in Nat /\ i \in 1 .. n /\ FlattenSeq(ss) = r[n]
  BY FlattenIs
<1>a. \A k \in 1 .. n : k - 1 \in 0 .. n /\ k \in 0 .. n
  BY <1>0
<1>b. \A k \in 1 .. n : ss[k] \in Seq(S) /\ Len(ss[k]) \in Nat
  OBVIOUS
<1>c. \A k \in 0 .. n : r[k] \in Seq(S) /\ Len(r[k]) \in Nat
  BY SMTT(30)
<1> HIDE DEF n
<1>1. a \in Nat /\ m \in Nat
  BY <1>0, <1>a, <1>b, <1>c
<1>2. ASSUME NEW k \in 1 .. n
      PROVE  /\ Len(r[k]) = Len(r[k - 1]) + Len(ss[k])
             /\ \A j \in 1 .. Len(r[k - 1]) + Len(ss[k]) :
                   r[k][j] = IF j <= Len(r[k - 1]) THEN r[k - 1][j]
                             ELSE ss[k][j - Len(r[k - 1])]
  <2>1. r[k - 1] \in Seq(S) /\ ss[k] \in Seq(S)
    BY <1>a, <1>b, <1>c
  <2>2. r[k] = r[k - 1] \o ss[k]
    BY Zenon DEF Partial, n
  <2> DEFINE u == r[k - 1]
             v == ss[k]
  <2>3. u \in Seq(S) /\ v \in Seq(S) /\ r[k] = u \o v
    BY <2>1, <2>2
  <2> HIDE DEF u, v
  <2>4. /\ Len(u \o v) = Len(u) + Len(v)
        /\ \A j \in 1 .. Len(u) + Len(v) :
              (u \o v)[j] = IF j <= Len(u) THEN u[j] ELSE v[j - Len(u)]
    BY <2>3, ConcatProperties
  <2> QED
    BY <2>3, <2>4 DEF u, v
<1> HIDE DEF a, m
<1>3. 0 \in T
  BY <1>0
<1>4. ASSUME NEW k \in 1 .. n, k - 1 \in T
      PROVE  k \in T
  <2>0. /\ Len(r[k - 1]) \in Nat /\ Len(ss[k]) \in Nat
        /\ Len(r[k]) = Len(r[k - 1]) + Len(ss[k])
    BY <1>2, <1>a, <1>b, <1>c
  <2>1. CASE k < i
    BY <1>0, <1>a, <2>1
  <2>2. CASE k = i
    <3>1. /\ Len(r[k]) = a + m
          /\ \A j \in 1 .. a + m : r[k][j] = IF j <= a THEN r[i - 1][j]
                                             ELSE ss[i][j - a]
      BY <1>2, <2>2 DEF a, m
    <3>2. ASSUME NEW j \in 1 .. m
          PROVE  r[k][a + j] = ss[i][j]
      <4> DEFINE l == a + j
      <4>2. l \in 1 .. a + m /\ ~(l <= a) /\ l - a = j
        BY <1>1
      <4> HIDE DEF l
      <4>3. r[k][l] = ss[i][l - a]
        BY <3>1, <4>2
      <4> QED
        BY <4>2, <4>3 DEF l
    <3>3. Has(k)
      BY <1>1, <3>1, <3>2
    <3> QED
      BY <1>a, <3>3
  <2>3. CASE k > i
    <3>0. k - 1 >= i
      BY <1>0, <2>3
    <3>1. Has(k - 1)
      <4> HIDE DEF Has
      <4> QED
        BY <1>4, <3>0
    <3>3. ASSUME NEW j \in 1 .. m
          PROVE  r[k][a + j] = ss[i][j]
      <4> DEFINE b == Len(r[k - 1])
                 c == Len(ss[k])
      <4>a. b >= a + m
        BY <3>1
      <4> HIDE DEF b, c
      <4>1. a + j \in 1 .. b + c /\ a + j <= b
        <5>1. b \in Nat /\ c \in Nat
          BY <2>0 DEF b, c
        <5> QED
          BY <1>1, <4>a, <5>1
      <4>2. r[k][a + j] = r[k - 1][a + j]
        BY <1>2, <4>1 DEF b, c
      <4> QED
        BY <3>1, <4>2
    <3>4. Len(r[k]) >= a + m
      <4> DEFINE b == Len(r[k - 1])
                 c == Len(ss[k])
      <4>1. b \in Nat /\ c \in Nat /\ Len(r[k]) = b + c /\ b >= a + m
        BY <2>0, <3>1
      <4> HIDE DEF b, c
      <4> QED
        BY <1>1, <4>1
    <3>5. Has(k)
      BY <3>3, <3>4
    <3> QED
      BY <1>a, <3>5
  <2> QED
    BY <1>0, <2>1, <2>2, <2>3
<1>5. 0 .. n \subseteq T
  <2> HIDE DEF T
  <2> QED
    BY <1>0, <1>3, <1>4, InductionUpTo
<1>6. Has(n)
  <2>1. n \in T /\ n >= i
    BY <1>0, <1>5
  <2> HIDE DEF Has
  <2> QED
    BY <2>1
<1>8. Len(r[i]) = a + m
  BY <1>0, <1>2 DEF a, m
<1> QED
  BY <1>0, <1>1, <1>6, <1>8 DEF a, m, PartAt

\* c has the elements of ss, part i behind w * (i - 1) of them.
IsEven(c, ss, w, S) ==
    /\ c \in Seq(S) /\ Len(c) = w * Len(ss)
    /\ \A i \in 1 .. Len(ss) : \A j \in 1 .. w :
          c[w * (i - 1) + j] = ss[i][j]

\* Of parts of the same length w, the concatenation has the elements there.
LEMMA FlattenEven ==
    ASSUME NEW S, NEW ss \in Seq(Seq(S)), NEW w \in Nat,
           \A i \in 1 .. Len(ss) : Len(ss[i]) = w
    PROVE  IsEven(FlattenSeq(ss), ss, w, S)
<1> DEFINE n == Len(ss)
<1>0. n \in Nat
  OBVIOUS
<1>1. PICK r \in [0 .. Len(ss) -> Seq(S)] : Partial(r, ss, Len(ss))
  BY PartialExists
<1>2. ASSUME NEW i \in 1 .. n
      PROVE  /\ Len(r[i - 1]) \in Nat
             /\ Len(r[i]) = Len(r[i - 1]) + w
             /\ \A j \in 1 .. w :
                   FlattenSeq(ss)[Len(r[i - 1]) + j] = ss[i][j]
  <2>1. Len(ss[i]) = w
    OBVIOUS
  <2>2. PartAt(ss, r, i)
    BY <1>1, FlattenAt
  <2> QED
    BY <2>1, <2>2 DEF PartAt
<1>3. FlattenSeq(ss) = r[n] /\ r[n] \in Seq(S)
  BY <1>0, <1>1, FlattenIs
<1> HIDE DEF n
<1> DEFINE T == {i \in 0 .. n : Len(r[i]) = w * i}
<1>4. 0 \in T
  BY <1>0, <1>1 DEF Partial
<1>5. ASSUME NEW i \in 1 .. n, i - 1 \in T
      PROVE  i \in T
  <2>1. w * i = w * (i - 1) + w
    BY <1>0
  <2>2. Len(r[i - 1]) = w * (i - 1) /\ Len(r[i]) = Len(r[i - 1]) + w
    BY <1>2, <1>5
  <2>3. Len(r[i]) = w * i
    BY <2>1, <2>2
  <2> QED
    BY <2>3
<1>6. 0 .. n \subseteq T
  <2> HIDE DEF T
  <2> QED
    BY <1>0, <1>4, <1>5, InductionUpTo
<1>7. ASSUME NEW i \in 1 .. n, NEW j \in 1 .. w
      PROVE  FlattenSeq(ss)[w * (i - 1) + j] = ss[i][j]
  <2>1. i - 1 \in 0 .. n
    BY <1>0
  <2>2. i - 1 \in T
    BY <1>6, <2>1
  <2> QED
    BY <1>2, <2>2
<1>8. n \in T
  BY <1>0, <1>6
<1> QED
  BY <1>3, <1>7, <1>8 DEF n, IsEven
(***************************************************************************)
(* Folds from the other end run from the smallest position up.              *)
(***************************************************************************)

\* The smallest of the numbers from k on is k, of others it is in the set.
LEMMA MinIs ==
    ASSUME NEW k \in Nat, NEW s \in SUBSET {i \in Nat : i >= k}
    PROVE  /\ k \in s => Min(s) = k
           /\ s # {} => Min(s) \in s
<1>1. ASSUME NEW m \in s, \A y \in s : m <= y
      PROVE  Min(s) = m
  <2>1. Min(s) \in s /\ \A y \in s : Min(s) <= y
    BY <1>1 DEF Min
  <2> DEFINE x == Min(s)
  <2>2. x \in s /\ \A y \in s : x <= y
    BY <2>1
  <2> HIDE DEF x
  <2>3. x <= m /\ m <= x /\ x \in Nat /\ m \in Nat
    BY <1>1, <2>2
  <2>4. x = m
    BY <2>3
  <2> QED
    BY <2>4 DEF x
<1>2. ASSUME s # {}
      PROVE  \E m \in s : \A y \in s : m <= y
  <2> DEFINE R == OpToRel(<, Nat)
  <2>1. s \subseteq Nat
    OBVIOUS
  <2>2. PICK m \in s : \A y \in s : ~(<<y, m>> \in R)
    <3> HIDE DEF R
    <3> QED
      BY <1>2, <2>1, NatLessThanWellFounded, WFMin DEF R
  <2>3. ASSUME NEW y \in s
        PROVE  m <= y
    <3>1. m \in Nat /\ y \in Nat
      BY <2>1
    <3>2. ~(y < m)
      BY <2>2, <3>1 DEF OpToRel
    <3> QED
      BY <3>1, <3>2
  <2> QED
    BY <2>3
<1>3. k \in s => Min(s) = k
  <2>1. \A y \in s : k <= y
    OBVIOUS
  <2> QED
    BY <1>1, <2>1
<1> QED
  BY <1>1, <1>2, <1>3

\* A subsequence up to the end begins with its first element.
LEMMA SubSeqCons ==
    ASSUME NEW S, NEW s \in Seq(S), NEW i \in 1 .. Len(s)
    PROVE  Cat(<< s[i] >>, SubSeq(s, i + 1, Len(s))) = SubSeq(s, i, Len(s))
<1> DEFINE n == Len(s)
           t == SubSeq(s, i + 1, n)
           u == SubSeq(s, i, n)
           h == << s[i] >>
           c == Cat(h, t)
<1>1. n \in Nat /\ \A k \in 1 .. n : s[k] \in S
  OBVIOUS
<1> HIDE DEF n
<1>2. h \in Seq(S) /\ Len(h) = 1 /\ h[1] = s[i]
  BY DEF n
<1>3. /\ u \in Seq(S) /\ Len(u) = n - i + 1
      /\ \A k \in 1 .. n - i + 1 : u[k] = s[i + k - 1]
  <2>1. \A k \in i .. n : s[k] \in S
    BY <1>1 DEF n
  <2>2. /\ u \in Seq(S) /\ Len(u) = IF i <= n THEN n - i + 1 ELSE 0
        /\ \A k \in 1 .. n - i + 1 : u[k] = s[i + k - 1]
    BY <1>1, <2>1, SubSeqProperties DEF n
  <2> QED
    BY <1>1, <2>2 DEF n
<1>4. /\ t \in Seq(S) /\ Len(t) = n - i
      /\ \A k \in 1 .. n - i : t[k] = s[i + k]
  <2>0. i \in 1 .. n
    BY DEF n
  <2> DEFINE j == i + 1
  <2>1. /\ j \in 1 .. n + 1 /\ n - j + 1 = n - i /\ n - i \in Nat
        /\ (IF j <= n THEN n - j + 1 ELSE 0) = n - i
    BY <1>1, <2>0
  <2>2. \A k \in j .. n : s[k] \in S
    BY <1>1, <2>1
  <2>a. \A k \in 1 .. n - i : j + k - 1 = i + k
    BY <1>1, <2>0
  <2> DEFINE v == SubSeq(s, j, n)
  <2> HIDE DEF j
  <2>3. /\ v \in Seq(S) /\ Len(v) = IF j <= n THEN n - j + 1 ELSE 0
        /\ \A k \in 1 .. n - j + 1 : v[k] = s[j + k - 1]
    BY <1>1, <2>1, <2>2, SubSeqProperties DEF n
  <2> HIDE DEF v
  <2>4. Len(v) = n - i /\ \A k \in 1 .. n - i : v[k] = s[i + k]
    BY <2>1, <2>3, <2>a
  <2>5. t = v
    BY DEF v, j
  <2> HIDE DEF t
  <2> QED
    BY <2>3, <2>4, <2>5
<1> HIDE DEF h, t
<1>5. IsCat(c, h, t, S)
  BY <1>2, <1>4, CatIs
<1> HIDE DEF c, u
<1>6. ASSUME NEW k \in 1 .. n - i + 1
      PROVE  c[k] = u[k]
  <2>0. i \in 1 .. n
    BY DEF n
  <2>1. CASE k = 1
    <3>1. c[1] = h[1] /\ u[1] = s[i + 1 - 1] /\ i + 1 - 1 = i
      BY <1>1, <1>2, <1>3, <1>5, <2>0, SMTT(30) DEF IsCat
    <3> QED
      BY <1>2, <2>1, <3>1
  <2>2. CASE k # 1
    <3> DEFINE l == k - 1
    <3>1. l \in 1 .. n - i /\ k = 1 + l /\ i + k - 1 = i + l
      BY <1>1, <2>0, <2>2
    <3> HIDE DEF l
    <3>2. c[1 + l] = t[l] /\ t[l] = s[i + l]
      BY <1>2, <1>4, <1>5, <3>1 DEF IsCat
    <3> QED
      BY <1>3, <3>1, <3>2
  <2> QED
    BY <2>1, <2>2
<1>7. c \in Seq(S) /\ Len(c) = n - i + 1 /\ i \in 1 .. n
  BY <1>1, <1>2, <1>4, <1>5 DEF IsCat, n
<1>8. c = u
  BY <1>1, <1>3, <1>6, <1>7, SeqEqual
<1> QED
  BY <1>8 DEF c, h, t, u, n
=============================================================================
