----------------------- MODULE Multiplexer_refinement -----------------------
(***************************************************************************)
(* Proof that the multiplexer implements SduTransport: that the shift of    *)
(* addSduPosition is an append to one of two FIFO channels, and that a PDU  *)
(* carries the whole of both.                                               *)
(***************************************************************************)
EXTENDS Multiplexer_proofs

\* The two channels of a queue whose controls come first.
LEMMA Channels ==
    ASSUME NEW q \in QueueType, ControlsInFront(q)
    PROVE  /\ ControlsOf(q) \in Seq(Sdu) /\ DataOf(q) \in Seq(Sdu)
           /\ Len(ControlsOf(q)) = q.controlOffset
           /\ Len(DataOf(q)) = Len(q.sdus) - q.controlOffset
           /\ \A i \in 1 .. q.controlOffset : ControlsOf(q)[i] = q.sdus[i]
           /\ \A i \in 1 .. Len(q.sdus) - q.controlOffset :
                 DataOf(q)[i] = q.sdus[q.controlOffset + i]
           /\ ControlsOf(q) \o DataOf(q) = q.sdus
<1> DEFINE n == Len(q.sdus)
           c == q.controlOffset
<1>1. q.sdus \in Seq(Sdu) /\ n \in Nat /\ c \in Nat /\ c <= n
  BY DEF QueueType, ControlsInFront
<1>2. \A i \in 1 .. n : q.sdus[i] \in Sdu
  BY <1>1
<1>3. /\ SubSeq(q.sdus, 1, c) \in Seq(Sdu)
      /\ Len(SubSeq(q.sdus, 1, c)) = c
      /\ \A i \in 1 .. c : SubSeq(q.sdus, 1, c)[i] = q.sdus[i]
  <2>1. \A i \in 1 .. c : q.sdus[i] \in Sdu
    BY <1>1, <1>2
  <2>2. /\ SubSeq(q.sdus, 1, c) \in Seq(Sdu)
        /\ Len(SubSeq(q.sdus, 1, c)) = IF 1 <= c THEN c - 1 + 1 ELSE 0
        /\ \A i \in 1 .. c - 1 + 1 : SubSeq(q.sdus, 1, c)[i] = q.sdus[1 + i - 1]
    <3> HIDE DEF c
    <3> QED
      BY <1>1, <2>1, SubSeqProperties
  <2> HIDE DEF c
  <2> QED
    BY <1>1, <2>2
<1>4. /\ SubSeq(q.sdus, c + 1, n) \in Seq(Sdu)
      /\ Len(SubSeq(q.sdus, c + 1, n)) = n - c
      /\ \A i \in 1 .. n - c : SubSeq(q.sdus, c + 1, n)[i] = q.sdus[c + i]
  <2>1. \A i \in c + 1 .. n : q.sdus[i] \in Sdu
    BY <1>1, <1>2
  <2>2. /\ SubSeq(q.sdus, c + 1, n) \in Seq(Sdu)
        /\ Len(SubSeq(q.sdus, c + 1, n)) =
              IF c + 1 <= n THEN n - (c + 1) + 1 ELSE 0
        /\ \A i \in 1 .. n - (c + 1) + 1 :
              SubSeq(q.sdus, c + 1, n)[i] = q.sdus[c + 1 + i - 1]
    <3> HIDE DEF c, n
    <3> QED
      BY <1>1, <2>1, SubSeqProperties
  <2> HIDE DEF c, n
  <2> QED
    BY <1>1, <2>2
<1>5. SubSeq(q.sdus, 1, c) \o SubSeq(q.sdus, c + 1, n) = q.sdus
  <2>1. 1 \in 1 .. n + 1 /\ c \in 1 - 1 .. n /\ n \in c .. n
    BY <1>1
  <2>2. SubSeq(q.sdus, 1, c) \o SubSeq(q.sdus, c + 1, n) = SubSeq(q.sdus, 1, n)
    <3> HIDE DEF c
    <3> QED
      BY <1>1, <2>1, ConcatAdjacentSubSeq
  <2> QED
    BY <1>1, <2>2, SubSeqFull
<1> QED
  BY <1>3, <1>4, <1>5 DEF ControlsOf, DataOf

\* Adding a control SDU appends it to the controls and leaves the data alone.
LEMMA AddControl ==
    ASSUME NEW q \in QueueType, ControlsInFront(q), NEW s \in Sdu, s.control
    PROVE  /\ ControlsOf(addSDU(q, s)) = Append(ControlsOf(q), s)
           /\ DataOf(addSDU(q, s)) = DataOf(q)
<1> DEFINE r == addSDU(q, s)
           n == Len(q.sdus)
           c == q.controlOffset
<1>1. q.sdus \in Seq(Sdu) /\ n \in Nat /\ c \in Nat /\ c <= n
  BY DEF QueueType, ControlsInFront
<1>2. /\ r \in QueueType /\ ControlsInFront(r) /\ Len(r.sdus) = n + 1
      /\ r.controlOffset = c + 1
  BY AddSduType, AddSduControls DEF addSDU, addSduPosition
<1>3. \A i \in 1 .. n + 1 : r.sdus[i] = IF i < c + 1 THEN q.sdus[i]
                               ELSE IF i = c + 1 THEN s ELSE q.sdus[i - 1]
  BY <1>1 DEF addSDU, addSduPosition
<1> HIDE DEF r
<1>4. /\ ControlsOf(r) \in Seq(Sdu) /\ Len(ControlsOf(r)) = c + 1
      /\ DataOf(r) \in Seq(Sdu) /\ Len(DataOf(r)) = n - c
      /\ \A i \in 1 .. c + 1 : ControlsOf(r)[i] = r.sdus[i]
      /\ \A i \in 1 .. n - c : DataOf(r)[i] = r.sdus[c + 1 + i]
  <2>1. n + 1 - (c + 1) = n - c
    BY <1>1
  <2>2. /\ ControlsOf(r) \in Seq(Sdu) /\ DataOf(r) \in Seq(Sdu)
        /\ Len(ControlsOf(r)) = r.controlOffset
        /\ Len(DataOf(r)) = Len(r.sdus) - r.controlOffset
        /\ \A i \in 1 .. r.controlOffset : ControlsOf(r)[i] = r.sdus[i]
        /\ \A i \in 1 .. Len(r.sdus) - r.controlOffset :
              DataOf(r)[i] = r.sdus[r.controlOffset + i]
    BY <1>2, Channels
  <2>3. Len(r.sdus) - r.controlOffset = n - c /\ r.controlOffset = c + 1
    <3> HIDE DEF n, c
    <3> QED
      BY <1>1, <1>2, <2>1
  <2> HIDE DEF n, c
  <2>4. \A i \in 1 .. c + 1 : ControlsOf(r)[i] = r.sdus[i]
    BY <2>2, <2>3
  <2>5. \A i \in 1 .. n - c : DataOf(r)[i] = r.sdus[c + 1 + i]
    BY <2>2, <2>3
  <2> QED
    BY <2>2, <2>3, <2>4, <2>5
<1>5. /\ ControlsOf(q) \in Seq(Sdu) /\ Len(ControlsOf(q)) = c
      /\ DataOf(q) \in Seq(Sdu) /\ Len(DataOf(q)) = n - c
      /\ \A i \in 1 .. c : ControlsOf(q)[i] = q.sdus[i]
      /\ \A i \in 1 .. n - c : DataOf(q)[i] = q.sdus[c + i]
  BY Channels
<1> HIDE DEF n, c
<1>6. ControlsOf(r) = Append(ControlsOf(q), s)
  <2>1. /\ Append(ControlsOf(q), s) \in Seq(Sdu)
        /\ Len(Append(ControlsOf(q), s)) = c + 1
        /\ \A i \in 1 .. c : Append(ControlsOf(q), s)[i] = ControlsOf(q)[i]
        /\ Append(ControlsOf(q), s)[c + 1] = s
    BY <1>5, AppendProperties
  <2>2. ASSUME NEW i \in 1 .. c + 1
        PROVE  ControlsOf(r)[i] = Append(ControlsOf(q), s)[i]
    <3>1. CASE i \in 1 .. c
      <4>1. i < c + 1 /\ i \in 1 .. n + 1
        BY <1>1, <3>1
      <4>2. r.sdus[i] = q.sdus[i]
        BY <1>3, <4>1
      <4> QED
        BY <1>4, <1>5, <2>1, <3>1, <4>2
    <3>2. CASE i = c + 1
      <4>1. c + 1 \in 1 .. n + 1 /\ ~(c + 1 < c + 1)
        BY <1>1
      <4>2. r.sdus[c + 1] = s
        BY <1>3, <4>1
      <4> QED
        BY <1>4, <2>1, <3>2, <4>2
    <3>3. i \in 1 .. c \/ i = c + 1
      BY <1>1
    <3> QED
      BY <3>1, <3>2, <3>3
  <2> QED
    BY <1>4, <2>1, <2>2, SeqEqual
<1>7. DataOf(r) = DataOf(q)
  <2>1. ASSUME NEW i \in 1 .. n - c
        PROVE  DataOf(r)[i] = DataOf(q)[i]
    <3>1. /\ c + 1 + i \in 1 .. n + 1
          /\ ~(c + 1 + i < c + 1) /\ c + 1 + i # c + 1
          /\ c + 1 + i - 1 = c + i
      BY <1>1
    <3> DEFINE j == c + 1 + i
    <3>2. r.sdus[j] = q.sdus[j - 1]
      <4> HIDE DEF j
      <4> QED
        BY <1>3, <3>1 DEF j
    <3> QED
      BY <1>4, <1>5, <3>1, <3>2
  <2> QED
    BY <1>4, <1>5, <2>1, SeqEqual
<1> QED
  BY <1>6, <1>7 DEF r

\* Adding a data SDU appends it to the data and leaves the controls alone.
LEMMA AddData ==
    ASSUME NEW q \in QueueType, ControlsInFront(q), NEW s \in Sdu, ~s.control
    PROVE  /\ ControlsOf(addSDU(q, s)) = ControlsOf(q)
           /\ DataOf(addSDU(q, s)) = Append(DataOf(q), s)
<1> DEFINE r == addSDU(q, s)
           n == Len(q.sdus)
           c == q.controlOffset
<1>1. q.sdus \in Seq(Sdu) /\ n \in Nat /\ c \in Nat /\ c <= n
  BY DEF QueueType, ControlsInFront
<1>2. /\ r \in QueueType /\ ControlsInFront(r) /\ Len(r.sdus) = n + 1
      /\ r.controlOffset = c
  BY AddSduType, AddSduControls DEF addSDU, addSduPosition
<1>3. \A i \in 1 .. n + 1 : r.sdus[i] = IF i < n + 1 THEN q.sdus[i] ELSE s
  BY <1>1 DEF addSDU, addSduPosition
<1> HIDE DEF r
<1>4. /\ ControlsOf(r) \in Seq(Sdu) /\ Len(ControlsOf(r)) = c
      /\ DataOf(r) \in Seq(Sdu) /\ Len(DataOf(r)) = n - c + 1
      /\ \A i \in 1 .. c : ControlsOf(r)[i] = r.sdus[i]
      /\ \A i \in 1 .. n - c + 1 : DataOf(r)[i] = r.sdus[c + i]
  <2>1. n + 1 - c = n - c + 1
    BY <1>1
  <2>2. /\ ControlsOf(r) \in Seq(Sdu) /\ DataOf(r) \in Seq(Sdu)
        /\ Len(ControlsOf(r)) = r.controlOffset
        /\ Len(DataOf(r)) = Len(r.sdus) - r.controlOffset
        /\ \A i \in 1 .. r.controlOffset : ControlsOf(r)[i] = r.sdus[i]
        /\ \A i \in 1 .. Len(r.sdus) - r.controlOffset :
              DataOf(r)[i] = r.sdus[r.controlOffset + i]
    BY <1>2, Channels
  <2>3. Len(r.sdus) - r.controlOffset = n - c + 1 /\ r.controlOffset = c
    <3> HIDE DEF n, c
    <3> QED
      BY <1>1, <1>2, <2>1
  <2> HIDE DEF n, c
  <2>4. \A i \in 1 .. c : ControlsOf(r)[i] = r.sdus[i]
    BY <2>2, <2>3
  <2>5. \A i \in 1 .. n - c + 1 : DataOf(r)[i] = r.sdus[c + i]
    BY <2>2, <2>3
  <2> QED
    BY <2>2, <2>3, <2>4, <2>5
<1>5. /\ ControlsOf(q) \in Seq(Sdu) /\ Len(ControlsOf(q)) = c
      /\ DataOf(q) \in Seq(Sdu) /\ Len(DataOf(q)) = n - c
      /\ \A i \in 1 .. c : ControlsOf(q)[i] = q.sdus[i]
      /\ \A i \in 1 .. n - c : DataOf(q)[i] = q.sdus[c + i]
  BY Channels
<1> HIDE DEF n, c
<1>6. ControlsOf(r) = ControlsOf(q)
  <2>1. ASSUME NEW i \in 1 .. c
        PROVE  ControlsOf(r)[i] = ControlsOf(q)[i]
    <3>1. i \in 1 .. n + 1 /\ i < n + 1
      BY <1>1
    <3> QED
      BY <1>3, <1>4, <1>5, <3>1
  <2> QED
    BY <1>4, <1>5, <2>1, SeqEqual
<1>7. DataOf(r) = Append(DataOf(q), s)
  <2>1. /\ Append(DataOf(q), s) \in Seq(Sdu)
        /\ Len(Append(DataOf(q), s)) = n - c + 1
        /\ \A i \in 1 .. n - c : Append(DataOf(q), s)[i] = DataOf(q)[i]
        /\ Append(DataOf(q), s)[n - c + 1] = s
    BY <1>5, AppendProperties
  <2>2. ASSUME NEW i \in 1 .. n - c + 1
        PROVE  DataOf(r)[i] = Append(DataOf(q), s)[i]
    <3>1. CASE i \in 1 .. n - c
      <4>1. c + i \in 1 .. n + 1 /\ c + i < n + 1
        BY <1>1, <3>1
      <4> QED
        BY <1>3, <1>4, <1>5, <2>1, <3>1, <4>1
    <3>2. CASE i = n - c + 1
      <4>1. c + i \in 1 .. n + 1 /\ ~(c + i < n + 1)
        BY <1>1, <3>2
      <4>2. r.sdus[c + i] = s
        BY <1>3, <4>1
      <4> QED
        BY <1>4, <2>1, <3>2, <4>2
    <3>3. i \in 1 .. n - c \/ i = n - c + 1
      BY <1>1
    <3> QED
      BY <3>1, <3>2, <3>3
  <2> QED
    BY <1>4, <2>1, <2>2, SeqEqual
<1> QED
  BY <1>6, <1>7 DEF r

\* Sending a PDU appends its SDUs to those delivered.
LEMMA AppendPdu ==
    ASSUME NEW pdus \in Seq(PduType), NEW pdu \in PduType
    PROVE  SdusOf(Append(pdus, pdu)) = Append(SdusOf(pdus), pdu.sdus)
<1> DEFINE n == Len(pdus)
           new == Append(pdus, pdu)
           S == Seq(Sdu)
<1>1. /\ n \in Nat /\ Len(new) = n + 1 /\ new[n + 1] = pdu
      /\ \A i \in 1 .. n : new[i] = pdus[i] /\ pdus[i] \in PduType
  BY AppendProperties
<1>2. pdu.sdus \in S /\ \A i \in 1 .. n : pdus[i].sdus \in S
  BY <1>1 DEF PduType
<1> HIDE DEF new, S, n
<1>3. \A i \in 1 .. n + 1 : new[i].sdus \in S
  <2>1. ASSUME NEW i \in 1 .. n + 1
        PROVE  new[i].sdus \in S
    <3>1. i \in 1 .. n \/ i = n + 1
      BY <1>1
    <3> QED
      BY <1>1, <1>2, <3>1
  <2> QED
    BY <2>1
<1>4. /\ SdusOf(new) = [i \in 1 .. n + 1 |-> new[i].sdus]
      /\ SdusOf(pdus) = [i \in 1 .. n |-> pdus[i].sdus]
  BY <1>1 DEF SdusOf, n
<1>5. /\ SdusOf(new) \in Seq(S) /\ Len(SdusOf(new)) = n + 1
      /\ SdusOf(pdus) \in Seq(S) /\ Len(SdusOf(pdus)) = n
  BY <1>1, <1>2, <1>3, <1>4
<1>6. /\ Append(SdusOf(pdus), pdu.sdus) \in Seq(S)
      /\ Len(Append(SdusOf(pdus), pdu.sdus)) = n + 1
      /\ \A i \in 1 .. n : Append(SdusOf(pdus), pdu.sdus)[i] = SdusOf(pdus)[i]
      /\ Append(SdusOf(pdus), pdu.sdus)[n + 1] = pdu.sdus
  BY <1>2, <1>5, AppendProperties
<1>7. ASSUME NEW i \in 1 .. n + 1
      PROVE  SdusOf(new)[i] = Append(SdusOf(pdus), pdu.sdus)[i]
  <2>1. i \in 1 .. n \/ i = n + 1
    BY <1>1
  <2> QED
    BY <1>1, <1>4, <1>6, <2>1
<1>8. SdusOf(new) = Append(SdusOf(pdus), pdu.sdus)
  BY <1>5, <1>6, <1>7, SeqEqual
<1> QED
  BY <1>8 DEF new

\* An empty queue is a pair of empty channels.
LEMMA EmptyChannels ==
    ControlsOf(EmptyQueue) = << >> /\ DataOf(EmptyQueue) = << >>
<1>1. ControlsOf(EmptyQueue) = SubSeq(<< >>, 1, 0)
  BY DEF ControlsOf, EmptyQueue
<1>2. DataOf(EmptyQueue) = SubSeq(<< >>, 0 + 1, 0)
  BY DEF DataOf, EmptyQueue
<1> QED
  BY <1>1, <1>2, SubSeqEmpty

(***************************************************************************)
(* Every step of the multiplexer maps to a step of SduTransport.            *)
(***************************************************************************)
control   == [d \in Dests |-> ControlsOf(queue[d])]
data      == [d \in Dests |-> DataOf(queue[d])]
delivered == [d \in Dests |-> SdusOf(sent[d])]

\* The channels are empty at the start.
LEMMA InitImplements == Init => Transport!TransportInit
<1> SUFFICES ASSUME Init PROVE Transport!TransportInit
  OBVIOUS
<1>1. /\ \A d \in Dests : queue[d] = EmptyQueue
      /\ \A d \in Dests : sent[d] = << >>
  BY DEF Init
<1>2. SdusOf(<< >>) = << >>
  BY DEF SdusOf
<1> QED
  BY <1>1, <1>2, EmptyChannels DEF Transport!TransportInit

\* An addSdu that is not refused is an Accept of its channel.
LEMMA AddedImplements ==
    ASSUME IInv, NEW s \in Sdu, NEW d \in Dests, Added(s, d), sent' = sent
    PROVE  Transport!TransportNext
<1>1. /\ queue[d] \in QueueType /\ ControlsInFront(queue[d])
      /\ queue \in [Dests -> QueueType]
  BY DEF IInv, TypeOK, QueueOK
<1>2. queue' = [queue EXCEPT ![d] = addSDU(queue[d], s)]
  BY AddedPlain
<1>3. /\ delivered' = delivered
      /\ \A e \in Dests : e # d => queue'[e] = queue[e]
      /\ queue'[d] = addSDU(queue[d], s)
  BY <1>1, <1>2 DEF delivered
<1>4. CASE s.control
  <2>1. /\ ControlsOf(queue'[d]) = Append(ControlsOf(queue[d]), s)
        /\ DataOf(queue'[d]) = DataOf(queue[d])
    BY <1>1, <1>3, <1>4, AddControl
  <2>2. control' = [control EXCEPT ![d] = Append(control[d], s)]
    BY <1>3, <2>1 DEF control
  <2>3. data' = data
    BY <1>3, <2>1 DEF data
  <2>4. Transport!AcceptControl(d, s)
    BY <1>3, <1>4, <2>2, <2>3
       DEF Transport!AcceptControl, control, data, delivered
  <2> QED
    BY <2>4 DEF Transport!TransportNext
<1>5. CASE ~s.control
  <2>1. /\ ControlsOf(queue'[d]) = ControlsOf(queue[d])
        /\ DataOf(queue'[d]) = Append(DataOf(queue[d]), s)
    BY <1>1, <1>3, <1>5, AddData
  <2>2. data' = [data EXCEPT ![d] = Append(data[d], s)]
    BY <1>3, <2>1 DEF data
  <2>3. control' = control
    BY <1>3, <2>1 DEF control
  <2>4. Transport!AcceptData(d, s)
    BY <1>3, <1>5, <2>2, <2>3
       DEF Transport!AcceptData, control, data, delivered
  <2> QED
    BY <2>4 DEF Transport!TransportNext
<1> QED
  BY <1>4, <1>5

\* A sendPdu of a queue that is not empty is a Transmit.
LEMMA SentImplements ==
    ASSUME IInv, NEW d \in Dests, ~emptyPdu(d), Sent(d)
    PROVE  Transport!TransportNext
<1>1. /\ queue[d] \in QueueType /\ ControlsInFront(queue[d])
      /\ queue[d].sdus # << >>
      /\ queue \in [Dests -> QueueType] /\ sent \in [Dests -> Seq(PduType)]
      /\ sent[d] \in Seq(PduType)
  BY DEF IInv, TypeOK, QueueOK, emptyPdu
<1>2. Pdu(d) \in PduType /\ Pdu(d).sdus = queue[d].sdus
  <2>1. getNumberofBytes(queue[d]) \in Nat
    BY <1>1 DEF getNumberofBytes, QueueType
  <2> QED
    BY <1>1, <2>1 DEF Pdu, PduType, QueueType
<1>3. /\ queue' = [queue EXCEPT ![d] = EmptyQueue]
      /\ sent' = [sent EXCEPT ![d] = Append(sent[d], Pdu(d))]
  BY DEF Sent
<1>4. ControlsOf(queue[d]) \o DataOf(queue[d]) = queue[d].sdus
  BY <1>1, Channels
<1>5. control' = [control EXCEPT ![d] = << >>]
  BY <1>1, <1>3, EmptyChannels DEF control
<1>6. data' = [data EXCEPT ![d] = << >>]
  BY <1>1, <1>3, EmptyChannels DEF data
<1>7. delivered' = [delivered EXCEPT ![d] =
                       Append(delivered[d], control[d] \o data[d])]
  <2>1. SdusOf(sent'[d]) = Append(SdusOf(sent[d]), queue[d].sdus)
    BY <1>1, <1>2, <1>3, AppendPdu
  <2>2. \A e \in Dests : e # d => sent'[e] = sent[e]
    BY <1>1, <1>3
  <2> QED
    BY <1>4, <2>1, <2>2 DEF delivered, control, data
<1>8. control[d] \o data[d] # << >>
  BY <1>1, <1>4 DEF control, data
<1>9. Transport!Transmit(d)
  BY <1>5, <1>6, <1>7, <1>8 DEF Transport!Transmit, control, data, delivered
<1> QED
  BY <1>9 DEF Transport!TransportNext

\* Every other step leaves the channels alone.
LEMMA StepImplements ==
    IInv /\ [Next]_vars =>
       [Transport!TransportNext]_<<control, data, delivered>>
<1> SUFFICES ASSUME IInv, [Next]_vars
             PROVE  \/ Transport!TransportNext
                    \/ UNCHANGED <<control, data, delivered>>
  OBVIOUS
<1>1. UNCHANGED <<queue, sent>> => UNCHANGED <<control, data, delivered>>
  BY DEF control, data, delivered
<1>2. ASSUME NEW s \in Sdu, Offer(s)
      PROVE  \/ Transport!TransportNext
             \/ UNCHANGED <<control, data, delivered>>
  <2>1. sent' = sent
    BY <1>2 DEF Offer
  <2>2. CASE OfferAccepted(s)
    BY <2>1, <2>2, FindDests, AddedImplements DEF OfferAccepted
  <2>3. CASE ~OfferAccepted(s)
    BY <1>1, <1>2, <2>1, <2>3
       DEF Offer, OfferRefused, OfferNoQueue, OfferUndefined
  <2> QED
    BY <2>2, <2>3
<1>3. CASE SendPdu
  <2>1. caller.mac \in Dests /\ ~emptyPdu(caller.mac) /\ Sent(caller.mac)
    BY <1>3 DEF SendPdu, emptyPdu
  <2> QED
    BY <2>1, SentImplements
<1>4. CASE SendPduOfNothing
  BY <1>1, <1>4 DEF SendPduOfNothing
<1>5. CASE Retry
  <2>1. sent' = sent /\ caller.sdu \in Sdu
    BY <1>5, FullOrRetryType DEF Retry, IInv
  <2>2. CASE RetryAccepted
    BY <2>1, <2>2, FindDests, AddedImplements DEF RetryAccepted
  <2>3. CASE ~RetryAccepted
    BY <1>1, <1>5, <2>1, <2>3 DEF Retry, RetryRefused, RetryUndefined
  <2> QED
    BY <2>2, <2>3
<1>6. ASSUME NEW d \in Dests, Flush(d)
      PROVE  Transport!TransportNext
  BY <1>6, SentImplements DEF Flush
<1>7. CASE UNCHANGED vars
  BY <1>1, <1>7 DEF vars
<1> QED
  BY <1>2, <1>3, <1>4, <1>5, <1>6, <1>7 DEF Next, Done

\* Per destination the multiplexer is two FIFO channels, controls before data,
\* that a transmission empties together: whatever SDUs are offered, refused,
\* retried and flushed, in whatever order.
THEOREM Refinement == Spec => ImplementsTransport
<1>1. IInv /\ [Next]_vars =>
         [Transport!TransportNext]_<<[d \in Dests |-> ControlsOf(queue[d])],
                                     [d \in Dests |-> DataOf(queue[d])],
                                     [d \in Dests |-> SdusOf(sent[d])]>>
  BY StepImplements DEF control, data, delivered
<1> QED
  BY <1>1, InitImplements, Invariant, PTL
     DEF Spec, ImplementsTransport, Transport!Spec
=============================================================================
