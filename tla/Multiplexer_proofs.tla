------------------------- MODULE Multiplexer_proofs -------------------------
(***************************************************************************)
(* Proofs of the safety properties of Multiplexer for any set of            *)
(* destinations and SDUs, any MTU and any MAXSDUS, on a base station and a  *)
(* user equipment, with and without verbosity, whatever getMacAddress       *)
(* returns for the SDUs in Misread.                                         *)
(***************************************************************************)
EXTENDS Multiplexer, Lists

\* The shift of addSduPosition yields a sequence, one element longer.
LEMMA InsertType ==
    ASSUME NEW S, NEW seq \in Seq(S), NEW e \in S,
           NEW p \in 1 .. Len(seq) + 1
    PROVE  LET new == [i \in 1 .. Len(seq) + 1 |->
                          IF i < p THEN seq[i]
                          ELSE IF i = p THEN e ELSE seq[i - 1]]
           IN  new \in Seq(S) /\ Len(new) = Len(seq) + 1
<1> DEFINE n == Len(seq)
           new == [i \in 1 .. n + 1 |-> IF i < p THEN seq[i]
                                        ELSE IF i = p THEN e ELSE seq[i - 1]]
<1>1. n \in Nat /\ p \in Int
  OBVIOUS
<1>2. \A i \in 1 .. n : seq[i] \in S
  OBVIOUS
<1>3. ASSUME NEW i \in 1 .. n + 1
      PROVE  new[i] \in S
  <2>1. CASE i < p
    <3>1. i \in 1 .. n
      BY <1>1, <2>1
    <3> QED
      BY <2>1, <3>1, <1>2
  <2>2. CASE i = p
    BY <2>2
  <2>3. CASE i > p
    <3>1. i - 1 \in 1 .. n
      BY <1>1, <2>3
    <3> QED
      BY <2>3, <3>1, <1>1, <1>2
  <2> QED
    BY <1>1, <2>1, <2>2, <2>3
<1>4. new \in [1 .. n + 1 -> S]
  BY <1>3
<1> QED
  BY <1>1, <1>4

(***************************************************************************)
(* Adding an SDU to a queue whose controls come first.                      *)
(***************************************************************************)
ControlsInFront(q) ==
    /\ q.controlOffset <= Len(q.sdus)
    /\ \A i \in 1 .. Len(q.sdus) : q.sdus[i].control <=> i <= q.controlOffset

\* What the assumption says of an SDU, in terms the solvers work with.
LEMMA SduType ==
    \A s \in Sdu : /\ s.size \in Nat /\ s.size >= 1
                   /\ s.control \in BOOLEAN
                   /\ s.mac \in Addresses
BY SduAssumption DEF UInt16

\* addSDU yields a queue with one SDU and its bytes more.
LEMMA AddSduType ==
    ASSUME NEW q \in QueueType, NEW s \in Sdu, ControlsInFront(q)
    PROVE  /\ addSDU(q, s) \in QueueType
           /\ Len(addSDU(q, s).sdus) = Len(q.sdus) + 1
           /\ addSDU(q, s).length = q.length + s.size
<1>1. /\ q.sdus \in Seq(Sdu) /\ q.length \in Nat /\ q.controlOffset \in Nat
      /\ q.controlOffset <= Len(q.sdus)
  BY DEF QueueType, ControlsInFront
<1>2. s.size \in Nat /\ s.control \in BOOLEAN
  BY SduType
<1> DEFINE p == 1 + IF s.control THEN q.controlOffset ELSE Len(q.sdus)
           new == [i \in 1 .. Len(q.sdus) + 1 |->
                      IF i < p THEN q.sdus[i]
                      ELSE IF i = p THEN s ELSE q.sdus[i - 1]]
           offset == IF s.control THEN q.controlOffset + 1 ELSE q.controlOffset
<1>3. p \in 1 .. Len(q.sdus) + 1
  BY <1>1, <1>2
<1>4. addSDU(q, s) = [sdus |-> new, length |-> q.length + s.size,
                      controlOffset |-> offset]
  BY DEF addSDU, addSduPosition
<1>5. new \in Seq(Sdu) /\ Len(new) = Len(q.sdus) + 1
  <2> HIDE DEF p
  <2> QED
    BY <1>1, <1>3, InsertType
<1>6. offset \in Nat /\ q.length + s.size \in Nat
  BY <1>1, <1>2
<1> HIDE DEF new, offset
<1> QED
  BY <1>4, <1>5, <1>6 DEF QueueType

\* addSDU keeps the controls in front, wherever it puts the SDU.
LEMMA AddSduControls ==
    ASSUME NEW q \in QueueType, NEW s \in Sdu, ControlsInFront(q)
    PROVE  ControlsInFront(addSDU(q, s))
<1> DEFINE n == Len(q.sdus)
           c == q.controlOffset
           r == addSDU(q, s)
<1>1. /\ q.sdus \in Seq(Sdu) /\ n \in Nat /\ c \in Nat /\ c <= n
      /\ \A i \in 1 .. n : q.sdus[i].control <=> i <= c
  BY DEF QueueType, ControlsInFront
<1>2. \A i \in 1 .. n : q.sdus[i].control \in BOOLEAN
  BY <1>1, SduType
<1>3. Len(r.sdus) = n + 1
  BY AddSduType
<1>4. CASE s.control
  <2>1. r.controlOffset = c + 1
    BY <1>4 DEF addSDU, addSduPosition
  <2>2. \A i \in 1 .. n + 1 : r.sdus[i] = IF i < c + 1 THEN q.sdus[i]
                                 ELSE IF i = c + 1 THEN s ELSE q.sdus[i - 1]
    BY <1>1, <1>4 DEF addSDU, addSduPosition
  <2>3. ASSUME NEW i \in 1 .. n + 1
        PROVE  r.sdus[i].control <=> i <= c + 1
    <3>1. CASE i < c + 1
      <4>1. i \in 1 .. n /\ i <= c
        BY <1>1, <3>1
      <4> QED
        BY <2>2, <3>1, <4>1, <1>1
    <3>2. CASE i = c + 1
      BY <1>1, <1>4, <2>2, <3>2
    <3>3. CASE i > c + 1
      <4>1. i - 1 \in 1 .. n /\ ~(i - 1 <= c) /\ ~(i <= c + 1)
        BY <1>1, <3>3
      <4>2. r.sdus[i] = q.sdus[i - 1]
        BY <1>1, <2>2, <3>3
      <4> QED
        BY <4>1, <4>2, <1>1
    <3> QED
      BY <1>1, <3>1, <3>2, <3>3
  <2>4. r.controlOffset <= Len(r.sdus)
    BY <1>1, <1>3, <2>1
  <2>5. \A i \in 1 .. Len(r.sdus) : r.sdus[i].control <=> i <= r.controlOffset
    <3> HIDE DEF r, n, c
    <3> QED
      BY <1>3, <2>1, <2>3, Zenon
  <2> QED
    BY <2>4, <2>5, Zenon DEF ControlsInFront
<1>5. CASE ~s.control
  <2>1. r.controlOffset = c
    BY <1>5 DEF addSDU, addSduPosition
  <2>2. \A i \in 1 .. n + 1 : r.sdus[i] = IF i < n + 1 THEN q.sdus[i]
                                 ELSE IF i = n + 1 THEN s ELSE q.sdus[i - 1]
    BY <1>1, <1>5 DEF addSDU, addSduPosition
  <2>3. ASSUME NEW i \in 1 .. n + 1
        PROVE  r.sdus[i].control <=> i <= c
    <3>1. CASE i < n + 1
      <4>1. i \in 1 .. n
        BY <1>1, <3>1
      <4> QED
        BY <2>2, <3>1, <4>1, <1>1
    <3>2. CASE i = n + 1
      <4>1. r.sdus[i] = s /\ ~(i <= c)
        BY <1>1, <2>2, <3>2
      <4> QED
        BY <1>5, <4>1
    <3> QED
      BY <1>1, <3>1, <3>2
  <2>4. r.controlOffset <= Len(r.sdus)
    BY <1>1, <1>3, <2>1
  <2>5. \A i \in 1 .. Len(r.sdus) : r.sdus[i].control <=> i <= r.controlOffset
    <3> HIDE DEF r, n, c
    <3> QED
      BY <1>3, <2>1, <2>3, Zenon
  <2> QED
    BY <2>4, <2>5, Zenon DEF ControlsInFront
<1> QED
  BY <1>4, <1>5

(***************************************************************************)
(* The inductive invariant: what holds of each queue and of each PDU sent.  *)
(* PduFits alone is not inductive: it does not bound an empty queue, and    *)
(* the uint16_t can only be trusted together with the bound on length.      *)
(***************************************************************************)
QueueOK(q, n) ==
    /\ q \in QueueType
    /\ ControlsInFront(q)
    /\ n = q.length
    /\ q.sdus = << >> => q.length = 0
    /\ Len(q.sdus) <= q.length
    /\ Len(q.sdus) < MaxSdus
    /\ q.sdus # << >> => getNumberofBytes(q) <= MaxNumberBytes

PduOK(pdu) ==
    /\ pdu \in PduType
    /\ pdu.size <= MaxNumberBytes
    /\ Len(pdu.sdus) < MaxSdus

IInv ==
    /\ TypeOK
    /\ \A d \in Dests : QueueOK(queue[d], numberBytes[d])
    /\ \A d \in Dests : \A i \in 1 .. Len(sent[d]) : PduOK(sent[d][i])

\* A number below one of 16 bits is not changed by the conversion.
LEMMA NoWrap ==
    ASSUME NEW m \in UInt16, NEW n \in Nat, n <= m
    PROVE  n \in UInt16 /\ ToUInt16(n) = n
BY SMT DEF UInt16, ToUInt16

\* What the assumption says of the other constants.
LEMMA ConstantsType ==
    /\ MaxNumberBytes \in Nat /\ MaxNumberBytes \in UInt16
    /\ MaxSdus \in Nat /\ MaxSdus >= 2
    /\ Addresses \subseteq UInt8
    /\ MinusTwo \in UInt8
BY MultiplexerAssumption DEF UInt8, UInt16, MinusTwo

\* An empty queue is a good one.
LEMMA EmptyOK == QueueOK(EmptyQueue, 0)
<1>1. /\ EmptyQueue \in QueueType
      /\ EmptyQueue.sdus = << >> /\ EmptyQueue.length = 0
      /\ EmptyQueue.controlOffset = 0
  BY DEF EmptyQueue, QueueType
<1> QED
  BY <1>1, ConstantsType DEF QueueOK, ControlsInFront

\* An accepted SDU leaves a good queue, and the uint16_t does not wrap.
LEMMA AddedOK ==
    ASSUME NEW q, NEW n, QueueOK(q, n), NEW s \in Sdu, ~Refuses(q, s)
    PROVE  /\ QueueOK(addSDU(q, s), ToUInt16(n + s.size))
           /\ ToUInt16(n + s.size) \in UInt16
<1> DEFINE r == addSDU(q, s)
<1>1. /\ q \in QueueType /\ ControlsInFront(q) /\ n = q.length
      /\ q.sdus \in Seq(Sdu) /\ q.length \in Nat
      /\ Len(q.sdus) <= q.length /\ Len(q.sdus) < MaxSdus
  BY DEF QueueOK, QueueType
<1>2. s.size \in Nat /\ s.size >= 1
  BY SduType
<1>3. /\ r \in QueueType
      /\ Len(r.sdus) = Len(q.sdus) + 1
      /\ r.length = q.length + s.size
  BY <1>1, AddSduType
<1>4. ControlsInFront(r)
  BY <1>1, AddSduControls
<1>5. /\ s.size + 2 + (2 + 2 * Len(q.sdus) + q.length) <= MaxNumberBytes
      /\ Len(q.sdus) + 1 # MaxSdus
  BY <1>1, <1>2, ConstantsType, SMTT(30)
     DEF Refuses, TooManyBytes, TooManySdus, getNumberofBytes
<1> HIDE DEF r
<1>6. ToUInt16(n + s.size) = r.length /\ r.length \in UInt16
  <2>1. n + s.size = r.length
    BY <1>1, <1>3
  <2>2. r.length \in Nat /\ r.length <= MaxNumberBytes
    BY <1>1, <1>2, <1>3, <1>5, ConstantsType, SMTT(30)
  <2> QED
    BY <2>1, <2>2, ConstantsType, NoWrap
<1>7. Len(r.sdus) <= r.length /\ Len(r.sdus) < MaxSdus /\ r.sdus # << >>
  <2>1. Len(q.sdus) \in Nat
    BY <1>1
  <2>2. Len(r.sdus) <= r.length /\ Len(r.sdus) < MaxSdus /\ Len(r.sdus) # 0
    BY <1>1, <1>2, <1>3, <1>5, <2>1, ConstantsType, SMTT(30)
  <2>3. r.sdus # << >>
    BY <2>2
  <2> QED
    BY <2>2, <2>3
<1>8. getNumberofBytes(r) <= MaxNumberBytes
  BY <1>1, <1>2, <1>3, <1>5, ConstantsType, SMTT(30) DEF getNumberofBytes
<1> QED
  BY <1>3, <1>4, <1>6, <1>7, <1>8 DEF QueueOK, r

(***************************************************************************)
(* Each way a step changes the queues keeps the invariant's second and      *)
(* third conjuncts.                                                         *)
(***************************************************************************)

\* addSdu only ever selects a queue that exists.
LEMMA FindDests == ASSUME NEW mac PROVE Find(mac) \subseteq Dests
BY MultiplexerAssumption DEF Find

\* Whatever getMacAddress returns is a uint8_t.
LEMMA LookupType == ASSUME NEW s \in Sdu PROVE Lookup(s) \subseteq UInt8
BY SduType, ConstantsType DEF Lookup

\* The second check, inside TransmissionQueue::addSDU, never calls exit.
LEMMA AddedPlain ==
    ASSUME NEW s, NEW d, Added(s, d)
    PROVE  /\ ~Refuses(queue[d], s)
           /\ queue' = [queue EXCEPT ![d] = addSDU(queue[d], s)]
           /\ numberBytes' = [numberBytes EXCEPT
                                 ![d] = ToUInt16(numberBytes[d] + s.size)]
           /\ status' = status
<1>1. ~TooManyBytes(queue[d], s)
  BY DEF Added, Refuses
<1> QED
  BY <1>1 DEF Added

\* addSdu of an SDU that is not refused keeps the queues good, and the second
\* check, inside TransmissionQueue::addSDU, never calls exit.
LEMMA AddedKeeps ==
    ASSUME IInv, NEW s \in Sdu, NEW d \in Dests, Added(s, d)
    PROVE  /\ queue' \in [Dests -> QueueType]
           /\ numberBytes' \in [Dests -> UInt16]
           /\ status' = status
           /\ \A e \in Dests : QueueOK(queue'[e], numberBytes'[e])
<1> DEFINE m == ToUInt16(numberBytes[d] + s.size)
<1>1. /\ queue \in [Dests -> QueueType] /\ numberBytes \in [Dests -> UInt16]
      /\ \A e \in Dests : QueueOK(queue[e], numberBytes[e])
  BY DEF IInv, TypeOK
<1>2. /\ ~Refuses(queue[d], s)
      /\ queue' = [queue EXCEPT ![d] = addSDU(queue[d], s)]
      /\ numberBytes' = [numberBytes EXCEPT ![d] = m]
      /\ status' = status
  BY AddedPlain
<1>3. QueueOK(addSDU(queue[d], s), m) /\ m \in UInt16
  BY <1>1, <1>2, AddedOK
<1>4. addSDU(queue[d], s) \in QueueType
  BY <1>3 DEF QueueOK
<1> HIDE DEF m
<1> QED
  BY <1>1, <1>2, <1>3, <1>4

\* sendPdu of a queue that is not empty yields a good PDU and good queues.
LEMMA SentKeeps ==
    ASSUME IInv, NEW d \in Dests, ~emptyPdu(d), Sent(d)
    PROVE  /\ queue' \in [Dests -> QueueType]
           /\ numberBytes' \in [Dests -> UInt16]
           /\ sent' \in [Dests -> Seq(PduType)]
           /\ \A e \in Dests : QueueOK(queue'[e], numberBytes'[e])
           /\ \A e \in Dests : \A i \in 1 .. Len(sent'[e]) : PduOK(sent'[e][i])
<1>1. /\ queue \in [Dests -> QueueType] /\ numberBytes \in [Dests -> UInt16]
      /\ sent \in [Dests -> Seq(PduType)]
      /\ \A e \in Dests : QueueOK(queue[e], numberBytes[e])
      /\ \A e \in Dests : \A i \in 1 .. Len(sent[e]) : PduOK(sent[e][i])
  BY DEF IInv, TypeOK
<1>2. /\ queue' = [queue EXCEPT ![d] = EmptyQueue]
      /\ numberBytes' = [numberBytes EXCEPT ![d] = 0]
      /\ sent' = [sent EXCEPT ![d] = Append(sent[d], Pdu(d))]
  BY DEF Sent
<1>3. QueueOK(EmptyQueue, 0) /\ EmptyQueue \in QueueType /\ 0 \in UInt16
  BY EmptyOK DEF QueueOK, UInt16
<1>4. queue[d].sdus # << >>
  BY <1>1 DEF emptyPdu, QueueOK
<1>5. PduOK(Pdu(d))
  <2>1. /\ queue[d].sdus \in Seq(Sdu) /\ queue[d].length \in Nat
        /\ Len(queue[d].sdus) < MaxSdus
        /\ getNumberofBytes(queue[d]) <= MaxNumberBytes
    BY <1>1, <1>4 DEF QueueOK, QueueType
  <2>2. getNumberofBytes(queue[d]) \in Nat
    BY <2>1, SMTT(30) DEF getNumberofBytes
  <2> QED
    BY <2>1, <2>2 DEF PduOK, PduType, Pdu
<1>6. Pdu(d) \in PduType
  BY <1>5 DEF PduOK
<1>7. Append(sent[d], Pdu(d)) \in Seq(PduType)
  BY <1>1, <1>6
<1>8. \A i \in 1 .. Len(Append(sent[d], Pdu(d))) :
         PduOK(Append(sent[d], Pdu(d))[i])
  <2>1. /\ sent[d] \in Seq(PduType)
        /\ \A i \in 1 .. Len(sent[d]) : PduOK(sent[d][i])
    BY <1>1
  <2> QED
    BY <2>1, <1>5, <1>6
<1> QED
  BY <1>1, <1>2, <1>3, <1>7, <1>8

(***************************************************************************)
(* The invariant holds initially and is kept by every step.                 *)
(***************************************************************************)
CallerType == {Idle} \cup [stage : {"full", "retry"}, sdu : Sdu, mac : UInt8]
StatusType == {"running", "exit", "abort", "undefined"}

\* A caller that was refused has an SDU and an address in hand.
LEMMA FullOrRetryType ==
    ASSUME TypeOK, caller.stage \in {"full", "retry"}
    PROVE  caller \in [stage : {"full", "retry"}, sdu : Sdu, mac : UInt8]
BY DEF TypeOK, Idle

\* No queue holds anything at the start.
LEMMA InitInvariant == Init => IInv
<1> SUFFICES ASSUME Init PROVE IInv
  OBVIOUS
<1>1. QueueOK(EmptyQueue, 0) /\ EmptyQueue \in QueueType /\ 0 \in UInt16
  BY EmptyOK DEF QueueOK, UInt16
<1>2. /\ queue = [d \in Dests |-> EmptyQueue]
      /\ numberBytes = [d \in Dests |-> 0]
      /\ sent = [d \in Dests |-> << >>]
      /\ caller = Idle /\ status = "running" /\ offered = {} /\ lost = {}
      /\ verbose \in BOOLEAN
  BY DEF Init
<1>3. TypeOK
  BY <1>1, <1>2 DEF TypeOK
<1>4. \A d \in Dests : QueueOK(queue[d], numberBytes[d])
  BY <1>1, <1>2
<1>5. \A d \in Dests : \A i \in 1 .. Len(sent[d]) : PduOK(sent[d][i])
  BY <1>2
<1> QED
  BY <1>3, <1>4, <1>5 DEF IInv

\* The first addSdu of a caller keeps the invariant.
LEMMA OfferKeeps ==
    ASSUME IInv, NEW s \in Sdu, Offer(s)
    PROVE  IInv'
<1>1. /\ offered' \subseteq Sdu /\ lost' \subseteq Sdu
      /\ sent' = sent /\ lost' = lost /\ verbose' \in BOOLEAN
  BY DEF IInv, TypeOK, Offer
<1>2. CASE OfferAccepted(s)
  <2>1. PICK d \in Dests : Added(s, d)
    BY <1>2, FindDests DEF OfferAccepted
  <2>2. caller' = caller
    BY <1>2 DEF OfferAccepted
  <2> QED
    BY <1>1, <2>1, <2>2, AddedKeeps DEF IInv, TypeOK
<1>3. ASSUME UNCHANGED <<queue, numberBytes>>,
             caller' \in [stage : {"full", "retry"}, sdu : Sdu, mac : UInt8],
             status' \in StatusType
      PROVE  IInv'
  BY <1>1, <1>3 DEF IInv, TypeOK, StatusType
<1>4. \A mac \in UInt8 : Caller("full", s, mac) \in
         [stage : {"full", "retry"}, sdu : Sdu, mac : UInt8]
  BY DEF Caller
<1>5. CASE OfferRefused(s)
  BY <1>3, <1>4, <1>5, LookupType DEF OfferRefused, IInv, TypeOK, StatusType
<1>6. CASE OfferNoQueue(s)
  BY <1>3, <1>4, <1>6, ConstantsType DEF OfferNoQueue, IInv, TypeOK, StatusType
<1>7. CASE OfferUndefined(s)
  <2>1. s.mac \in UInt8
    BY SduType, ConstantsType
  <2> QED
    BY <1>3, <1>4, <1>7, <2>1 DEF OfferUndefined, IndexPastEnd, StatusType
<1> QED
  BY <1>2, <1>5, <1>6, <1>7 DEF Offer

\* So does the second.
LEMMA RetryKeeps ==
    ASSUME IInv, Retry
    PROVE  IInv'
<1>1. /\ caller \in [stage : {"full", "retry"}, sdu : Sdu, mac : UInt8]
      /\ caller.sdu \in Sdu
  BY FullOrRetryType DEF Retry, IInv
<1>2. offered' = offered /\ sent' = sent /\ verbose' \in BOOLEAN
  BY DEF Retry, IInv, TypeOK
<1>3. CASE RetryAccepted
  <2>1. PICK d \in Dests : Added(caller.sdu, d)
    BY <1>3, FindDests DEF RetryAccepted
  <2>2. caller' = Idle /\ lost' = lost
    BY <1>3 DEF RetryAccepted
  <2> QED
    BY <1>1, <1>2, <2>1, <2>2, AddedKeeps DEF IInv, TypeOK
<1>4. CASE RetryRefused
  BY <1>1, <1>2, <1>4 DEF RetryRefused, IInv, TypeOK
<1>5. CASE RetryUndefined
  BY <1>1, <1>2, <1>5 DEF RetryUndefined, IndexPastEnd, IInv, TypeOK
<1> QED
  BY <1>3, <1>4, <1>5 DEF Retry

\* Every step of the multiplexer keeps the invariant.
LEMMA StepInvariant == IInv /\ [Next]_vars => IInv'
<1> SUFFICES ASSUME IInv, [Next]_vars
             PROVE  IInv'
  OBVIOUS
<1>1. ASSUME NEW s \in Sdu, Offer(s)
      PROVE  IInv'
  BY <1>1, OfferKeeps
<1>2. CASE SendPdu
  <2>1. /\ caller \in [stage : {"full", "retry"}, sdu : Sdu, mac : UInt8]
        /\ caller.mac \in Dests
    BY <1>2, FullOrRetryType DEF SendPdu, emptyPdu, IInv
  <2>2. caller' \in [stage : {"full", "retry"}, sdu : Sdu, mac : UInt8]
    BY <1>2, <2>1 DEF SendPdu
  <2>3. ~emptyPdu(caller.mac) /\ Sent(caller.mac)
    BY <1>2 DEF SendPdu
  <2>4. UNCHANGED <<verbose, status, offered, lost>>
    BY <1>2 DEF SendPdu
  <2> QED
    BY <2>1, <2>2, <2>3, <2>4, SentKeeps DEF IInv, TypeOK
<1>3. CASE SendPduOfNothing
  BY <1>3 DEF SendPduOfNothing, IInv, TypeOK
<1>4. CASE Retry
  BY <1>4, RetryKeeps
<1>5. ASSUME NEW d \in Dests, Flush(d)
      PROVE  IInv'
  <2>1. /\ ~emptyPdu(d) /\ Sent(d)
        /\ UNCHANGED <<verbose, caller, status, offered, lost>>
    BY <1>5 DEF Flush
  <2> QED
    BY <2>1, SentKeeps DEF IInv, TypeOK
<1>6. CASE UNCHANGED vars
  BY <1>6 DEF vars, IInv, TypeOK
<1> QED
  BY <1>1, <1>2, <1>3, <1>4, <1>5, <1>6 DEF Next, Done

\* The invariant of every state of the multiplexer.
THEOREM Invariant == Spec => []IInv
BY InitInvariant, StepInvariant, PTL DEF Spec

(***************************************************************************)
(* What the invariant implies.                                              *)
(***************************************************************************)

\* Every variable of the multiplexer has its type in every state; in
\* particular no value of the uint16_t counters ever leaves its range.
THEOREM TypeCorrect == Spec => []TypeOK
<1>1. IInv => TypeOK
  BY DEF IInv
<1> QED
  BY <1>1, Invariant, PTL

\* No queue outgrows its buffer or its arrays and no PDU exceeds the MTU.
THEOREM PdusFit == Spec => []PduFits
<1>1. IInv => PduFits
  BY DEF IInv, QueueOK, PduOK, PduFits
<1> QED
  BY <1>1, Invariant, PTL

\* controlOffset separates the controls of a queue from its data.
THEOREM ControlsFirst == Spec => []ControlFirst
<1>1. IInv => ControlFirst
  BY DEF IInv, QueueOK, ControlsInFront, ControlFirst
<1> QED
  BY <1>1, Invariant, PTL

\* The byte counters are exact: emptyPdu tells whether a queue is empty.
THEOREM ByteCountsExact == Spec => []ByteCountExact
<1>1. ASSUME IInv
      PROVE  ByteCountExact
  <2>1. SUFFICES ASSUME NEW d \in Dests
                 PROVE  /\ numberBytes[d] = queue[d].length
                        /\ emptyPdu(d) <=> queue[d].sdus = << >>
    BY DEF ByteCountExact
  <2>2. /\ QueueOK(queue[d], numberBytes[d])
        /\ queue[d].sdus \in Seq(Sdu)
    BY <1>1 DEF IInv, QueueOK, QueueType
  <2>3. queue[d].length = 0 => Len(queue[d].sdus) = 0
    BY <2>2 DEF QueueOK
  <2>4. Len(queue[d].sdus) = 0 => queue[d].sdus = << >>
    BY <2>2
  <2> QED
    BY <2>2, <2>3, <2>4 DEF QueueOK, emptyPdu
<1> QED
  BY <1>1, Invariant, PTL

(***************************************************************************)
(* The retry loses, and the process ends for, no SDU that an empty PDU      *)
(* holds, whose address has a queue and whose lookup returns its result.    *)
(* This needs where the caller of sendPdu stands: it emptied the very queue *)
(* that its second addSdu selects.                                          *)
(***************************************************************************)
CallerOK ==
    /\ caller.stage = "full" /\ caller.sdu \notin Misread =>
          \/ /\ caller.mac = caller.sdu.mac
             /\ \E d \in Find(caller.mac) : Refuses(queue[d], caller.sdu)
          \/ Find(caller.sdu.mac) = {} /\ caller.mac \notin Dests
    /\ caller.stage = "retry" /\ caller.sdu \notin Misread =>
          /\ caller.mac = caller.sdu.mac
          /\ caller.mac \in Dests
          /\ queue[caller.mac] = EmptyQueue

Lossless == CallerOK /\ LostOnlyOversize /\ EndsOnlyForBadSdu

\* A lookup that returns its result names one address.
LEMMA LookupExact ==
    ASSUME NEW s, s \notin Misread PROVE Lookup(s) = {s.mac}
BY DEF Lookup

\* The addresses of the queues are below the one -2 turns into.
LEMMA MinusTwoHasNoQueue == MinusTwo \notin Dests
BY MultiplexerAssumption DEF MinusTwo

\* An empty queue refuses only an SDU that no PDU can hold.
LEMMA EmptyRefuses ==
    ASSUME NEW q, q.sdus = << >>, q.length = 0, NEW s \in Sdu, Refuses(q, s)
    PROVE  Oversize(s)
<1>1. getNumberofBytes(q) = 2 /\ ~TooManySdus(q)
  BY ConstantsType DEF getNumberofBytes, TooManySdus
<1>2. s.size \in Nat
  BY SduType
<1> QED
  BY <1>1, <1>2, ConstantsType DEF Refuses, TooManyBytes, Oversize

\* The first addSdu loses nothing; a refusal leaves its caller with the address
\* of the full queue, or with one without a queue.
LEMMA LosslessOffer ==
    ASSUME IInv, Lossless, NEW s \in Sdu, Offer(s)
    PROVE  Lossless'
<1>1. Running /\ caller.stage = "idle" /\ UNCHANGED lost
  BY DEF Offer, Idle
<1>2. LostOnlyOversize'
  BY <1>1 DEF Lossless, LostOnlyOversize, Oversize
<1>3. s \notin Misread => Lookup(s) = {s.mac}
  BY LookupExact
<1>4. CASE OfferAccepted(s)
  <2>1. caller' = caller /\ status' = status
    BY <1>4, FindDests, AddedKeeps DEF OfferAccepted
  <2> QED
    BY <1>1, <1>2, <2>1 DEF Lossless, CallerOK, EndsOnlyForBadSdu, Running
<1>5. CASE s \in Misread /\ ~OfferAccepted(s)
  <2>1. caller'.stage = "full" /\ caller'.sdu = s
    BY <1>5 DEF Offer, OfferRefused, OfferNoQueue, OfferUndefined, Caller
  <2>2. CallerOK' /\ EndsOnlyForBadSdu'
    BY <1>5, <2>1 DEF CallerOK, EndsOnlyForBadSdu
  <2> QED
    BY <1>2, <2>2 DEF Lossless
<1>6. CASE s \notin Misread /\ OfferRefused(s)
  <2>1. /\ caller' = Caller("full", s, s.mac)
        /\ \E d \in Find(s.mac) : Refuses(queue[d], s)
        /\ UNCHANGED <<queue, status>>
    BY <1>3, <1>6 DEF OfferRefused
  <2>2. CallerOK'
    BY <2>1 DEF CallerOK, Caller, Refuses
  <2> QED
    BY <1>1, <1>2, <2>1, <2>2 DEF Lossless, EndsOnlyForBadSdu, Running
<1>7. CASE s \notin Misread /\ OfferNoQueue(s)
  <2>1. /\ caller' = Caller("full", s, MinusTwo)
        /\ Find(s.mac) = {}
        /\ UNCHANGED status
    BY <1>3, <1>7 DEF OfferNoQueue
  <2>2. CallerOK'
    BY <2>1, MinusTwoHasNoQueue DEF CallerOK, Caller
  <2> QED
    BY <1>1, <1>2, <2>1, <2>2 DEF Lossless, EndsOnlyForBadSdu, Running
<1>8. CASE s \notin Misread /\ OfferUndefined(s)
  <2>1. caller' = Caller("full", s, s.mac) /\ Find(s.mac) = {}
    BY <1>3, <1>8 DEF OfferUndefined, IndexPastEnd
  <2>2. s.mac \notin Dests /\ FlagBS
    BY <2>1 DEF Find
  <2>3. CallerOK'
    BY <2>1, <2>2 DEF CallerOK, Caller
  <2>4. EndsOnlyForBadSdu'
    BY <2>1, <2>2 DEF EndsOnlyForBadSdu, Caller
  <2> QED
    BY <1>2, <2>3, <2>4 DEF Lossless
<1> QED
  BY <1>4, <1>5, <1>6, <1>7, <1>8 DEF Offer

\* The second addSdu meets an empty queue, which refuses only oversize SDUs.
LEMMA LosslessRetry ==
    ASSUME IInv, Lossless, Retry
    PROVE  Lossless'
<1>1. Running /\ caller.stage = "retry" /\ caller.sdu \in Sdu
  BY FullOrRetryType DEF Retry, IInv
<1>2. caller.sdu \notin Misread =>
         /\ caller.mac \in Dests /\ queue[caller.mac] = EmptyQueue
         /\ Lookup(caller.sdu) = {caller.mac} /\ Find(caller.mac) = {caller.mac}
  BY <1>1, LookupExact DEF Lossless, CallerOK, Find
<1>3. CASE RetryAccepted
  <2>1. PICK d \in Dests : Added(caller.sdu, d)
    BY <1>3, FindDests DEF RetryAccepted
  <2>2. /\ caller' = Idle /\ lost' = lost /\ status' = status
    BY <1>1, <1>3, <2>1, AddedKeeps DEF RetryAccepted
  <2> QED
    BY <1>1, <2>2 DEF Lossless, CallerOK, LostOnlyOversize, Oversize,
                      EndsOnlyForBadSdu, Running, Idle
<1>4. CASE RetryRefused
  <2>1. /\ caller' = Idle /\ status' = status
        /\ lost' = lost \cup {caller.sdu}
        /\ caller.sdu \notin Misread => Refuses(EmptyQueue, caller.sdu)
    BY <1>1, <1>2, <1>4 DEF RetryRefused
  <2>2. Oversize(caller.sdu) \/ caller.sdu \in Misread
    BY <1>1, <2>1, EmptyRefuses DEF EmptyQueue
  <2>3. LostOnlyOversize'
    BY <2>1, <2>2 DEF Lossless, LostOnlyOversize, Oversize
  <2> QED
    BY <1>1, <2>1, <2>3 DEF Lossless, CallerOK, EndsOnlyForBadSdu, Running, Idle
<1>5. CASE RetryUndefined
  <2>1. caller.sdu \in Misread /\ UNCHANGED <<caller, lost>>
    BY <1>2, <1>5 DEF RetryUndefined, IndexPastEnd
  <2> QED
    BY <2>1 DEF Lossless, CallerOK, LostOnlyOversize, Oversize,
                EndsOnlyForBadSdu
<1> QED
  BY <1>3, <1>4, <1>5 DEF Retry

\* sendPdu of nothing ends the process only for a bad SDU.
LEMMA LosslessNothingSent ==
    ASSUME IInv, Lossless, SendPduOfNothing
    PROVE  Lossless'
<1>1. /\ caller.stage = "full" /\ emptyPdu(caller.mac) /\ caller.sdu \in Sdu
      /\ UNCHANGED <<queue, caller, lost>>
  BY FullOrRetryType DEF SendPduOfNothing, IInv
<1>2. CallerOK' /\ LostOnlyOversize'
  BY <1>1 DEF Lossless, CallerOK, LostOnlyOversize, Oversize, Refuses
<1>3. \/ Oversize(caller.sdu) \/ caller.sdu \in Misread
      \/ /\ caller.sdu.mac \notin Dests
         /\ ~FlagBS => Refuses(queue[BsAddress], caller.sdu)
  <2>1. CASE Find(caller.sdu.mac) = {}
    BY <2>1 DEF Find
  <2>2. CASE /\ caller.mac = caller.sdu.mac
             /\ \E d \in Find(caller.mac) : Refuses(queue[d], caller.sdu)
    <3>1. CASE caller.mac \in Dests
      <4>1. QueueOK(queue[caller.mac], 0)
        BY <1>1, <3>1 DEF IInv, emptyPdu
      <4>2. queue[caller.mac].sdus = << >> /\ queue[caller.mac].length = 0
        <5>1. /\ queue[caller.mac].sdus \in Seq(Sdu)
              /\ queue[caller.mac].length = 0
              /\ Len(queue[caller.mac].sdus) <= 0
          BY <4>1 DEF QueueOK, QueueType
        <5> QED
          BY <5>1
      <4>3. Refuses(queue[caller.mac], caller.sdu)
        BY <2>2, <3>1 DEF Find
      <4> QED
        BY <1>1, <4>2, <4>3, EmptyRefuses
    <3>2. CASE caller.mac \notin Dests
      BY <2>2, <3>2 DEF Find
    <3> QED
      BY <3>1, <3>2
  <2> QED
    BY <1>1, <2>1, <2>2 DEF Lossless, CallerOK
<1>4. EndsOnlyForBadSdu'
  BY <1>1, <1>3 DEF EndsOnlyForBadSdu, Oversize, Refuses
<1> QED
  BY <1>2, <1>4 DEF Lossless

\* Every step loses nothing that a PDU can hold.
LEMMA LosslessStep ==
    ASSUME IInv, Lossless, [Next]_vars
    PROVE  Lossless'
<1>1. ASSUME NEW s \in Sdu, Offer(s)
      PROVE  Lossless'
  BY <1>1, LosslessOffer
<1>2. CASE SendPdu
  <2>1. /\ Running /\ caller.stage = "full" /\ caller.mac \in Dests
        /\ Sent(caller.mac) /\ UNCHANGED <<status, lost>>
        /\ caller' = [caller EXCEPT !.stage = "retry"]
    BY <1>2 DEF SendPdu, emptyPdu
  <2>2. caller \in [stage : {"full", "retry"}, sdu : Sdu, mac : UInt8]
    BY <2>1, FullOrRetryType DEF IInv
  <2>3. /\ caller'.stage = "retry"
        /\ caller'.sdu = caller.sdu /\ caller'.mac = caller.mac
    BY <2>1, <2>2
  <2>4. caller.sdu \notin Misread => caller.mac = caller.sdu.mac
    BY <2>1 DEF Lossless, CallerOK
  <2>5. queue'[caller.mac] = EmptyQueue
    BY <2>1 DEF Sent, IInv, TypeOK
  <2>6. CallerOK'
    BY <2>1, <2>3, <2>4, <2>5 DEF CallerOK
  <2> QED
    BY <2>1, <2>6 DEF Lossless, LostOnlyOversize, Oversize,
                      EndsOnlyForBadSdu, Running
<1>3. CASE SendPduOfNothing
  BY <1>3, LosslessNothingSent
<1>4. CASE Retry
  BY <1>4, LosslessRetry
<1>5. ASSUME NEW d \in Dests, Flush(d)
      PROVE  Lossless'
  BY <1>5 DEF Flush, Lossless, CallerOK, LostOnlyOversize, Oversize,
              EndsOnlyForBadSdu, Running, Idle
<1>6. CASE UNCHANGED vars
  BY <1>6 DEF vars, Lossless, CallerOK, LostOnlyOversize, Oversize,
              EndsOnlyForBadSdu, Running, Refuses
<1> QED
  BY <1>1, <1>2, <1>3, <1>4, <1>5, <1>6 DEF Next, Done

\* Nothing is lost at the start.
LEMMA LosslessInit == Init => Lossless
BY DEF Init, Idle, Lossless, CallerOK, LostOnlyOversize, EndsOnlyForBadSdu,
       Running

\* So no such SDU is ever lost.
LEMMA LosslessInvariant == Spec => []Lossless
<1>1. IInv /\ Lossless /\ [Next]_vars => Lossless'
  BY LosslessStep
<1> QED
  BY <1>1, LosslessInit, Invariant, PTL DEF Spec

\* The second addSdu, whose result is not looked at, is refused only for an SDU
\* larger than the MTU allows or one whose getMacAddress did not return its
\* result: for no mixture of destinations, sizes and flushes is another lost.
THEOREM RetryLosesOnlyOversize == Spec => []LostOnlyOversize
<1>1. Lossless => LostOnlyOversize
  BY DEF Lossless
<1> QED
  BY <1>1, LosslessInvariant, PTL

\* The process ends in addSdu or sendPdu only for an SDU that no PDU can hold,
\* whose address has no queue, or whose getMacAddress did not return its result.
THEOREM EndsOnlyForBad == Spec => []EndsOnlyForBadSdu
<1>1. Lossless => EndsOnlyForBadSdu
  BY DEF Lossless
<1> QED
  BY <1>1, LosslessInvariant, PTL

(***************************************************************************)
(* The bytes of a queue: what currentBufferLength computes.                 *)
(***************************************************************************)

\* r[i] is the number of bytes of the first i SDUs.
Sums(r, sdus) ==
    r[0] = 0 /\ \A i \in 1 .. Len(sdus) : r[i] = r[i - 1] + sdus[i].size

\* A queue has such sums.
LEMMA SumsExist ==
    ASSUME NEW sdus \in Seq(Sdu)
    PROVE  \E r \in [0 .. Len(sdus) -> Nat] : Sums(r, sdus)
<1> DEFINE n == Len(sdus)
           step == [i \in 1 .. n |-> [v \in Nat |-> v + sdus[i].size]]
<1>1. n \in Nat /\ \A i \in 1 .. n : sdus[i].size \in Nat
  BY SduType
<1>2. step \in [1 .. n -> [Nat -> Nat]]
  <2> HIDE DEF n
  <2> QED
    BY <1>1
<1>3. PICK r \in [0 .. n -> Nat] : Chain(r, 0, step, n)
  <2> HIDE DEF step, n
  <2> QED
    BY <1>1, <1>2, ChainExists
<1>4. ASSUME NEW i \in 1 .. n
      PROVE  r[i] = r[i - 1] + sdus[i].size
  <2>1. r[i - 1] \in Nat
    BY <1>1
  <2> QED
    BY <1>3, <2>1 DEF Chain
<1> QED
  BY <1>3, <1>4 DEF Chain, Sums

\* currentBufferLength is the last of them.
LEMMA SduBytesIs ==
    ASSUME NEW q, q.sdus \in Seq(Sdu),
           NEW r \in [0 .. Len(q.sdus) -> Nat], Sums(r, q.sdus)
    PROVE  SduBytes(q) = r[Len(q.sdus)]
<1> DEFINE sdus == q.sdus
           n == Len(sdus)
           D == SUBSET (1 .. n)
           step == [i \in 1 .. n |-> [v \in Nat |-> v + sdus[i].size]]
           Eq(g) == g = [s \in D |-> IF s = {} THEN 0
                            ELSE g[s \ {Max(s)}] + sdus[Max(s)].size]
           g == CHOOSE f : Eq(f)
<1>1. /\ n \in Nat /\ DOMAIN sdus = 1 .. n
      /\ \A i \in 1 .. n : sdus[i].size \in Nat
  BY SduType
<1>2. SduBytes(q) = g[1 .. n]
  BY <1>1 DEF SduBytes, FoldLeft, MapThenFoldSet
<1>3. \E f : Eq(f)
  <2>1. step \in [1 .. n -> [Nat -> Nat]]
    <3> HIDE DEF n, sdus
    <3> QED
      BY <1>1
  <2>2. PICK f \in [D -> Nat] : IsFold(f, 0, step, n)
    <3> HIDE DEF step, n
    <3> QED
      BY <1>1, <2>1, FoldExists
  <2>3. ASSUME NEW s \in D
        PROVE  f[s] = IF s = {} THEN 0
                      ELSE f[s \ {Max(s)}] + sdus[Max(s)].size
    <3>1. CASE s = {}
      BY <3>1, <2>2 DEF IsFold
    <3>2. CASE s # {}
      <4>1. Max(s) \in 1 .. n
        BY <1>1, <3>2, MaxIs
      <4>2. f[s \ {Max(s)}] \in Nat
        BY <2>2
      <4>3. f[s] = step[Max(s)][f[s \ {Max(s)}]]
        BY <2>2, <3>2 DEF IsFold
      <4> HIDE DEF n, sdus, D
      <4> QED
        BY <3>2, <4>1, <4>2, <4>3
    <3> QED
      BY <3>1, <3>2
  <2> HIDE DEF D, sdus
  <2> QED
    BY <2>3
<1>4. Eq(g)
  <2> HIDE DEF Eq
  <2> QED
    BY <1>3
<1> HIDE DEF g
<1>5. Chain(r, 0, step, n)
  <2>1. ASSUME NEW i \in 1 .. n
        PROVE  r[i] = step[i][r[i - 1]]
    <3>1. i - 1 \in 0 .. n
      BY <1>1
    <3>2. r[i - 1] \in Nat
      BY <3>1
    <3> QED
      BY <3>2 DEF Sums
  <2> HIDE DEF step
  <2> QED
    BY <2>1 DEF Chain, Sums
<1>6. IsFoldOn(g, 0, step, n, Nat)
  <2>1. ASSUME NEW s \in D, s # {}, g[s \ {Max(s)}] \in Nat
        PROVE  g[s] = step[Max(s)][g[s \ {Max(s)}]]
    <3>1. Max(s) \in 1 .. n
      BY <1>1, <2>1, MaxIs
    <3>2. g[s] = g[s \ {Max(s)}] + sdus[Max(s)].size
      BY <1>4, <2>1
    <3> HIDE DEF n
    <3> QED
      BY <2>1, <3>1, <3>2
  <2>2. {} \in D
    OBVIOUS
  <2>3. g[{}] = 0
    BY <1>4, <2>2
  <2> HIDE DEF step
  <2> QED
    BY <2>1, <2>3 DEF IsFoldOn
<1>7. g[1 .. n] = r[n]
  <2>1. r \in [0 .. n -> Nat]
    OBVIOUS
  <2> HIDE DEF step, n
  <2> QED
    BY <1>1, <1>5, <1>6, <2>1, FoldComputes
<1> QED
  BY <1>2, <1>7

\* An SDU more, wherever it is put, and its bytes.
LEMMA AddSduBytes ==
    ASSUME NEW q \in QueueType, NEW s \in Sdu, ControlsInFront(q)
    PROVE  /\ SduBytes(addSDU(q, s)) = SduBytes(q) + s.size
           /\ SduBytes(q) \in Nat
<1> DEFINE new == addSDU(q, s)
           n == Len(q.sdus)
           p == 1 + IF s.control THEN q.controlOffset ELSE n
<1>1. /\ q.sdus \in Seq(Sdu) /\ n \in Nat /\ q.controlOffset \in 0 .. n
      /\ \A i \in 1 .. n : q.sdus[i] \in Sdu
  BY DEF QueueType, ControlsInFront
<1>2. p \in 1 .. n + 1
  BY <1>1
<1>3. /\ new.sdus \in Seq(Sdu) /\ Len(new.sdus) = n + 1
      /\ \A i \in 1 .. n + 1 : new.sdus[i] =
            IF i < p THEN q.sdus[i] ELSE IF i = p THEN s ELSE q.sdus[i - 1]
  <2>1. new.sdus \in Seq(Sdu) /\ Len(new.sdus) = n + 1
    BY AddSduType DEF QueueType
  <2> QED
    BY <2>1 DEF addSDU, addSduPosition
<1>4. PICK r \in [0 .. n -> Nat] : Sums(r, q.sdus)
  BY <1>1, SumsExist
<1> DEFINE t == [i \in 0 .. n + 1 |->
                   IF i < p THEN r[i] ELSE r[i - 1] + s.size]
<1>5. s.size \in Nat /\ \A i \in 1 .. n : q.sdus[i].size \in Nat
  BY <1>1, SduType
<1> HIDE DEF p, new
<1>6. t \in [0 .. n + 1 -> Nat]
  <2>1. ASSUME NEW i \in 0 .. n + 1
        PROVE  (IF i < p THEN r[i] ELSE r[i - 1] + s.size) \in Nat
    <3>1. CASE i < p
      <4>1. i \in 0 .. n
        BY <1>1, <1>2, <3>1
      <4> QED
        BY <3>1, <4>1
    <3>2. CASE ~(i < p)
      <4>1. i - 1 \in 0 .. n
        BY <1>1, <1>2, <3>2
      <4>2. r[i - 1] \in Nat
        BY <4>1
      <4> QED
        BY <1>5, <3>2, <4>2
    <3> QED
      BY <3>1, <3>2
  <2> HIDE DEF n
  <2> QED
    BY <2>1
<1>7. Sums(t, new.sdus)
  <2>1. t[0] = 0
    BY <1>1, <1>2, <1>4 DEF Sums
  <2>2. ASSUME NEW i \in 1 .. n + 1
        PROVE  t[i] = t[i - 1] + new.sdus[i].size
    <3>1. i \in 0 .. n + 1 /\ i - 1 \in 0 .. n + 1
      BY <1>1
    <3>2. CASE i < p
      <4>1. i \in 1 .. n /\ i - 1 < p
        BY <1>1, <1>2, <3>2
      <4>2. r[i] = r[i - 1] + q.sdus[i].size
        BY <1>4, <4>1 DEF Sums
      <4> QED
        BY <1>3, <3>1, <3>2, <4>1, <4>2
    <3>3. CASE i = p
      <4>1. t[i] = r[i - 1] + s.size /\ t[i - 1] = r[i - 1]
        BY <1>1, <1>2, <3>1, <3>3
      <4> QED
        BY <1>1, <1>2, <1>3, <3>3, <4>1
    <3>4. CASE i > p
      <4>1. /\ i - 1 \in 1 .. n /\ ~(i < p) /\ ~(i - 1 < p) /\ i # p
            /\ i - 2 \in 0 .. n /\ i - 1 - 1 = i - 2 /\ i - 1 \in 0 .. n
        BY <1>1, <1>2, <3>4
      <4>2. t[i] = r[i - 1] + s.size /\ t[i - 1] = r[i - 2] + s.size
        BY <3>1, <4>1
      <4>3. r[i - 1] = r[i - 2] + q.sdus[i - 1].size
        BY <1>4, <4>1 DEF Sums
      <4>4. new.sdus[i] = q.sdus[i - 1]
        BY <1>3, <4>1
      <4>5. r[i - 2] \in Nat /\ q.sdus[i - 1].size \in Nat
        BY <1>5, <4>1
      <4> HIDE DEF t
      <4> QED
        BY <1>5, <4>2, <4>3, <4>4, <4>5
    <3> QED
      BY <1>2, <3>2, <3>3, <3>4
  <2> HIDE DEF t
  <2> QED
    BY <1>3, <2>1, <2>2 DEF Sums
<1>8. SduBytes(q) = r[n] /\ r[n] \in Nat
  BY <1>1, <1>4, SduBytesIs
<1>9. SduBytes(new) = t[n + 1]
  <2> HIDE DEF t
  <2> QED
    BY <1>3, <1>6, <1>7, SduBytesIs
<1>10. t[n + 1] = r[n] + s.size
  BY <1>1, <1>2
<1> QED
  BY <1>8, <1>9, <1>10 DEF new

\* An empty queue has no bytes.
LEMMA EmptyBytes == SduBytes(EmptyQueue) = 0
<1>1. EmptyQueue.sdus \in Seq(Sdu) /\ Len(EmptyQueue.sdus) = 0
  BY DEF EmptyQueue
<1>2. PICK r \in [0 .. Len(EmptyQueue.sdus) -> Nat] : Sums(r, EmptyQueue.sdus)
  BY <1>1, SumsExist
<1> QED
  BY <1>1, <1>2, SduBytesIs DEF Sums

(***************************************************************************)
(* Where the SDUs are. s is the i-th SDU of queue d (n = 0) or of the n-th  *)
(* PDU sent to d.                                                           *)
(***************************************************************************)
Holds(d, n, i, s) ==
    \/ n = 0 /\ i \in 1 .. Len(queue[d].sdus) /\ queue[d].sdus[i] = s
    \/ /\ n \in 1 .. Len(sent[d])
       /\ i \in 1 .. Len(sent[d][n].sdus)
       /\ sent[d][n].sdus[i] = s

Placed(s) == \E d \in Dests : \E n, i \in Nat : Holds(d, n, i, s)

Once(s) ==
    \A d, e \in Dests : \A n, m, i, j \in Nat :
       Holds(d, n, i, s) /\ Holds(e, m, j, s) => d = e /\ n = m /\ i = j

\* The types that the proofs about places need.
LEMMA PlaceTypes ==
    ASSUME TypeOK, NEW d \in Dests
    PROVE  /\ queue[d] \in QueueType /\ queue[d].sdus \in Seq(Sdu)
           /\ Len(queue[d].sdus) \in Nat
           /\ sent[d] \in Seq(PduType) /\ Len(sent[d]) \in Nat
           /\ \A n \in 1 .. Len(sent[d]) :
                 /\ sent[d][n] \in PduType /\ sent[d][n].sdus \in Seq(Sdu)
                 /\ Len(sent[d][n].sdus) \in Nat
<1>1. queue[d] \in QueueType /\ sent[d] \in Seq(PduType)
  BY DEF TypeOK
<1>2. \A n \in 1 .. Len(sent[d]) : sent[d][n] \in PduType
  BY <1>1
<1> QED
  BY <1>1, <1>2, SMTT(30) DEF QueueType, PduType

\* The places of an SDU are those that hold it.
LEMMA PlacesAre ==
    ASSUME TypeOK, NEW s, NEW p
    PROVE  p \in Places(s) <=> \E d \in Dests : \E n, i \in Nat :
                                  p = <<d, n, i>> /\ Holds(d, n, i, s)
<1>1. ASSUME p \in Places(s)
      PROVE  \E d \in Dests : \E n, i \in Nat :
                p = <<d, n, i>> /\ Holds(d, n, i, s)
  <2>1. CASE \E d \in Dests : \E i \in 1 .. Len(queue[d].sdus) :
                p = <<d, 0, i>> /\ queue[d].sdus[i] = s
    <3>a. PICK d \in Dests : \E i \in 1 .. Len(queue[d].sdus) :
             p = <<d, 0, i>> /\ queue[d].sdus[i] = s
      BY <2>1
    <3>1. PICK i \in 1 .. Len(queue[d].sdus) :
             p = <<d, 0, i>> /\ queue[d].sdus[i] = s
      BY <3>a
    <3>2. i \in Nat
      BY PlaceTypes
    <3> QED
      BY <3>1, <3>2 DEF Holds
  <2>2. CASE \E d \in Dests : \E n \in 1 .. Len(sent[d]) :
             \E i \in 1 .. Len(sent[d][n].sdus) :
                p = <<d, n, i>> /\ sent[d][n].sdus[i] = s
    <3>a. PICK d \in Dests : \E n \in 1 .. Len(sent[d]) :
             \E i \in 1 .. Len(sent[d][n].sdus) :
                p = <<d, n, i>> /\ sent[d][n].sdus[i] = s
      BY <2>2
    <3>b. PICK n \in 1 .. Len(sent[d]) : \E i \in 1 .. Len(sent[d][n].sdus) :
             p = <<d, n, i>> /\ sent[d][n].sdus[i] = s
      BY <3>a
    <3>1. PICK i \in 1 .. Len(sent[d][n].sdus) :
             p = <<d, n, i>> /\ sent[d][n].sdus[i] = s
      BY <3>b
    <3>2. i \in Nat /\ n \in Nat
      BY PlaceTypes
    <3> QED
      BY <3>1, <3>2 DEF Holds
  <2> DEFINE Q == UNION {{<<d, 0, i>> : i \in 1 .. Len(queue[d].sdus)} :
                         d \in Dests}
             T == UNION {UNION {{<<d, n, i>> :
                                   i \in 1 .. Len(sent[d][n].sdus)} :
                                n \in 1 .. Len(sent[d])} : d \in Dests}
  <2>3. \/ p \in Q /\ queue[p[1]].sdus[p[3]] = s
        \/ p \in T /\ sent[p[1]][p[2]].sdus[p[3]] = s
    BY <1>1, Zenon DEF Places
  <2>4. CASE p \in Q /\ queue[p[1]].sdus[p[3]] = s
    <3>1. \E d \in Dests : p \in {<<d, 0, i>> : i \in 1 .. Len(queue[d].sdus)}
      BY <2>4
    <3>2. PICK d \in Dests : \E i \in 1 .. Len(queue[d].sdus) : p = <<d, 0, i>>
      BY <3>1
    <3>3. p[1] = d
      BY <3>2
    <3> QED
      BY <2>1, <2>4, <3>2, <3>3
  <2>5. CASE p \in T /\ sent[p[1]][p[2]].sdus[p[3]] = s
    <3>1. \E d \in Dests : \E n \in 1 .. Len(sent[d]) :
             p \in {<<d, n, i>> : i \in 1 .. Len(sent[d][n].sdus)}
      BY <2>5
    <3>2. PICK d \in Dests : \E n \in 1 .. Len(sent[d]) :
             \E i \in 1 .. Len(sent[d][n].sdus) : p = <<d, n, i>>
      BY <3>1
    <3>3. PICK n \in 1 .. Len(sent[d]) :
             \E i \in 1 .. Len(sent[d][n].sdus) : p = <<d, n, i>>
      BY <3>2
    <3>4. p[1] = d /\ p[2] = n
      BY <3>3
    <3> QED
      BY <2>2, <2>5, <3>3, <3>4
  <2> QED
    BY <2>3, <2>4, <2>5
<1>2. ASSUME NEW d \in Dests, NEW n \in Nat, NEW i \in Nat,
             p = <<d, n, i>>, Holds(d, n, i, s)
      PROVE  p \in Places(s)
  <2>1. CASE n = 0
    BY <1>2, <2>1 DEF Holds, Places
  <2>2. CASE n # 0
    BY <1>2, <2>2 DEF Holds, Places
  <2> QED
    BY <2>1, <2>2
<1> QED
  BY <1>1, <1>2

\* So there is one place, or none.
LEMMA PlacesCount ==
    ASSUME TypeOK, NEW s, Once(s)
    PROVE  Cardinality(Places(s)) = IF Placed(s) THEN 1 ELSE 0
<1>1. CASE Placed(s)
  <2>1. PICK d \in Dests, n \in Nat, i \in Nat : Holds(d, n, i, s)
    BY <1>1 DEF Placed
  <2>2. ASSUME NEW p
        PROVE  p \in Places(s) <=> p = <<d, n, i>>
    <3>1. ASSUME p \in Places(s)
          PROVE  p = <<d, n, i>>
      <4>1. PICK e \in Dests, m \in Nat, j \in Nat :
               p = <<e, m, j>> /\ Holds(e, m, j, s)
        BY <3>1, PlacesAre
      <4> QED
        BY <2>1, <4>1 DEF Once
    <3> QED
      BY <2>1, <3>1, PlacesAre
  <2>3. Places(s) = {<<d, n, i>>}
    BY <2>2
  <2> QED
    BY <1>1, <2>3, FS_Singleton
<1>2. CASE ~Placed(s)
  <2>1. Places(s) = {}
    BY <1>2, PlacesAre DEF Placed
  <2> QED
    BY <1>2, <2>1, FS_EmptySet
<1> QED
  BY <1>1, <1>2

\* An SDU is put into queue d at place p, and those behind it move up.
PutIn(s, d, p) ==
    /\ \A j \in Nat : \A t :
          Holds(d, 0, j, t)' <=> \/ j < p /\ Holds(d, 0, j, t)
                                 \/ j = p /\ t = s
                                 \/ j > p /\ Holds(d, 0, j - 1, t)
    /\ \A e \in Dests : \A m, j \in Nat : \A t :
          ~(e = d /\ m = 0) => (Holds(e, m, j, t)' <=> Holds(e, m, j, t))

\* addSdu puts it there.
LEMMA AddedPuts ==
    ASSUME IInv, NEW s \in Sdu, NEW d \in Dests, Added(s, d), sent' = sent
    PROVE  \E p \in Nat \ {0} : PutIn(s, d, p)
<1> DEFINE q == queue[d]
           n == Len(q.sdus)
           new == addSDU(q, s)
           p == 1 + IF s.control THEN q.controlOffset ELSE n
<1>1. /\ TypeOK /\ q \in QueueType /\ ControlsInFront(q)
      /\ queue \in [Dests -> QueueType]
  BY DEF IInv, QueueOK, TypeOK
<1>2. /\ q.sdus \in Seq(Sdu) /\ n \in Nat /\ q.controlOffset \in 0 .. n
  BY <1>1 DEF QueueType, ControlsInFront
<1>3. p \in 1 .. n + 1
  BY <1>2
<1>4. /\ Len(new.sdus) = n + 1
      /\ \A i \in 1 .. n + 1 : new.sdus[i] =
            IF i < p THEN q.sdus[i] ELSE IF i = p THEN s ELSE q.sdus[i - 1]
  <2>1. Len(new.sdus) = n + 1
    BY <1>1, AddSduType
  <2> QED
    BY <2>1 DEF addSDU, addSduPosition
<1>5. queue' = [queue EXCEPT ![d] = new]
  BY AddedPlain
<1> HIDE DEF new, p
<1>6. ASSUME NEW j \in Nat, NEW t
      PROVE  Holds(d, 0, j, t)' <=> \/ j < p /\ Holds(d, 0, j, t)
                                    \/ j = p /\ t = s
                                    \/ j > p /\ Holds(d, 0, j - 1, t)
  <2>1. Holds(d, 0, j, t)' <=> j \in 1 .. n + 1 /\ new.sdus[j] = t
    BY <1>1, <1>4, <1>5 DEF Holds
  <2>2. \A i : Holds(d, 0, i, t) <=> i \in 1 .. n /\ q.sdus[i] = t
    BY DEF Holds
  <2>3. CASE j < p
    <3>1. j \in 1 .. n + 1 <=> j \in 1 .. n
      BY <1>2, <1>3, <2>3
    <3>2. j # p /\ ~(j > p)
      BY <1>3, <2>3
    <3>3. j \in 1 .. n + 1 => new.sdus[j] = q.sdus[j]
      BY <1>4, <2>3
    <3>4. Holds(d, 0, j, t)' <=> Holds(d, 0, j, t)
      <4> HIDE DEF n, q
      <4> QED
        BY <2>1, <2>2, <3>1, <3>3
    <3> QED
      BY <2>3, <3>2, <3>4
  <2>4. CASE j = p
    BY <1>2, <1>3, <1>4, <2>1, <2>2, <2>4
  <2>5. CASE j > p
    <3>1. j \in 1 .. n + 1 <=> j - 1 \in 1 .. n
      BY <1>2, <1>3, <2>5
    <3>2. ~(j < p) /\ j # p
      BY <1>3, <2>5
    <3>3. j \in 1 .. n + 1 => new.sdus[j] = q.sdus[j - 1]
      BY <1>4, <3>2
    <3>4. Holds(d, 0, j, t)' <=> Holds(d, 0, j - 1, t)
      <4> HIDE DEF n, q
      <4> QED
        BY <2>1, <2>2, <3>1, <3>3
    <3> QED
      BY <2>5, <3>2, <3>4
  <2> QED
    BY <1>3, <2>3, <2>4, <2>5
<1>b. ASSUME NEW e \in Dests, NEW m \in Nat, NEW j \in Nat, NEW t,
             ~(e = d /\ m = 0)
      PROVE  Holds(e, m, j, t)' <=> Holds(e, m, j, t)
  <2>1. CASE e = d
    BY <1>b, <2>1 DEF Holds
  <2>2. CASE e # d
    <3>1. queue'[e] = queue[e]
      BY <1>1, <1>5, <2>2
    <3> QED
      BY <2>2, <3>1 DEF Holds
  <2> QED
    BY <2>1, <2>2
<1>7. PutIn(s, d, p)
  BY <1>6, <1>b DEF PutIn
<1> QED
  BY <1>2, <1>3, <1>7

\* It is the only SDU that gets a place, and it gets one.
LEMMA PutPlaces ==
    ASSUME NEW s, NEW d \in Dests, NEW p \in Nat \ {0}, PutIn(s, d, p), NEW t
    PROVE  /\ Placed(t)' <=> Placed(t) \/ t = s
           /\ Once(t) /\ (t = s => ~Placed(s)) => Once(t)'
<1> DEFINE Old(e, m, j) == IF e = d /\ m = 0 /\ j > p THEN j - 1 ELSE j
           New(e, m, j) == IF e = d /\ m = 0 /\ j >= p THEN j + 1 ELSE j
<1>1. ASSUME NEW e \in Dests, NEW m \in Nat, NEW j \in Nat
      PROVE  /\ Old(e, m, j) \in Nat
             /\ Holds(e, m, j, t)' => \/ Holds(e, m, Old(e, m, j), t)
                                         /\ ~(e = d /\ m = 0 /\ j = p)
                                      \/ t = s /\ e = d /\ m = 0 /\ j = p
  BY DEF PutIn
<1>2. ASSUME NEW e \in Dests, NEW m \in Nat, NEW j \in Nat, Holds(e, m, j, t)
      PROVE  New(e, m, j) \in Nat /\ Holds(e, m, New(e, m, j), t)'
  <2>1. CASE e = d /\ m = 0 /\ j >= p
    <3>1. j + 1 \in Nat /\ j + 1 > p /\ j + 1 - 1 = j
      BY <2>1
    <3> QED
      BY <1>2, <2>1, <3>1 DEF PutIn
  <2>2. CASE ~(e = d /\ m = 0 /\ j >= p)
    BY <1>2, <2>2 DEF PutIn
  <2> QED
    BY <2>1, <2>2
<1>3. t = s => Placed(t)'
  <2>1. t = s => Holds(d, 0, p, t)'
    BY DEF PutIn
  <2>2. Placed(t)' <=> \E e \in Dests : \E n, i \in Nat : Holds(e, n, i, t)'
    BY DEF Placed
  <2> QED
    BY <2>1, <2>2
<1>4. Placed(t) => Placed(t)'
  <2>1. SUFFICES ASSUME Placed(t) PROVE Placed(t)'
    OBVIOUS
  <2>2. PICK e \in Dests, m \in Nat, j \in Nat : Holds(e, m, j, t)
    BY <2>1 DEF Placed
  <2>3. Placed(t)' <=> \E f \in Dests : \E n, i \in Nat : Holds(f, n, i, t)'
    BY DEF Placed
  <2> HIDE DEF New
  <2> QED
    BY <1>2, <2>2, <2>3
<1>5. Placed(t)' => Placed(t) \/ t = s
  <2>1. SUFFICES ASSUME Placed(t)' PROVE Placed(t) \/ t = s
    OBVIOUS
  <2>2. PICK e \in Dests, m \in Nat, j \in Nat : Holds(e, m, j, t)'
    BY <2>1 DEF Placed
  <2> HIDE DEF Old
  <2> QED
    BY <1>1, <2>2 DEF Placed
<1>6. ASSUME Once(t), t = s => ~Placed(s)
      PROVE  Once(t)'
  <2>1. ASSUME NEW e \in Dests, NEW f \in Dests, NEW n \in Nat, NEW m \in Nat,
               NEW i \in Nat, NEW j \in Nat,
               Holds(e, n, i, t)', Holds(f, m, j, t)'
        PROVE  e = f /\ n = m /\ i = j
    <3>1. CASE t = s
      <4>1. \A g \in Dests : \A k, l \in Nat : ~Holds(g, k, l, t)
        BY <1>6, <3>1 DEF Placed
      <4> HIDE DEF Old
      <4> QED
        BY <1>1, <2>1, <4>1
    <3>2. CASE t # s
      <4>1. /\ Old(e, n, i) \in Nat /\ Holds(e, n, Old(e, n, i), t)
            /\ Old(f, m, j) \in Nat /\ Holds(f, m, Old(f, m, j), t)
            /\ ~(e = d /\ n = 0 /\ i = p) /\ ~(f = d /\ m = 0 /\ j = p)
        <5> HIDE DEF Old
        <5> QED
          BY <1>1, <2>1, <3>2
      <4>2. e = f /\ n = m /\ Old(e, n, i) = Old(f, m, j)
        <5> HIDE DEF Old
        <5> QED
          BY <1>6, <4>1 DEF Once
      <4> QED
        BY <4>1, <4>2
    <3> QED
      BY <3>1, <3>2
  <2>2. Once(t)' <=> \A e, f \in Dests : \A n, m, i, j \in Nat :
           Holds(e, n, i, t)' /\ Holds(f, m, j, t)' =>
              e = f /\ n = m /\ i = j
    BY DEF Once
  <2> QED
    BY <2>1, <2>2
<1> QED
  BY <1>3, <1>4, <1>5, <1>6

\* The SDUs of queue d become those of PDU n.
Moved(d, n) ==
    /\ n \in Nat \ {0}
    /\ \A j \in Nat : \A t : ~Holds(d, n, j, t)
    /\ \A e \in Dests : \A m, j \in Nat : \A t :
          Holds(e, m, j, t)' <=> IF e = d /\ m = 0 THEN FALSE
                                 ELSE IF e = d /\ m = n THEN Holds(d, 0, j, t)
                                 ELSE Holds(e, m, j, t)

\* getPdu and sendPdu move them.
LEMMA SentMoves ==
    ASSUME TypeOK, NEW d \in Dests, Sent(d)
    PROVE  \E n \in Nat : Moved(d, n)
<1> DEFINE n == Len(sent[d]) + 1
           new == Append(sent[d], Pdu(d))
<1>1. /\ queue \in [Dests -> QueueType] /\ sent \in [Dests -> Seq(PduType)]
      /\ sent[d] \in Seq(PduType) /\ Len(sent[d]) \in Nat
      /\ queue[d].sdus \in Seq(Sdu) /\ Len(queue[d].sdus) \in Nat
  BY PlaceTypes DEF TypeOK
<1>2. /\ queue' = [queue EXCEPT ![d] = EmptyQueue]
      /\ sent' = [sent EXCEPT ![d] = new]
  BY DEF Sent
<1>3. /\ Len(new) = n /\ new[n] = Pdu(d)
      /\ \A k \in 1 .. Len(sent[d]) : new[k] = sent[d][k]
  BY <1>1
<1>4. Pdu(d).sdus = queue[d].sdus /\ EmptyQueue.sdus = << >>
  BY DEF Pdu, EmptyQueue
<1>5. \A j \in Nat : \A t : ~Holds(d, n, j, t)
  BY <1>1 DEF Holds
<1> HIDE DEF new
<1>6. ASSUME NEW e \in Dests, NEW m \in Nat, NEW j \in Nat, NEW t
      PROVE  Holds(e, m, j, t)' <=>
                IF e = d /\ m = 0 THEN FALSE
                ELSE IF e = d /\ m = n THEN Holds(d, 0, j, t)
                ELSE Holds(e, m, j, t)
  <2>1. CASE e # d
    <3>1. queue'[e] = queue[e] /\ sent'[e] = sent[e]
      BY <1>1, <1>2, <2>1
    <3> QED
      BY <2>1, <3>1 DEF Holds
  <2>2. CASE e = d
    <3>1. queue'[e].sdus = << >> /\ sent'[e] = new
      BY <1>1, <1>2, <1>4, <2>2
    <3>2. CASE m = 0
      BY <2>2, <3>1, <3>2 DEF Holds
    <3>3. CASE m = n
      <4>1. m \in 1 .. Len(new) /\ m # 0
        BY <1>1, <1>3, <3>3
      <4> QED
        BY <1>3, <1>4, <2>2, <3>1, <3>3, <4>1 DEF Holds
    <3>4. CASE m # 0 /\ m # n
      <4>1. m \in 1 .. Len(new) <=> m \in 1 .. Len(sent[d])
        BY <1>1, <1>3, <3>4
      <4> HIDE DEF n
      <4> QED
        BY <1>3, <2>2, <3>1, <3>4, <4>1 DEF Holds
    <3> QED
      BY <3>2, <3>3, <3>4
  <2> QED
    BY <2>1, <2>2
<1>7. n \in Nat \ {0}
  BY <1>1
<1> HIDE DEF n
<1> QED
  BY <1>5, <1>6, <1>7 DEF Moved

\* No SDU gets or loses a place.
LEMMA MovedPlaces ==
    ASSUME NEW d \in Dests, NEW n, Moved(d, n), NEW t
    PROVE  /\ Placed(t)' <=> Placed(t)
           /\ Once(t) => Once(t)'
<1> DEFINE Old(e, m) == IF e = d /\ m = n THEN 0 ELSE m
           New(e, m) == IF e = d /\ m = 0 THEN n ELSE m
<1>1. ASSUME NEW e \in Dests, NEW m \in Nat, NEW j \in Nat
      PROVE  /\ Old(e, m) \in Nat
             /\ Holds(e, m, j, t)' =>
                   Holds(e, Old(e, m), j, t) /\ ~(e = d /\ m = 0)
  BY DEF Moved
<1>2. ASSUME NEW e \in Dests, NEW m \in Nat, NEW j \in Nat, Holds(e, m, j, t)
      PROVE  New(e, m) \in Nat /\ Holds(e, New(e, m), j, t)'
  BY <1>2 DEF Moved
<1>3. Placed(t)' <=> \E e \in Dests : \E m, j \in Nat : Holds(e, m, j, t)'
  BY DEF Placed
<1>4. Placed(t)' <=> Placed(t)
  <2> HIDE DEF Old, New
  <2>1. ASSUME Placed(t)
        PROVE  Placed(t)'
    <3>1. PICK e \in Dests, m \in Nat, j \in Nat : Holds(e, m, j, t)
      BY <2>1 DEF Placed
    <3> QED
      BY <1>2, <1>3, <3>1
  <2>2. ASSUME Placed(t)'
        PROVE  Placed(t)
    <3>1. PICK e \in Dests, m \in Nat, j \in Nat : Holds(e, m, j, t)'
      BY <1>3, <2>2
    <3> QED
      BY <1>1, <3>1 DEF Placed
  <2> QED
    BY <2>1, <2>2
<1>5. ASSUME Once(t)
      PROVE  Once(t)'
  <2>1. ASSUME NEW e \in Dests, NEW f \in Dests, NEW k \in Nat, NEW m \in Nat,
               NEW i \in Nat, NEW j \in Nat,
               Holds(e, k, i, t)', Holds(f, m, j, t)'
        PROVE  e = f /\ k = m /\ i = j
    <3>1. /\ Old(e, k) \in Nat /\ Holds(e, Old(e, k), i, t)
          /\ Old(f, m) \in Nat /\ Holds(f, Old(f, m), j, t)
          /\ ~(e = d /\ k = 0) /\ ~(f = d /\ m = 0)
      <4> HIDE DEF Old
      <4> QED
        BY <1>1, <2>1
    <3>2. e = f /\ i = j /\ Old(e, k) = Old(f, m)
      <4> HIDE DEF Old
      <4> QED
        BY <1>5, <3>1 DEF Once
    <3> QED
      BY <3>1, <3>2
  <2>2. Once(t)' <=> \A e, f \in Dests : \A k, m, i, j \in Nat :
           Holds(e, k, i, t)' /\ Holds(f, m, j, t)' =>
              e = f /\ k = m /\ i = j
    BY DEF Once
  <2> QED
    BY <2>1, <2>2
<1> QED
  BY <1>4, <1>5

(***************************************************************************)
(* The invariant behind Conservation: an SDU that was offered and is        *)
(* neither lost nor in its caller's hands has one place, any other has      *)
(* none. What a caller holds was offered and is not lost, so the second     *)
(* addSdu gives a place to an SDU that has none.                            *)
(***************************************************************************)
Accounted(s) ==
    s \in offered /\ s \notin lost /\ (caller.stage # "idle" => caller.sdu # s)

Kept ==
    /\ \A s \in Sdu : Once(s) /\ (Placed(s) <=> Accounted(s))
    /\ lost \subseteq offered
    /\ caller.stage # "idle" => caller.sdu \in offered /\ caller.sdu \notin lost
    /\ \A d \in Dests : SduBytes(queue[d]) = queue[d].length

\* Nothing is anywhere at the start.
LEMMA KeptInit == Init => Kept
<1> SUFFICES ASSUME Init PROVE Kept
  OBVIOUS
<1>1. /\ queue = [d \in Dests |-> EmptyQueue] /\ sent = [d \in Dests |-> << >>]
      /\ offered = {} /\ lost = {} /\ caller.stage = "idle"
  BY DEF Init, Idle
<1>2. \A d \in Dests : \A n, i \in Nat : \A s : ~Holds(d, n, i, s)
  BY <1>1 DEF Holds, EmptyQueue
<1>3. \A d \in Dests : SduBytes(queue[d]) = queue[d].length
  <2>1. \A d \in Dests : queue[d] = EmptyQueue
    BY <1>1
  <2>2. EmptyQueue.length = 0
    BY DEF EmptyQueue
  <2> QED
    BY <2>1, <2>2, EmptyBytes
<1>4. \A s \in Sdu : Once(s) /\ ~Placed(s)
  BY <1>2 DEF Once, Placed
<1>5. \A s \in Sdu : ~Accounted(s)
  BY <1>1 DEF Accounted
<1> QED
  BY <1>1, <1>3, <1>4, <1>5 DEF Kept

\* A step that moves no SDU.
LEMMA KeptStill ==
    ASSUME Kept, UNCHANGED <<queue, sent>>, lost' \subseteq offered',
           \A s \in Sdu : Accounted(s)' <=> Accounted(s),
           (caller.stage # "idle" => /\ caller.sdu \in offered
                                     /\ caller.sdu \notin lost)'
    PROVE  Kept'
<1>1. \A d, n, i, s : Holds(d, n, i, s)' <=> Holds(d, n, i, s)
  BY DEF Holds
<1>2. \A s \in Sdu : Once(s)' /\ (Placed(s)' <=> Placed(s))
  BY <1>1 DEF Kept, Once, Placed
<1>3. (\A d \in Dests : SduBytes(queue[d]) = queue[d].length)'
  BY DEF Kept
<1>4. (\A s \in Sdu : Once(s) /\ (Placed(s) <=> Accounted(s)))'
  BY <1>2 DEF Kept
<1> QED
  BY <1>3, <1>4 DEF Kept

\* addSdu of s, which had no place.
LEMMA KeptAdded ==
    ASSUME IInv, Kept, NEW s \in Sdu, NEW d \in Dests, Added(s, d),
           sent' = sent, ~Accounted(s),
           lost' \subseteq offered', (caller.stage = "idle")',
           \A t \in Sdu : Accounted(t)' <=> Accounted(t) \/ t = s
    PROVE  Kept'
<1>1. PICK p \in Nat \ {0} : PutIn(s, d, p)
  BY AddedPuts
<1>2. ASSUME NEW t \in Sdu
      PROVE  Once(t)' /\ (Placed(t)' <=> Placed(t) \/ t = s)
  <2>1. Once(t) /\ ~Placed(s)
    BY DEF Kept
  <2> QED
    BY <1>1, <2>1, PutPlaces
<1>3. ASSUME NEW e \in Dests
      PROVE  SduBytes(queue'[e]) = queue'[e].length
  <2>1. /\ queue' = [queue EXCEPT ![d] = addSDU(queue[d], s)]
        /\ queue \in [Dests -> QueueType]
        /\ SduBytes(queue[e]) = queue[e].length
    BY AddedPlain DEF IInv, TypeOK, Kept
  <2>2. CASE e = d
    <3>1. queue[d] \in QueueType /\ ControlsInFront(queue[d])
      BY DEF IInv, QueueOK
    <3>2. queue'[e] = addSDU(queue[d], s)
      BY <2>1, <2>2
    <3>3. addSDU(queue[d], s).length = queue[d].length + s.size
      BY <3>1, AddSduType
    <3>4. SduBytes(addSDU(queue[d], s)) = SduBytes(queue[d]) + s.size
      BY <3>1, AddSduBytes
    <3> QED
      BY <2>1, <2>2, <3>2, <3>3, <3>4
  <2>3. CASE e # d
    <3>1. queue'[e] = queue[e]
      BY <2>1, <2>3
    <3> QED
      BY <2>1, <3>1
  <2> QED
    BY <2>2, <2>3
<1>4. (\A e \in Dests : SduBytes(queue[e]) = queue[e].length)'
  BY <1>3
<1>5. (\A t \in Sdu : Once(t) /\ (Placed(t) <=> Accounted(t)))'
  BY <1>2 DEF Kept
<1> QED
  BY <1>4, <1>5 DEF Kept

\* sendPdu of queue d.
LEMMA KeptSent ==
    ASSUME IInv, Kept, NEW d \in Dests, Sent(d), UNCHANGED <<offered, lost>>,
           \/ caller' = caller
           \/ /\ caller.stage # "idle" /\ caller'.stage # "idle"
              /\ caller'.sdu = caller.sdu
    PROVE  Kept'
<1>1. PICK n \in Nat : Moved(d, n)
  BY SentMoves DEF IInv
<1>2. \A t \in Sdu : Once(t)' /\ (Placed(t)' <=> Placed(t))
  BY <1>1, MovedPlaces DEF Kept
<1>3. \A t \in Sdu : Accounted(t)' <=> Accounted(t)
  BY DEF Accounted
<1>4. ASSUME NEW e \in Dests
      PROVE  SduBytes(queue'[e]) = queue'[e].length
  <2>1. /\ queue' = [queue EXCEPT ![d] = EmptyQueue]
        /\ queue \in [Dests -> QueueType]
        /\ SduBytes(queue[e]) = queue[e].length
        /\ EmptyQueue.length = 0
    BY DEF Sent, IInv, TypeOK, Kept, EmptyQueue
  <2>2. CASE e = d
    <3>1. queue'[e] = EmptyQueue
      BY <2>1, <2>2
    <3> QED
      BY <2>1, <3>1, EmptyBytes
  <2>3. CASE e # d
    <3>1. queue'[e] = queue[e]
      BY <2>1, <2>3
    <3> QED
      BY <2>1, <3>1
  <2> QED
    BY <2>2, <2>3
<1>5. (\A e \in Dests : SduBytes(queue[e]) = queue[e].length)'
  BY <1>4
<1>6. (\A t \in Sdu : Once(t) /\ (Placed(t) <=> Accounted(t)))'
  BY <1>2, <1>3 DEF Kept
<1>7. (caller.stage # "idle" => /\ caller.sdu \in offered
                                /\ caller.sdu \notin lost)'
  BY DEF Kept
<1> QED
  BY <1>5, <1>6, <1>7 DEF Kept

\* The first addSdu of a caller: s, which was not offered, gets a place or
\* stays in the caller's hands.
LEMMA KeptOffer ==
    ASSUME IInv, Kept, NEW s \in Sdu, Offer(s)
    PROVE  Kept'
<1>1. /\ caller.stage = "idle" /\ s \notin offered
      /\ offered' = offered \cup {s} /\ UNCHANGED <<sent, lost>>
      /\ lost \subseteq offered /\ lost' \subseteq offered'
  BY DEF Offer, Idle, Kept
<1>2. ASSUME UNCHANGED queue, caller'.stage = "full", caller'.sdu = s
      PROVE  Kept'
  <2>1. \A t \in Sdu : Accounted(t)' <=> Accounted(t)
    BY <1>1, <1>2 DEF Accounted
  <2>2. (caller.stage # "idle" => caller.sdu \in offered
                                  /\ caller.sdu \notin lost)'
    BY <1>1, <1>2
  <2> QED
    BY <1>1, <1>2, <2>1, <2>2, KeptStill
<1>3. CASE OfferAccepted(s)
  <2>1. PICK d \in Dests : Added(s, d)
    BY <1>3, FindDests DEF OfferAccepted
  <2>2. caller' = caller
    BY <1>3 DEF OfferAccepted
  <2>3. /\ ~Accounted(s)
        /\ (\A t \in Sdu : Accounted(t)' <=> Accounted(t) \/ t = s)
    BY <1>1, <2>2 DEF Accounted
  <2>4. (caller.stage = "idle")'
    BY <1>1, <2>2
  <2> QED
    BY <1>1, <2>1, <2>3, <2>4, KeptAdded
<1>4. CASE OfferRefused(s)
  BY <1>2, <1>4 DEF OfferRefused, Caller
<1>5. CASE OfferNoQueue(s)
  BY <1>2, <1>5 DEF OfferNoQueue, Caller
<1>6. CASE OfferUndefined(s)
  BY <1>2, <1>6 DEF OfferUndefined, Caller
<1> QED
  BY <1>3, <1>4, <1>5, <1>6 DEF Offer

\* The second one: it gets a place, is lost, or the process is undefined.
LEMMA KeptRetry ==
    ASSUME IInv, Kept, Retry
    PROVE  Kept'
<1>1. /\ caller.stage = "retry" /\ caller.sdu \in Sdu
      /\ UNCHANGED <<offered, sent>> /\ lost \subseteq offered
      /\ caller.sdu \in offered /\ caller.sdu \notin lost
  BY FullOrRetryType DEF Retry, IInv, Kept
<1>2. CASE RetryAccepted
  <2>1. PICK d \in Dests : Added(caller.sdu, d)
    BY <1>2, FindDests DEF RetryAccepted
  <2>2. lost' = lost /\ (caller.stage = "idle")' /\ lost' \subseteq offered'
    BY <1>1, <1>2 DEF RetryAccepted, Idle
  <2>3. /\ ~Accounted(caller.sdu)
        /\ \A t \in Sdu : Accounted(t)' <=> Accounted(t) \/ t = caller.sdu
    BY <1>1, <2>2 DEF Accounted
  <2> QED
    BY <1>1, <2>1, <2>2, <2>3, KeptAdded
<1>3. CASE RetryRefused
  <2>1. /\ UNCHANGED queue /\ lost' = lost \cup {caller.sdu}
        /\ (caller.stage = "idle")'
    BY <1>3 DEF RetryRefused, Idle
  <2>2. \A t \in Sdu : Accounted(t)' <=> Accounted(t)
    BY <1>1, <2>1 DEF Accounted
  <2>3. lost' \subseteq offered'
    BY <1>1, <2>1
  <2> QED
    BY <1>1, <2>1, <2>2, <2>3, KeptStill
<1>4. CASE RetryUndefined
  <2>1. UNCHANGED <<queue, caller, lost>>
    BY <1>4 DEF RetryUndefined
  <2>2. \A t \in Sdu : Accounted(t)' <=> Accounted(t)
    BY <1>1, <2>1 DEF Accounted
  <2> QED
    BY <1>1, <2>1, <2>2, KeptStill
<1> QED
  BY <1>2, <1>3, <1>4 DEF Retry

\* Every step keeps count of the SDUs.
LEMMA KeptStep ==
    ASSUME IInv, Kept, [Next]_vars
    PROVE  Kept'
<1>1. ASSUME NEW s \in Sdu, Offer(s)
      PROVE  Kept'
  BY <1>1, KeptOffer
<1>2. CASE SendPdu
  <2>1. /\ caller.stage = "full" /\ caller.mac \in Dests /\ Sent(caller.mac)
        /\ UNCHANGED <<offered, lost>>
        /\ caller' = [caller EXCEPT !.stage = "retry"]
    BY <1>2 DEF SendPdu, emptyPdu
  <2>2. caller \in [stage : {"full", "retry"}, sdu : Sdu, mac : UInt8]
    BY <2>1, FullOrRetryType DEF IInv
  <2>3. caller'.stage = "retry" /\ caller'.sdu = caller.sdu
    BY <2>1, <2>2
  <2> QED
    BY <2>1, <2>3, KeptSent
<1>3. ASSUME UNCHANGED <<queue, sent, caller, offered, lost>>
      PROVE  Kept'
  <2>1. \A t \in Sdu : Accounted(t)' <=> Accounted(t)
    BY <1>3 DEF Accounted
  <2> QED
    BY <1>3, <2>1, KeptStill DEF Kept
<1>4. CASE SendPduOfNothing
  BY <1>3, <1>4 DEF SendPduOfNothing
<1>5. CASE Retry
  BY <1>5, KeptRetry
<1>6. ASSUME NEW d \in Dests, Flush(d)
      PROVE  Kept'
  BY <1>6, KeptSent DEF Flush
<1>7. CASE UNCHANGED vars
  BY <1>3, <1>7 DEF vars
<1> QED
  BY <1>1, <1>2, <1>4, <1>5, <1>6, <1>7 DEF Next, Done

\* No SDU is duplicated, and none disappears: whatever the order in which
\* callers, refusals, retries and flushes follow each other, every SDU that was
\* offered and not lost is in its caller's hands or in one place; and length
\* is what currentBufferLength computes.
THEOREM NothingDisappears == Spec => []Conservation
<1>1. ASSUME IInv, Kept
      PROVE  Conservation
  <2>1. ASSUME NEW s \in Sdu
        PROVE  Cardinality(Places(s)) =
                  IF s \in offered /\ s \notin lost
                     /\ (caller.stage # "idle" => caller.sdu # s) THEN 1 ELSE 0
    <3>1. Once(s) /\ (Placed(s) <=> Accounted(s)) /\ TypeOK
      BY <1>1 DEF Kept, IInv
    <3>2. Cardinality(Places(s)) = IF Placed(s) THEN 1 ELSE 0
      BY <3>1, PlacesCount
    <3> QED
      BY <3>1, <3>2 DEF Accounted
  <2> QED
    BY <1>1, <2>1 DEF Conservation, Kept
<1>2. IInv /\ Kept /\ [Next]_vars => Kept'
  BY KeptStep
<1> QED
  BY <1>1, <1>2, KeptInit, Invariant, PTL DEF Spec

(***************************************************************************)
(* The right queue.                                                         *)
(***************************************************************************)
Home(s) == IF s.mac \in Dests THEN s.mac ELSE BsAddress

AllHome ==
    \A s \in Sdu \ Misread : \A d \in Dests : \A n, i \in Nat :
       Holds(d, n, i, s) => d = Home(s)

\* addSdu puts s into the queue of its home.
LEMMA HomeAdded ==
    ASSUME IInv, AllHome, NEW s \in Sdu, NEW mac \in Lookup(s),
           NEW d \in Find(mac), Added(s, d), sent' = sent
    PROVE  AllHome'
<1>1. d \in Dests /\ (s \notin Misread => d = Home(s))
  BY FindDests, LookupExact, MultiplexerAssumption DEF Find, Home
<1>2. PICK p \in Nat \ {0} : PutIn(s, d, p)
  BY <1>1, AddedPuts
<1>3. ASSUME NEW t \in Sdu \ Misread, NEW e \in Dests,
             NEW n \in Nat, NEW i \in Nat,
             Holds(e, n, i, t)'
      PROVE  e = Home(t)
  <2>1. CASE e = d /\ n = 0
    <3>1. \/ Holds(d, 0, i, t)
          \/ t = s
          \/ i > p /\ Holds(d, 0, i - 1, t)
      BY <1>2, <1>3, <2>1 DEF PutIn
    <3>2. i > p => i - 1 \in Nat
      OBVIOUS
    <3> QED
      BY <1>1, <2>1, <3>1, <3>2 DEF AllHome
  <2>2. CASE ~(e = d /\ n = 0)
    BY <1>2, <1>3, <2>2 DEF PutIn, AllHome
  <2> QED
    BY <2>1, <2>2
<1>4. AllHome' <=> \A t \in Sdu \ Misread : \A e \in Dests : \A n, i \in Nat :
                      Holds(e, n, i, t)' => e = Home(t)
  BY DEF AllHome, Home
<1> QED
  BY <1>3, <1>4

\* A PDU goes where its queue went.
LEMMA HomeSent ==
    ASSUME IInv, AllHome, NEW d \in Dests, Sent(d)
    PROVE  AllHome'
<1>1. PICK m \in Nat : Moved(d, m)
  BY SentMoves DEF IInv
<1>2. ASSUME NEW t \in Sdu \ Misread, NEW e \in Dests,
             NEW n \in Nat, NEW i \in Nat,
             Holds(e, n, i, t)'
      PROVE  e = Home(t)
  <2>1. Holds(e, n, i, t) \/ (e = d /\ Holds(d, 0, i, t))
    BY <1>1, <1>2 DEF Moved
  <2> QED
    BY <2>1 DEF AllHome
<1>3. AllHome' <=> \A t \in Sdu \ Misread : \A e \in Dests : \A n, i \in Nat :
                      Holds(e, n, i, t)' => e = Home(t)
  BY DEF AllHome, Home
<1> QED
  BY <1>2, <1>3

\* Every step leaves the SDUs where they belong.
LEMMA HomeStep ==
    ASSUME IInv, AllHome, [Next]_vars
    PROVE  AllHome'
<1>1. ASSUME UNCHANGED <<queue, sent>>
      PROVE  AllHome'
  <2>1. \A d, n, i, s : Holds(d, n, i, s)' <=> Holds(d, n, i, s)
    BY <1>1 DEF Holds
  <2> QED
    BY <2>1 DEF AllHome, Home
<1>2. ASSUME NEW s \in Sdu, Offer(s)
      PROVE  AllHome'
  <2>1. CASE OfferAccepted(s)
    BY <1>2, <2>1, HomeAdded DEF Offer, OfferAccepted
  <2>2. CASE OfferRefused(s) \/ OfferNoQueue(s) \/ OfferUndefined(s)
    BY <1>1, <1>2, <2>2
       DEF Offer, OfferRefused, OfferNoQueue, OfferUndefined
  <2> QED
    BY <1>2, <2>1, <2>2 DEF Offer
<1>3. CASE SendPdu
  BY <1>3, HomeSent DEF SendPdu, emptyPdu
<1>4. CASE SendPduOfNothing
  BY <1>1, <1>4 DEF SendPduOfNothing
<1>5. CASE Retry
  <2>1. caller.sdu \in Sdu /\ sent' = sent
    BY <1>5, FullOrRetryType DEF Retry, IInv
  <2>2. CASE RetryAccepted
    BY <2>1, <2>2, HomeAdded DEF RetryAccepted
  <2>3. CASE RetryRefused \/ RetryUndefined
    BY <1>1, <2>1, <2>3 DEF RetryRefused, RetryUndefined
  <2> QED
    BY <1>5, <2>2, <2>3 DEF Retry
<1>6. ASSUME NEW d \in Dests, Flush(d)
      PROVE  AllHome'
  BY <1>6, HomeSent DEF Flush
<1>7. CASE UNCHANGED vars
  BY <1>1, <1>7 DEF vars
<1> QED
  BY <1>2, <1>3, <1>4, <1>5, <1>6, <1>7 DEF Next, Done

\* An SDU whose getMacAddress returned its result is only ever in the queue or
\* a PDU of its destination, or of the base station that forwards it: no shift,
\* retry or flush moves it to another destination.
THEOREM RoutedCorrect == Spec => []Routed
<1>1. Init => AllHome
  BY DEF Init, AllHome, Holds, EmptyQueue
<1>2. IInv /\ AllHome /\ [Next]_vars => AllHome'
  BY HomeStep
<1>3. ASSUME IInv, AllHome
      PROVE  Routed
  <2>1. ASSUME NEW s \in Sdu \ Misread, NEW p \in Places(s)
        PROVE  p[1] = Home(s)
    <3>1. PICK d \in Dests, n \in Nat, i \in Nat :
             p = <<d, n, i>> /\ Holds(d, n, i, s)
      BY <1>3, PlacesAre DEF IInv
    <3>2. p[1] = d
      BY <3>1
    <3> QED
      BY <1>3, <3>1, <3>2 DEF AllHome
  <2> QED
    BY <2>1 DEF Routed, Home
<1> QED
  BY <1>1, <1>2, <1>3, Invariant, PTL DEF Spec
=============================================================================
