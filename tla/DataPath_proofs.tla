--------------------------- MODULE DataPath_proofs ---------------------------
(***************************************************************************)
(* Proofs about the data path, for any number of user equipments, packets   *)
(* and faults: the types, what is held where, and the refinement.           *)
(***************************************************************************)
EXTENDS DataPath, Lists

\* A sequence of one element.
LEMMA OneElement ==
    ASSUME NEW S, NEW s \in Seq(S), Len(s) = 1
    PROVE  s = << Head(s) >> /\ Head(s) \in S
<1>1. s # << >> /\ Head(s) \in S /\ Head(s) = s[1]
  OBVIOUS
<1>2. << Head(s) >> \in Seq(S) /\ Len(<< Head(s) >>) = 1
      /\ \A i \in 1 .. Len(s) : s[i] = << Head(s) >>[i]
  BY <1>1
<1> QED
  BY <1>1, <1>2, SeqEqual

(***************************************************************************)
(* The types.                                                               *)
(***************************************************************************)
LEMMA ReadingType ==
    ASSUME TypeOK, NEW u \in Ues, NEW kind \in Kinds[u], reading(u, kind),
           UNCHANGED faults, UNCHANGED rxVars
    PROVE  TypeOK'
<1> USE DEF TypeOK
<1> DEFINE p == [from |-> u, number |-> taken[u] + 1, kind |-> kind]
<1>0. /\ taken \in [Ues -> Nat] /\ MaxPackets \in [Ues -> Nat]
      /\ taken[u] < MaxPackets[u] /\ taken' = [taken EXCEPT ![u] = @ + 1]
      /\ \A v \in Ues : taken[v] <= MaxPackets[v]
  BY AirAssumption DEF reading, TxTypeOK
<1>1. p \in Packet
  <2>1. taken[u] + 1 \in 1 .. MaxPackets[u]
    BY <1>0
  <2>2. taken[u] + 1 \in Numbers
    BY <2>1 DEF Numbers
  <2> QED
    BY <2>2 DEF Packet
<1>2. macHigh' \in [Ues -> Seq(Packet)]
  <2> HIDE DEF p
  <2>1. Append(macHigh[u], p) \in Seq(Packet)
    BY <1>1 DEF TxTypeOK
  <2>2. macHigh' = [macHigh EXCEPT ![u] = IF Passes(kind)
                                          THEN Append(@, p) ELSE @]
    BY DEF reading, p
  <2> QED
    BY <2>1, <2>2 DEF TxTypeOK
<1>3. taken' \in [Ues -> Nat] /\ \A v \in Ues : taken'[v] <= MaxPackets[v]
  <2>1. taken[u] + 1 \in Nat /\ taken[u] + 1 <= MaxPackets[u]
    BY <1>0
  <2> QED
    BY <1>0, <2>1
<1>4. TxTypeOK'
  BY <1>2, <1>3 DEF reading, TxTypeOK
<1> QED
  BY <1>4 DEF reading, AirTypeOK, RxTypeOK, rxVars

LEMMA GetNextSduType ==
    ASSUME TypeOK, NEW u \in Ues, getNextSdu(u), UNCHANGED faults,
           UNCHANGED rxVars
    PROVE  TypeOK'
<1> USE DEF TypeOK
<1>1. macHigh[u] \in Seq(Packet) /\ macHigh[u] # << >>
  BY DEF getNextSdu, TxTypeOK
<1>2. /\ << Head(macHigh[u]) >> \in Seq(Packet)
      /\ Tail(macHigh[u]) \in Seq(Packet)
      /\ Len(<< Head(macHigh[u]) >>) = 1
  BY <1>1
<1>3. /\ bufferData' = [bufferData EXCEPT ![u] = << Head(macHigh[u]) >>]
      /\ macHigh' = [macHigh EXCEPT ![u] = Tail(macHigh[u])]
      /\ tx' = [tx EXCEPT ![u] = IF queue[u] = << >> THEN "notify" ELSE "add"]
  BY DEF getNextSdu, TxTypeOK
<1>4. /\ macHigh' \in [Ues -> Seq(Packet)]
      /\ tx' \in [Ues -> {"look", "notify", "add"}]
      /\ bufferData' \in [Ues -> Seq(Packet)]
  BY <1>2, <1>3 DEF TxTypeOK
<1>5. ASSUME NEW v \in Ues
      PROVE  Len(bufferData'[v]) = IF tx'[v] = "look" THEN 0 ELSE 1
  BY <1>2, <1>3 DEF TxTypeOK
<1>6. TxTypeOK'
  BY <1>4, <1>5 DEF getNextSdu, TxTypeOK
<1> QED
  BY <1>6 DEF getNextSdu, AirTypeOK, RxTypeOK, rxVars

LEMMA NotifyType ==
    ASSUME TypeOK, NEW u \in Ues, Notify(u), UNCHANGED faults,
           UNCHANGED rxVars
    PROVE  TypeOK'
<1> USE DEF TypeOK
<1>1. TxTypeOK'
  BY DEF Notify, TxTypeOK
<1> QED
  BY <1>1 DEF Notify, AirTypeOK, RxTypeOK, rxVars

\* The PDU that sendPdu announces.
LEMMA SendPduType ==
    ASSUME TypeOK, NEW u \in Ues, sendPdu(u)
    PROVE  toL1' \in [Ues -> Seq(Pdu)]
<1> DEFINE p == [source |-> u, sdus |-> queue[u], ok |-> TRUE]
<1>1. p \in Pdu
  BY DEF TypeOK, TxTypeOK, Pdu
<1>2. toL1' = [toL1 EXCEPT ![u] = Append(@, p)]
  BY DEF sendPdu
<1> HIDE DEF p
<1>3. Append(toL1[u], p) \in Seq(Pdu)
  BY <1>1 DEF TypeOK, TxTypeOK
<1> QED
  BY <1>2, <1>3 DEF TypeOK, TxTypeOK

LEMMA AddType ==
    ASSUME TypeOK, NEW u \in Ues, Add(u), UNCHANGED faults, UNCHANGED rxVars
    PROVE  TypeOK'
<1> USE DEF TypeOK
<1>1. toL1' \in [Ues -> Seq(Pdu)]
  BY SendPduType DEF Add, TxTypeOK
<1>2. /\ queue[u] \in Seq(Packet) /\ bufferData[u] \in Seq(Packet)
      /\ queue[u] \o bufferData[u] \in Seq(Packet)
  BY DEF TxTypeOK
<1>3. \/ queue' = [queue EXCEPT ![u] = queue[u] \o bufferData[u]]
      \/ queue' = [queue EXCEPT ![u] = bufferData[u]]
  BY DEF Add, TxTypeOK
<1>4. queue' \in [Ues -> Seq(Packet)]
  BY <1>2, <1>3 DEF TxTypeOK
<1>5. /\ tx' \in [Ues -> {"look", "notify", "add"}]
      /\ bufferData' \in [Ues -> Seq(Packet)]
      /\ \A v \in Ues : Len(bufferData'[v]) = IF tx'[v] = "look" THEN 0 ELSE 1
  <2>1. << >> \in Seq(Packet) /\ Len(<< >>) = 0
    OBVIOUS
  <2>2. /\ tx' = [tx EXCEPT ![u] = "look"]
        /\ bufferData' = [bufferData EXCEPT ![u] = << >>]
    BY DEF Add
  <2>3. /\ tx' \in [Ues -> {"look", "notify", "add"}]
        /\ bufferData' \in [Ues -> Seq(Packet)]
    BY <2>1, <2>2 DEF TxTypeOK
  <2>4. ASSUME NEW v \in Ues
        PROVE  Len(bufferData'[v]) = IF tx'[v] = "look" THEN 0 ELSE 1
    <3>1. /\ Len(bufferData[v]) = IF tx[v] = "look" THEN 0 ELSE 1
          /\ tx \in [Ues -> {"look", "notify", "add"}]
          /\ bufferData \in [Ues -> Seq(Packet)]
      BY DEF TxTypeOK
    <3>2. CASE v = u
      <4>1. bufferData'[v] = << >> /\ tx'[v] = "look"
        BY <2>2, <3>1, <3>2
      <4> QED
        BY <2>1, <4>1
    <3>3. CASE v # u
      BY <2>2, <3>1, <3>3
    <3> QED
      BY <3>2, <3>3
  <2> QED
    BY <2>3, <2>4
<1>6. TxTypeOK'
  BY <1>1, <1>4, <1>5 DEF Add, TxTypeOK
<1> QED
  BY <1>6 DEF Add, AirTypeOK, RxTypeOK, rxVars

LEMMA TimeoutType ==
    ASSUME TypeOK, NEW u \in Ues, NoTimeout(u) \/ Timeout(u), UNCHANGED faults,
           UNCHANGED rxVars
    PROVE  TypeOK'
<1> USE DEF TypeOK
<1>1. CASE NoTimeout(u)
  <2>1. TxTypeOK'
    BY <1>1 DEF NoTimeout, TxTypeOK
  <2> QED
    BY <1>1, <2>1 DEF NoTimeout, AirTypeOK, RxTypeOK, rxVars
<1>2. CASE Timeout(u)
  <2>1. toL1' \in [Ues -> Seq(Pdu)]
    BY <1>2, SendPduType DEF Timeout
  <2>2. << >> \in Seq(Packet)
    OBVIOUS
  <2>3. queue' \in [Ues -> Seq(Packet)]
    BY <1>2, <2>2 DEF Timeout, TxTypeOK
  <2>4. TxTypeOK'
    BY <1>2, <2>1, <2>3 DEF Timeout, TxTypeOK
  <2> QED
    BY <1>2, <2>4 DEF Timeout, AirTypeOK, RxTypeOK, rxVars
<1> QED
  BY <1>1, <1>2

LEMMA EncodingType ==
    ASSUME TypeOK, NEW u \in Ues, encoding(u), UNCHANGED faults,
           UNCHANGED rxVars
    PROVE  TypeOK'
<1> USE DEF TypeOK
<1>1. toL1[u] \in Seq(Pdu) /\ toL1[u] # << >> /\ air[u] \in Seq(Pdu)
  BY DEF encoding, TxTypeOK, AirTypeOK
<1>2. Append(air[u], Head(toL1[u])) \in Seq(Pdu) /\ Tail(toL1[u]) \in Seq(Pdu)
  BY <1>1
<1>3. air' \in [Ues -> Seq(Pdu)] /\ toL1' \in [Ues -> Seq(Pdu)]
  BY <1>2 DEF encoding, TxTypeOK, AirTypeOK
<1> QED
  BY <1>3 DEF encoding, AirTypeOK, TxTypeOK, RxTypeOK, rxVars

\* One fault more, within the bound.
LEMMA FaultType ==
    ASSUME TypeOK
    PROVE  /\ faults \in Nat /\ faults - faults = 0 /\ faults + 1 - faults = 1
           /\ Fault => faults' \in 0 .. MaxFaults
           /\ \A ok \in BOOLEAN : Arrives(ok) => faults' \in 0 .. MaxFaults
BY AirAssumption DEF TypeOK, AirTypeOK, Fault, Arrives

\* What a fault makes of the PDUs on the air, when they are elements of S.
LEMMA AirChanges ==
    ASSUME TypeOK, NEW u \in Ues, NEW S, air[u] \in Seq(S), S \subseteq Pdu,
           LosePdu(u) \/ Damage(u) \/ RepeatPdu(u) \/ DelayPdu(u),
           \A p \in S : [p EXCEPT !.ok = FALSE] \in S
    PROVE  /\ air'[u] \in Seq(S) /\ air[u] # << >> /\ Head(air[u]) \in S
           /\ Tail(air[u]) \in Seq(S) /\ Fault
           /\ \A v \in Ues \ {u} : air'[v] = air[v]
           /\ air' = [air EXCEPT ![u] = air'[u]]
           /\ LosePdu(u) => air'[u] = Tail(air[u])
           /\ Damage(u) =>
                 air'[u] = [air[u] EXCEPT
                              ![1] = [Head(air[u]) EXCEPT !.ok = FALSE]]
           /\ RepeatPdu(u) => air'[u] = Append(air[u], Head(air[u]))
           /\ DelayPdu(u) => air'[u] = Append(Tail(air[u]), Head(air[u]))
<1> DEFINE h == Head(air[u])
           t == Tail(air[u])
           p == [h EXCEPT !.ok = FALSE]
<1>1. air \in [Ues -> Seq(Pdu)] /\ air[u] # << >> /\ Fault
  BY DEF LosePdu, Damage, RepeatPdu, DelayPdu, TypeOK, AirTypeOK
<1>2. h \in S /\ t \in Seq(S)
  BY <1>1
<1>3. p \in S
  BY <1>2
<1>4. /\ LosePdu(u) => air' = [air EXCEPT ![u] = t]
      /\ Damage(u) => air' = [air EXCEPT ![u] = [air[u] EXCEPT ![1] = p]]
      /\ RepeatPdu(u) => air' = [air EXCEPT ![u] = Append(air[u], h)]
      /\ DelayPdu(u) => air' = [air EXCEPT ![u] = Append(t, h)]
  BY <1>1 DEF LosePdu, Damage, RepeatPdu, DelayPdu
<1> HIDE DEF h, t, p
<1>5. /\ Append(air[u], h) \in Seq(S) /\ Append(t, h) \in Seq(S)
      /\ [air[u] EXCEPT ![1] = p] \in Seq(S)
  BY <1>1, <1>2, <1>3
<1>6. PICK r \in Seq(S) :
         /\ air' = [air EXCEPT ![u] = r]
         /\ LosePdu(u) => r = t
         /\ Damage(u) => r = [air[u] EXCEPT ![1] = p]
         /\ RepeatPdu(u) => r = Append(air[u], h)
         /\ DelayPdu(u) => r = Append(t, h)
  <2>1. air'[u] \in Seq(S)
    BY <1>1, <1>2, <1>4, <1>5
  <2>2. air' = [air EXCEPT ![u] = air'[u]]
    BY <1>1, <1>4
  <2>3. /\ LosePdu(u) => air'[u] = t
        /\ Damage(u) => air'[u] = [air[u] EXCEPT ![1] = p]
        /\ RepeatPdu(u) => air'[u] = Append(air[u], h)
        /\ DelayPdu(u) => air'[u] = Append(t, h)
    BY <1>1, <1>4
  <2> QED
    BY <2>1, <2>2, <2>3
<1>7. air'[u] = r /\ \A v \in Ues \ {u} : air'[v] = air[v]
  BY <1>1, <1>6
<1> QED
  BY <1>1, <1>2, <1>6, <1>7 DEF h, t, p

LEMMA AirType ==
    ASSUME TypeOK, NEW u \in Ues,
           LosePdu(u) \/ Damage(u) \/ RepeatPdu(u) \/ DelayPdu(u),
           UNCHANGED <<txVars, rxVars>>
    PROVE  TypeOK'
<1>1. air[u] \in Seq(Pdu) /\ \A p \in Pdu : [p EXCEPT !.ok = FALSE] \in Pdu
  BY DEF TypeOK, AirTypeOK, Pdu
<1>2. air'[u] \in Seq(Pdu) /\ air' = [air EXCEPT ![u] = air'[u]] /\ Fault
  BY <1>1, AirChanges
<1>3. air' \in [Ues -> Seq(Pdu)] /\ faults' \in 0 .. MaxFaults
  BY <1>2, FaultType DEF TypeOK, AirTypeOK
<1> QED
  BY <1>3 DEF TypeOK, txVars, rxVars, AirTypeOK, TxTypeOK, RxTypeOK

LEMMA L1Type ==
    ASSUME TypeOK, NEW u \in Ues, L1Works(u), UNCHANGED txVars
    PROVE  TypeOK'
<1> USE DEF TypeOK
<1> DEFINE Message == {"SubframeRx.Start", "SubframeRx.End"}
<1>0. /\ buffer \in [Ues -> Seq(Pdu)]
      /\ l1 \in [Ues -> {"receive", "pdu", "end"}]
      /\ controls \in Seq(Message) /\ pdus \in Seq(Pdu)
      /\ air \in [Ues -> Seq(Pdu)] /\ dropped \in Nat
      /\ faults' \in 0 .. MaxFaults
  BY FaultType DEF L1Works, L1Start, L1Pdu, L1End, RxTypeOK, AirTypeOK
<1>1. CASE L1Start(u)
  <2>1. air[u] \in Seq(Pdu) /\ air[u] # << >>
    BY <1>0, <1>1 DEF L1Start
  <2>2. /\ << Head(air[u]) >> \in Seq(Pdu) /\ Tail(air[u]) \in Seq(Pdu)
        /\ Len(<< Head(air[u]) >>) = 1
    BY <2>1
  <2>3. air' \in [Ues -> Seq(Pdu)] /\ buffer' \in [Ues -> Seq(Pdu)]
    BY <1>0, <1>1, <2>2 DEF L1Start
  <2>4. \A v \in Ues : Len(buffer'[v]) = IF l1'[v] = "pdu" THEN 1 ELSE 0
    BY <1>0, <1>1, <2>2 DEF L1Start, L1At, RxTypeOK
  <2>5. controls' \in Seq(Message) /\ l1' \in [Ues -> {"receive", "pdu", "end"}]
    BY <1>0, <1>1 DEF L1Start, L1At
  <2> QED
    BY <1>0, <1>1, <2>3, <2>4, <2>5
       DEF L1Start, AirTypeOK, TxTypeOK, RxTypeOK, txVars
<1>2. CASE L1Pdu(u)
  <2>1. << >> \in Seq(Pdu) /\ Len(<< >>) = 0
    OBVIOUS
  <2>2. buffer' \in [Ues -> Seq(Pdu)]
    BY <1>0, <1>2, <2>1 DEF L1Pdu
  <2>3. ASSUME NEW v \in Ues
        PROVE  Len(buffer'[v]) = IF l1'[v] = "pdu" THEN 1 ELSE 0
    <3>1. /\ buffer' = [buffer EXCEPT ![u] = << >>]
          /\ l1' = [l1 EXCEPT ![u] = "end"]
          /\ Len(buffer[v]) = IF l1[v] = "pdu" THEN 1 ELSE 0
      BY <1>2 DEF L1Pdu, L1At, RxTypeOK
    <3>2. CASE v = u
      <4>1. buffer'[v] = << >> /\ l1'[v] = "end"
        BY <1>0, <3>1, <3>2
      <4> QED
        BY <2>1, <4>1
    <3>3. CASE v # u
      BY <1>0, <3>1, <3>3
    <3> QED
      BY <3>2, <3>3
  <2>4. pdus' \in Seq(Pdu) /\ dropped' \in Nat
    BY <1>0, <1>2 DEF L1Pdu
  <2> QED
    BY <1>0, <1>2, <2>2, <2>3, <2>4
       DEF L1Pdu, L1At, AirTypeOK, TxTypeOK, RxTypeOK, txVars
<1>3. CASE L1End(u)
  <2>1. controls' \in Seq(Message)
    BY <1>0, <1>3 DEF L1End
  <2> QED
    BY <1>0, <1>3, <2>1 DEF L1End, L1At, AirTypeOK, TxTypeOK, RxTypeOK, txVars
<1> QED
  BY <1>1, <1>2, <1>3 DEF L1Works

LEMMA RxType ==
    ASSUME TypeOK, RxWorks, UNCHANGED txVars
    PROVE  TypeOK'
<1> USE DEF TypeOK
<1> DEFINE Message == {"SubframeRx.Start", "SubframeRx.End"}
<1>0. /\ delivered \in [Ues -> Seq(Packet)]
      /\ controls \in Seq(Message) /\ pdus \in Seq(Pdu)
  BY DEF RxTypeOK
<1>1. CASE Poll
  <2>1. controls' \in Seq(Message)
    BY <1>0, <1>1 DEF Poll
  <2> QED
    BY <1>1, <2>1 DEF Poll, AirTypeOK, TxTypeOK, RxTypeOK, txVars, airVars
<1>2. CASE decoding
  <2> DEFINE pdu == Head(pdus)
  <2>1. pdu \in Pdu /\ pdus' \in Seq(Pdu)
    BY <1>0, <1>2 DEF decoding
  <2>2. /\ delivered' = [delivered EXCEPT ![pdu.source] =
                           IF pdu.ok THEN @ \o pdu.sdus ELSE @]
        /\ rx' \in {"next", "terminated"}
    BY <1>2 DEF decoding
  <2> HIDE DEF pdu
  <2>3. pdu.source \in Ues /\ pdu.sdus \in Seq(Packet)
    BY <2>1 DEF Pdu
  <2>4. delivered[pdu.source] \o pdu.sdus \in Seq(Packet)
    BY <1>0, <2>3
  <2>5. delivered' \in [Ues -> Seq(Packet)]
    BY <1>0, <2>2, <2>3, <2>4
  <2> QED
    BY <1>2, <2>1, <2>2, <2>5
       DEF decoding, AirTypeOK, TxTypeOK, RxTypeOK, txVars, airVars
<1>3. CASE Drop
  <2>1. controls' \in Seq(Message)
    BY <1>0, <1>3 DEF Drop
  <2> QED
    BY <1>3, <2>1 DEF Drop, AirTypeOK, TxTypeOK, RxTypeOK, txVars, airVars
<1> QED
  BY <1>1, <1>2, <1>3 DEF RxWorks

\* Every step keeps the types.
LEMMA TypeStep == TypeOK /\ [Next]_vars => TypeOK'
<1> SUFFICES ASSUME TypeOK, [Next]_vars PROVE TypeOK'
  OBVIOUS
<1>1. CASE TxNext /\ UNCHANGED rxVars
  BY <1>1, ReadingType, GetNextSduType, NotifyType, AddType, TimeoutType,
     EncodingType DEF TxNext, Works
<1>2. CASE AirNext /\ UNCHANGED <<txVars, rxVars>>
  BY <1>2, AirType DEF AirNext
<1>3. CASE RxNext /\ UNCHANGED txVars
  BY <1>3, L1Type, RxType DEF RxNext
<1>4. CASE UNCHANGED vars
  BY <1>4
     DEF vars, airVars, txVars, rxVars, TypeOK, AirTypeOK, TxTypeOK, RxTypeOK
<1> QED
  BY <1>1, <1>2, <1>3, <1>4 DEF Next

LEMMA InitType == Init => TypeOK
<1> SUFFICES ASSUME Init PROVE TypeOK
  OBVIOUS
<1>1. /\ << >> \in Seq(Packet) /\ << >> \in Seq(Pdu) /\ Len(<< >>) = 0
      /\ << >> \in Seq({"SubframeRx.Start", "SubframeRx.End"})
  OBVIOUS
<1> QED
  BY <1>1, AirAssumption, TxAssumption
     DEF Init, AirInit, TxInit, RxInit, TypeOK, AirTypeOK, TxTypeOK, RxTypeOK

\* Every variable of the data path has its type: in particular a thread that
\* holds a packet, or a PDU, is at the place where it does.
THEOREM TypeCorrect == Spec => []TypeOK
BY InitType, TypeStep, PTL DEF Spec

(***************************************************************************)
(* There is a PDU for each announcement. With the types, the inequality is  *)
(* inductive: L1Start adds one to both sides, or to the right one only, if   *)
(* the announcement is lost; L1Pdu moves one PDU, or counts it as dropped;  *)
(* rx takes a PDU for each announcement it takes; Drop can only lower the   *)
(* left side.                                                               *)
(***************************************************************************)
Waiting == {u \in Ues : l1[u] = "pdu"}

Starts(s) == Cardinality(Positions(s, "SubframeRx.Start"))

\* Both sides of the inequality are natural numbers.
LEMMA AnnouncementsType ==
    ASSUME TypeOK
    PROVE  /\ IsFiniteSet(Waiting) /\ Cardinality(Waiting) \in Nat
           /\ Starts(controls) \in Nat /\ Len(pdus) \in Nat /\ dropped \in Nat
           /\ EachAnnouncedArrives <=>
                 Starts(controls) + (IF rx = "decode" THEN 1 ELSE 0)
                    <= Len(pdus) + Cardinality(Waiting) + dropped
<1>1. IsFiniteSet(Waiting) /\ Cardinality(Waiting) \in Nat
  <2>1. Waiting \in SUBSET Ues
    BY DEF Waiting
  <2> QED
    BY <2>1, AirAssumption, FS_Subset, FS_CardinalityType
<1>2. Starts(controls) \in Nat
  <2>1. controls \in Seq({"SubframeRx.Start", "SubframeRx.End"})
    BY DEF TypeOK, RxTypeOK
  <2> QED
    BY <2>1, PositionsAppend DEF Starts
<1>3. Len(pdus) \in Nat /\ dropped \in Nat
  BY DEF TypeOK, RxTypeOK
<1> QED
  BY <1>1, <1>2, <1>3
     DEF EachAnnouncedArrives, Announcements, Starts, Positions, Waiting

\* A message that is put behind the others, and one that is taken.
LEMMA StartsChange ==
    ASSUME TypeOK
    PROVE  /\ Starts(Append(controls, "SubframeRx.Start")) =
                 Starts(controls) + 1
           /\ Starts(Append(controls, "SubframeRx.End")) = Starts(controls)
           /\ controls # << >> =>
                 Starts(controls) = Starts(Tail(controls))
                    + IF Head(controls) = "SubframeRx.Start" THEN 1 ELSE 0
<1> DEFINE Message == {"SubframeRx.Start", "SubframeRx.End"}
<1>1. controls \in Seq(Message)
  BY DEF TypeOK, RxTypeOK
<1>2. "SubframeRx.Start" \in Message /\ "SubframeRx.End" \in Message
      /\ "SubframeRx.End" # "SubframeRx.Start"
  OBVIOUS
<1>3. Starts(controls) \in Nat
  BY AnnouncementsType
<1> HIDE DEF Message
<1>4. Starts(Append(controls, "SubframeRx.Start")) =
         Starts(controls) + IF "SubframeRx.Start" = "SubframeRx.Start"
                            THEN 1 ELSE 0
  BY <1>1, <1>2, PositionsAppend DEF Starts
<1>5. Starts(Append(controls, "SubframeRx.End")) =
         Starts(controls) + IF "SubframeRx.End" = "SubframeRx.Start"
                            THEN 1 ELSE 0
  BY <1>1, <1>2, PositionsAppend DEF Starts
<1>6. controls # << >> =>
         Starts(controls) = Starts(Tail(controls))
            + IF Head(controls) = "SubframeRx.Start" THEN 1 ELSE 0
  BY <1>1, PositionsTail DEF Starts
<1> QED
  BY <1>2, <1>3, <1>4, <1>5, <1>6

\* The two sides of EachAnnouncedArrives change as L1 and rx make them.
LEMMA AnnouncedStep ==
    TypeOK /\ TypeOK' /\ EachAnnouncedArrives /\ [Next]_vars
    => EachAnnouncedArrives'
<1> SUFFICES ASSUME TypeOK, TypeOK', EachAnnouncedArrives, [Next]_vars
             PROVE  EachAnnouncedArrives'
  OBVIOUS
<1>0. Starts(controls') \in Nat
  <2>1. (Starts(controls) \in Nat)'
    BY AnnouncementsType, PTL
  <2> QED
    BY <2>1 DEF Starts
<1>1. /\ Cardinality(Waiting) \in Nat /\ Starts(controls) \in Nat
      /\ Len(pdus) \in Nat /\ IsFiniteSet(Waiting) /\ pdus \in Seq(Pdu)
      /\ dropped \in Nat
      /\ Starts(controls) + (IF rx = "decode" THEN 1 ELSE 0)
            <= Len(pdus) + Cardinality(Waiting) + dropped
  BY AnnouncementsType DEF TypeOK, RxTypeOK
<1>2. SUFFICES Starts(controls') + (IF rx' = "decode" THEN 1 ELSE 0)
                  <= Len(pdus') + Cardinality(Waiting') + dropped'
  <2>1. EachAnnouncedArrives' <=>
           (Starts(controls) + (IF rx = "decode" THEN 1 ELSE 0)
                    <= Len(pdus) + Cardinality(Waiting) + dropped)'
    BY AnnouncementsType, PTL
  <2> QED
    BY <2>1 DEF Starts
<1>3. CASE UNCHANGED <<controls, rx, pdus, l1, dropped>>
  BY <1>1, <1>3 DEF Waiting
<1>4. ASSUME NEW u \in Ues, L1Start(u)
      PROVE  Starts(controls') + (IF rx' = "decode" THEN 1 ELSE 0)
                  <= Len(pdus') + Cardinality(Waiting') + dropped'
  <2>1. u \notin Waiting /\ Waiting' = Waiting \cup {u}
    BY <1>4 DEF L1Start, L1At, Waiting, TypeOK, RxTypeOK
  <2>2. Cardinality(Waiting') = Cardinality(Waiting) + 1
    BY <1>1, <2>1, FS_AddElement
  <2>3. /\ Starts(controls') \in {Starts(controls), Starts(controls) + 1}
        /\ rx' = rx /\ pdus' = pdus /\ dropped' = dropped
    BY <1>4, StartsChange DEF L1Start
  <2> QED
    BY <1>1, <2>2, <2>3
<1>5. ASSUME NEW u \in Ues, L1Pdu(u)
      PROVE  Starts(controls') + (IF rx' = "decode" THEN 1 ELSE 0)
                  <= Len(pdus') + Cardinality(Waiting') + dropped'
  <2>1. u \in Waiting /\ Waiting' = Waiting \ {u}
    BY <1>5 DEF L1Pdu, L1At, Waiting, TypeOK, RxTypeOK
  <2>2. Cardinality(Waiting') = Cardinality(Waiting) - 1
    BY <1>1, <2>1, FS_RemoveElement
  <2>3. Len(pdus') + dropped' = Len(pdus) + dropped + 1
    <3>1. buffer[u] \in Seq(Pdu) /\ Len(buffer[u]) = 1
      BY <1>5 DEF L1Pdu, L1At, TypeOK, RxTypeOK
    <3>2. Len(pdus \o buffer[u]) = Len(pdus) + Len(buffer[u])
      BY <1>1, <3>1, ConcatProperties
    <3>3. \/ pdus' = pdus \o buffer[u] /\ dropped' = dropped
          \/ pdus' = pdus /\ dropped' = dropped + 1
      BY <1>5 DEF L1Pdu
    <3>4. CASE pdus' = pdus \o buffer[u] /\ dropped' = dropped
      BY <1>1, <3>1, <3>2, <3>4, SMTT(30)
    <3>5. CASE pdus' = pdus /\ dropped' = dropped + 1
      BY <1>1, <3>5
    <3> QED
      BY <3>3, <3>4, <3>5
  <2>5. Len(pdus') \in Nat /\ dropped' \in Nat
    BY DEF TypeOK, RxTypeOK
  <2>4. controls' = controls /\ rx' = rx
    BY <1>5 DEF L1Pdu
  <2> QED
    BY <1>1, <2>2, <2>3, <2>4, <2>5
<1>6. ASSUME NEW u \in Ues, L1End(u)
      PROVE  Starts(controls') + (IF rx' = "decode" THEN 1 ELSE 0)
                  <= Len(pdus') + Cardinality(Waiting') + dropped'
  <2>1. Waiting' = Waiting
    BY <1>6 DEF L1End, L1At, Waiting, TypeOK, RxTypeOK
  <2>2. /\ Starts(controls') = Starts(controls) /\ rx' = rx /\ pdus' = pdus
        /\ dropped' = dropped
    BY <1>6, StartsChange DEF L1End
  <2> QED
    BY <1>1, <2>1, <2>2
<1>7. CASE Poll
  <2>1. Starts(controls) = Starts(controls')
           + IF Head(controls) = "SubframeRx.Start" THEN 1 ELSE 0
    BY <1>7, StartsChange DEF Poll
  <2>2. /\ rx # "decode" /\ pdus' = pdus /\ Waiting' = Waiting
        /\ dropped' = dropped
        /\ rx' = IF Head(controls) = "SubframeRx.Start" THEN "decode"
                 ELSE "next"
    BY <1>7 DEF Poll, Waiting
  <2>3. Starts(controls') \in Nat
    BY <1>0
  <2> QED
    BY <1>1, <2>1, <2>2, <2>3
<1>8. CASE decoding
  <2>1. Len(pdus') = Len(pdus) - 1
    BY <1>1, <1>8, HeadTailProperties DEF decoding
  <2>2. rx = "decode" /\ rx' # "decode" /\ controls' = controls
        /\ Waiting' = Waiting /\ dropped' = dropped
    BY <1>8 DEF decoding, Waiting
  <2> QED
    BY <1>1, <2>1, <2>2
<1>9. CASE Drop
  <2>1. Starts(controls') \in Nat
    BY <1>0
  <2>2. Starts(controls') <= Starts(controls)
    <3>1. CASE controls = << >>
      BY <1>1, <1>9, <3>1 DEF Drop
    <3>2. CASE controls # << >>
      <4>1. Starts(controls) = Starts(controls')
               + IF Head(controls) = "SubframeRx.Start" THEN 1 ELSE 0
        BY <1>9, <3>2, StartsChange DEF Drop
      <4> QED
        BY <1>1, <2>1, <4>1
    <3> QED
      BY <3>1, <3>2
  <2>3. /\ rx' # "decode" /\ pdus' = pdus /\ Waiting' = Waiting
        /\ dropped' = dropped
    BY <1>9 DEF Drop, Waiting
  <2> QED
    BY <1>1, <2>1, <2>2, <2>3
<1> QED
  BY <1>3, <1>4, <1>5, <1>6, <1>7, <1>8, <1>9
     DEF Next, TxNext, AirNext, RxNext, L1Works, RxWorks, rxVars, vars

LEMMA AnnouncedInit == Init => EachAnnouncedArrives
<1> SUFFICES ASSUME Init PROVE EachAnnouncedArrives
  OBVIOUS
<1>1. TypeOK /\ rx = "poll" /\ controls = << >> /\ dropped = 0
  BY InitType DEF Init, RxInit
<1>2. Starts(controls) = 0
  <2>1. Positions(controls, "SubframeRx.Start") = {}
    BY <1>1 DEF Positions
  <2> QED
    BY <2>1, FS_EmptySet DEF Starts
<1> QED
  BY <1>1, <1>2, AnnouncementsType

\* The rx thread, when it has taken a Start message, finds a PDU for it or one
\* is about to come, unless a PDU was lost between L1 and L2, for any number of
\* equipments, whatever the interleaving and though Start and End messages may
\* be lost too.
THEOREM AnnouncedCorrect == Spec => []EachAnnouncedArrives
<1>1. TypeOK /\ EachAnnouncedArrives /\ [Next]_vars
      => (TypeOK /\ EachAnnouncedArrives)'
  BY TypeStep, AnnouncedStep
<1>2. Init => TypeOK /\ EachAnnouncedArrives
  BY InitType, AnnouncedInit
<1> QED
  BY <1>1, <1>2, PTL DEF Spec

(***************************************************************************)
(* What is where: packets that have passed the filters, of the UE whose      *)
(* memory, connection or share of TUN it is, and PDUs of it with such        *)
(* packets. Without this, neither of the properties below is inductive.     *)
(***************************************************************************)
Passed(u) == {p \in Packet : p.from = u /\ Passes(p.kind)}

PduOf(u) == [source : {u}, sdus : Seq(Passed(u)), ok : BOOLEAN]

AnyPdu == UNION {PduOf(u) : u \in Ues}

HoldsOwn(u) ==
    /\ macHigh[u] \in Seq(Passed(u)) /\ bufferData[u] \in Seq(Passed(u))
    /\ queue[u] \in Seq(Passed(u)) /\ delivered[u] \in Seq(Passed(u))
    /\ toL1[u] \in Seq(PduOf(u)) /\ air[u] \in Seq(PduOf(u))
    /\ buffer[u] \in Seq(PduOf(u))

Contents == pdus \in Seq(AnyPdu) /\ \A u \in Ues : HoldsOwn(u)

Inv == TypeOK /\ Contents

\* A step of the threads of u leaves what the others hold.
LEMMA OnlyOwn ==
    ASSUME Contents, NEW u \in Ues, HoldsOwn(u)', pdus' \in Seq(AnyPdu),
           \A v \in Ues \ {u} :
              /\ macHigh'[v] = macHigh[v] /\ bufferData'[v] = bufferData[v]
              /\ queue'[v] = queue[v] /\ delivered'[v] = delivered[v]
              /\ toL1'[v] = toL1[v] /\ air'[v] = air[v]
              /\ buffer'[v] = buffer[v]
    PROVE  Contents'
<1>1. ASSUME NEW v \in Ues
      PROVE  HoldsOwn(v)'
  <2>1. CASE v = u
    BY <2>1
  <2>2. CASE v # u
    BY <2>2 DEF Contents, HoldsOwn, Passed, PduOf
  <2> QED
    BY <2>1, <2>2
<1> QED
  BY <1>1 DEF Contents, AnyPdu, PduOf, Passed

\* The PDU that sendPdu announces holds the packets of the queue.
LEMMA SendPduContents ==
    ASSUME TypeOK, Contents, NEW u \in Ues, sendPdu(u)
    PROVE  /\ toL1'[u] \in Seq(PduOf(u))
           /\ \A v \in Ues \ {u} : toL1'[v] = toL1[v]
<1> DEFINE p == [source |-> u, sdus |-> queue[u], ok |-> TRUE]
<1>1. p \in PduOf(u)
  BY DEF Contents, HoldsOwn, PduOf
<1>2. toL1' = [toL1 EXCEPT ![u] = Append(@, p)]
  BY DEF sendPdu
<1> HIDE DEF p
<1>3. Append(toL1[u], p) \in Seq(PduOf(u))
  BY <1>1 DEF Contents, HoldsOwn
<1> QED
  BY <1>2, <1>3 DEF TypeOK, TxTypeOK

\* The steps of the threads that send.
LEMMA TxContents ==
    ASSUME TypeOK, Contents, NEW u \in Ues, UNCHANGED rxVars,
           Works(u) \/ \E kind \in Kinds[u] : reading(u, kind)
    PROVE  Contents'
<1>0. /\ HoldsOwn(u) /\ pdus' = pdus /\ buffer' = buffer /\ pdus \in Seq(AnyPdu)
      /\ delivered' = delivered
  BY DEF Contents, rxVars
<1>1. ASSUME NEW kind \in Kinds[u], reading(u, kind)
      PROVE  Contents'
  <2> DEFINE p == [from |-> u, number |-> taken[u] + 1, kind |-> kind]
  <2>1. /\ taken \in [Ues -> Nat] /\ MaxPackets \in [Ues -> Nat]
        /\ taken[u] < MaxPackets[u]
    BY <1>1, AirAssumption DEF reading, TypeOK, TxTypeOK
  <2>2. taken[u] + 1 \in Numbers
    <3>1. taken[u] + 1 \in 1 .. MaxPackets[u]
      BY <2>1
    <3> QED
      BY <3>1 DEF Numbers
  <2>3. Passes(kind) => p \in Passed(u)
    BY <2>2 DEF Passed, Packet
  <2>4. macHigh' = [macHigh EXCEPT ![u] = IF Passes(kind)
                                          THEN Append(@, p) ELSE @]
    BY <1>1 DEF reading
  <2> HIDE DEF p
  <2>5. Passes(kind) => Append(macHigh[u], p) \in Seq(Passed(u))
    BY <1>0, <2>3 DEF HoldsOwn
  <2>6. /\ macHigh'[u] \in Seq(Passed(u))
        /\ \A v \in Ues \ {u} : macHigh'[v] = macHigh[v]
    BY <1>0, <2>4, <2>5 DEF TypeOK, TxTypeOK, HoldsOwn
  <2>7. HoldsOwn(u)'
    BY <1>0, <1>1, <2>6 DEF reading, HoldsOwn, Passed, PduOf
  <2> QED
    BY <1>0, <1>1, <2>6, <2>7, OnlyOwn DEF reading
<1>2. CASE getNextSdu(u)
  <2>1. macHigh[u] \in Seq(Passed(u)) /\ macHigh[u] # << >>
    BY <1>0, <1>2 DEF HoldsOwn, getNextSdu
  <2>2. /\ << Head(macHigh[u]) >> \in Seq(Passed(u))
        /\ Tail(macHigh[u]) \in Seq(Passed(u))
    BY <2>1
  <2>3. /\ macHigh' = [macHigh EXCEPT ![u] = Tail(macHigh[u])]
        /\ bufferData' = [bufferData EXCEPT ![u] = << Head(macHigh[u]) >>]
    BY <1>2 DEF getNextSdu, TypeOK, TxTypeOK
  <2>4. /\ macHigh'[u] \in Seq(Passed(u)) /\ bufferData'[u] \in Seq(Passed(u))
        /\ \A v \in Ues \ {u} : /\ macHigh'[v] = macHigh[v]
                                /\ bufferData'[v] = bufferData[v]
    BY <2>2, <2>3 DEF TypeOK, TxTypeOK
  <2>5. HoldsOwn(u)'
    BY <1>0, <1>2, <2>4 DEF getNextSdu, HoldsOwn, Passed, PduOf
  <2> QED
    BY <1>0, <1>2, <2>4, <2>5, OnlyOwn DEF getNextSdu
<1>3. CASE Notify(u) \/ NoTimeout(u)
  <2>1. HoldsOwn(u)'
    BY <1>0, <1>3 DEF Notify, NoTimeout, HoldsOwn, Passed, PduOf
  <2> QED
    BY <1>0, <1>3, <2>1, OnlyOwn DEF Notify, NoTimeout
<1>4. CASE Add(u)
  <2>1. /\ queue[u] \o bufferData[u] \in Seq(Passed(u))
        /\ bufferData[u] \in Seq(Passed(u)) /\ << >> \in Seq(Passed(u))
    BY <1>0 DEF HoldsOwn
  <2>2. /\ bufferData' = [bufferData EXCEPT ![u] = << >>]
        /\ \/ queue' = [queue EXCEPT ![u] = queue[u] \o bufferData[u]]
           \/ queue' = [queue EXCEPT ![u] = bufferData[u]]
    BY <1>4 DEF Add, TypeOK, TxTypeOK
  <2>3. /\ queue'[u] \in Seq(Passed(u)) /\ bufferData'[u] \in Seq(Passed(u))
        /\ \A v \in Ues \ {u} : /\ queue'[v] = queue[v]
                                /\ bufferData'[v] = bufferData[v]
    BY <2>1, <2>2 DEF TypeOK, TxTypeOK
  <2>4. /\ toL1'[u] \in Seq(PduOf(u))
        /\ \A v \in Ues \ {u} : toL1'[v] = toL1[v]
    BY <1>0, <1>4, SendPduContents DEF Add, HoldsOwn
  <2>5. HoldsOwn(u)'
    BY <1>0, <1>4, <2>3, <2>4 DEF Add, HoldsOwn, Passed, PduOf
  <2> QED
    BY <1>0, <1>4, <2>3, <2>4, <2>5, OnlyOwn DEF Add
<1>5. CASE Timeout(u)
  <2>1. /\ toL1'[u] \in Seq(PduOf(u))
        /\ \A v \in Ues \ {u} : toL1'[v] = toL1[v]
    BY <1>5, SendPduContents DEF Timeout
  <2>2. /\ queue'[u] \in Seq(Passed(u))
        /\ \A v \in Ues \ {u} : queue'[v] = queue[v]
    BY <1>5 DEF Timeout, TypeOK, TxTypeOK
  <2>3. HoldsOwn(u)'
    BY <1>0, <1>5, <2>1, <2>2 DEF Timeout, HoldsOwn, Passed, PduOf
  <2> QED
    BY <1>0, <1>5, <2>1, <2>2, <2>3, OnlyOwn DEF Timeout
<1>6. CASE encoding(u)
  <2>1. toL1[u] \in Seq(PduOf(u)) /\ toL1[u] # << >> /\ air[u] \in Seq(PduOf(u))
    BY <1>0, <1>6 DEF HoldsOwn, encoding
  <2>2. /\ Append(air[u], Head(toL1[u])) \in Seq(PduOf(u))
        /\ Tail(toL1[u]) \in Seq(PduOf(u))
    BY <2>1
  <2>3. /\ air'[u] \in Seq(PduOf(u)) /\ toL1'[u] \in Seq(PduOf(u))
        /\ \A v \in Ues \ {u} : air'[v] = air[v] /\ toL1'[v] = toL1[v]
    BY <1>6, <2>2 DEF encoding, TypeOK, TxTypeOK, AirTypeOK
  <2>4. HoldsOwn(u)'
    BY <1>0, <1>6, <2>3 DEF encoding, HoldsOwn, Passed, PduOf
  <2> QED
    BY <1>0, <1>6, <2>3, <2>4, OnlyOwn DEF encoding
<1> QED
  BY <1>1, <1>2, <1>3, <1>4, <1>5, <1>6 DEF Works

\* PDUs of one UE are PDUs, and remain so when they are damaged.
LEMMA OwnDamaged ==
    ASSUME NEW u \in Ues
    PROVE  /\ PduOf(u) \subseteq Pdu
           /\ \A p \in PduOf(u) : /\ [p EXCEPT !.ok = FALSE] \in PduOf(u)
                                  /\ [p EXCEPT !.ok = FALSE].ok = FALSE
<1>1. \A s \in Seq(Passed(u)) : s \in Seq(Packet)
  BY SeqOfLarger DEF Passed
<1> QED
  BY <1>1 DEF PduOf, Pdu

\* What happens to a PDU on the air.
LEMMA AirContents ==
    ASSUME TypeOK, Contents, NEW u \in Ues,
           LosePdu(u) \/ Damage(u) \/ RepeatPdu(u) \/ DelayPdu(u),
           UNCHANGED <<txVars, rxVars>>
    PROVE  Contents'
<1>0. /\ HoldsOwn(u) /\ air[u] \in Seq(PduOf(u)) /\ pdus \in Seq(AnyPdu)
  BY DEF Contents, HoldsOwn
<1>2. /\ air'[u] \in Seq(PduOf(u))
      /\ \A v \in Ues \ {u} : air'[v] = air[v]
  BY <1>0, OwnDamaged, AirChanges
<1>3. HoldsOwn(u)'
  BY <1>0, <1>2 DEF txVars, rxVars, HoldsOwn, Passed, PduOf
<1> QED
  BY <1>0, <1>2, <1>3, OnlyOwn DEF txVars, rxVars

\* The steps of L1's decoding threads and of rx.
LEMMA RxContents ==
    ASSUME TypeOK, Contents, UNCHANGED txVars, NEW u \in Ues,
           L1Works(u) \/ RxWorks
    PROVE  Contents'
<1>0. /\ HoldsOwn(u) /\ pdus \in Seq(AnyPdu)
      /\ \A v \in Ues : HoldsOwn(v)
      /\ macHigh' = macHigh /\ bufferData' = bufferData /\ queue' = queue
      /\ toL1' = toL1
  BY DEF Contents, txVars
<1>1. CASE L1Start(u)
  <2>1. air[u] \in Seq(PduOf(u)) /\ air[u] # << >>
    BY <1>0, <1>1 DEF L1Start, HoldsOwn
  <2>2. << Head(air[u]) >> \in Seq(PduOf(u)) /\ Tail(air[u]) \in Seq(PduOf(u))
    BY <2>1
  <2>3. /\ buffer'[u] \in Seq(PduOf(u)) /\ air'[u] \in Seq(PduOf(u))
        /\ \A v \in Ues \ {u} : buffer'[v] = buffer[v] /\ air'[v] = air[v]
    BY <1>1, <2>2 DEF L1Start, TypeOK, AirTypeOK, RxTypeOK
  <2>4. HoldsOwn(u)'
    BY <1>0, <1>1, <2>3 DEF L1Start, HoldsOwn, Passed, PduOf
  <2> QED
    BY <1>0, <1>1, <2>3, <2>4, OnlyOwn DEF L1Start
<1>2. CASE L1Pdu(u)
  <2>1. buffer[u] \in Seq(AnyPdu)
    <3>1. buffer[u] \in Seq(PduOf(u)) /\ PduOf(u) \subseteq AnyPdu
      BY <1>0 DEF HoldsOwn, AnyPdu
    <3> QED
      BY <3>1, SeqMonotonic
  <2>2. pdus' \in Seq(AnyPdu)
    <3>1. pdus \o buffer[u] \in Seq(AnyPdu)
      BY <1>0, <2>1, ConcatProperties
    <3> QED
      BY <1>0, <1>2, <3>1 DEF L1Pdu
  <2>3. /\ buffer'[u] \in Seq(PduOf(u))
        /\ \A v \in Ues \ {u} : buffer'[v] = buffer[v]
    BY <1>2 DEF L1Pdu, TypeOK, RxTypeOK
  <2>4. HoldsOwn(u)'
    BY <1>0, <1>2, <2>3 DEF L1Pdu, HoldsOwn, Passed, PduOf
  <2> QED
    BY <1>0, <1>2, <2>2, <2>3, <2>4, OnlyOwn DEF L1Pdu
<1>3. CASE L1End(u) \/ Poll \/ Drop
  <2>1. HoldsOwn(u)'
    BY <1>0, <1>3 DEF L1End, Poll, Drop, airVars, HoldsOwn, Passed, PduOf
  <2> QED
    BY <1>0, <1>3, <2>1, OnlyOwn DEF L1End, Poll, Drop, airVars
<1>4. CASE decoding
  <2> DEFINE pdu == Head(pdus)
  <2>1. pdu \in AnyPdu /\ pdus' \in Seq(AnyPdu)
    BY <1>0, <1>4 DEF decoding
  <2>2. delivered' = [delivered EXCEPT ![pdu.source] =
                        IF pdu.ok THEN @ \o pdu.sdus ELSE @]
    BY <1>4 DEF decoding
  <2> HIDE DEF pdu
  <2>3. PICK w \in Ues : pdu \in PduOf(w)
    BY <2>1 DEF AnyPdu
  <2>4. pdu.source = w /\ pdu.sdus \in Seq(Passed(w)) /\ HoldsOwn(w)
    BY <1>0, <2>3 DEF PduOf
  <2>5. delivered[w] \o pdu.sdus \in Seq(Passed(w))
    BY <2>4, ConcatProperties DEF HoldsOwn
  <2>6. /\ delivered'[w] \in Seq(Passed(w))
        /\ \A v \in Ues \ {w} : delivered'[v] = delivered[v]
    BY <2>2, <2>4, <2>5 DEF TypeOK, RxTypeOK, HoldsOwn
  <2>7. HoldsOwn(w)'
    BY <1>0, <1>4, <2>4, <2>6 DEF decoding, airVars, HoldsOwn, Passed, PduOf
  <2> QED
    BY <1>0, <1>4, <2>1, <2>6, <2>7, OnlyOwn DEF decoding, airVars
<1> QED
  BY <1>1, <1>2, <1>3, <1>4 DEF L1Works, RxWorks

\* Every step keeps what is held where it is.
LEMMA InvStep == Inv /\ [Next]_vars => Inv'
<1> SUFFICES ASSUME TypeOK, Contents, [Next]_vars PROVE Contents'
  BY TypeStep DEF Inv
<1>1. CASE TxNext /\ UNCHANGED rxVars
  BY <1>1, TxContents DEF TxNext
<1>2. CASE AirNext /\ UNCHANGED <<txVars, rxVars>>
  BY <1>2, AirContents DEF AirNext
<1>3. ASSUME NEW u \in Ues, L1Works(u), UNCHANGED txVars
      PROVE  Contents'
  BY <1>3, RxContents
<1>4. ASSUME RxWorks, UNCHANGED txVars
      PROVE  Contents'
  <2>1. CASE Ues = {}
    <3>1. AnyPdu = {} /\ AnyPdu' = {} /\ pdus = << >>
      BY <2>1 DEF Contents, AnyPdu
    <3>2. pdus' = << >>
      BY <1>4, <3>1 DEF RxWorks, Poll, decoding, Drop
    <3> QED
      BY <2>1, <3>2 DEF Contents
  <2>2. CASE Ues # {}
    <3>1. PICK u \in Ues : TRUE
      BY <2>2
    <3> QED
      BY <1>4, RxContents
  <2> QED
    BY <2>1, <2>2
<1>5. CASE UNCHANGED vars
  BY <1>5 DEF vars, airVars, txVars, rxVars, Contents, HoldsOwn, Passed, PduOf,
              AnyPdu
<1> QED
  BY <1>1, <1>2, <1>3, <1>4, <1>5 DEF Next, RxNext

LEMMA InvInit == Init => Inv
<1> SUFFICES ASSUME Init PROVE Contents
  BY InitType DEF Inv
<1>1. << >> \in Seq(AnyPdu)
  OBVIOUS
<1>2. ASSUME NEW u \in Ues
      PROVE  HoldsOwn(u)
  <2>1. << >> \in Seq(Passed(u)) /\ << >> \in Seq(PduOf(u))
    OBVIOUS
  <2> QED
    BY <2>1 DEF Init, AirInit, TxInit, RxInit, HoldsOwn
<1> QED
  BY <1>1, <1>2 DEF Contents, Init, RxInit

\* Whatever is under way or delivered passed the filters, comes from the UE
\* it is said to come from, and is of one UE, in every state.
THEOREM InvCorrect == Spec => []Inv
BY InvInit, InvStep, PTL DEF Spec

(***************************************************************************)
(* What is under way from one UE, as a line of seven parts, the oldest      *)
(* packets first: the PDUs L2 has not taken, that of L1's thread, those on  *)
(* the air, those announced to L1, the queue, the packet the tx thread      *)
(* holds, and macHigh.                                                      *)
(***************************************************************************)
Line(a, b, c, d, q, h, m) ==
    Cat(a, Cat(b, Cat(c, Cat(d, Cat(q, Cat(h, m))))))

AreSeqs(S, a, b, c, d, q, h, m) ==
    /\ a \in Seq(S) /\ b \in Seq(S) /\ c \in Seq(S) /\ d \in Seq(S)
    /\ q \in Seq(S) /\ h \in Seq(S) /\ m \in Seq(S)

\* A line is a sequence; what is appended to it is appended to its last part.
LEMMA LineType ==
    ASSUME NEW S, NEW a, NEW b, NEW c, NEW d, NEW q, NEW h, NEW m,
           AreSeqs(S, a, b, c, d, q, h, m)
    PROVE  /\ Line(a, b, c, d, q, h, m) \in Seq(S)
           /\ \A x \in S : Append(Line(a, b, c, d, q, h, m), x) =
                              Line(a, b, c, d, q, h, Append(m, x))
<1> DEFINE p1 == Cat(h, m)
           p2 == Cat(q, p1)
           p3 == Cat(d, p2)
           p4 == Cat(c, p3)
           p5 == Cat(b, p4)
<1>t. /\ a \in Seq(S) /\ b \in Seq(S) /\ c \in Seq(S) /\ d \in Seq(S)
      /\ q \in Seq(S) /\ h \in Seq(S) /\ m \in Seq(S)
  BY DEF AreSeqs
<1>1. p1 \in Seq(S)
  BY <1>t, CatLaws
<1>2. ASSUME NEW x \in S PROVE Append(p1, x) = Cat(h, Append(m, x))
  BY <1>t, CatAppend
<1>3. ASSUME NEW x \in S PROVE Append(m, x) \in Seq(S)
  BY <1>t
<1> HIDE DEF p1
<1>4. p2 \in Seq(S)
  BY <1>t, <1>1, CatLaws
<1>5. ASSUME NEW x \in S PROVE Append(p2, x) = Cat(q, Append(p1, x))
  BY <1>t, <1>1, CatAppend
<1> HIDE DEF p2
<1>6. p3 \in Seq(S)
  BY <1>t, <1>4, CatLaws
<1>7. ASSUME NEW x \in S PROVE Append(p3, x) = Cat(d, Append(p2, x))
  BY <1>t, <1>4, CatAppend
<1> HIDE DEF p3
<1>8. p4 \in Seq(S)
  BY <1>t, <1>6, CatLaws
<1>9. ASSUME NEW x \in S PROVE Append(p4, x) = Cat(c, Append(p3, x))
  BY <1>t, <1>6, CatAppend
<1> HIDE DEF p4
<1>10. p5 \in Seq(S)
  BY <1>t, <1>8, CatLaws
<1>11. ASSUME NEW x \in S PROVE Append(p5, x) = Cat(b, Append(p4, x))
  BY <1>t, <1>8, CatAppend
<1> HIDE DEF p5
<1>12. Cat(a, p5) \in Seq(S)
  BY <1>t, <1>10, CatLaws
<1>13. ASSUME NEW x \in S PROVE Append(Cat(a, p5), x) = Cat(a, Append(p5, x))
  BY <1>t, <1>10, CatAppend
<1>14. Line(a, b, c, d, q, h, m) = Cat(a, p5)
  BY DEF Line, p1, p2, p3, p4, p5
<1>15. ASSUME NEW x \in S
       PROVE  Append(Line(a, b, c, d, q, h, m), x) =
                 Line(a, b, c, d, q, h, Append(m, x))
  BY <1>2, <1>5, <1>7, <1>9, <1>11, <1>13, <1>14, ZenonT(30) DEF Line
<1> QED
  BY <1>12, <1>14, <1>15

\* Packets that move from one part of the line to the part before it, in the
\* ways in which the threads move them, leave the line as it was.
LEMMA LineMoves ==
    ASSUME NEW S, NEW a, NEW b, NEW c, NEW d, NEW q, NEW h, NEW m,
           AreSeqs(S, a, b, c, d, q, h, m)
    PROVE  /\ Line(a, b, c, d, q, << >>, Cat(h, m)) = Line(a, b, c, d, q, h, m)
           /\ Line(a, b, c, d, Cat(q, h), << >>, m) = Line(a, b, c, d, q, h, m)
           /\ Line(a, b, c, Cat(d, q), h, << >>, m) = Line(a, b, c, d, q, h, m)
           /\ Line(a, b, c, Cat(d, q), << >>, h, m) = Line(a, b, c, d, q, h, m)
           /\ Line(a, << >>, Cat(b, c), d, q, h, m) = Line(a, b, c, d, q, h, m)
           /\ Line(Cat(a, b), << >>, c, d, q, h, m) = Line(a, b, c, d, q, h, m)
           /\ \A x \in Seq(S) : Line(a, b, c, Cat(x, d), q, h, m) =
                                 Line(a, b, Cat(c, x), d, q, h, m)
<1>t. /\ a \in Seq(S) /\ b \in Seq(S) /\ c \in Seq(S) /\ d \in Seq(S)
      /\ q \in Seq(S) /\ h \in Seq(S) /\ m \in Seq(S)
  BY DEF AreSeqs
<1> DEFINE p1 == Cat(h, m)
           p2 == Cat(q, p1)
           p3 == Cat(d, p2)
           p4 == Cat(c, p3)
<1>0. p1 \in Seq(S) /\ << >> \in Seq(S)
  BY <1>t, CatLaws
<1>1. p2 \in Seq(S)
  BY <1>t, <1>0, CatLaws
<1>2. p3 \in Seq(S)
  BY <1>t, <1>1, CatLaws
<1>3. p4 \in Seq(S)
  BY <1>t, <1>2, CatLaws
<1>4. Cat(<< >>, Cat(h, m)) = Cat(h, m)
  BY <1>0, CatLaws
<1>5. Cat(Cat(q, h), Cat(<< >>, m)) = Cat(q, Cat(h, m))
  BY <1>t, CatLaws
<1>6. Cat(Cat(d, q), Cat(h, Cat(<< >>, m))) = Cat(d, Cat(q, Cat(h, m)))
  BY <1>0, <1>t, CatLaws
<1>7. Cat(Cat(d, q), Cat(<< >>, Cat(h, m))) = Cat(d, Cat(q, Cat(h, m)))
  BY <1>0, <1>t, CatLaws
<1> HIDE DEF p1, p2, p3, p4
<1>8. Cat(<< >>, Cat(Cat(b, c), p3)) = Cat(b, Cat(c, p3))
  <2>1. Cat(b, c) \in Seq(S) /\ Cat(Cat(b, c), p3) = Cat(b, Cat(c, p3))
    BY <1>2, <1>t, CatLaws
  <2>2. Cat(Cat(b, c), p3) \in Seq(S)
    BY <1>2, <2>1, CatLaws
  <2> QED
    BY <2>1, <2>2, CatLaws
<1>9. Cat(Cat(a, b), Cat(<< >>, p4)) = Cat(a, Cat(b, p4))
  BY <1>3, <1>t, CatLaws
<1>10. ASSUME NEW x \in Seq(S)
       PROVE  Cat(c, Cat(Cat(x, d), p2)) = Cat(Cat(c, x), Cat(d, p2))
  <2>1. Cat(d, p2) \in Seq(S) /\ Cat(Cat(x, d), p2) = Cat(x, Cat(d, p2))
    BY <1>1, <1>t, CatLaws
  <2> QED
    BY <1>t, <2>1, CatLaws
<1> QED
  BY <1>4, <1>5, <1>6, <1>7, <1>8, <1>9, <1>10 DEF Line, p1, p2, p3, p4

\* Packets at the head of the line; and those on the air between the others.
LEMMA LineSplits ==
    ASSUME NEW S, NEW a, NEW b, NEW c, NEW d, NEW q, NEW h, NEW m,
           AreSeqs(S, a, b, c, d, q, h, m)
    PROVE  /\ \A x \in Seq(S) : Line(Cat(x, a), b, c, d, q, h, m) =
                                    Cat(x, Line(a, b, c, d, q, h, m))
           /\ \E y, z \in Seq(S) :
                 \A w \in Seq(S) :
                    Line(a, b, w, d, q, h, m) = Cat(y, Cat(w, z))
<1> DEFINE p3 == Cat(d, Cat(q, Cat(h, m)))
           p5 == Cat(b, Cat(c, p3))
<1>t. /\ a \in Seq(S) /\ b \in Seq(S) /\ c \in Seq(S) /\ d \in Seq(S)
      /\ q \in Seq(S) /\ h \in Seq(S) /\ m \in Seq(S)
  BY DEF AreSeqs
<1>1. Cat(h, m) \in Seq(S)
  BY <1>t, CatLaws
<1>2. Cat(q, Cat(h, m)) \in Seq(S)
  BY <1>t, <1>1, CatLaws
<1>3. p3 \in Seq(S)
  BY <1>t, <1>2, CatLaws
<1> HIDE DEF p3
<1>4. Cat(c, p3) \in Seq(S) /\ Cat(a, b) \in Seq(S)
  BY <1>t, <1>3, CatLaws
<1>5. p5 \in Seq(S)
  BY <1>t, <1>4, CatLaws
<1> HIDE DEF p5
<1>6. ASSUME NEW x \in Seq(S)
      PROVE  Line(Cat(x, a), b, c, d, q, h, m) =
                Cat(x, Line(a, b, c, d, q, h, m))
  <2>1. Cat(Cat(x, a), p5) = Cat(x, Cat(a, p5))
    BY <1>t, <1>5, CatLaws
  <2>2. /\ Line(Cat(x, a), b, c, d, q, h, m) = Cat(Cat(x, a), p5)
        /\ Line(a, b, c, d, q, h, m) = Cat(a, p5)
    BY DEF Line, p3, p5
  <2> QED
    BY <2>1, <2>2
<1>7. ASSUME NEW w \in Seq(S)
      PROVE  Line(a, b, w, d, q, h, m) = Cat(Cat(a, b), Cat(w, p3))
  <2>1. Cat(w, p3) \in Seq(S)
    BY <1>3, CatLaws
  <2>2. Cat(a, Cat(b, Cat(w, p3))) = Cat(Cat(a, b), Cat(w, p3))
    BY <1>t, <2>1, CatLaws
  <2>3. Line(a, b, w, d, q, h, m) = Cat(a, Cat(b, Cat(w, p3)))
    BY DEF Line, p3
  <2> QED
    BY <2>2, <2>3
<1> QED
  BY <1>3, <1>4, <1>6, <1>7

\* The elements of a concatenation.
LEMMA CatElements ==
    ASSUME NEW S, NEW s \in Seq(S), NEW t \in Seq(S)
    PROVE  /\ Cat(s, t) \in Seq(S) /\ Len(Cat(s, t)) = Len(s) + Len(t)
           /\ \A i \in 1 .. Len(s) + Len(t) :
                 Cat(s, t)[i] = IF i <= Len(s) THEN s[i] ELSE t[i - Len(s)]
  BY ConcatProperties DEF Cat

\* The middle part of a concatenation is a subsequence too.
LEMMA CatMiddle ==
    ASSUME NEW S, NEW g \in Seq(S), NEW x \in Seq(S), NEW r \in Seq(S)
    PROVE  SubSeq(Cat(g, Cat(x, r)), Len(g) + 1, Len(g) + Len(x)) = x
<1> DEFINE c == Cat(x, r)
           s == Cat(g, c)
           l == Len(g)
           n == Len(x)
<1>1. /\ l \in Nat /\ n \in Nat /\ c \in Seq(S) /\ Len(r) \in Nat
      /\ Len(c) = n + Len(r)
      /\ \A i \in 1 .. n : c[i] = x[i]
  BY ConcatProperties DEF Cat
<1> HIDE DEF c
<1>2. /\ s \in Seq(S) /\ Len(s) = l + n + Len(r)
      /\ \A i \in 1 .. n + Len(r) : s[l + i] = c[i]
  <2>1. /\ s \in Seq(S) /\ Len(s) = l + Len(c)
        /\ \A i \in 1 .. Len(g) + Len(c) :
              s[i] = IF i <= Len(g) THEN g[i] ELSE c[i - Len(g)]
    <3>1. c \in Seq(S)
      BY <1>1
    <3>2. /\ Cat(g, c) \in Seq(S) /\ Len(Cat(g, c)) = Len(g) + Len(c)
          /\ \A i \in 1 .. Len(g) + Len(c) :
                Cat(g, c)[i] = IF i <= Len(g) THEN g[i] ELSE c[i - Len(g)]
      BY <3>1, CatElements, Zenon
    <3> QED
      BY <3>2
  <2> HIDE DEF s
  <2>2. ASSUME NEW i \in 1 .. n + Len(r) PROVE s[l + i] = c[i]
    <3>1. /\ l + i \in 1 .. Len(g) + Len(c) /\ ~(l + i <= Len(g))
          /\ l + i - Len(g) = i
      BY <1>1
    <3> QED
      BY <2>1, <3>1
  <2> QED
    BY <1>1, <2>1, <2>2
<1> HIDE DEF s
<1>3. /\ SubSeq(s, l + 1, l + n) \in Seq(S)
      /\ Len(SubSeq(s, l + 1, l + n)) =
            IF l + 1 <= l + n THEN l + n - (l + 1) + 1 ELSE 0
      /\ \A i \in 1 .. l + n - (l + 1) + 1 :
            SubSeq(s, l + 1, l + n)[i] = s[l + 1 + i - 1]
  <2>1. \A i \in l + 1 .. l + n : s[i] \in S
    BY <1>1, <1>2
  <2> HIDE DEF l, n
  <2> QED
    BY <1>1, <1>2, <2>1, SubSeqProperties
<1>4. Len(SubSeq(s, l + 1, l + n)) = n
  BY <1>1, <1>3
<1>5. ASSUME NEW i \in 1 .. n PROVE SubSeq(s, l + 1, l + n)[i] = x[i]
  <2>1. /\ i \in 1 .. l + n - (l + 1) + 1 /\ l + 1 + i - 1 = l + i
        /\ i \in 1 .. n + Len(r)
    BY <1>1
  <2> QED
    BY <1>1, <1>2, <1>3, <2>1
<1> HIDE DEF l, n
<1> QED
  BY <1>1, <1>3, <1>4, <1>5, SeqEqual DEF s, c, l, n

\* A fault of the abstract channel, with the places it concerns named.
LEMMA DisturbedAt ==
    ASSUME NEW s, NEW i \in 0 .. Len(s), NEW j \in i .. Len(s),
           NEW k \in j .. Len(s), NEW m, NEW t, NEW e,
           \/ m = SubSeq(s, j + 1, k)
           \/ m = SubSeq(s, j + 1, k) \o SubSeq(s, i + 1, j)
           \/ m = SubSeq(s, i + 1, j) \o
                     (SubSeq(s, j + 1, k) \o SubSeq(s, i + 1, j)),
           t = SubSeq(s, 1, i) \o (m \o SubSeq(s, k + 1, Len(s)))
    PROVE  Fifo!Disturb(s, t, e, e, 1)
  BY Zenon DEF Fifo!Disturb

\* What the abstract steps are in terms of parts of a line: a fault that
\* concerns the packets x between those before and behind them, and packets x
\* that arrive from its head.
LEMMA AbstractDisturb ==
    ASSUME NEW S, NEW g \in Seq(S), NEW x \in Seq(S), NEW y \in Seq(S),
           NEW z \in Seq(S), NEW e,
           NEW w \in {y, Cat(y, x), Cat(x, Cat(y, x))}
    PROVE  Fifo!Disturb(Cat(g, Cat(Cat(x, y), z)), Cat(g, Cat(w, z)), e, e, 1)
<1> DEFINE f == Cat(g, x)
           r == Cat(y, z)
           t == Cat(x, r)
           s == Cat(g, t)
           i == Len(g)
           j == Len(g) + Len(x)
           k == Len(g) + Len(x) + Len(y)
<1>1. /\ Len(g) \in Nat /\ Len(x) \in Nat /\ Len(y) \in Nat /\ Len(z) \in Nat
      /\ f \in Seq(S) /\ r \in Seq(S)
  <2>1. Cat(g, x) \in Seq(S) /\ Cat(y, z) \in Seq(S)
    BY CatLaws
  <2> QED
    BY <2>1
<1>2. Len(f) = j
  <2>1. AreParts(f, g, x)
    BY CatParts
  <2> QED
    BY <2>1 DEF AreParts
<1>3. Len(r) = Len(y) + Len(z)
  <2>1. AreParts(r, y, z)
    BY CatParts
  <2> QED
    BY <2>1 DEF AreParts
<1>4. Cat(Cat(x, y), z) = t
  BY CatLaws
<1> HIDE DEF f, r
<1>5. t \in Seq(S) /\ s = Cat(f, r)
  BY <1>1, CatLaws DEF f
<1>6. Len(t) = Len(x) + Len(r)
  <2>1. AreParts(t, x, r)
    BY <1>1, CatParts
  <2> QED
    BY <2>1 DEF AreParts
<1>7. SubSeq(s, i + 1, j) = x
  BY <1>1, CatMiddle
<1> HIDE DEF t
<1>8. Len(s) = Len(g) + Len(t) /\ SubSeq(s, 1, i) = g
  <2>1. AreParts(s, g, t)
    BY <1>5, CatParts
  <2> QED
    BY <2>1 DEF AreParts
<1> HIDE DEF s
<1>9. SubSeq(s, j + 1, k) = y
  <2>1. SubSeq(Cat(f, Cat(y, z)), Len(f) + 1, Len(f) + Len(y)) = y
    BY <1>1, CatMiddle
  <2> QED
    BY <1>2, <1>5, <2>1 DEF r
<1>10. SubSeq(s, k + 1, Len(s)) = z
  <2>1. Cat(f, y) \in Seq(S) /\ s = Cat(Cat(f, y), z)
    BY <1>1, <1>5, CatLaws DEF r
  <2>2. AreParts(s, Cat(f, y), z) /\ AreParts(Cat(f, y), f, y)
    BY <1>1, <2>1, CatParts
  <2> QED
    BY <1>2, <2>2 DEF AreParts
<1>11. i \in 0 .. Len(s) /\ j \in i .. Len(s) /\ k \in j .. Len(s)
  BY <1>1, <1>3, <1>6, <1>8
<1> HIDE DEF i, j, k
<1>12. w \in {SubSeq(s, j + 1, k), SubSeq(s, j + 1, k) \o SubSeq(s, i + 1, j),
               SubSeq(s, i + 1, j) \o
                  (SubSeq(s, j + 1, k) \o SubSeq(s, i + 1, j))}
  BY <1>7, <1>9 DEF Cat
<1>13. Cat(g, Cat(w, z)) =
          SubSeq(s, 1, i) \o (w \o SubSeq(s, k + 1, Len(s)))
  BY <1>8, <1>10 DEF Cat
<1>14. Fifo!Disturb(s, Cat(g, Cat(w, z)), e, e, 1)
  <2>1. \/ w = SubSeq(s, j + 1, k)
        \/ w = SubSeq(s, j + 1, k) \o SubSeq(s, i + 1, j)
        \/ w = SubSeq(s, i + 1, j) \o
                  (SubSeq(s, j + 1, k) \o SubSeq(s, i + 1, j))
    BY <1>12, Zenon
  <2> QED
    BY <1>11, <1>13, <2>1, DisturbedAt, Zenon
<1> QED
  BY <1>4, <1>14 DEF s

LEMMA AbstractDeliver ==
    ASSUME NEW S, NEW x \in Seq(S), NEW z \in Seq(S), x # << >>,
           NEW d \in Seq(S)
    PROVE  Fifo!Deliver(Cat(x, z), z, d, Cat(d, x), 0)
<1>1. Len(x) \in Nat \ {0} /\ Len(z) \in Nat
  BY EmptySeq
<1>2. Len(Cat(x, z)) = Len(x) + Len(z)
  <2>1. AreParts(Cat(x, z), x, z)
    BY CatParts
  <2> QED
    BY <2>1 DEF AreParts
<1>3. Cat(d, x) \o z = d \o Cat(x, z)
  BY CatLaws, SMTT(30) DEF Cat
<1>4. Len(z) < Len(Cat(x, z))
  BY <1>1, <1>2
<1> QED
  BY <1>3, <1>4 DEF Fifo!Deliver

\* A fault that concerns no packet of the line.
LEMMA AbstractIdle ==
    ASSUME NEW S, NEW s \in Seq(S), NEW e
    PROVE  Fifo!Disturb(s, s, e, e, 1)
<1>1. << >> \in Seq(S) /\ Cat(<< >>, << >>) = << >> /\ Cat(s, << >>) = s
  <2>1. << >> \in Seq(S)
    OBVIOUS
  <2>2. Cat(<< >>, << >>) = << >> /\ Cat(s, << >>) = s
    BY <2>1, CatLaws, Zenon
  <2> QED
    BY <2>1, <2>2
<1>2. Fifo!Disturb(Cat(s, Cat(Cat(<< >>, << >>), << >>)),
                   Cat(s, Cat(<< >>, << >>)), e, e, 1)
  BY <1>1, AbstractDisturb
<1> QED
  BY <1>1, <1>2

(***************************************************************************)
(* The packets of one UE in a sequence of PDUs.                             *)
(***************************************************************************)
Mine(u, p) == IF p.source = u /\ p.ok THEN p.sdus ELSE << >>

\* They are read off PDU by PDU.
LEMMA SdusLaws ==
    ASSUME NEW u \in Ues, NEW s \in Seq(AnyPdu)
    PROVE  /\ Sdus(u, s) \in Seq(Passed(u)) /\ Sdus(u, << >>) = << >>
           /\ \A p \in AnyPdu :
                 /\ Mine(u, p) \in Seq(Passed(u))
                 /\ Sdus(u, << p >>) = Mine(u, p)
                 /\ Sdus(u, Append(s, p)) = Cat(Sdus(u, s), Mine(u, p))
           /\ s # << >> => Sdus(u, s) = Cat(Mine(u, Head(s)), Sdus(u, Tail(s)))
<1> DEFINE F(r) == [i \in DOMAIN r |-> Mine(u, r[i])]
           V == Seq(Passed(u))
<1>1. ASSUME NEW r PROVE Sdus(u, r) = FlattenSeq(F(r))
  BY DEF Sdus, Mine
<1>2. ASSUME NEW p \in AnyPdu PROVE Mine(u, p) \in V
  <2>1. PICK w \in Ues : p \in PduOf(w)
    BY DEF AnyPdu
  <2>2. p.source = w /\ p.sdus \in Seq(Passed(w)) /\ << >> \in V
    BY <2>1 DEF PduOf
  <2> QED
    BY <2>2 DEF Mine
<1> HIDE DEF V
<1>3. ASSUME NEW r \in Seq(AnyPdu)
      PROVE  F(r) \in Seq(V) /\ Len(F(r)) = Len(r)
  <2>1. \A i \in 1 .. Len(r) : Mine(u, r[i]) \in V
    BY <1>2
  <2>2. F(r) \in [1 .. Len(r) -> V] /\ Len(r) \in Nat
    BY <2>1
  <2> QED
    BY <2>2
<1>4. ASSUME NEW r \in Seq(AnyPdu), NEW p \in AnyPdu
      PROVE  F(Append(r, p)) = Append(F(r), Mine(u, p))
  <2> DEFINE n == Len(r)
             f == F(Append(r, p))
             g == Append(F(r), Mine(u, p))
  <2>1. /\ n \in Nat /\ Append(r, p) \in Seq(AnyPdu)
        /\ DOMAIN Append(r, p) = 1 .. n + 1 /\ Append(r, p)[n + 1] = p
        /\ \A i \in 1 .. n : Append(r, p)[i] = r[i]
    BY AppendProperties
  <2>2. /\ g \in Seq(V) /\ Len(g) = n + 1 /\ g[n + 1] = Mine(u, p)
        /\ \A i \in 1 .. n : g[i] = F(r)[i]
    <3>1. F(r) \in Seq(V) /\ Len(F(r)) = n /\ Mine(u, p) \in V
      BY <1>2, <1>3
    <3> HIDE DEF F, n
    <3> QED
      BY <3>1, AppendProperties
  <2>3. f \in Seq(V) /\ Len(f) = n + 1
    <3>1. Append(r, p) \in Seq(AnyPdu) /\ Len(Append(r, p)) = n + 1
      BY AppendProperties
    <3> HIDE DEF F, n
    <3> QED
      BY <1>3, <3>1
  <2>4. ASSUME NEW i \in 1 .. n + 1
        PROVE  f[i] = g[i]
    <3>1. CASE i = n + 1
      BY <2>1, <2>2, <3>1
    <3>2. CASE i # n + 1
      <4>1. i \in 1 .. n
        BY <2>1, <3>2
      <4> QED
        BY <2>1, <2>2, <4>1
    <3> QED
      BY <3>1, <3>2
  <2> HIDE DEF f, g, n
  <2>5. f = g
    BY <2>2, <2>3, <2>4, SeqEqual
  <2> QED
    BY <2>5 DEF f, g
<1>5. ASSUME s # << >>
      PROVE  /\ F(s) # << >> /\ Head(F(s)) = Mine(u, Head(s))
             /\ Tail(F(s)) = F(Tail(s))
  <2> DEFINE n == Len(s)
             f == Tail(F(s))
             g == F(Tail(s))
  <2>1. /\ n \in Nat \ {0} /\ Tail(s) \in Seq(AnyPdu) /\ Len(Tail(s)) = n - 1
        /\ \A i \in 1 .. n - 1 : Tail(s)[i] = s[i + 1]
        /\ Head(s) = s[1]
    BY <1>5, HeadTailProperties, EmptySeq
  <2>2. F(s) \in Seq(V) /\ Len(F(s)) = n
    BY <1>3
  <2>3. F(s) # << >> /\ Head(F(s)) = F(s)[1]
    BY <2>1, <2>2
  <2>4. /\ f \in Seq(V) /\ Len(f) = n - 1
        /\ \A i \in 1 .. n - 1 : f[i] = F(s)[i + 1]
    <3>1. /\ Tail(F(s)) \in Seq(V) /\ Len(Tail(F(s))) = n - 1
          /\ \A i \in 1 .. Len(Tail(F(s))) : Tail(F(s))[i] = F(s)[i + 1]
      <4> HIDE DEF F, n
      <4> QED
        BY <2>2, <2>3, HeadTailProperties
    <3> QED
      BY <3>1
  <2>5. g \in Seq(V) /\ Len(g) = n - 1
    BY <1>3, <2>1
  <2>6. ASSUME NEW i \in 1 .. n - 1
        PROVE  f[i] = g[i]
    <3>1. i \in DOMAIN Tail(s) /\ i + 1 \in DOMAIN s
      BY <2>1
    <3>2. F(s)[i + 1] = Mine(u, s[i + 1]) /\ g[i] = Mine(u, Tail(s)[i])
      BY <3>1
    <3> QED
      BY <2>1, <2>4, <3>2
  <2>7. f = g
    <3> HIDE DEF f, g, n
    <3> QED
      BY <2>4, <2>5, <2>6, SeqEqual
  <2>8. F(s)[1] = Mine(u, s[1])
    BY <2>1
  <2> QED
    BY <2>1, <2>3, <2>7, <2>8
<1>6. F(<< >>) = << >> /\ << >> \in Seq(AnyPdu)
  OBVIOUS
<1> HIDE DEF F
<1>7. Sdus(u, s) \in V
  BY <1>1, <1>3, FlattenType DEF V
<1>8. Sdus(u, << >>) = << >>
  BY <1>1, <1>6, FlattenEmpty
<1>9. ASSUME NEW r \in Seq(AnyPdu), NEW p \in AnyPdu
      PROVE  Sdus(u, Append(r, p)) = Cat(Sdus(u, r), Mine(u, p))
  <2>1. F(r) \in Seq(Seq(Passed(u))) /\ Mine(u, p) \in Seq(Passed(u))
    BY <1>2, <1>3 DEF V
  <2>2. FlattenSeq(Append(F(r), Mine(u, p))) = FlattenSeq(F(r)) \o Mine(u, p)
    BY <2>1, FlattenAppend
  <2> QED
    BY <1>1, <1>4, <2>2 DEF Cat
<1>10. ASSUME NEW p \in AnyPdu
       PROVE  Sdus(u, << p >>) = Mine(u, p)
  <2>1. << p >> = Append(<< >>, p)
    OBVIOUS
  <2>2. Cat(<< >>, Mine(u, p)) = Mine(u, p)
    BY <1>2, CatLaws DEF V
  <2> QED
    BY <1>6, <1>8, <1>9, <2>1, <2>2
<1>11. ASSUME s # << >>
       PROVE  Sdus(u, s) = Cat(Mine(u, Head(s)), Sdus(u, Tail(s)))
  <2>1. F(s) \in Seq(Seq(Passed(u))) /\ F(s) # << >>
    BY <1>3, <1>5, <1>11 DEF V
  <2>2. FlattenSeq(F(s)) = Head(F(s)) \o FlattenSeq(Tail(F(s)))
    BY <2>1, FlattenHeadTail
  <2> QED
    BY <1>1, <1>5, <1>11, <2>2 DEF Cat
<1> QED
  BY <1>2, <1>7, <1>8, <1>9, <1>10, <1>11 DEF V

(***************************************************************************)
(* The steps of the data path, seen on the lines.                           *)
(***************************************************************************)
LineOf(u) ==
    Line(Sdus(u, pdus), Sdus(u, buffer[u]), Sdus(u, air[u]), Sdus(u, toL1[u]),
         queue[u], bufferData[u], macHigh[u])

PartsType(u) ==
    /\ AreSeqs(Passed(u), Sdus(u, pdus), Sdus(u, buffer[u]), Sdus(u, air[u]),
               Sdus(u, toL1[u]), queue[u], bufferData[u], macHigh[u])
    /\ delivered[u] \in Seq(Passed(u))

\* The PDUs of one UE are among those of all.
LEMMA OwnPdus ==
    ASSUME Inv, NEW u \in Ues
    PROVE  /\ HoldsOwn(u) /\ pdus \in Seq(AnyPdu) /\ PduOf(u) \subseteq AnyPdu
           /\ buffer[u] \in Seq(AnyPdu) /\ air[u] \in Seq(AnyPdu)
           /\ toL1[u] \in Seq(AnyPdu)
<1>1. HoldsOwn(u) /\ pdus \in Seq(AnyPdu) /\ PduOf(u) \subseteq AnyPdu
  BY DEF Inv, Contents, AnyPdu
<1>2. \A s \in Seq(PduOf(u)) : s \in Seq(AnyPdu)
  BY <1>1, SeqMonotonic
<1> QED
  BY <1>1, <1>2 DEF HoldsOwn

\* The packets under way from u are its line.
LEMMA InTransitIsLine ==
    ASSUME Inv, NEW u \in Ues
    PROVE  PartsType(u) /\ InTransit(u) = LineOf(u)
<1> DEFINE S == Passed(u)
           a == Sdus(u, pdus)
           b == Sdus(u, buffer[u])
           c == Sdus(u, air[u])
           d == Sdus(u, toL1[u])
           q == queue[u]
           h == bufferData[u]
           m == macHigh[u]
<1>1. PartsType(u)
  BY OwnPdus, SdusLaws DEF HoldsOwn, PartsType, AreSeqs
<1>2. /\ a \in Seq(S) /\ b \in Seq(S) /\ c \in Seq(S) /\ d \in Seq(S)
      /\ q \in Seq(S) /\ h \in Seq(S) /\ m \in Seq(S)
  BY <1>1 DEF PartsType, AreSeqs
<1>3. InTransit(u) = Cat(Cat(Cat(a, b), c), Cat(Cat(Cat(d, q), h), m))
  BY DEF InTransit, Sending, Cat
<1> HIDE DEF S, a, b, c, d, q, h, m
<1>4. Cat(Cat(Cat(d, q), h), m) = Cat(d, Cat(q, Cat(h, m)))
  <2>1. Cat(d, q) \in Seq(S) /\ Cat(h, m) \in Seq(S)
    BY <1>2, CatLaws
  <2>2. Cat(Cat(Cat(d, q), h), m) = Cat(Cat(d, q), Cat(h, m))
    BY <1>2, <2>1, CatLaws
  <2> QED
    BY <1>2, <2>1, <2>2, CatLaws
<1>5. Cat(d, Cat(q, Cat(h, m))) \in Seq(S)
  <2>1. Cat(q, Cat(h, m)) \in Seq(S)
    <3>1. Cat(h, m) \in Seq(S)
      BY <1>2, CatLaws
    <3> QED
      BY <1>2, <3>1, CatLaws
  <2> QED
    BY <1>2, <2>1, CatLaws
<1> DEFINE r == Cat(d, Cat(q, Cat(h, m)))
<1>6. r \in Seq(S)
  BY <1>5
<1> HIDE DEF r
<1>7. Cat(Cat(Cat(a, b), c), r) = Cat(a, Cat(b, Cat(c, r)))
  <2>1. Cat(a, b) \in Seq(S) /\ Cat(c, r) \in Seq(S)
    BY <1>2, <1>6, CatLaws
  <2>2. Cat(Cat(Cat(a, b), c), r) = Cat(Cat(a, b), Cat(c, r))
    BY <1>2, <1>6, <2>1, CatLaws
  <2> QED
    BY <1>2, <2>1, <2>2, CatLaws
<1> QED
  BY <1>1, <1>3, <1>4, <1>7 DEF LineOf, Line, r, a, b, c, d, q, h, m

Same(u) == InTransit(u)' = InTransit(u) /\ delivered'[u] = delivered[u]

Advances(u) ==
    Fifo!Step({p \in Packet : p.from = u}, InTransit(u), InTransit(u)',
              delivered[u], delivered'[u], faults' - faults)

\* A step of one UE that does not touch the others is an abstract step or none.
LEMMA OneAdvances ==
    ASSUME TypeOK, TypeOK', NEW u \in Ues,
           (Same(u) /\ UNCHANGED faults) \/ Advances(u),
           \A v \in Ues \ {u} : Same(v)
    PROVE  [Fifo!Next]_Fifo!vars
<1> DEFINE T == [v \in Ues |-> InTransit(v)]
<1>1. /\ \A v \in Ues : T[v] = InTransit(v) /\ T'[v] = InTransit(v)'
      /\ delivered = [v \in Ues |-> delivered[v]]
      /\ delivered' = [v \in Ues |-> delivered'[v]]
  BY DEF TypeOK, RxTypeOK
<1>2. CASE Same(u) /\ UNCHANGED faults
  <2>1. \A v \in Ues : Same(v)
    BY <1>2
  <2>2. T' = T
    BY <2>1 DEF Same
  <2>3. delivered' = delivered
    BY <1>1, <2>1 DEF Same
  <2> QED
    BY <1>2, <2>2, <2>3 DEF Fifo!vars
<1>3. CASE Advances(u)
  <2>1. /\ \A v \in Ues \ {u} : T'[v] = T[v] /\ delivered'[v] = delivered[v]
        /\ Fifo!Step([v \in Ues |-> {p \in Packet : p.from = v}][u],
                     T[u], T'[u], delivered[u], delivered'[u],
                     faults' - faults)
    BY <1>1, <1>3 DEF Same, Advances
  <2> HIDE DEF T
  <2> QED
    BY <2>1 DEF Fifo!Next, T
<1> QED
  BY <1>2, <1>3

\* What a step leaves of the parts of v, it leaves of the line.
LEMMA SameLine ==
    ASSUME NEW v \in Ues, Sdus(v, pdus') = Sdus(v, pdus),
           buffer'[v] = buffer[v], air'[v] = air[v], toL1'[v] = toL1[v],
           queue'[v] = queue[v], bufferData'[v] = bufferData[v],
           macHigh'[v] = macHigh[v], delivered'[v] = delivered[v]
    PROVE  Same(v)
BY DEF Same, InTransit, Sending, Sdus

\* The line before a step and after it.
LEMMA Lines ==
    ASSUME Inv, Inv', NEW u \in Ues
    PROVE  /\ PartsType(u) /\ HoldsOwn(u)
           /\ AreSeqs(Passed(u), Sdus(u, pdus'), Sdus(u, buffer'[u]),
                      Sdus(u, air'[u]), Sdus(u, toL1'[u]), queue'[u],
                      bufferData'[u], macHigh'[u])
           /\ InTransit(u) =
                 Line(Sdus(u, pdus), Sdus(u, buffer[u]), Sdus(u, air[u]),
                      Sdus(u, toL1[u]), queue[u], bufferData[u], macHigh[u])
           /\ InTransit(u)' =
                 Line(Sdus(u, pdus'), Sdus(u, buffer'[u]), Sdus(u, air'[u]),
                      Sdus(u, toL1'[u]), queue'[u], bufferData'[u], macHigh'[u])
<1>1. PartsType(u) /\ InTransit(u) = LineOf(u) /\ HoldsOwn(u)
  BY InTransitIsLine, OwnPdus
<1>2. (PartsType(u) /\ InTransit(u) = LineOf(u))'
  <2>1. Inv => PartsType(u) /\ InTransit(u) = LineOf(u)
    BY InTransitIsLine
  <2> QED
    BY <2>1, InTransitIsLine, PTL
<1> QED
  BY <1>1, <1>2 DEF LineOf, Sdus, PartsType, Passed

\* reading accepts a packet, or drops it before it is under way.
LEMMA ReadingMaps ==
    ASSUME Inv, Inv', NEW u \in Ues, NEW kind \in Kinds[u], reading(u, kind),
           UNCHANGED <<faults, rxVars>>
    PROVE  [Fifo!Next]_Fifo!vars
<1> DEFINE p == [from |-> u, number |-> taken[u] + 1, kind |-> kind]
<1>1. /\ macHigh' = [macHigh EXCEPT ![u] = IF Passes(kind)
                                           THEN Append(@, p) ELSE @]
      /\ pdus' = pdus /\ buffer' = buffer /\ air' = air /\ toL1' = toL1
      /\ queue' = queue /\ bufferData' = bufferData /\ delivered' = delivered
      /\ macHigh \in [Ues -> Seq(Packet)]
  BY DEF reading, rxVars, Inv, TypeOK, TxTypeOK
<1>2. ASSUME NEW v \in Ues \ {u} PROVE Same(v)
  <2>1. macHigh'[v] = macHigh[v]
    BY <1>1
  <2> QED
    BY <1>1, <2>1, SameLine
<1>3. CASE ~Passes(kind)
  <2>1. macHigh'[u] = macHigh[u]
    BY <1>1, <1>3
  <2>2. Same(u)
    BY <1>1, <2>1, SameLine
  <2> QED
    BY <1>2, <2>2, OneAdvances DEF Inv
<1>4. CASE Passes(kind)
  <2>1. p \in Passed(u) /\ p.from = u /\ p \in Packet
    <3>1. /\ taken \in [Ues -> Nat] /\ MaxPackets \in [Ues -> Nat]
          /\ taken[u] < MaxPackets[u]
      BY AirAssumption DEF reading, Inv, TypeOK, TxTypeOK
    <3>2. taken[u] + 1 \in 1 .. MaxPackets[u]
      BY <3>1
    <3>3. taken[u] + 1 \in Numbers
      BY <3>2 DEF Numbers
    <3> QED
      BY <1>4, <3>3 DEF Passed, Packet
  <2> HIDE DEF p
  <2>2. macHigh'[u] = Append(macHigh[u], p)
    BY <1>1, <1>4
  <2>3. InTransit(u)' = Append(InTransit(u), p)
    BY <1>1, <2>1, <2>2, Lines, LineType DEF PartsType
  <2>4. delivered'[u] = delivered[u] /\ faults' - faults = 0
    BY <1>1, FaultType DEF Inv
  <2>5. Advances(u)
    BY <2>1, <2>3, <2>4 DEF Advances, Fifo!Step, Fifo!Accept
  <2> QED
    BY <1>2, <2>5, OneAdvances DEF Inv
<1> QED
  BY <1>3, <1>4

\* sendPdu moves the packets of the queue to those announced to L1.
LEMMA SendPduMoves ==
    ASSUME Inv, NEW u \in Ues, sendPdu(u)
    PROVE  Sdus(u, toL1'[u]) = Cat(Sdus(u, toL1[u]), queue[u])
<1> DEFINE p == [source |-> u, sdus |-> queue[u], ok |-> TRUE]
<1>1. p \in AnyPdu /\ Mine(u, p) = queue[u]
  <2>1. p \in PduOf(u) /\ PduOf(u) \subseteq AnyPdu
    BY OwnPdus DEF HoldsOwn, PduOf
  <2> QED
    BY <2>1 DEF Mine
<1>2. toL1'[u] = Append(toL1[u], p)
  BY DEF sendPdu, Inv, TypeOK, TxTypeOK
<1> HIDE DEF p
<1>3. toL1[u] \in Seq(AnyPdu)
  BY OwnPdus
<1> QED
  BY <1>1, <1>2, <1>3, SdusLaws

\* What the threads of u do with a packet once it has passed the filters
\* changes nothing in the order of those under way.
LEMMA WorksMaps ==
    ASSUME Inv, Inv', NEW u \in Ues, Works(u), UNCHANGED rxVars
    PROVE  Same(u) /\ \A v \in Ues \ {u} : Same(v)
<1>0. /\ pdus' = pdus /\ buffer' = buffer /\ delivered' = delivered
      /\ PartsType(u) /\ HoldsOwn(u)
      /\ macHigh \in [Ues -> Seq(Packet)] /\ bufferData \in [Ues -> Seq(Packet)]
      /\ queue \in [Ues -> Seq(Packet)] /\ toL1 \in [Ues -> Seq(Pdu)]
      /\ air \in [Ues -> Seq(Pdu)]
      /\ Len(bufferData[u]) = IF tx[u] = "look" THEN 0 ELSE 1
  BY Lines DEF rxVars, Inv, TypeOK, TxTypeOK, AirTypeOK
<1>1. CASE getNextSdu(u)
  <2>1. /\ macHigh' = [macHigh EXCEPT ![u] = Tail(@)]
        /\ bufferData' = [bufferData EXCEPT ![u] = << Head(macHigh[u]) >>]
        /\ tx[u] = "look" /\ macHigh[u] # << >>
        /\ queue' = queue /\ toL1' = toL1 /\ air' = air
    BY <1>1 DEF getNextSdu
  <2>2. ASSUME NEW v \in Ues \ {u} PROVE Same(v)
    <3>1. macHigh'[v] = macHigh[v] /\ bufferData'[v] = bufferData[v]
      BY <1>0, <2>1
    <3> QED
      BY <1>0, <2>1, <3>1, SameLine
  <2>3. bufferData[u] = << >>
    BY <1>0, <2>1, EmptySeq
  <2>4. /\ macHigh[u] = Cat(<< Head(macHigh[u]) >>, Tail(macHigh[u]))
        /\ << Head(macHigh[u]) >> \in Seq(Passed(u))
        /\ Tail(macHigh[u]) \in Seq(Passed(u))
    BY <1>0, <2>1, CatHeadTail DEF HoldsOwn
  <2>5. /\ macHigh'[u] = Tail(macHigh[u])
        /\ bufferData'[u] = << Head(macHigh[u]) >>
    BY <1>0, <2>1
  <2>6. InTransit(u)' = InTransit(u)
    <3> DEFINE x == << Head(macHigh[u]) >>
               m == Tail(macHigh[u])
    <3>1. x \in Seq(Passed(u)) /\ m \in Seq(Passed(u)) /\ macHigh[u] = Cat(x, m)
          /\ macHigh'[u] = m /\ bufferData'[u] = x
      BY <2>4, <2>5
    <3> HIDE DEF x, m
    <3>2. /\ AreSeqs(Passed(u), Sdus(u, pdus), Sdus(u, buffer[u]),
                     Sdus(u, air[u]), Sdus(u, toL1[u]), queue[u], x, m)
          /\ InTransit(u)' =
                Line(Sdus(u, pdus), Sdus(u, buffer[u]), Sdus(u, air[u]),
                     Sdus(u, toL1[u]), queue[u], x, m)
      BY <1>0, <2>1, <3>1, Lines
    <3>3. InTransit(u) =
             Line(Sdus(u, pdus), Sdus(u, buffer[u]), Sdus(u, air[u]),
                  Sdus(u, toL1[u]), queue[u], << >>, Cat(x, m))
      BY <2>3, <3>1, Lines
    <3> QED
      BY <3>2, <3>3, LineMoves
  <2> QED
    BY <1>0, <2>2, <2>6 DEF Same
<1>2. CASE Notify(u) \/ NoTimeout(u)
  BY <1>0, <1>2, SameLine DEF Notify, NoTimeout
<1>3. CASE Add(u)
  <2>1. /\ bufferData' = [bufferData EXCEPT ![u] = << >>]
        /\ macHigh' = macHigh /\ air' = air
    BY <1>3 DEF Add
  <2>2. CASE /\ queue' = [queue EXCEPT ![u] = @ \o bufferData[u]]
             /\ toL1' = toL1
    <3>1. queue' = [queue EXCEPT ![u] = @ \o bufferData[u]] /\ toL1' = toL1
      BY <2>2
    <3>2. ASSUME NEW v \in Ues \ {u} PROVE Same(v)
      <4>1. queue'[v] = queue[v] /\ bufferData'[v] = bufferData[v]
        BY <1>0, <2>1, <3>1
      <4> QED
        BY <1>0, <2>1, <3>1, <4>1, SameLine
    <3>3. queue'[u] = Cat(queue[u], bufferData[u]) /\ bufferData'[u] = << >>
      BY <1>0, <2>1, <3>1 DEF Cat
    <3>4. InTransit(u)' =
             Line(Sdus(u, pdus), Sdus(u, buffer[u]), Sdus(u, air[u]),
                  Sdus(u, toL1[u]), Cat(queue[u], bufferData[u]), << >>,
                  macHigh[u])
      BY <1>0, <2>1, <3>1, <3>3, Lines
    <3>5. InTransit(u)' = InTransit(u)
      BY <3>4, Lines, LineMoves DEF PartsType
    <3> QED
      BY <1>0, <3>2, <3>5 DEF Same
  <2>3. CASE queue' = [queue EXCEPT ![u] = bufferData[u]] /\ sendPdu(u)
    <3>1. queue' = [queue EXCEPT ![u] = bufferData[u]] /\ sendPdu(u)
      BY <2>3
    <3>2. ASSUME NEW v \in Ues \ {u} PROVE Same(v)
      <4>1. /\ queue'[v] = queue[v] /\ bufferData'[v] = bufferData[v]
            /\ toL1'[v] = toL1[v]
        BY <1>0, <2>1, <3>1 DEF sendPdu
      <4> QED
        BY <1>0, <2>1, <4>1, SameLine
    <3>3. /\ queue'[u] = bufferData[u] /\ bufferData'[u] = << >>
          /\ Sdus(u, toL1'[u]) = Cat(Sdus(u, toL1[u]), queue[u])
      BY <1>0, <2>1, <3>1, SendPduMoves
    <3>4. InTransit(u)' = InTransit(u)
      BY <1>0, <2>1, <3>3, Lines, LineMoves DEF PartsType
    <3> QED
      BY <1>0, <3>2, <3>4 DEF Same
  <2> QED
    BY <1>3, <2>2, <2>3 DEF Add
<1>4. CASE Timeout(u)
  <2>1. /\ queue' = [queue EXCEPT ![u] = << >>] /\ sendPdu(u)
        /\ macHigh' = macHigh /\ bufferData' = bufferData /\ air' = air
    BY <1>4 DEF Timeout
  <2>2. ASSUME NEW v \in Ues \ {u} PROVE Same(v)
    <3>1. queue'[v] = queue[v] /\ toL1'[v] = toL1[v]
      BY <1>0, <2>1 DEF sendPdu
    <3> QED
      BY <1>0, <2>1, <3>1, SameLine
  <2>3. /\ queue'[u] = << >>
        /\ Sdus(u, toL1'[u]) = Cat(Sdus(u, toL1[u]), queue[u])
    BY <1>0, <2>1, SendPduMoves
  <2>4. InTransit(u)' = InTransit(u)
    BY <1>0, <2>1, <2>3, Lines, LineMoves DEF PartsType
  <2> QED
    BY <1>0, <2>2, <2>4 DEF Same
<1>5. CASE encoding(u)
  <2>1. /\ air' = [air EXCEPT ![u] = Append(@, Head(toL1[u]))]
        /\ toL1' = [toL1 EXCEPT ![u] = Tail(@)] /\ toL1[u] # << >>
        /\ macHigh' = macHigh /\ bufferData' = bufferData /\ queue' = queue
    BY <1>5 DEF encoding
  <2>2. ASSUME NEW v \in Ues \ {u} PROVE Same(v)
    <3>1. air'[v] = air[v] /\ toL1'[v] = toL1[v]
      BY <1>0, <2>1
    <3> QED
      BY <1>0, <2>1, <3>1, SameLine
  <2> DEFINE p == Head(toL1[u])
             x == Mine(u, p)
  <2>3. /\ air[u] \in Seq(AnyPdu) /\ toL1[u] \in Seq(AnyPdu) /\ p \in AnyPdu
        /\ Tail(toL1[u]) \in Seq(AnyPdu)
    <3>1. air[u] \in Seq(AnyPdu) /\ toL1[u] \in Seq(AnyPdu)
      BY OwnPdus
    <3> QED
      BY <2>1, <3>1
  <2>4. air'[u] = Append(air[u], p) /\ toL1'[u] = Tail(toL1[u])
    BY <1>0, <2>1
  <2> HIDE DEF p
  <2>5. /\ x \in Seq(Passed(u)) /\ Sdus(u, Tail(toL1[u])) \in Seq(Passed(u))
        /\ Sdus(u, air'[u]) = Cat(Sdus(u, air[u]), x)
    BY <2>3, <2>4, SdusLaws
  <2>6. Sdus(u, toL1[u]) = Cat(x, Sdus(u, toL1'[u]))
    BY <2>1, <2>3, <2>4, SdusLaws DEF p
  <2> HIDE DEF x
  <2> DEFINE t == Sdus(u, toL1'[u])
  <2>7. t \in Seq(Passed(u)) /\ Sdus(u, toL1[u]) = Cat(x, t)
    BY <2>4, <2>5, <2>6
  <2> HIDE DEF t
  <2>8. InTransit(u)' =
           Line(Sdus(u, pdus), Sdus(u, buffer[u]), Cat(Sdus(u, air[u]), x), t,
                queue[u], bufferData[u], macHigh[u])
    BY <1>0, <2>1, <2>5, Lines DEF t
  <2>9. AreSeqs(Passed(u), Sdus(u, pdus), Sdus(u, buffer[u]),
                Sdus(u, air[u]), t, queue[u], bufferData[u], macHigh[u])
    BY <1>0, <2>7 DEF PartsType, AreSeqs
  <2>10. InTransit(u)' = InTransit(u)
    BY <2>5, <2>7, <2>8, <2>9, Lines, LineMoves
  <2> QED
    BY <1>0, <2>2, <2>10 DEF Same
<1> QED
  BY <1>1, <1>2, <1>3, <1>4, <1>5 DEF Works

\* A PDU that is lost or damaged takes its packets out of the line, one that
\* is repeated or overtaken puts them behind the others on the air.
LEMMA AirMaps ==
    ASSUME Inv, Inv', NEW u \in Ues,
           LosePdu(u) \/ Damage(u) \/ RepeatPdu(u) \/ DelayPdu(u),
           UNCHANGED <<txVars, rxVars>>
    PROVE  [Fifo!Next]_Fifo!vars
<1> DEFINE h == Head(air[u])
           t == Tail(air[u])
           x == Mine(u, h)
           y == Sdus(u, t)
           c == Sdus(u, air'[u])
<1>0. /\ pdus' = pdus /\ buffer' = buffer /\ delivered' = delivered
      /\ macHigh' = macHigh /\ bufferData' = bufferData /\ queue' = queue
      /\ toL1' = toL1 /\ PartsType(u) /\ air[u] \in Seq(AnyPdu)
      /\ TypeOK /\ air[u] \in Seq(PduOf(u)) /\ PduOf(u) \subseteq AnyPdu
  BY Lines, OwnPdus DEF txVars, rxVars, Inv, HoldsOwn
<1>1. /\ air'[u] \in Seq(PduOf(u)) /\ air[u] # << >> /\ h \in PduOf(u)
      /\ t \in Seq(PduOf(u)) /\ Fault
      /\ \A v \in Ues \ {u} : air'[v] = air[v]
      /\ LosePdu(u) => air'[u] = t
      /\ Damage(u) => air'[u] = [air[u] EXCEPT ![1] = [h EXCEPT !.ok = FALSE]]
      /\ RepeatPdu(u) => air'[u] = Append(air[u], h)
      /\ DelayPdu(u) => air'[u] = Append(t, h)
  BY <1>0, OwnDamaged, AirChanges
<1>2. ASSUME NEW v \in Ues \ {u} PROVE Same(v)
  BY <1>0, <1>1, SameLine
<1>3. faults' - faults = 1
  BY <1>0, <1>1, FaultType DEF Fault
<1>4. h \in AnyPdu /\ t \in Seq(AnyPdu)
  BY <1>0, <1>1
<1>5. /\ x \in Seq(Passed(u)) /\ y \in Seq(Passed(u))
      /\ Sdus(u, air[u]) = Cat(x, y)
  BY <1>0, <1>1, <1>4, SdusLaws
<1>6. c \in {y, Cat(y, x), Cat(x, Cat(y, x))}
  <2>1. CASE LosePdu(u)
    BY <1>1, <2>1
  <2>2. CASE Damage(u)
    <3> DEFINE p == [h EXCEPT !.ok = FALSE]
    <3>1. p \in PduOf(u) /\ p.ok = FALSE
      <4> HIDE DEF h
      <4> QED
        BY <1>1, OwnDamaged
    <3>2. air'[u] = [air[u] EXCEPT ![1] = p] /\ p \in AnyPdu
      BY <1>0, <1>1, <2>2, <3>1
    <3> HIDE DEF p
    <3>3. /\ air'[u] \in Seq(AnyPdu) /\ air'[u] # << >> /\ Head(air'[u]) = p
          /\ Tail(air'[u]) = t
      <4>1. /\ air'[u] \in Seq(AnyPdu) /\ Len(air'[u]) = Len(air[u])
            /\ Len(air[u]) \in Nat \ {0} /\ air'[u][1] = p
            /\ \A i \in 2 .. Len(air[u]) : air'[u][i] = air[u][i]
        BY <1>0, <1>1, <3>2, EmptySeq
      <4>2. /\ air'[u] # << >> /\ Head(air'[u]) = p
            /\ Tail(air'[u]) \in Seq(AnyPdu)
            /\ Len(Tail(air'[u])) = Len(air[u]) - 1
            /\ \A i \in 1 .. Len(air[u]) - 1 :
                  Tail(air'[u])[i] = air'[u][i + 1]
        BY <4>1
      <4>3. /\ Len(t) = Len(air[u]) - 1
            /\ \A i \in 1 .. Len(air[u]) - 1 : t[i] = air[u][i + 1]
        BY <1>0, <1>1
      <4>4. \A i \in 1 .. Len(air[u]) - 1 : Tail(air'[u])[i] = t[i]
        BY <4>1, <4>2, <4>3
      <4> HIDE DEF t
      <4>5. Tail(air'[u]) = t
        BY <1>4, <4>2, <4>3, <4>4, SeqEqual
      <4> QED
        BY <4>1, <4>2, <4>5
    <3>4. Mine(u, p) = << >>
      BY <3>1 DEF Mine
    <3>5. c = Cat(Mine(u, p), y)
      BY <3>3, SdusLaws
    <3> HIDE DEF c, y
    <3>6. Cat(<< >>, y) = y
      BY <1>5, CatLaws
    <3> QED
      BY <3>4, <3>5, <3>6
  <2>3. CASE RepeatPdu(u)
    <3>1. c = Cat(Sdus(u, air[u]), x)
      <4>1. air'[u] = Append(air[u], h)
        BY <1>1, <2>3
      <4> HIDE DEF h
      <4> QED
        BY <1>0, <1>4, <4>1, SdusLaws
    <3> HIDE DEF c, x, y
    <3>2. Cat(Cat(x, y), x) = Cat(x, Cat(y, x))
      BY <1>5, CatLaws
    <3> QED
      BY <1>5, <3>1, <3>2
  <2>4. CASE DelayPdu(u)
    <3>1. air'[u] = Append(t, h)
      BY <1>1, <2>4
    <3> HIDE DEF h, t
    <3>2. c = Cat(y, x)
      BY <1>4, <3>1, SdusLaws
    <3> QED
      BY <3>2
  <2> QED
    BY <2>1, <2>2, <2>3, <2>4
<1>7. /\ AreSeqs(Passed(u), Sdus(u, pdus), Sdus(u, buffer[u]), c,
                 Sdus(u, toL1[u]), queue[u], bufferData[u], macHigh[u])
      /\ InTransit(u)' =
            Line(Sdus(u, pdus), Sdus(u, buffer[u]), c, Sdus(u, toL1[u]),
                 queue[u], bufferData[u], macHigh[u])
      /\ InTransit(u) =
            Line(Sdus(u, pdus), Sdus(u, buffer[u]), Cat(x, y),
                 Sdus(u, toL1[u]), queue[u], bufferData[u], macHigh[u])
  BY <1>0, <1>5, Lines
<1> HIDE DEF h, t, x, y, c
<1>8. c \in Seq(Passed(u)) /\ Cat(x, y) \in Seq(Passed(u))
  BY <1>5, <1>7, CatLaws DEF AreSeqs
<1>9. PICK g \in Seq(Passed(u)), z \in Seq(Passed(u)) :
         /\ InTransit(u) = Cat(g, Cat(Cat(x, y), z))
         /\ InTransit(u)' = Cat(g, Cat(c, z))
  BY <1>7, <1>8, LineSplits
<1>10. Fifo!Disturb(Cat(g, Cat(Cat(x, y), z)), Cat(g, Cat(c, z)),
                    delivered[u], delivered[u], 1)
  BY <1>5, <1>6, AbstractDisturb
<1>11. Advances(u)
  BY <1>0, <1>3, <1>9, <1>10 DEF Advances, Fifo!Step
<1> QED
  BY <1>2, <1>11, OneAdvances DEF Inv

\* A step that leaves the line of u, with or without a fault.
LEMMA SameOrIdle ==
    ASSUME Inv, NEW u \in Ues, Same(u), faults' \in {faults, faults + 1}
    PROVE  (Same(u) /\ UNCHANGED faults) \/ Advances(u)
<1>1. CASE faults' = faults
  BY <1>1
<1>2. CASE faults' = faults + 1
  <2>1. InTransit(u) \in Seq(Passed(u))
    <3>1. PartsType(u) /\ InTransit(u) = LineOf(u)
      BY InTransitIsLine
    <3> QED
      BY <3>1, LineType DEF PartsType, LineOf
  <2>2. Fifo!Disturb(InTransit(u), InTransit(u), delivered[u], delivered[u], 1)
    BY <2>1, AbstractIdle
  <2>3. faults' - faults = 1
    BY <1>2, FaultType DEF Inv
  <2> QED
    BY <2>2, <2>3 DEF Same, Advances, Fifo!Step
<1> QED
  BY <1>1, <1>2

\* L1's thread moves a PDU from the air to L2 and leaves the line as it was,
\* unless the datagram with the PDU is dropped.
LEMMA L1Maps ==
    ASSUME Inv, Inv', NEW u \in Ues, L1Works(u), UNCHANGED txVars
    PROVE  /\ (Same(u) /\ UNCHANGED faults) \/ Advances(u)
           /\ \A v \in Ues \ {u} : Same(v)
<1>0. /\ macHigh' = macHigh /\ bufferData' = bufferData /\ queue' = queue
      /\ toL1' = toL1 /\ PartsType(u)
      /\ air \in [Ues -> Seq(Pdu)] /\ buffer \in [Ues -> Seq(Pdu)]
      /\ Len(buffer[u]) = IF l1[u] = "pdu" THEN 1 ELSE 0
      /\ air[u] \in Seq(AnyPdu) /\ buffer[u] \in Seq(PduOf(u))
      /\ buffer[u] \in Seq(AnyPdu) /\ pdus \in Seq(AnyPdu)
      /\ PduOf(u) \subseteq AnyPdu /\ faults' \in {faults, faults + 1}
  BY Lines, OwnPdus
     DEF txVars, Inv, TypeOK, AirTypeOK, RxTypeOK, HoldsOwn, L1Works, L1Start,
         L1Pdu, L1End, Arrives
<1>1. CASE L1Start(u)
  <2> DEFINE p == Head(air[u])
             x == Mine(u, p)
             c == Sdus(u, air'[u])
  <2>1. /\ air' = [air EXCEPT ![u] = Tail(@)] /\ air[u] # << >>
        /\ buffer' = [buffer EXCEPT ![u] = << p >>] /\ l1[u] = "receive"
        /\ pdus' = pdus /\ delivered' = delivered
    BY <1>1 DEF L1Start, L1At
  <2>2. ASSUME NEW v \in Ues \ {u} PROVE Same(v)
    <3>1. air'[v] = air[v] /\ buffer'[v] = buffer[v]
      BY <1>0, <2>1
    <3> QED
      BY <1>0, <2>1, <3>1, SameLine
  <2>3. buffer[u] = << >> /\ buffer'[u] = << p >> /\ air'[u] = Tail(air[u])
    BY <1>0, <2>1, EmptySeq
  <2>4. p \in AnyPdu
    BY <1>0, <2>1
  <2>5. Sdus(u, air[u]) = Cat(x, c)
    BY <1>0, <2>1, <2>3, SdusLaws
  <2> HIDE DEF p
  <2>6. Sdus(u, buffer'[u]) = x /\ Sdus(u, buffer[u]) = << >>
    BY <1>0, <2>3, <2>4, SdusLaws
  <2> HIDE DEF x
  <2>7. /\ AreSeqs(Passed(u), Sdus(u, pdus), x, c, Sdus(u, toL1[u]), queue[u],
                   bufferData[u], macHigh[u])
        /\ InTransit(u)' =
              Line(Sdus(u, pdus), x, c, Sdus(u, toL1[u]), queue[u],
                   bufferData[u], macHigh[u])
        /\ InTransit(u) =
              Line(Sdus(u, pdus), << >>, Cat(x, c), Sdus(u, toL1[u]), queue[u],
                   bufferData[u], macHigh[u])
    BY <1>0, <2>1, <2>5, <2>6, Lines
  <2> HIDE DEF c
  <2>8. InTransit(u)' = InTransit(u)
    BY <2>7, LineMoves
  <2> QED
    BY <1>0, <2>1, <2>2, <2>8, SameOrIdle DEF Same
<1>2. CASE L1Pdu(u) /\ pdus' = pdus \o buffer[u]
  <2> DEFINE p == Head(buffer[u])
             x == Sdus(u, buffer[u])
             a == Sdus(u, pdus)
  <2>1. /\ pdus' = pdus \o buffer[u] /\ l1[u] = "pdu"
        /\ buffer' = [buffer EXCEPT ![u] = << >>]
        /\ delivered' = delivered /\ air' = air
    BY <1>2 DEF L1Pdu, L1At
  <2>2. p \in PduOf(u) /\ buffer[u] = << p >> /\ p \in AnyPdu
    <3>1. Len(buffer[u]) = 1
      BY <1>0, <2>1
    <3>2. buffer[u] = << p >> /\ p \in PduOf(u)
      BY <1>0, <3>1, OneElement
    <3> QED
      BY <1>0, <3>2
  <2>3. pdus' = Append(pdus, p) /\ buffer'[u] = << >>
    <3>1. p \in AnyPdu
      BY <1>0, <2>2
    <3> HIDE DEF p
    <3>2. Append(pdus, p) = pdus \o << p >>
      BY <1>0, <3>1, AppendIsConcat
    <3> QED
      BY <1>0, <2>1, <2>2, <3>2
  <2> HIDE DEF p
  <2>4. ASSUME NEW v \in Ues \ {u} PROVE Same(v)
    <3>1. buffer'[v] = buffer[v]
      BY <1>0, <2>1
    <3>2. Sdus(v, pdus') = Sdus(v, pdus)
      <4>1. Mine(v, p) = << >>
        BY <2>2 DEF Mine, PduOf
      <4>2. /\ Sdus(v, Append(pdus, p)) = Cat(Sdus(v, pdus), << >>)
            /\ Sdus(v, pdus) \in Seq(Passed(v))
        <5>1. v \in Ues /\ p \in AnyPdu /\ pdus \in Seq(AnyPdu)
          BY <1>0, <2>2
        <5>2. Sdus(v, Append(pdus, p)) = Cat(Sdus(v, pdus), Mine(v, p))
          BY <5>1, SdusLaws
        <5> QED
          BY <4>1, <5>1, <5>2, SdusLaws
      <4> QED
        BY <2>3, <4>2, CatLaws
    <3> QED
      BY <1>0, <2>1, <3>1, <3>2, SameLine
  <2>5. Sdus(u, pdus') = Cat(a, x)
    BY <1>0, <2>2, <2>3, SdusLaws
  <2>6. Sdus(u, buffer'[u]) = << >>
    BY <1>0, <2>3, SdusLaws
  <2>7. /\ InTransit(u)' =
              Line(Cat(a, x), << >>, Sdus(u, air[u]), Sdus(u, toL1[u]),
                   queue[u], bufferData[u], macHigh[u])
        /\ InTransit(u) =
              Line(a, x, Sdus(u, air[u]), Sdus(u, toL1[u]), queue[u],
                   bufferData[u], macHigh[u])
        /\ AreSeqs(Passed(u), a, x, Sdus(u, air[u]), Sdus(u, toL1[u]), queue[u],
                   bufferData[u], macHigh[u])
    BY <1>0, <2>1, <2>5, <2>6, Lines DEF PartsType
  <2> HIDE DEF a, x
  <2>8. InTransit(u)' = InTransit(u)
    BY <2>7, LineMoves
  <2> QED
    BY <1>0, <2>1, <2>4, <2>8, SameOrIdle DEF Same
<1>3. CASE L1Pdu(u) /\ pdus' = pdus /\ faults' = faults + 1
  <2> DEFINE x == Sdus(u, buffer[u])
             y == Sdus(u, air[u])
  <2>1. /\ buffer' = [buffer EXCEPT ![u] = << >>]
        /\ delivered' = delivered /\ air' = air
    BY <1>3 DEF L1Pdu
  <2>2. ASSUME NEW v \in Ues \ {u} PROVE Same(v)
    <3>1. buffer'[v] = buffer[v]
      BY <1>0, <2>1
    <3> QED
      BY <1>0, <1>3, <2>1, <3>1, SameLine
  <2>3. Sdus(u, buffer'[u]) = << >>
    <3>1. buffer'[u] = << >>
      BY <1>0, <2>1
    <3> QED
      BY <1>0, <3>1, SdusLaws
  <2>4. /\ InTransit(u)' =
              Line(Sdus(u, pdus), << >>, y, Sdus(u, toL1[u]), queue[u],
                   bufferData[u], macHigh[u])
        /\ InTransit(u) =
              Line(Sdus(u, pdus), x, y, Sdus(u, toL1[u]), queue[u],
                   bufferData[u], macHigh[u])
        /\ AreSeqs(Passed(u), Sdus(u, pdus), x, y, Sdus(u, toL1[u]), queue[u],
                   bufferData[u], macHigh[u])
    BY <1>0, <1>3, <2>1, <2>3, Lines DEF PartsType
  <2> HIDE DEF x, y
  <2>5. /\ x \in Seq(Passed(u)) /\ y \in Seq(Passed(u))
        /\ Cat(x, y) \in Seq(Passed(u)) /\ << >> \in Seq(Passed(u))
    BY <2>4, CatLaws DEF AreSeqs
  <2>6. InTransit(u) = Line(Sdus(u, pdus), << >>, Cat(x, y), Sdus(u, toL1[u]),
                            queue[u], bufferData[u], macHigh[u])
    BY <2>4, LineMoves
  <2>7. AreSeqs(Passed(u), Sdus(u, pdus), << >>, y, Sdus(u, toL1[u]), queue[u],
                bufferData[u], macHigh[u])
    BY <2>4, <2>5 DEF AreSeqs
  <2>8. PICK g \in Seq(Passed(u)), z \in Seq(Passed(u)) :
           /\ InTransit(u) = Cat(g, Cat(Cat(x, y), z))
           /\ InTransit(u)' = Cat(g, Cat(y, z))
    BY <2>4, <2>5, <2>6, <2>7, LineSplits
  <2>9. Fifo!Disturb(Cat(g, Cat(Cat(x, y), z)), Cat(g, Cat(y, z)),
                     delivered[u], delivered[u], 1)
    BY <2>5, AbstractDisturb
  <2>10. faults' - faults = 1
    BY <1>3, FaultType DEF Inv
  <2>11. Advances(u)
    BY <2>1, <2>8, <2>9, <2>10 DEF Advances, Fifo!Step
  <2> QED
    BY <2>2, <2>11
<1>4. CASE L1End(u)
  <2>1. Same(u) /\ \A v \in Ues \ {u} : Same(v)
    BY <1>0, <1>4, SameLine DEF L1End
  <2> QED
    BY <1>0, <2>1, SameOrIdle
<1> QED
  BY <1>1, <1>2, <1>3, <1>4 DEF L1Works, L1Pdu, Arrives

\* decoding delivers the packets of the oldest PDU, or drops them if the PDU
\* was damaged.
LEMMA DecodingMaps ==
    ASSUME Inv, Inv', decoding, UNCHANGED txVars
    PROVE  [Fifo!Next]_Fifo!vars
<1> DEFINE p == Head(pdus)
<1>0. /\ macHigh' = macHigh /\ bufferData' = bufferData /\ queue' = queue
      /\ toL1' = toL1 /\ air' = air /\ buffer' = buffer
      /\ delivered \in [Ues -> Seq(Packet)]
      /\ pdus # << >> /\ pdus' = Tail(pdus) /\ pdus \in Seq(AnyPdu)
      /\ delivered' = [delivered EXCEPT ![p.source] =
                         IF p.ok THEN @ \o p.sdus ELSE @]
      /\ faults' = faults
  BY DEF txVars, airVars, Inv, Contents, TypeOK, RxTypeOK, decoding
<1>1. p \in AnyPdu
  BY <1>0
<1>2. ASSUME NEW v \in Ues
      PROVE  Sdus(v, pdus) = Cat(Mine(v, p), Sdus(v, pdus'))
  BY <1>0, SdusLaws
<1> HIDE DEF p
<1>3. PICK u \in Ues : p \in PduOf(u)
  BY <1>1 DEF AnyPdu
<1>4. p.source = u /\ p.sdus \in Seq(Passed(u))
  BY <1>3 DEF PduOf
<1>5. ASSUME NEW v \in Ues \ {u} PROVE Same(v)
  <2>1. Mine(v, p) = << >> /\ delivered'[v] = delivered[v]
    BY <1>0, <1>4 DEF Mine
  <2>2. Sdus(v, pdus') \in Seq(Passed(v))
    <3>1. pdus' \in Seq(AnyPdu)
      BY <1>0
    <3> QED
      BY <3>1, SdusLaws
  <2>3. Sdus(v, pdus) = Sdus(v, pdus')
    BY <1>2, <2>1, <2>2, CatLaws
  <2> QED
    BY <1>0, <2>1, <2>3, SameLine
<1> DEFINE x == Mine(u, p)
           a == Sdus(u, pdus')
<1>6. Sdus(u, pdus) = Cat(x, a)
  BY <1>2
<1>7. /\ AreSeqs(Passed(u), a, Sdus(u, buffer[u]), Sdus(u, air[u]),
                 Sdus(u, toL1[u]), queue[u], bufferData[u], macHigh[u])
      /\ InTransit(u)' =
            Line(a, Sdus(u, buffer[u]), Sdus(u, air[u]), Sdus(u, toL1[u]),
                 queue[u], bufferData[u], macHigh[u])
      /\ InTransit(u) =
            Line(Cat(x, a), Sdus(u, buffer[u]), Sdus(u, air[u]),
                 Sdus(u, toL1[u]), queue[u], bufferData[u], macHigh[u])
      /\ delivered[u] \in Seq(Passed(u))
  BY <1>0, <1>6, Lines DEF PartsType
<1>8. x \in Seq(Passed(u)) /\ Cat(delivered[u], << >>) = delivered[u]
  BY <1>4, <1>7, CatLaws DEF Mine
<1>9. delivered'[u] = Cat(delivered[u], x)
  BY <1>0, <1>4, <1>8 DEF Cat, Mine
<1> HIDE DEF a, x
<1>10. /\ InTransit(u)' \in Seq(Passed(u))
       /\ InTransit(u) = Cat(x, InTransit(u)')
  BY <1>7, <1>8, LineType, LineSplits
<1>11. CASE x = << >>
  <2>1. Cat(<< >>, InTransit(u)') = InTransit(u)'
    BY <1>10, CatLaws
  <2>2. Same(u)
    BY <1>8, <1>9, <1>10, <1>11, <2>1 DEF Same
  <2> QED
    BY <1>0, <1>5, <2>2, OneAdvances DEF Inv
<1>12. CASE x # << >>
  <2>1. Fifo!Deliver(Cat(x, InTransit(u)'), InTransit(u)', delivered[u],
                     Cat(delivered[u], x), 0)
    BY <1>7, <1>8, <1>10, <1>12, AbstractDeliver
  <2>2. faults' - faults = 0
    BY <1>0, FaultType DEF Inv
  <2>3. Advances(u)
    BY <1>9, <1>10, <2>1, <2>2 DEF Advances, Fifo!Step
  <2> QED
    BY <1>5, <2>3, OneAdvances DEF Inv
<1> QED
  BY <1>11, <1>12

\* Every step of the data path is a step of the lossy FIFO, or none of it.
LEMMA StepMaps == Inv /\ Inv' /\ [Next]_vars => [Fifo!Next]_Fifo!vars
<1> SUFFICES ASSUME Inv, Inv', [Next]_vars PROVE [Fifo!Next]_Fifo!vars
  OBVIOUS
<1>1. ASSUME NEW u \in Ues, NEW kind \in Kinds[u], reading(u, kind),
             UNCHANGED <<faults, rxVars>>
      PROVE  [Fifo!Next]_Fifo!vars
  BY <1>1, ReadingMaps
<1>2. ASSUME NEW u \in Ues, Works(u), UNCHANGED <<faults, rxVars>>
      PROVE  [Fifo!Next]_Fifo!vars
  BY <1>2, WorksMaps, OneAdvances DEF Inv
<1>3. CASE AirNext /\ UNCHANGED <<txVars, rxVars>>
  BY <1>3, AirMaps DEF AirNext
<1>4. ASSUME NEW u \in Ues, L1Works(u), UNCHANGED txVars
      PROVE  [Fifo!Next]_Fifo!vars
  BY <1>4, L1Maps, OneAdvances DEF Inv
<1>5. CASE decoding /\ UNCHANGED txVars
  BY <1>5, DecodingMaps
<1>6. CASE (Poll \/ Drop) /\ UNCHANGED txVars
  BY <1>6 DEF Poll, Drop, txVars, airVars, Fifo!vars, InTransit, Sending, Sdus
<1>7. CASE UNCHANGED vars
  BY <1>7 DEF vars, airVars, txVars, rxVars, Fifo!vars, InTransit, Sending, Sdus
<1> QED
  BY <1>1, <1>2, <1>3, <1>4, <1>5, <1>6, <1>7
     DEF Next, TxNext, RxNext, RxWorks

\* At the beginning nothing is under way.
LEMMA InitMaps == Init => Fifo!Init
<1> SUFFICES ASSUME Init PROVE Fifo!Init
  OBVIOUS
<1>1. ASSUME NEW u \in Ues PROVE InTransit(u) = << >>
  <2>1. << >> \in Seq(AnyPdu) /\ << >> \o << >> = << >>
    OBVIOUS
  <2>2. Sdus(u, << >>) = << >>
    BY <2>1, SdusLaws
  <2> QED
    BY <2>1, <2>2 DEF Init, AirInit, TxInit, RxInit, InTransit, Sending
<1> QED
  BY <1>1 DEF Init, AirInit, RxInit, Fifo!Init

\* The packets of each user equipment reach TUN in the order in which its TUN
\* handed them over, none damaged and none of another equipment in its place.
\* Each fault - a PDU lost, damaged, repeated or overtaken on the network, a
\* datagram lost between L1 and L2 - costs, repeats or delays one run of the
\* packets under way, and nothing else does: for any number of equipments,
\* packets and faults.
THEOREM DataPathImplements == Spec => ImplementsLossyFifo
BY InvCorrect, InitMaps, StepMaps, PTL
   DEF Spec, ImplementsLossyFifo, Fifo!Spec
=============================================================================
