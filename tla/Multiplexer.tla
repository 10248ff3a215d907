---------------------------- MODULE Multiplexer ----------------------------
(***************************************************************************)
(* The multiplexer of coreL2: one TransmissionQueue per destination MAC     *)
(* address, in which SDUs are aggregated until a PDU is taken out of it.    *)
(*                                                                          *)
(* The callers of the multiplexer (ProtocolData::enqueueDataSdus,           *)
(* ProtocolControl::enqueueControlSdus and the ACK of decodeControlSdus)    *)
(* all run the same protocol under MacController::queueMutex: addSdu; on a  *)
(* refusal sendPdu of the address addSdu returned; then addSdu once more,   *)
(* whose result nobody looks at. That protocol is the variable caller; the  *)
(* mutex is what makes its three steps one critical section.                *)
(***************************************************************************)
EXTENDS Integers, SequencesExt

CONSTANTS
    FlagBS,             \* TRUE on a base station, FALSE on a user equipment
    Dests,              \* destinationMac[]: the addresses that have a queue
    OwnMac,             \* the address of this equipment
    Addresses,          \* the addresses a lookup may return; 255 is "unknown"
    MaxNumberBytes,     \* maxNumberBytes: the MTU
    MaxSdus,            \* maximumNumberSDUs: MAXSDUS
    Sdu,                \* the SDUs offered: [id, size, control, mac]
    Misread             \* the data SDUs whose lookup may return anything

BsAddress == 0          \* the base station's MAC address

\* Mutant: sendPdu takes the int that addSdu returns.
MinusTwoAsInt == 0 - 2

\* addSdu's -2 as the uint8_t parameter of sendPdu.
MinusTwo == 254

UInt8  == {n \in Nat : n < 256}
UInt16 == {n \in Nat : n < 65536}
ToUInt16(n) == n % 65536

ASSUME MultiplexerAssumption ==
    /\ FlagBS \in BOOLEAN
    /\ Dests # {} /\ Addresses \subseteq UInt8
    /\ Dests \subseteq 0 .. 15 /\ OwnMac \in 0 .. 15
    /\ ~FlagBS => Dests = {BsAddress}
    /\ MaxNumberBytes \in UInt16
    /\ MaxSdus \in UInt8 \ {0, 1}

ASSUME SduAssumption ==
    /\ \A s \in Sdu : /\ s.size \in UInt16 \ {0}
                      /\ s.control \in BOOLEAN
                      /\ s.mac \in Addresses
    /\ Misread \subseteq Sdu
    /\ \A s \in Misread : ~s.control

VARIABLES
    verbose,        \* the verbosity flag, which addSdu makes decisions on
    queue,          \* transmissionQueues[]: the SDUs being aggregated
    numberBytes,    \* numberBytes[]: uint16_t count of SDU bytes per queue
    caller,         \* where the holder of queueMutex is in its protocol
    status,         \* "running", or how the process ended
    offered,        \* history: the SDUs handed to the multiplexer
    sent,           \* history: the PDUs handed to L1, per destination
    lost            \* history: the SDUs refused twice and forgotten

vars == <<verbose, queue, numberBytes, caller, status, offered, sent, lost>>

(***************************************************************************)
(* TransmissionQueue. length is what currentBufferLength recomputes: the    *)
(* bytes of buffer that hold SDUs.                                          *)
(***************************************************************************)
EmptyQueue == [sdus |-> << >>, length |-> 0, controlOffset |-> 0]

getNumberofBytes(q) == 2 + 2 * Len(q.sdus) + q.length

\* The SDUs from position on move one place up; s takes the free place.
addSduPosition(q, s, position) ==
    [sdus          |-> [i \in 1 .. Len(q.sdus) + 1 |->
                          IF i < position THEN q.sdus[i]
                          ELSE IF i = position THEN s ELSE q.sdus[i - 1]],
     length        |-> q.length + s.size,
     controlOffset |-> IF s.control THEN q.controlOffset + 1
                                    ELSE q.controlOffset]

\* Mutant: a control SDU is put behind the data.
addSDUAtEnd(q, s) == addSduPosition(q, s, 1 + Len(q.sdus))

\* Mutant: a control SDU is put before the controls already there.
addSDUInFront(q, s) ==
    addSduPosition(q, s, 1 + IF s.control THEN 0 ELSE Len(q.sdus))

addSDU(q, s) ==
    addSduPosition(q, s, 1 + IF s.control THEN q.controlOffset
                                          ELSE Len(q.sdus))

(***************************************************************************)
(* Multiplexer::addSdu, getPdu, emptyPdu.                                   *)
(***************************************************************************)
\* Mutant: the PDU header is counted a second time.
TooManyBytesTwoHeaders(q, s) ==
    s.size + 4 + getNumberofBytes(q) > MaxNumberBytes

\* Mutant: the header of the SDU itself is forgotten.
TooManyBytesNoHeader(q, s) == s.size + getNumberofBytes(q) > MaxNumberBytes

TooManyBytes(q, s) == s.size + 2 + getNumberofBytes(q) > MaxNumberBytes

TooManySdus(q) == Len(q.sdus) + 1 = MaxSdus

Refuses(q, s) == TooManyBytes(q, s) \/ TooManySdus(q)

\* The address the caller hands to addSdu. A control SDU names it. For a data
\* SDU it is the result of Multiplexer::getMacAddress, which has no return
\* statement: a build returns what the function computed, or, for the SDUs in
\* Misread, anything.
Lookup(s) == IF s \in Misread THEN Addresses ELSE {s.mac}

\* Mutant: an address without a queue gets any queue.
FindAnyway(mac) == IF mac \in Dests THEN {mac} ELSE Dests

\* The queue addSdu selects: a UE takes queue 0, the base station's, for an
\* address without one. {} on a base station: no queue.
Find(mac) == IF mac \in Dests THEN {mac}
             ELSE IF FlagBS THEN {} ELSE {BsAddress}

\* addSdu puts s into queue d, unless TransmissionQueue::addSDU, which checks
\* the bound again, calls exit(4).
Added(s, d) ==
    /\ ~Refuses(queue[d], s)
    /\ LET fits == ~TooManyBytes(queue[d], s)
       IN  /\ queue' = IF fits THEN [queue EXCEPT ![d] = addSDU(@, s)]
                       ELSE queue
           /\ numberBytes' =
                 IF fits THEN [numberBytes EXCEPT ![d] = ToUInt16(@ + s.size)]
                 ELSE numberBytes
           /\ status' = IF fits THEN status ELSE "exit"

\* A base station without verbosity runs on with an index past the last
\* queue and dereferences it.
IndexPastEnd(mac) ==
    /\ Find(mac) = {} /\ ~verbose
    /\ status' = "undefined"

\* FALSE only for an address with a queue that holds bytes.
emptyPdu(mac) == mac \in Dests => numberBytes[mac] = 0

Pdu(d) == [dst |-> d, sdus |-> queue[d].sdus,
           size |-> getNumberofBytes(queue[d])]

\* Mutant: numberBytes is not reset.
SentNoReset(d) ==
    /\ sent' = [sent EXCEPT ![d] = Append(@, Pdu(d))]
    /\ queue' = [queue EXCEPT ![d] = EmptyQueue]
    /\ UNCHANGED numberBytes

\* Mutant: clearBuffer is not called.
SentNotCleared(d) ==
    /\ sent' = [sent EXCEPT ![d] = Append(@, Pdu(d))]
    /\ numberBytes' = [numberBytes EXCEPT ![d] = 0]
    /\ UNCHANGED queue

\* getPdu takes the PDU out of queue d and sendPdu hands it to L1.
Sent(d) ==
    /\ sent' = [sent EXCEPT ![d] = Append(@, Pdu(d))]
    /\ queue' = [queue EXCEPT ![d] = EmptyQueue]
    /\ numberBytes' = [numberBytes EXCEPT ![d] = 0]

\* The addresses CurrentParameters::getIndex knows; sendPdu calls exit(1) on
\* any other one.
KnownMac(mac) == mac = BsAddress \/ mac \in IF FlagBS THEN Dests ELSE {OwnMac}

(***************************************************************************)
(* The steps.                                                               *)
(***************************************************************************)
Idle == [stage |-> "idle"]
Caller(stage, s, mac) == [stage |-> stage, sdu |-> s, mac |-> mac]

Running == status = "running"

Init ==
    /\ verbose \in BOOLEAN
    /\ queue = [d \in Dests |-> EmptyQueue]
    /\ numberBytes = [d \in Dests |-> 0]
    /\ caller = Idle
    /\ status = "running"
    /\ offered = {} /\ lost = {}
    /\ sent = [d \in Dests |-> << >>]

\* The first addSdu of a caller.
OfferAccepted(s) ==
    /\ \E mac \in Lookup(s) : \E d \in Find(mac) : Added(s, d)
    /\ UNCHANGED caller

OfferRefused(s) ==
    /\ \E mac \in Lookup(s) :
          /\ \E d \in Find(mac) : Refuses(queue[d], s)
          /\ caller' = Caller("full", s, mac)
    /\ UNCHANGED <<queue, numberBytes, status>>

OfferNoQueue(s) ==
    /\ verbose
    /\ \E mac \in Lookup(s) : Find(mac) = {}
    /\ caller' = Caller("full", s, MinusTwo)
    /\ UNCHANGED <<queue, numberBytes, status>>

OfferUndefined(s) ==
    /\ \E mac \in Lookup(s) : IndexPastEnd(mac)
    /\ caller' = Caller("full", s, s.mac)
    /\ UNCHANGED <<queue, numberBytes>>

Offer(s) ==
    /\ Running /\ caller = Idle /\ s \notin offered
    /\ offered' = offered \cup {s}
    /\ OfferAccepted(s) \/ OfferRefused(s) \/ OfferNoQueue(s)
                        \/ OfferUndefined(s)
    /\ UNCHANGED <<verbose, sent, lost>>

\* sendPdu of the address addSdu returned. getPdu's -1 is not looked at: an
\* unknown address ends in exit(1), a known one in the length_error of
\* mac_data_.assign(bufferPdu, bufferPdu-1), which nobody catches.
SendPdu ==
    /\ Running /\ caller.stage = "full" /\ ~emptyPdu(caller.mac)
    /\ Sent(caller.mac)
    /\ caller' = [caller EXCEPT !.stage = "retry"]
    /\ UNCHANGED <<verbose, status, offered, lost>>

SendPduOfNothing ==
    /\ Running /\ caller.stage = "full" /\ emptyPdu(caller.mac)
    /\ status' = IF KnownMac(caller.mac) THEN "abort" ELSE "exit"
    /\ UNCHANGED <<verbose, queue, numberBytes, caller, offered, sent, lost>>

\* The second addSdu of a caller.
RetryAccepted ==
    /\ \E mac \in Lookup(caller.sdu) : \E d \in Find(mac) :
          Added(caller.sdu, d)
    /\ caller' = Idle
    /\ UNCHANGED lost

RetryRefused ==
    /\ \E mac \in Lookup(caller.sdu) :
          \/ \E d \in Find(mac) : Refuses(queue[d], caller.sdu)
          \/ Find(mac) = {} /\ verbose
    /\ caller' = Idle
    /\ lost' = lost \cup {caller.sdu}
    /\ UNCHANGED <<queue, numberBytes, status>>

RetryUndefined ==
    /\ \E mac \in Lookup(caller.sdu) : IndexPastEnd(mac)
    /\ UNCHANGED <<queue, numberBytes, caller, lost>>

Retry ==
    /\ Running /\ caller.stage = "retry"
    /\ RetryAccepted \/ RetryRefused \/ RetryUndefined
    /\ UNCHANGED <<verbose, offered, sent>>

\* timeoutController (in IDLE_MODE) and the manager (in RECONFIG_MODE) send
\* the PDU of a queue that is not empty.
Flush(d) ==
    /\ Running /\ caller = Idle /\ ~emptyPdu(d)
    /\ Sent(d)
    /\ UNCHANGED <<verbose, caller, status, offered, lost>>

\* No SDU is left to offer, or the process has ended.
Done ==
    /\ \/ ~Running
       \/ /\ offered = Sdu /\ caller = Idle
          /\ \A d \in Dests : emptyPdu(d)
    /\ UNCHANGED vars

Next ==
    \/ \E s \in Sdu : Offer(s)
    \/ SendPdu
    \/ SendPduOfNothing
    \/ Retry
    \/ \E d \in Dests : Flush(d)
    \/ Done

Spec == Init /\ [][Next]_vars

(***************************************************************************)
(* Properties.                                                              *)
(***************************************************************************)
QueueType == [sdus : Seq(Sdu), length : Nat, controlOffset : Nat]
PduType   == [dst : Dests, sdus : Seq(Sdu), size : Nat]

\* Every variable has its type.
TypeOK ==
    /\ verbose \in BOOLEAN
    /\ queue \in [Dests -> QueueType]
    /\ numberBytes \in [Dests -> UInt16]
    /\ caller \in {Idle} \cup [stage : {"full", "retry"}, sdu : Sdu,
                               mac : UInt8]
    /\ status \in {"running", "exit", "abort", "undefined"}
    /\ offered \subseteq Sdu /\ lost \subseteq Sdu
    /\ sent \in [Dests -> Seq(PduType)]

\* The bytes of a queue, with the header that insertMacHeader puts in front of
\* them inside the same buffer, never exceed the buffer of maxNumberBytes, nor
\* the arrays of maximumNumberSDUs sizes and flags; so no PDU exceeds the MTU.
PduFits ==
    /\ \A d \in Dests :
          queue[d].sdus # << >> =>
             /\ getNumberofBytes(queue[d]) <= MaxNumberBytes
             /\ Len(queue[d].sdus) < MaxSdus
    /\ \A d \in Dests : \A i \in 1 .. Len(sent[d]) :
             /\ sent[d][i].size <= MaxNumberBytes
             /\ Len(sent[d][i].sdus) < MaxSdus

\* controlOffset is the border between the control SDUs of a queue and its
\* data SDUs, whatever the order in which they were added.
ControlFirst ==
    \A d \in Dests :
       /\ queue[d].controlOffset <= Len(queue[d].sdus)
       /\ \A i \in 1 .. Len(queue[d].sdus) :
             queue[d].sdus[i].control <=> i <= queue[d].controlOffset

\* The uint16_t that emptyPdu and getPdu read never wraps: it is the number of
\* bytes in the queue, so that a queue with an SDU is never taken for empty
\* and left unsent, nor an empty one for full.
ByteCountExact ==
    \A d \in Dests :
       /\ numberBytes[d] = queue[d].length
       /\ emptyPdu(d) <=> queue[d].sdus = << >>

\* length is the sum that currentBufferLength computes.
SduBytes(q) == FoldLeft(LAMBDA n, s : n + s.size, 0, q.sdus)

\* Where s is: in a queue (PDU number 0) or in a PDU that was sent.
Places(s) ==
    {p \in UNION {{<<d, 0, i>> : i \in 1 .. Len(queue[d].sdus)} : d \in Dests} :
          queue[p[1]].sdus[p[3]] = s}
    \cup
    {p \in UNION {UNION {{<<d, n, i>> : i \in 1 .. Len(sent[d][n].sdus)} :
                         n \in 1 .. Len(sent[d])} : d \in Dests} :
          sent[p[1]][p[2]].sdus[p[3]] = s}

\* An SDU handed to the multiplexer is in exactly one place: a queue, a PDU
\* sent, its caller's hands, or lost. None is duplicated by the retry, none
\* disappears with clearBuffer, and length stays the sum of the sizes.
Conservation ==
    /\ \A s \in Sdu :
          Cardinality(Places(s)) =
             IF s \in offered /\ s \notin lost
                /\ (caller.stage # "idle" => caller.sdu # s) THEN 1 ELSE 0
    /\ \A d \in Dests : SduBytes(queue[d]) = queue[d].length

\* An SDU whose lookup returns its result is in the queue or in a PDU of its
\* own destination, or, on a UE, of the base station that forwards it, whatever
\* the lookups of the other SDUs return.
Routed ==
    \A s \in Sdu \ Misread : \A p \in Places(s) :
       p[1] = IF s.mac \in Dests THEN s.mac ELSE BsAddress

Oversize(s) == s.size + 4 > MaxNumberBytes

\* The second addSdu, whose result no caller looks at, loses no SDU that an
\* empty PDU can hold and whose lookup returns its result.
LostOnlyOversize == \A s \in lost : Oversize(s) \/ s \in Misread

\* The process ends in addSdu or sendPdu only with an SDU in hand that no PDU
\* can hold, or whose address has no queue - on a UE, which forwards those to
\* the base station, only if the base station's queue refused it. Never for an
\* SDU of a known destination that merely met a full queue. (Or with an SDU
\* whose lookup returned anything.)
EndsOnlyForBadSdu ==
    ~Running =>
       \/ Oversize(caller.sdu) \/ caller.sdu \in Misread
       \/ /\ caller.sdu.mac \notin Dests
          /\ ~FlagBS => Refuses(queue[BsAddress], caller.sdu)

\* Multiplexer.h:70 and :80, ProtocolData.cpp:91: a refusal returns the address
\* of the queue whose PDU must be sent.
RefusalNamesQueue == caller.stage = "full" => caller.mac \in Dests

(***************************************************************************)
(* What the multiplexer promises: see SduTransport. The controls of a queue *)
(* and the data behind them are its two FIFO channels.                      *)
(***************************************************************************)
ControlsOf(q) == SubSeq(q.sdus, 1, q.controlOffset)
DataOf(q)     == SubSeq(q.sdus, q.controlOffset + 1, Len(q.sdus))
SdusOf(pdus)  == [i \in 1 .. Len(pdus) |-> pdus[i].sdus]

Transport == INSTANCE SduTransport WITH
    control   <- [d \in Dests |-> ControlsOf(queue[d])],
    data      <- [d \in Dests |-> DataOf(queue[d])],
    delivered <- [d \in Dests |-> SdusOf(sent[d])]

\* Every step of the multiplexer is a step of two FIFO channels per
\* destination that are emptied together, controls first.
ImplementsTransport == Transport!Spec
=============================================================================
