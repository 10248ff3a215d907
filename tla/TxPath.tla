------------------------------- MODULE TxPath -------------------------------
(***************************************************************************)
(* The sending side of a user equipment: the thread that reads TUN into     *)
(* macHigh, the tx thread that moves packets into the transmission queue,   *)
(* the timeout thread that sends a queue which waited long enough, and its  *)
(* L1, which puts PDUs on the air.                                          *)
(*                                                                          *)
(* The sizes and the controls of a queue are in Multiplexer, the modes in   *)
(* MacModes; here IDLE_MODE lasts, and a packet fits in an empty queue, and  *)
(* may or may not fit in another. Each critical section of tunMutex or      *)
(* queueMutex is a step. What the tx thread does before it takes queueMutex *)
(* - the look at the queue, the notification - are steps of their own.      *)
(*                                                                          *)
(* The sockets from L2 to its L1 are assumed to lose nothing: SubframeTx's  *)
(* Start message and the PDU behind it are one element of toL1.             *)
(***************************************************************************)
EXTENDS Air

CONSTANT SignedChar     \* whether the type char of the build is signed

ASSUME TxAssumption == SignedChar \in BOOLEAN

VARIABLES
    taken,          \* the number of packets TUN has handed over
    macHigh,        \* MacHighQueue
    tx,             \* where the tx thread is
    bufferData,     \* the packet the tx thread holds, if any
    queue,          \* the data SDUs of the TransmissionQueue
    timer,          \* where the timeout thread is
    toL1            \* PDUs announced to L1 by SubframeTx.Start

txVars == <<taken, macHigh, tx, bufferData, queue, timer, toL1>>

TxInit ==
    /\ taken = [u \in Ues |-> 0]
    /\ macHigh = [u \in Ues |-> << >>]
    /\ tx = [u \in Ues |-> "look"]
    /\ bufferData = [u \in Ues |-> << >>]
    /\ queue = [u \in Ues |-> << >>]
    /\ timer = [u \in Ues |-> "wait"]
    /\ toL1 = [u \in Ues |-> << >>]

\* The filters of MacHighQueue::reading. A signed char equals no 255 and is
\* not above 223.
Passes(kind) ==
    /\ kind # "not ipv4"
    /\ kind \in {"broadcast", "multicast"} => SignedChar

\* MacHighQueue::reading: one packet.
reading(u, kind) ==
    /\ taken[u] < MaxPackets[u]
    /\ taken' = [taken EXCEPT ![u] = @ + 1]
    /\ LET p == [from |-> u, number |-> taken[u] + 1, kind |-> kind] IN
       macHigh' = [macHigh EXCEPT
                     ![u] = IF Passes(kind) THEN Append(@, p) ELSE @]
    /\ UNCHANGED <<tx, bufferData, queue, timer, toL1, air>>

\* Mutant: getNumberPackets is not asked.
getAnySdu(u) ==
    /\ tx[u] = "look"
    /\ LET n == IF macHigh[u] = << >> THEN 0 ELSE 1 IN
       /\ bufferData' = [bufferData EXCEPT ![u] = SubSeq(macHigh[u], 1, n)]
       /\ macHigh' = [macHigh EXCEPT ![u] = SubSeq(@, n + 1, Len(@))]
    /\ tx' = [tx EXCEPT ![u] = IF queue[u] = << >> THEN "notify" ELSE "add"]
    /\ UNCHANGED <<taken, queue, timer, toL1, air>>

\* getNumberPackets, getNextSdu, and the look whether the queue is empty, which
\* is taken without queueMutex. No other thread takes packets.
getNextSdu(u) ==
    /\ tx[u] = "look" /\ macHigh[u] # << >>
    /\ bufferData' = [bufferData EXCEPT ![u] = << Head(macHigh[u]) >>]
    /\ macHigh' = [macHigh EXCEPT ![u] = Tail(@)]
    /\ tx' = [tx EXCEPT ![u] = IF queue[u] = << >> THEN "notify" ELSE "add"]
    /\ UNCHANGED <<taken, queue, timer, toL1, air>>

\* notify_all, which is lost when the timeout thread is not in its wait_for.
Notify(u) ==
    /\ tx[u] = "notify"
    /\ tx' = [tx EXCEPT ![u] = "add"]
    /\ \E t \in {timer[u], "notified"} : timer' = [timer EXCEPT ![u] = t]
    /\ UNCHANGED <<taken, macHigh, bufferData, queue, toL1, air>>

\* sendPdu: the queue becomes a PDU, announced and handed to L1.
sendPdu(u) ==
    toL1' = [toL1 EXCEPT
               ![u] = Append(@, [source |-> u, sdus |-> queue[u], ok |-> TRUE])]

\* Mutant: a packet is put in front of those that wait.
AddInFront(u) ==
    /\ tx[u] = "add"
    /\ tx' = [tx EXCEPT ![u] = "look"]
    /\ bufferData' = [bufferData EXCEPT ![u] = << >>]
    /\ queue' = [queue EXCEPT ![u] = bufferData[u] \o @]
    /\ UNCHANGED <<taken, macHigh, timer, toL1, air>>

\* addSdu; what does not fit has the queue sent first: sendPdu.
Add(u) ==
    /\ tx[u] = "add"
    /\ tx' = [tx EXCEPT ![u] = "look"]
    /\ bufferData' = [bufferData EXCEPT ![u] = << >>]
    /\ \/ /\ queue' = [queue EXCEPT ![u] = @ \o bufferData[u]]
          /\ toL1' = toL1
       \/ /\ queue[u] # << >>
          /\ sendPdu(u)
          /\ queue' = [queue EXCEPT ![u] = bufferData[u]]
    /\ UNCHANGED <<taken, macHigh, timer, air>>

\* Mutant: a notification ends the loop.
NoTimeoutBreaks(u) ==
    /\ timer[u] = "notified"
    /\ timer' = [timer EXCEPT ![u] = "ended"]
    /\ UNCHANGED <<taken, macHigh, tx, bufferData, queue, toL1, air>>

\* timeoutController: wait_for returns no_timeout, and the wait begins anew.
NoTimeout(u) ==
    /\ timer[u] = "notified"
    /\ timer' = [timer EXCEPT ![u] = "wait"]
    /\ UNCHANGED <<taken, macHigh, tx, bufferData, queue, toL1, air>>

\* wait_for returns timeout, with queueMutex: a queue that is not empty is sent.
Timeout(u) ==
    /\ timer[u] = "wait" /\ queue[u] # << >>
    /\ sendPdu(u)
    /\ queue' = [queue EXCEPT ![u] = << >>]
    /\ UNCHANGED <<taken, macHigh, tx, bufferData, timer, air>>

\* L1 receives a SubframeTx.Start, then the PDU, and sends it on.
encoding(u) ==
    /\ toL1[u] # << >>
    /\ air' = [air EXCEPT ![u] = Append(@, Head(toL1[u]))]
    /\ toL1' = [toL1 EXCEPT ![u] = Tail(@)]
    /\ UNCHANGED <<taken, macHigh, tx, bufferData, queue, timer>>

Works(u) ==
    \/ getNextSdu(u) \/ Notify(u) \/ Add(u)
    \/ NoTimeout(u) \/ Timeout(u)
    \/ encoding(u)

TxNext ==
    /\ \E u \in Ues : Works(u) \/ \E kind \in Kinds[u] : reading(u, kind)
    /\ UNCHANGED faults

\* The threads run as long as the mode lasts, and time passes.
TxFairness ==
    \A u \in Ues :
       /\ WF_txVars(getNextSdu(u) \/ Notify(u) \/ Add(u))
       /\ WF_txVars(NoTimeout(u) \/ Timeout(u))
       /\ WF_txVars(encoding(u))

\* The SDUs of the PDUs of u that are not damaged.
Sdus(u, pdus) ==
    FlattenSeq([i \in DOMAIN pdus |->
                  IF pdus[i].source = u /\ pdus[i].ok THEN pdus[i].sdus
                  ELSE << >>])

\* The packets of u on this side, the oldest first.
Sending(u) == Sdus(u, toL1[u]) \o queue[u] \o bufferData[u] \o macHigh[u]

TxTypeOK ==
    /\ taken \in [Ues -> Nat]
    /\ \A u \in Ues : taken[u] <= MaxPackets[u]
    /\ macHigh \in [Ues -> Seq(Packet)]
    /\ tx \in [Ues -> {"look", "notify", "add"}]
    /\ bufferData \in [Ues -> Seq(Packet)]
    /\ \A u \in Ues : Len(bufferData[u]) = IF tx[u] = "look" THEN 0 ELSE 1
    /\ queue \in [Ues -> Seq(Packet)]
    /\ timer \in [Ues -> {"wait", "notified"}]
    /\ toL1 \in [Ues -> Seq(Pdu)]
=============================================================================
