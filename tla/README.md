# A verification development for coreL2

coreL2 is the MAC layer of the 5G-RANGE prototype: a program that takes IP
packets from a TUN device, aggregates them with control SDUs into PDUs, hands
the PDUs to a physical layer (L1) over UDP sockets, and does the reverse on
reception. One binary is a base station (BS) or a user equipment (UE),
according to a parameter file. This directory holds TLA+ modules translated
from `src/src`, TLC instances that check them, and TLAPS proofs about them.
Paths below are relative to `src/src`.

## 1. The system

### Components

| Component | State | Operations | Talks to |
|---|---|---|---|
| `MacController` | five plain mode variables, the objects of the MAC, `queueMutex`, one condition variable per attached equipment | `manager` (the mode machine), `startThreads`, `sendPdu`, `decoding`, `timeoutController`, `rxMetricsReport`, `managerDynamicParameters` | everything |
| `Multiplexer`, `TransmissionQueue` | per destination a buffer, the sizes and flags of its SDUs, `controlOffset`, a 16-bit count of bytes | `addSdu`, `getPdu`, `emptyPdu`, `setTransmissionQueue`, `getSDU` | called by the tx, rx, timeout and manager threads |
| `ProtocolData` | - | `enqueueDataSdus` (the tx thread), `decodeDataSdus` | `MacHighQueue`, `Multiplexer`, `sendPdu` |
| `MacHighQueue` | the packets read from the TUN device, a mutex | `reading` (the tun thread), `getNextSdu`, `getQueueSize` | `ReceptionProtocol` |
| `ProtocolControl` | the MAC control header of a message | `receiveInterlayerMessages` (the rx thread), `enqueueControlSdus`, `decodeControlSdus` | `L1L2Interface`, `decoding`, `Multiplexer` |
| `CLIL2Interface` | three command flags and the parameters the CLI may set | setters and getters of the flags | the CLI thread sets, the manager clears |
| `SystemParameters` (`CurrentParameters`, `DynamicParameters`) | the parameters in force with their file `Current.txt`, and those of the CLI or of a received SDU | file reading and writing, setters, serialization, take-over | manager, rx, CLI, `sendPdu` |
| `MacAddressTable` | registers of IP address, MAC address and a flag | addition, deletion, lookups | `Multiplexer::getMacAddress` |
| `ProtocolPackage`, `MacCtHeader` | one PDU or message | header insertion and removal | `sendPdu`, `decoding` |
| `L1L2Interface` | four sockets | send and receive PDUs and control messages, CRC | L1 |
| `ReceptionProtocol`, `TransmissionProtocol`, `TunInterface` | a file descriptor | read and write | the kernel, L1 |
| `Cosora`, `LinkAdaptation`, `AdaptiveModulationCoding` | - | pure computations on reception metrics | `rxMetricsReport` |
| `lib5grange`, `libMac5gRange` | structures shared with L1 | serialization, resource-block arithmetic | `setMacPduStaticInformation`, `sendPdu`, L1 |
| `coreL1/StubPHYLayer` | sockets | a stub of L1: encoding, one decoding thread per equipment | the sockets of L2, the other L1s over UDP |

### How they interact

The manager is a loop over `switch(currentMacMode)`. `STANDBY_MODE` waits for
MacStart; `CONFIG_MODE` creates all objects with `new`; `START_MODE` starts the
threads (tx, rx, tun, and one `timeoutController` per attached equipment) and
detaches them; `IDLE_MODE` is the working mode; `RECONFIG_MODE` and
`STOP_MODE` poll the variables in which tx, rx and tun announce that they have
disabled themselves, and then reconfigure, or destroy the objects. The mode
variables are neither atomic nor protected. The queues of the multiplexer are
protected by `queueMutex`, except that the manager flushes them in
`RECONFIG_MODE` on the strength of the handshake alone. On a UE, rx itself
changes the mode to `RECONFIG_MODE` when the BS has sent new parameters.

Whoever has an SDU runs the same protocol under `queueMutex`: `addSdu`; if it
returns an address rather than -1, `sendPdu` of that address; `addSdu` again,
without a look at the result.

PDUs leave through L1: L2 sends a SubframeTx.Start message on one socket and
the PDU on another, L1 sends the PDU's data as a UDP datagram to a port of the
receiving L1, whose thread for that port sends Start, PDU and End to its L2.
There rx takes a control message, waits for a PDU if it was a Start, and takes
one more control message without looking at it.

The parameters of a UE are set at the CLI of the BS, taken over there in
`RECONFIG_MODE`, sent to the UE as a control SDU, and taken over there in a
`RECONFIG_MODE` of its own. Each side writes `Current.txt`, which a later start
reads.

### What is hard in it

 - **Interleavings.** The handshake is test-then-announce on one side and
   poll-then-work on the other; the timeout threads are not part of it; threads
   of a stopped MAC meet the objects of the next one; the tx thread looks at a
   queue and notifies before it takes the mutex; the decoding threads of L1
   interleave their messages on the two sockets of L2.
 - **Ordering.** The rx thread of a UE writes the mode over whatever the
   manager or the handshake made of it; commands stay pending across modes; a
   Start message and its PDU travel on different sockets.
 - **Failure.** Datagrams are lost, damaged, repeated or reordered between the
   L1s, and lost between L1 and L2; a process ends in the middle of writing its
   parameter file, or forgets what it received; a UE is off when its parameters
   are sent.
 - **Liveness.** A reconfiguration and a stop wait for threads; one
   command is looked for before another; rx waits in a `recv` that blocks; a
   single packet waits for a timeout that a notification may start anew.
 - **Boundaries.** MTU, MAXSDUS, 16-bit counters, a control SDU inserted in the
   middle of a buffer, error codes that become addresses, fields that share a
   byte, counts that follow from sizes.
 - **Partial failure.** Results that nobody looks at.

`PROJECT.json` lists every hazard at its line, with the properties that cover
it, or why none does.

### What makes each component correct

 - Multiplexer: no buffer and no PDU exceeds its limit; the count of bytes is
   exact, so that no queue is forgotten; controls before data, each in order;
   every SDU in exactly one place, under its own destination; nothing lost
   that a PDU can hold; the process ends only for input that cannot be sent or
   whose address was never looked up properly.
 - Modes and threads: one thread in a critical section; whoever works on the
   queues has announced it; no thread dies and no object is destroyed under a
   working system; reconfiguration and stop complete, and commands are taken.
 - Data path: the packets of a UE arrive in order and once, but for those a
   fault of the network concerns; what is queued is sent though nothing follows
   it; rx returns from every reception unless its PDU was lost.
 - Parameters: both ends agree once the SDU has arrived; the parameters received
   survive stops (not crashes: a process that boots writes `Default.txt`'s into
   `Current.txt`); CONFIG_MODE never reads a half-written file.
 - Bytes: decoding inverts encoding, for headers, PDUs, messages and metrics;
   the CRC rejects what was damaged; the address table answers after a deletion
   what it answered before.

## 2. The modules

| Module | What it is |
|---|---|
| `SduTransport` | abstract: two FIFO channels per destination, emptied together |
| `Multiplexer` | the queues and the protocol of their callers; its properties; the refinement mapping to `SduTransport` |
| `Multiplexer_proofs`, `Multiplexer_refinement` | inductive invariants and theorems; the refinement |
| `AddressTable` | the registers of `MacAddressTable` as operators |
| `MCMultiplexer` | instances for TLC of `Multiplexer` |
| `MacModes` | the mode machine, the threads, the handshake, `queueMutex`; its properties |
| `MacModes_proofs` | inductive invariants and theorems |
| `MCMacModes` | instances for TLC |
| `LossyFifo` | abstract: per sender a FIFO channel, which a bounded number of faults disturb |
| `Air` | the datagrams between the L1s, lost, damaged, repeated or overtaken |
| `TxPath` | TUN, `MacHighQueue`, the tx thread, the timeout thread, L1's encoding |
| `RxPath` | L1's decoding threads, the two sockets, the rx thread, `decoding` |
| `DataPath` | `TxPath` of each UE, `Air` and `RxPath` of the BS; the mapping to `LossyFifo` |
| `DataPath_proofs` | the inductive invariant, theorems and the refinement |
| `MacHeader` | bytes of the MAC header, multiplexed SDUs and their decoding |
| `Crc` | the CRC and its check |
| `MacPdu` | lib5grange's `MacPDU`: static information, fields, serialization |
| `L1L2Interface` | `sendPdu`, L1 and `receivePdu` on bytes |
| `MCDataPath` | instances for TLC of the data path, the bytes and the address table |
| `Crc_proofs` | what the check of the CRC detects, for PDUs of every length |
| `Operators_proofs` | what the operators on bytes and on the address table compute, for every input |
| `Messages` | the serialized structures: parameters, metrics, Start messages; the functions of `Cosora`, `LinkAdaptation` and `AdaptiveModulationCoding` |
| `Parameters` | the parameters of a BS and its UEs, their files, take-overs and messages, under crashes, stops and losses |
| `Parameters_proofs` | deserialization inverts serialization; the inductive invariant and theorems |
| `MCParameters` | instances for TLC |
| `Lists` | lemmas on sequences, concatenations and folds, for the proofs above |

### Multiplexer

`queue[d]` is a `TransmissionQueue`: `sdus` stands for the buffer with its
arrays of sizes and flags, `length` for what `currentBufferLength` adds up,
`controlOffset` for itself. Contents of SDUs are left out: an SDU is a record
of identity, size, kind and destination. `numberBytes` is the 16-bit counter
that `emptyPdu` and `getPdu` read *instead of* the queue, and its addition is
taken modulo 2^16. `caller` is where the holder of `queueMutex` stands in its
protocol.

| Action | Code |
|---|---|
| `Offer` | the first `addSdu`: accepted, refused (returns an address), no queue (-2, or an index past the end without verbosity) |
| `SendPdu`, `SendPduOfNothing` | `sendPdu` of the address returned; for an empty or unknown queue `getPdu`'s -1 is used as a length, or `getIndex` calls `exit(1)` |
| `Retry` | the second `addSdu` |
| `Flush` | `timeoutController`'s and the manager's `sendPdu` of a queue that is not empty |

`Multiplexer::getMacAddress` has no return statement. A build returns what
the function computed or anything else; `Misread` is the set of the data SDUs
for which it may be anything, so that both sorts of lookups mix in one run.
`verbose` is a variable that never changes: `addSdu` returns -2 for an address
without a queue only with verbosity, and otherwise dereferences a pointer past
the last queue, which makes `status` "undefined", after which nothing is claimed.
`offered`, `sent` and `lost` are history variables.

The critical section is split into three steps, but no other caller may come
between: this relies on the mutual exclusion that `MacModes` proves
(`MutexHeld`). The manager's flush in `RECONFIG_MODE` takes no lock. In the
model it comes between two critical sections; the run `modes_reconfig` shows
an execution in which the program does not respect this.

### MacModes

Every read and every write of a mode variable is a step of its own. The
manager's place is `manager`: "switch", or the case it is in, with a step for
each variable it polls. A thread's place is `pc[t]`; a thread is a pair of its
kind and its incarnation, the number of the MacStart that created it. `objects`
is the incarnation whose objects exist, `using[t]` the one a thread holds
pointers to; a thread that uses objects that are gone ends the model in the
status "undefined". The destructor looks at the mode again: had rx of a UE
written another one since the poll, it would also delete the parameters and
the CLI's object, which the manager goes on to use; `Destroy` ends there too.
No property counts such an end as a success: on a base station a thread can
meet destroyed objects (`modes_stop`), so the liveness properties speak of the
first start, of what happens before, and end at the destructor.

| Kind | Code | Places |
|---|---|---|
| tx | `ProtocolData::enqueueDataSdus` | test, check, activate or disable, work, lock, locked, exit |
| rx | `ProtocolControl::receiveInterlayerMessages` | the same |
| tun | `MacHighQueue::reading` | enable, test, work, exit |
| `Timeouts` | `MacController::timeoutController` | test, lock, wait, woken, locked |

Abstractions: one critical section of the manager stands for those of
all UEs in `RECONFIG_MODE`; what a thread does with a PDU is one step; a
wake-up of `wait_for` by timeout and one by notification differ only in whether
`Expire` follows. The mode variables are taken to be read and written one at a
time, in program order. They are plain variables, so a compiler may do
otherwise, up to reading one once for a whole loop; such a build is outside the
model. Their initial values are anything in `Indeterminate`: no constructor
sets them.

### AddressTable

A table is the sequence of its registers. `Multiplexer` does not call it: its
`Lookup` takes what the table answers as an input, because the method between
them does not return it.

### The data path

`TxPath` and `RxPath` split the threads at their critical sections and at
their calls of the sockets; a step that the code takes without a lock is a step
of its own, so `getNextSdu` (with the look at the queue), `Notify` and `Add` of
the tx thread interleave with the timeout thread. `timer` is "notified" once a
`notify_all` found it in its `wait_for`; `Notify` chooses whether it did.
A packet fits in an empty queue; whether it fits in one that is not empty is left
open, since sizes and controls are in `Multiplexer`. The modes are in `MacModes`:
here `IDLE_MODE` lasts.

| Action | Code |
|---|---|
| `reading` | `MacHighQueue::reading` for one packet, with the filters |
| `getNextSdu`, `Notify`, `Add` | `ProtocolData::enqueueDataSdus` |
| `NoTimeout`, `Timeout` | `MacController::timeoutController` |
| `encoding` | `CoreL1::encoding` |
| `LosePdu`, `Damage`, `RepeatPdu`, `DelayPdu` | the network: UDP between the L1s |
| `L1Start`, `L1Pdu`, `L1End` | `CoreL1::decoding`, one thread for each UE |
| `Poll`, `decoding`, `Drop` | `ProtocolControl::receiveInterlayerMessages` and `MacController::decoding` |

L1 sends its three datagrams to L2 with `sendto`, whose result it does not look
at: each of them may be dropped, which `Arrives` decides, and `dropped` counts
the PDUs. The two sockets from L2 to L1 are assumed to lose nothing.

`DataPath` composes them and maps the packets under way, from the sockets back
to `macHigh`, to the channel of `LossyFifo`, and each fault to one of its
disturbances: a run of packets that is lost, repeated at a later place, or moved
there. The composition is in one direction, from UEs to the BS; the code is the
same in the other.

The filters compare a `char` with 255 and with 224 to 239. Where `char` is
signed, as on x86, neither comparison ever holds, and broadcast and
multicast packets pass: `SignedChar` selects between the two builds, and the runs
take the first. Nothing else depends on what passes, and the theorems hold for
both.

### The bytes

`MacHeader`, `Crc`, `MacPdu` and `L1L2Interface` are operators on sequences of
bytes. In `Crc` a byte is the set of the positions of its ones. In `MacPdu`
a value of width w is w cells, because the methods copy memory: what reads them
at another place gets no value. `PduToSend` is `setMacPduStaticInformation`
with `sendPdu`'s control data. The integer division 3/4 passes a code rate of 0
to `get_num_required_rb`, whose quotient by zero is undefined: the number of
coded bits is a parameter of `PduToSend`.

### Parameters

Each equipment has `current` and `dynamic`, records of the vectors `res`
(reservations), `radio` (MIMO, power, uplink MCS) and the periodicity `per`, and
`file`, which is `Torn` between its truncation and its last line. `link[u]` are
the control SDUs on their way to UE u, as the bytes of `Messages`. `mode` has
a place for each step at which a crash or another thread may come between.
`heard` and `received` record what a UE received last, and whether it did so
since it booted; `synced` and `changed` what happened since to either end.

| Action | Code |
|---|---|
| `Boot`, `Booted` | `MacController`'s constructor: Default.txt, Current.txt, `fillDynamicVariables` |
| `Start` | `CONFIG_MODE` reads Current.txt and fills the dynamic parameters again |
| `setUlReservation`, `setRadio`, `setRxMetricPeriodicity` | the setters for a CLI, in any mode |
| `setMcsUplink` | rx of the BS, from the metrics of a Start message |
| `Request`, `TakeOver`, `Recorded`, `SendTo` | a configuration request and `RECONFIG_MODE` |
| `Deliver` | `decoding`, `managerDynamicParameters` |
| `Stop`, `Crash` | MacStop; the process ends |
| `Lose`, `Repeat`, `Overtake` | the network: an SDU is lost, repeated, or overtaken by the next |

`fill` and `deserialized` append on a UE, as the code does: its vectors grow at
each start and each reconfiguration, and index 0 keeps the oldest entry. Only
`ulReservation` is resized, so the reservation is the new one and the MIMO
settings and the power are not: `params_mimo`.

The repository's own CLI, a stub, calls none of the setters, and rx calls only
`setMcsUplink`: that a CLI calls the others at any time is an assumption about
the CLI they were written for, and more than today's program does. The
count of PDUs after which a UE reports its metrics is left out: only the report
depends on it.

## 3. What TLC checks

### Runs that pass

| Run | Question | Bounds |
|---|---|---|
| `mux_bs` | all properties of the multiplexer on a BS, with the refinement, with and without verbosity | 2 queues, 8 SDUs of which one may have any lookup, MTU 16, MAXSDUS 4 |
| `modes_bs` | safety of a BS across a stop and a second start, from any initial values | 3 threads per start, 2 starts, 3 commands |
| `modes_ue` | announcement and mutex where rx writes the mode | 4 threads, 1 start, any number of commands |
| `modes_live` | on a BS, does reconfiguration complete, does a stop get to its destructor, and is a stop taken once configuration requests end | 3 threads, 1 start, any number of commands |
| `params_main` | do the two ends agree, and do the files keep what was received | 2 UEs, 1 change, 2 reconfigurations, 1 fault; Start messages of up to 3 reservations |
| `data_main` | is the data path a FIFO that forgets nothing, with each fault disturbing it once; do the bytes arrive; the address table | 2 UEs with 2 and 1 packets, 1 fault; PDUs of up to 3 SDUs, all errors of 1 and 2 bits; tables of up to 3 registers |

Why the bounds are enough. The multiplexer's decisions depend on the bytes and
the number of SDUs left in one queue: the SDUs include ones that share a PDU,
fill it exactly (12 bytes of 16), exceed it alone (13), exceed the bytes or the
count left, precede data as controls, go to a second queue, to none, or to any;
with every order of offers and flushes. The real MTU (at most 1500) and MAXSDUS (20)
are covered by the theorems. In `MacModes` every thread kind occurs once: a
second timeout thread would only compete for the mutex as the first does, and
`MutexIsHeld` is proved for any number. In `modes_bs` three commands are a start,
a configuration and a stop, in any order, and two starts are what it takes for an
old thread to meet new objects; in the other runs `MaxCommands` is 0, which bounds
nothing: commands are given for ever, and a flag that is set makes room for the
next only when it was taken. `modes_bs` and `modes_live` leave the timeout thread
out (`Timeouts = {}`) and `modes_live` fixes the initial values to zeros to stay
small; the theorems about the same safety properties do not.
`starts = MaxStarts` leaves a further MacStart pending for ever, a bound of the
model, not of the program.

In `Parameters` the second reconfiguration meets vectors that the first one
made grow; the change may come before, between or after a take-over and its
messages; the fault may be a crash at any place, a stop, or the loss, repetition
or overtaking of a message. Its theorems drop all bounds. In `DataPath` two
packets of a UE are one PDU or two, with the timeout before, between or after
them; two UEs are what it takes for the threads of L1 to interleave; one fault
falls at every place, on the network or between L1 and L2. The theorems allow any
number of each. 255 and 256 bytes are the sizes around the carry into the second
byte of an SDU's header.

The runs about the modes and the multiplexer check for deadlock: the
multiplexer's `Done` and the mode machine's `Undefined` stutter on purpose, and
the manager always has a step. `DataPath` and `Parameters` stop when the packets
or the bounded actions are used up, so their runs do not.

### Fairness

Liveness is checked of `FairSpec`. In `MacModes`, weak fairness of the manager
and of each thread is the operating system's scheduling. Strong fairness of the
three ways to take `queueMutex`, and of the manager's, says that a thread which
waits for a mutex that is released again and again gets it; POSIX does not
promise it, but nothing in the loops holds the mutex across a wait, and without
it liveness rests on the scheduler alone. Strong fairness of rx's `NothingToDo`
says that a PDU has finitely many SDUs, and that the PDU which an L1 announces
arrives: `EachAnnouncedArrives` and `RxReturns` of `DataPath` show that for the
stub of L1, as long as no PDU is lost between L1 and L2. When one is lost, rx
stays in its `recv` until another PDU comes, and the liveness properties of
`MacModes` say nothing. Commands are not fair: nobody has to press a key.
`StopTaken` assumes that configuration requests end: `IDLE_MODE` looks for them
before it looks for a stop, so that a request renewed each time starves it.

In `DataPath` each thread is weakly fair: tx, timeout and L1's encoding of each
UE, L1's decoding thread of each UE, and rx. Nothing is assumed of TUN or of the
network. `QueuedIsSent` holds though a notification may be lost or start the
timeout anew.

### Runs that find a violation

Each checks one statement of a comment or a message in the code, which the code
does not keep. `PROJECT.json` has the quotations.

| Run | Statement | What happens |
|---|---|---|
| `mux_forwarded` | a refusal returns the address of the queue to send | a UE whose queue to the BS is full returns the original address, which has no queue; `sendPdu` ends the process |
| `modes_reconfig` | TX and RX are disabled during a reconfiguration | one that tested the mode before it changed announces itself and works after it was polled |
| `modes_stop` | TX, RX and tun are disabled when a stop destroys the objects | on a base station TX, which tested the mode before it changed and whose variable still reads DISABLED, announces itself and uses destroyed objects |
| `modes_ue_stop` | after a stop the system stands in STANDBY | rx of a UE writes RECONFIG over STOP after tx and tun have ended; the stop never completes |
| `params_mimo` | a UE updates its parameters with what it received | `deserialize` appends, the take-over reads index 0: the MIMO settings and the power stay the first ones |
| `data_crc` | a packet with a CRC error is dropped | only with verbosity; otherwise the error code -2 is the size that `removeMacHeader` decodes |

More facts that need no run, since the models state them outright:

 - on a BS, the -2 of `addSdu` becomes the address 254 (`MinusTwo`);
 - an SDU larger than the MTU less 4 is dropped in silence by the retry
   (`LostOnlyOversize` is exact);
 - a queue holds at most MAXSDUS - 1 SDUs (`TooManySdus`), though
   `MacController.h:33` says MAXSDUS;
 - the threads are detached, so the timeout threads outlive `STOP_MODE`, though
   `MacController.cpp:307` speaks of joining them;
 - a MacStart given while the system is up keeps its flag, and the next
   `STANDBY_MODE` starts at once;
 - where `char` is signed, no packet ever meets the filters for broadcast and
   multicast (`Passes`), though `MacHighQueue.cpp:91-102` reports such packets as
   dropped;
 - a process that boots writes `Default.txt` into `Current.txt`, so that a UE
   forgets in a crash what it received (`Boot`, `InForce`);
 - PDUs carry no number, so that one that UDP repeats is delivered twice and one
   that is overtaken late (`LossyFifo`);
 - a UE whose periodicity is lowered to or below what it has counted does not
   report again until the count wraps: the test at `MacController.cpp:471` is an
   equality;
 - rx may pair a Start message with the PDU of another UE, after an End that
   came late: the order of each UE's packets survives, its metrics do not.

Every property of a passing run has a mutant: a plausible bug, defined beside
the definition it changes, under which TLC finds the property violated.

## 4. What is proved

The theorems hold for every value of the constants that the assumptions admit:
any set of destinations among the 16 addresses, any MTU below 2^16, any MAXSDUS
from 2 to 255, any set of non-empty SDUs; any number of timeout threads, starts
and commands, any initial value of the handshake variables; any number of UEs,
any Default.txt, settings, reconfigurations and faults; any number of UEs with
any number of packets and faults of the network or the sockets; and, of the
operators, any bytes, sizes, vectors and tables. The constants' named
assumptions are the only ones made, besides those a theorem states.

### Multiplexer_proofs

`IInv` consists of the types, of `QueueOK` for each queue with its counter, and
of `PduOK` for each PDU sent. `QueueOK` is what makes the parts inductive
together: the counter is exact *because* the queue fits the MTU, so that the
16-bit addition cannot wrap; it tells empty queues from others because SDUs are
not empty; and the shift in `addSduPosition` keeps controls before data only
for a `controlOffset` that was right before. `AddSduControls` is the lemma on
that shift.

 - `TypeCorrect`, `PdusFit`, `ControlsFirst`, `ByteCountsExact`: whatever the
   lookups return.
 - `RetryLosesOnlyOversize`, `EndsOnlyForBad`: of the SDUs whose lookup returns
   its result, among others whose lookup does not. These need `CallerOK`, the
   place of the caller: `sendPdu` emptied the very queue that the second
   `addSdu` selects, and an empty queue refuses only what is oversize
   (`EmptyRefuses`; here MAXSDUS of at least 2 is used).
 - `NothingDisappears`, that is `Conservation`. A cardinality is not inductive
   and a sum over a sequence hides its terms, so the invariant is `Kept`: an SDU
   has at most one place (`Once`), it has one exactly if it was offered and is
   neither lost nor in its caller's hands, and the caller's SDU was offered and
   is not lost. The last part is why the retry cannot give a second place to an
   SDU. `PlacesCount` turns it back into the cardinality. `AddedPuts` and
   `SentMoves` say what `addSduPosition` and `clearBuffer` do to places: all the
   others move along. `AddSduBytes` is the sum, for an insertion anywhere.
 - `RoutedCorrect`: the same places, each in the queue of its address, or of the
   base station on a UE, for the same SDUs.

### Multiplexer_refinement

`Refinement`: `Spec => Transport!Spec`. A queue is split at `controlOffset` into
a control and a data channel; an accepted `addSdu` appends to one of them
(`AddControl`, `AddData`), `sendPdu` and `Flush` deliver both, all other steps
stutter. So the insertion in the middle of a buffer, the refusals and the retry
are invisible to whoever receives.

### DataPath_proofs

 - `TypeCorrect`, and `AnnouncedCorrect`: the number of Start messages under way
   never exceeds that of PDUs in the socket, of L1 threads about to put one
   there, and of PDUs that were lost on that way. It is inductive with the types.
 - `Inv` adds `Contents`: whatever a memory, a connection or a socket holds of a
   UE has passed the filters and came from that UE, and a PDU is of one UE. Of
   `delivered` alone nothing could be shown, since a packet arrives through
   seven places.
 - `DataPathImplements`: `Spec => ImplementsLossyFifo`. What is under way from a
   UE is a `Line` of seven parts, the oldest packets first. `reading` of a
   packet that passes is `Accept`; `decoding` of a PDU that is not damaged is
   `Deliver`; a fault is a `Disturb` of the run of packets that one PDU holds,
   which the line has as its middle part (`LineSplits`, `CatMiddle`,
   `AbstractDisturb`), or of none; every other step moves packets from the front
   of one part to the back of the next, which leaves the line as it is, and
   stutters (`LineMoves`). A damaged PDU holds no packets of the line from its
   damage on. The two sockets of L2 hold the PDUs of all UEs; the line of one
   contains those of its own, and taking the first of all takes the first of its
   sender (`SdusLaws`).

### Operators_proofs

What TLC evaluates on samples, for every input. Each theorem about all inputs
is followed by the property of the run as its instance.

 - `HeaderRoundTrip`, `HeaderCorrect`: the two bytes of an SDU's header give its
   flag and its size back (`FieldInverse`, for sizes below 2^15), the sizes say
   where its bytes are (`PartIs`: an SDU begins at the sum of the sizes before
   it), and an SDU of size 0 is what ends the decoding, so that non-empty SDUs
   are all decoded.
 - `DeletionKeepsEveryLookup`, `AddressTableCorrect`: the registers behind the
   deleted one move, and a search by a distinct address finds the same one.
 - `PduRoundTrip`: `deserialize` pops what `serialize` pushed, for any values of the
   fields and any lengths of the ten vectors; `PopVectorIs` has the length first
   and then as many elements. `PduArrives` puts CRC, serialization, L1 and the
   check together; `PdusCorrect` is its instance for the PDUs of the run.
 - `CrcCorrect`: the PDUs of the run with no, one or two bits flipped, from the
   theorems of `Crc_proofs`.

### Crc_proofs

TLC flips one bit or two of a few short PDUs. Here it is said which changes the
check finds in a PDU of any length. `CheckComparesDamage` is the base: since a
step of the CRC is linear (`ShiftedLinear`), the check compares the CRC of the
*changes* in the data, `d`, with the changes of the CRC, `w` (`IsDamage`); the
data itself cancels, and each theorem shows `d` and `w` to be different.

 - `CrcDetectsOdd`: any odd number of changed bits. The polynomial has an even
   number of terms with the one that is shifted out, so that the parity of a CRC
   changes with each bit that comes in (`ShiftedIsOdd`, `DamageOfOdd`).
 - `CrcDetectsBurst`: any changes within 16 bits in a row of the data, or of the
   CRC alone. A difference vanishes only when it is the lowest bit alone and the
   next bit of data is changed too (`ShiftedToNothing`); the first change sets the
   highest bit, which needs 15 steps to get there, and behind the row nothing
   changes any more (`DamageOfBurst`). The theorem stops at the border between
   data and CRC for a reason: the high byte of the CRC is sent first, though the
   low end is what the next bit meets, so that a row of 16 bits over the border
   can pass the check. `CrcDetectsByte`, any change of one byte, is a corollary.
 - `CrcDetectsTwo`: any two changed bits of a PDU of at most 4095 bytes with its
   CRC, which any MTU up to 1500 (`README.md:12`) respects. Some bound is
   necessary: beyond the order of the polynomial two bits cancel. The order is
   32767, which is 7 * 31 * 151, so that a power of the step that comes back
   earlier does so at 217, 1057 or 4681 (`Divisors`, `SameAtMultiples`). That it
   does not is calculated: `Turns` are the powers of the step, the turn of
   the double number is a linear map of the bits (`TurnBits`, `SquareTurns`), so
   that at most 15 doublings, with a step more where a binary digit is one, reach
   each of these numbers (`At217`, `At1057`, `At4681`), and `At32768` the first
   power that comes back.
   Between the two changes `d` runs through the turns (`DamageOfTwo`).

### Lists

Induction over data is not taken from the library's theorems, which need an
operator as parameter. `Induction` and `InductionUpTo` are about sets of
naturals and rest on the least element that a non-empty one has. A fold of the
community modules is a choice of a function; the lemmas here show that the
function exists and is unique (`ChainExists`, `ChainUnique`, `FoldComputes`), so
that `FlattenSeq` and the folds are the last of their partial results.

### MacModes_proofs

`IInv` is `Types`, `Locking`, `Announced` and, on a BS, `BaseStation`.

 - `MutexIsHeld` needs `Fresh`: an incarnation's threads do not exist before
   START_MODE, so that starting them does not pull a holder out of its critical
   section.
 - `AtWorkAnnounced` holds until the first MacStop, on either equipment, whatever
   the uninitialised variables held. It is what the handshake gives; that
   it is not mutual exclusion is shown by `modes_reconfig`.
 - `WorkersStayAlive` and `ObjectsAreOwn` are about a BS, across any number of
   stops and starts, old threads included. They rest on `Place`: on a BS only
   the manager writes the mode, so that within a case the mode is the case's.
   On a UE this is false, and `modes_ue_stop` shows the consequence.

### Parameters_proofs

`ParametersRoundTrip`, `MetricsRoundTrip`, `UeTxRoundTrip`, `BsTxRoundTrip`:
what is read is what was written, for all fields in their widths. They rest on
the quotients and remainders of bytes that several fields share (`Halves`,
`FlagByte`, `MimoInverse`); `BsTxRoundTrip` also on the number of
reservations, which the reader computes from the size (`UesAllocatedIs`).

`IInv` is `TypeOK` and, of each equipment, what the next operation relies on:
`BaseStation` (position u of every vector is UE u's, so that `getIndex` finds
it: `GetIndexBs`), `UserEquipment` (every reservation a UE ever pushed is its
own; what it works with is what it heard since it booted, or `Default.txt`'s, or
about to be), `Underway` (each SDU
on a link is a message for that UE, whose `deserialize` is well-typed by
`ParametersRoundTrip`) and `Synchronised`: unless something was lost or changed,
`Latest` - the last message under way or, with none, what the UE heard - says
what the base station's parameters are. `Synchronised` is what makes `Agreement`
inductive: of the states between the sending and the arrival, and of messages
that are repeated or overtake others, `Agreement` itself says nothing.

 - `TypeCorrect`, `FilesAreCurrent`, `ReservationsAddressed`, `WorksAsReceived`,
   `EndsAgree`.
 - `StartMessagesCorrect`: the Start messages of the run, as instances of
   `BsTxRoundTrip`.

### Only model-checked

Every invariant and every action property of a passing run, and both
refinements, are proved. Liveness (`ReconfigCompletes`, `StopReached`, `StopTaken`,
`QueuedIsSent`, `RxReturns`) stays with TLC: it rests on fairness, whose ENABLED
the prover does not expand.

The properties of operators are stated as implications of `Init`, so that TLC
evaluates them in the initial states only.

## 5. Not modelled

 - `TunInterface`, the creation of sockets, the format of the parameter files
   and the CLI's dialogue: system calls and text.
 - `get_num_required_rb` and its tables: its only caller passes a code rate of
   0 and the result is undefined.
 - `mcsDownlink` and the fusion lookup table, which a take-over does not read
   back, and the parameters of SubframeTx.Start in the stub of L1, which it
   reads past the 18 characters it copied and does not use.
 - `setMaxNumberBytes`, which nothing calls.
 - Two effects of C++ have no state in the models: the explicit destructor
   call also ends the life of member objects, and the address table keeps
   pointers to arrays on the manager's stack.
 - Bounds of memory: `macHigh` and, on a UE, the parameter vectors grow without
   limit.

## 6. How the parts fit, and what is left

The modules were written from the inside out: the queues, the modes that govern
the threads, the path of data around the queues, the path of parameters around
the modes, and the bytes under both. Each relies on the others through a stated
property: the critical sections of `Multiplexer` on `MutexHeld`, the fairness of
`MacModes` on `EachAnnouncedArrives` and `RxReturns`, the packets of `TxPath` on
`ImplementsTransport`, the links of `Parameters` on `ImplementsLossyFifo` for
what may happen to their messages, all PDUs on `HeaderInverts` and `PdusArrive`.

Not proved is that what the BS and its UEs run is one system: `Parameters` takes
its links from `ImplementsLossyFifo` by reference, not by composition. Neither
is the number of damaged PDUs that pass the check when more bits change than the
theorems of `Crc_proofs` speak of.
