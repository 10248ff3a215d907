----------------------------- MODULE MacModes ------------------------------
(***************************************************************************)
(* The execution modes of coreL2: MacController::manager, the threads that  *)
(* startThreads detaches, and the handshake between them, which is made of  *)
(* four plain variables (currentMacMode, currentMacTxMode,                  *)
(* currentMacRxMode, currentMacTunMode) that one thread writes and another  *)
(* polls. Each read and each write of one of them is a step.                *)
(*                                                                          *)
(* Every MacStart creates the objects of the MAC (mux, protocolData, ...)   *)
(* and a set of threads; MacStop destroys the objects. A run of the MAC     *)
(* between the two is an incarnation, numbered from 1. Nobody joins the     *)
(* threads, so those of an incarnation may meet the next one.               *)
(***************************************************************************)
EXTENDS Naturals, FiniteSets

CONSTANTS
    FlagBS,         \* TRUE on a base station, FALSE on a user equipment
    Timeouts,       \* the timeoutController threads: one per equipment;
                    \* {} in an instance that leaves them out
    Indeterminate,  \* what the uninitialised handshake variables may hold
    MaxStarts,      \* bound on the number of incarnations
    MaxCommands     \* bound on the number of commands given at the CLI;
                    \* 0 for no bound

ASSUME MacModesAssumption ==
    /\ FlagBS \in BOOLEAN
    /\ Timeouts \cap {"tx", "rx", "tun"} = {}
    /\ Indeterminate \subseteq [tx  : {"ACTIVE", "DISABLED"},
                                rx  : {"ACTIVE", "DISABLED"},
                                tun : {"ENABLED", "DISABLED"}]
    /\ MaxStarts \in Nat \ {0} /\ MaxCommands \in Nat

VARIABLES
    mode,           \* currentMacMode
    txMode,         \* currentMacTxMode
    rxMode,         \* currentMacRxMode
    tunMode,        \* currentMacTunMode
    signal,         \* the CLI commands whose flag is set
    manager,        \* where the manager is in its loop
    pc,             \* where each thread is in its loop
    objects,        \* the incarnation whose objects exist; 0: none
    using,          \* the incarnation whose objects a thread refers to
    starts,         \* the number of incarnations so far
    mutex,          \* the holder of queueMutex
    status,         \* "running", or "undefined" once dead objects are used
    commands        \* the number of commands given, if it is bounded

modes  == <<mode, txMode, rxMode, tunMode>>
others == <<objects, using, starts, mutex, status>>
cli    == <<signal, commands>>
vars   == <<modes, others, cli, manager, pc>>

Incarnations == 1 .. MaxStarts
Kinds        == {"tx", "rx", "tun"} \cup Timeouts
Threads      == Kinds \X Incarnations
Manager      == <<"manager", 0>>
Free         == <<"free", 0>>
Commands     == {"start", "stop", "config"}

Running == status = "running"

\* No constructor initialises the handshake variables: they hold anything, of
\* which only DISABLED makes a difference.
Init ==
    /\ mode = "STANDBY"
    /\ \E v \in Indeterminate :
          txMode = v.tx /\ rxMode = v.rx /\ tunMode = v.tun
    /\ signal = {} /\ commands = 0
    /\ manager = "switch"
    /\ pc = [t \in Threads |-> "none"]
    /\ objects = 0 /\ starts = 0
    /\ using = [t \in Threads |-> 0]
    /\ mutex = Free
    /\ status = "running"

(***************************************************************************)
(* stubCLI: a key sets a flag, in whatever mode the system is. A key whose  *)
(* flag is set changes nothing.                                             *)
(***************************************************************************)
Press(c) ==
    /\ Running /\ c \notin signal
    /\ MaxCommands > 0 => commands < MaxCommands
    /\ signal' = signal \cup {c}
    /\ commands' = IF MaxCommands > 0 THEN commands + 1 ELSE 0
    /\ UNCHANGED <<modes, others, manager, pc>>

(***************************************************************************)
(* MacController::manager. Its place is "switch", or the case it is in.     *)
(***************************************************************************)
At(p) == Running /\ manager = p

Go(p) == manager' = p

\* switch(currentMacMode)
Switch ==
    /\ At("switch") /\ Go(mode)
    /\ UNCHANGED <<modes, others, cli, pc>>

\* A case that finds nothing to do: the handshake is not complete, or no
\* command was given.
NoCommand ==
    /\ \/ At("STANDBY") /\ ("start" \notin signal \/ starts = MaxStarts)
       \/ /\ At("IDLE") /\ "stop" \notin signal
          /\ FlagBS => "config" \notin signal
    /\ Go("switch")
    /\ UNCHANGED <<modes, others, cli, pc>>

NotYet ==
    /\ \/ manager \in {"RECONFIG", "STOP"} /\ rxMode # "DISABLED"
       \/ manager \in {"reconfigTx", "stopTx"} /\ txMode # "DISABLED"
       \/ manager = "stopTun" /\ tunMode # "DISABLED"
    /\ Running /\ Go("switch")
    /\ UNCHANGED <<modes, others, cli, pc>>

\* The manager takes command c and changes mode.
Take(c, m) ==
    /\ c \in signal
    /\ signal' = signal \ {c}
    /\ mode' = m
    /\ Go("switch")
    /\ UNCHANGED <<txMode, rxMode, tunMode, others, commands, pc>>

Start == At("STANDBY") /\ starts < MaxStarts /\ Take("start", "CONFIG")

Reconfigure == At("IDLE") /\ FlagBS /\ Take("config", "RECONFIG")

\* Mutant: a base station does not look for a MacStop.
StopOnUe == At("IDLE") /\ ~FlagBS /\ Take("stop", "STOP")

Stop == /\ At("IDLE") /\ Take("stop", "STOP")
        /\ FlagBS => "config" \notin signal

\* Mutant: the objects are created by the first MacStart only.
ConfigureOnce ==
    /\ At("CONFIG") /\ Go("switch")
    /\ starts' = starts + 1
    /\ objects' = IF starts = 0 THEN 1 ELSE objects
    /\ mode' = "START"
    /\ UNCHANGED <<txMode, rxMode, tunMode, using, mutex, status, cli, pc>>

\* CONFIG_MODE creates the objects.
Configure ==
    /\ At("CONFIG") /\ Go("switch")
    /\ starts' = starts + 1
    /\ objects' = starts + 1
    /\ mode' = "START"
    /\ UNCHANGED <<txMode, rxMode, tunMode, using, mutex, status, cli, pc>>

First(kind) == IF kind = "tun" THEN "enable" ELSE "test"

\* Mutant: the threads are started by the first MacStart only.
StartThreadsOnce ==
    /\ At("START") /\ Go("started")
    /\ pc' = [t \in Threads |-> IF t[2] = 1 /\ starts = 1
                                 THEN First(t[1]) ELSE pc[t]]
    /\ using' = [t \in Threads |-> IF t[2] = starts THEN starts ELSE using[t]]
    /\ UNCHANGED <<modes, objects, starts, mutex, status, cli>>

\* START_MODE starts the threads and detaches them.
StartThreads ==
    /\ At("START") /\ Go("started")
    /\ pc' = [t \in Threads |-> IF t[2] = starts THEN First(t[1]) ELSE pc[t]]
    /\ using' = [t \in Threads |-> IF t[2] = starts THEN starts ELSE using[t]]
    /\ UNCHANGED <<modes, objects, starts, mutex, status, cli>>

\* The manager's last assignment of a case that ends in mode m.
Enter(p, m) ==
    /\ At(p) /\ Go("switch")
    /\ mode' = m
    /\ UNCHANGED <<txMode, rxMode, tunMode, others, cli, pc>>

EnterIdle == Enter("started", "IDLE") \/ Enter("reconfigured", "IDLE")

\* The manager reads the handshake variables one after the other.
SeesRx ==
    /\ manager \in {"RECONFIG", "STOP"} /\ Running
    /\ rxMode = "DISABLED"
    /\ Go(IF manager = "STOP" THEN "stopTx" ELSE "reconfigTx")
    /\ UNCHANGED <<modes, others, cli, pc>>

SeesTx ==
    /\ manager \in {"reconfigTx", "stopTx"} /\ Running
    /\ txMode = "DISABLED"
    /\ Go(IF manager = "stopTx" THEN "stopTun" ELSE "flush")
    /\ UNCHANGED <<modes, others, cli, pc>>

SeesTun ==
    /\ At("stopTun") /\ tunMode = "DISABLED"
    /\ Go("destroy")
    /\ UNCHANGED <<modes, others, cli, pc>>

\* RECONFIG_MODE sends the PDUs left in the queues, without queueMutex, and
\* takes over the parameters. A base station then enqueues them as control
\* SDUs for its UEs, under queueMutex.
FlushAndSet ==
    /\ At("flush")
    /\ Go(IF FlagBS THEN "enqueue" ELSE "reconfigured")
    /\ UNCHANGED <<modes, others, cli, pc>>

EnqueueLock ==
    /\ At("enqueue") /\ mutex = Free
    /\ mutex' = Manager /\ Go("enqueueing")
    /\ UNCHANGED <<modes, objects, using, starts, status, cli, pc>>

EnqueueUnlock ==
    /\ At("enqueueing")
    /\ mutex' = Free /\ Go("reconfigured")
    /\ UNCHANGED <<modes, objects, using, starts, status, cli, pc>>

\* STOP_MODE calls the destructor, which looks at the mode again: had rx
\* written another one, it would delete the parameters and the CLI's object as
\* well, and the manager goes on to use them.
Destroy ==
    /\ At("destroy") /\ Go("destroyed")
    /\ objects' = 0
    /\ status' = IF mode = "STOP" THEN status ELSE "undefined"
    /\ UNCHANGED <<modes, using, starts, mutex, cli, pc>>

EnterStandby == Enter("destroyed", "STANDBY")

ManagerStep ==
    \/ Switch \/ NoCommand \/ NotYet
    \/ Start \/ Configure \/ StartThreads \/ EnterIdle
    \/ Reconfigure \/ Stop \/ SeesRx \/ SeesTx \/ SeesTun
    \/ FlushAndSet \/ EnqueueLock \/ EnqueueUnlock
    \/ Destroy \/ EnterStandby

(***************************************************************************)
(* The threads. tx is ProtocolData::enqueueDataSdus, rx is                  *)
(* ProtocolControl::receiveInterlayerMessages, tun is MacHighQueue::reading *)
(* and a member of Timeouts is a MacController::timeoutController.          *)
(***************************************************************************)
In(t, p) == Running /\ pc[t] = p

To(t, p) == pc' = [pc EXCEPT ![t] = p]

\* Thread t does not find the objects it refers to. A timeout thread refers to
\* them through the controller, which CONFIG_MODE provides with new ones.
Touching == {"work", "lock", "locked", "wait", "woken"}

Dead(t) == IF t[1] \in Timeouts /\ pc[t] = "lock" THEN objects = 0
                                                   ELSE objects # using[t]

Alive(t, p) == In(t, p) /\ ~Dead(t)

\* while(currentMacMode!=STOP_MODE)
Test(t) ==
    /\ In(t, "test")
    /\ To(t, CASE mode = "STOP" -> IF t[1] \in Timeouts THEN "ended" ELSE "exit"
               [] mode # "STOP" -> CASE t[1] \in {"tx", "rx"} -> "check"
                                     [] t[1] = "tun"          -> "work"
                                     [] OTHER                 -> "lock")
    /\ UNCHANGED <<modes, others, cli, manager>>

\* Mutant: the thread does not announce that it is active.
CheckUnannounced(t) ==
    /\ In(t, "check")
    /\ To(t, IF mode = "IDLE" THEN "work" ELSE "disable")
    /\ UNCHANGED <<modes, others, cli, manager>>

\* if(currentMacMode==IDLE_MODE)
Check(t) ==
    /\ In(t, "check")
    /\ To(t, IF mode = "IDLE" THEN "activate" ELSE "disable")
    /\ UNCHANGED <<modes, others, cli, manager>>

\* A thread writes its own handshake variable.
Set(t, p, tx, rx, tun) ==
    /\ txMode'  = IF t[1] = "tx"  THEN tx  ELSE txMode
    /\ rxMode'  = IF t[1] = "rx"  THEN rx  ELSE rxMode
    /\ tunMode' = IF t[1] = "tun" THEN tun ELSE tunMode
    /\ To(t, p)
    /\ UNCHANGED <<mode, others, cli, manager>>

Activate(t) == In(t, "activate") /\ Set(t, "work", "ACTIVE", "ACTIVE", tunMode)

\* Mutant: the thread does not announce that it is disabled.
DisableUnannounced(t) ==
    In(t, "disable") /\ Set(t, "test", txMode, rxMode, tunMode)

Disable(t) ==
    In(t, "disable") /\ Set(t, "test", "DISABLED", "DISABLED", tunMode)

Enable(t) == In(t, "enable") /\ Set(t, "test", txMode, rxMode, "ENABLED")

\* Mutant: the thread ends and leaves its mode as it was.
ExitUnannounced(t) == In(t, "exit") /\ Set(t, "ended", txMode, rxMode, tunMode)

Exit(t) == In(t, "exit") /\ Set(t, "ended", "DISABLED", "DISABLED", "DISABLED")

\* Nothing was received, or all of what was received has been dealt with.
NothingToDo(t) ==
    /\ Alive(t, "work") /\ To(t, "test")
    /\ UNCHANGED <<modes, others, cli, manager>>

\* Mutant: rx reports its RxMetrics on a base station as well.
HasSduAnywhere(t) ==
    /\ Alive(t, "work") /\ To(t, "lock")
    /\ t[1] \in {"tx", "rx"}
    /\ UNCHANGED <<modes, others, cli, manager>>

\* tx has got a packet from macHigh; rx, on a UE, has RxMetrics to report.
HasSdu(t) ==
    /\ Alive(t, "work") /\ To(t, "lock")
    /\ t[1] \in IF FlagBS THEN {"tx"} ELSE {"tx", "rx"}
    /\ UNCHANGED <<modes, others, cli, manager>>

\* rx, on a UE, has received parameters: managerDynamicParameters writes the
\* mode, whatever it is, before the ACK is enqueued.
HasParameters(t) ==
    /\ Alive(t, "work") /\ To(t, "lock")
    /\ t[1] = "rx" /\ ~FlagBS
    /\ mode' = "RECONFIG"
    /\ UNCHANGED <<txMode, rxMode, tunMode, others, cli, manager>>

\* tun has read 0 bytes and leaves its loop.
EndOfFile(t) ==
    /\ Alive(t, "work") /\ To(t, "exit")
    /\ t[1] = "tun"
    /\ UNCHANGED <<modes, others, cli, manager>>

\* Mutant: enqueueing is done without queueMutex.
LockNothing(t) ==
    /\ Alive(t, "lock")
    /\ t[1] \notin Timeouts
    /\ To(t, "locked")
    /\ UNCHANGED <<modes, others, cli, manager>>

\* tx and rx keep queueMutex for addSdu, sendPdu, addSdu.
Lock(t) ==
    /\ Alive(t, "lock") /\ mutex = Free
    /\ t[1] \notin Timeouts
    /\ mutex' = t /\ To(t, "locked")
    /\ UNCHANGED <<modes, objects, using, starts, status, cli, manager>>

\* A timeout thread locks queueMutex and gives it back in wait_for.
LockAndWait(t) ==
    /\ Alive(t, "lock") /\ mutex = Free
    /\ t[1] \in Timeouts
    /\ using' = [using EXCEPT ![t] = objects] /\ To(t, "wait")
    /\ UNCHANGED <<modes, objects, starts, mutex, status, cli, manager>>

\* wait_for returns, by a timeout or a notification, with queueMutex.
Wake(t) ==
    /\ Alive(t, "wait") /\ mutex = Free
    /\ mutex' = t /\ To(t, "woken")
    /\ UNCHANGED <<modes, objects, using, starts, status, cli, manager>>

\* It was a timeout, the PDU is not empty and the mode is IDLE: sendPdu.
Expire(t) ==
    /\ Alive(t, "woken") /\ mode = "IDLE"
    /\ To(t, "locked")
    /\ UNCHANGED <<modes, others, cli, manager>>

Unlock(t) ==
    /\ Alive(t, "locked") \/ Alive(t, "woken")
    /\ mutex' = Free
    /\ To(t, IF t[1] = "rx" THEN "work" ELSE "test")
    /\ UNCHANGED <<modes, objects, using, starts, status, cli, manager>>

\* A thread uses objects that the destructor has deleted.
UseDead(t) ==
    /\ Running /\ pc[t] \in Touching /\ Dead(t)
    /\ status' = "undefined"
    /\ UNCHANGED <<modes, objects, using, starts, mutex, cli, manager, pc>>

ThreadStep(t) ==
    \/ Test(t) \/ Check(t)
    \/ Activate(t) \/ Disable(t) \/ Enable(t) \/ Exit(t)
    \/ NothingToDo(t) \/ HasSdu(t) \/ HasParameters(t) \/ EndOfFile(t)
    \/ Lock(t) \/ LockAndWait(t) \/ Wake(t) \/ Expire(t) \/ Unlock(t)
    \/ UseDead(t)

Undefined == ~Running /\ UNCHANGED vars

Next ==
    \/ ManagerStep
    \/ \E t \in Threads : ThreadStep(t)
    \/ \E c \in Commands : Press(c)
    \/ Undefined

Spec == Init /\ [][Next]_vars

\* Every thread is scheduled again and again; one that waits for queueMutex,
\* which its holders always release, gets it in the end; and rx comes to the
\* end of the SDUs of a PDU. (So an L1 that announces a PDU is assumed to send
\* it: rx waits for it in a recv that blocks.)
Fairness ==
    /\ WF_vars(ManagerStep) /\ SF_vars(EnqueueLock)
    /\ \A t \in Threads :
          /\ WF_vars(ThreadStep(t))
          /\ SF_vars(Lock(t) \/ LockAndWait(t) \/ Wake(t))
    /\ \A k \in Incarnations : SF_vars(NothingToDo(<<"rx", k>>))

FairSpec == Spec /\ Fairness

(***************************************************************************)
(* Properties.                                                              *)
(***************************************************************************)
ModeType == {"STANDBY", "CONFIG", "START", "IDLE", "RECONFIG", "STOP"}

Reconfiguring == {"flush", "enqueue", "enqueueing", "reconfigured"}

AllPlaces == {"none", "enable", "test", "check", "activate", "disable", "work",
              "lock", "locked", "wait", "woken", "exit", "ended"}

\* The loop of each thread. rx locks queueMutex only on a UE, whose metrics and
\* acknowledgements it enqueues; only tx, rx and tun announce their mode.
Places(kind) ==
    {"none", "test", "ended"} \cup
    CASE kind = "tx"  -> {"check", "activate", "disable", "work", "lock",
                          "locked", "exit"}
      [] kind = "rx"  -> {"check", "activate", "disable", "work", "exit"} \cup
                         IF FlagBS THEN {} ELSE {"lock", "locked"}
      [] kind = "tun" -> {"enable", "work", "exit"}
      [] OTHER        -> {"lock", "wait", "woken", "locked"}

\* Every variable has its type, and every thread is in its own loop.
TypeOK ==
    /\ mode \in ModeType
    /\ txMode \in {"ACTIVE", "DISABLED"} /\ rxMode \in {"ACTIVE", "DISABLED"}
    /\ tunMode \in {"ENABLED", "DISABLED"}
    /\ signal \subseteq Commands /\ commands \in 0 .. MaxCommands
    /\ manager \in ModeType \cup Reconfiguring \cup
          {"switch", "started", "reconfigTx", "stopTx", "stopTun", "destroy",
           "destroyed"}
    /\ pc \in [Threads -> AllPlaces]
    /\ \A t \in Threads : pc[t] \in Places(t[1])
    /\ objects \in 0 .. MaxStarts /\ starts \in 0 .. MaxStarts
    /\ using \in [Threads -> 0 .. MaxStarts]
    /\ mutex \in Threads \cup {Manager, Free}
    /\ status \in {"running", "undefined"}

Own(kind) == <<kind, starts>>

\* On a base station the threads of the present incarnation are in their loops
\* as long as the mode is IDLE or RECONFIG: whatever the manager does between
\* two polls, and whatever threads were left over, no thread ends with the
\* system still up. (tun ends at an end of file.)
WorkersAlive ==
    mode \in {"IDLE", "RECONFIG"} =>
       \A kind \in Kinds \ {"tun"} :
          pc[Own(kind)] \notin {"none", "exit", "ended"}

\* On a base station, the threads of the present incarnation refer to objects
\* that exist as long as the mode is IDLE or RECONFIG: dead objects are only
\* met after a MacStop.
OwnObjects ==
    mode \in {"IDLE", "RECONFIG"} =>
       /\ objects = starts
       /\ \A kind \in Kinds : using[Own(kind)] = objects
       /\ starts = 1 => Running

\* What the handshake can rely on in the first incarnation: a thread that
\* touches the queues has announced it, and still does. So the manager meets
\* one in RECONFIG_MODE only if the thread announced it after it was polled.
AtWorkIsAnnounced ==
    starts = 1 =>
       /\ pc[Own("tx")] \in {"work", "lock", "locked"} => txMode = "ACTIVE"
       /\ pc[Own("rx")] \in {"work", "lock", "locked"} => rxMode = "ACTIVE"

\* The holder of queueMutex is in its critical section, and only the holder.
MutexHeld ==
    /\ \A t \in Threads : pc[t] \in {"locked", "woken"} <=> mutex = t
    /\ manager = "enqueueing" <=> mutex = Manager

\* On a base station a MacConfigRequest taken before the first MacStop is
\* carried out: TX and RX disable themselves and the system returns to
\* IDLE_MODE.
ReconfigCompletes == (mode = "RECONFIG" /\ starts = 1) ~> mode = "IDLE"

\* On a base station the first MacStop that was taken gets the threads to leave
\* or to disable themselves, and the objects destroyed. (Whether a thread then
\* still uses them is StopExclusive.)
StopReached == (mode = "STOP" /\ starts = 1) ~> manager = "destroyed"

\* A MacStop given while the system is up is taken, provided that configuration
\* requests come to an end: IDLE_MODE looks for them first, so that a request
\* that is always renewed keeps the stop waiting for ever.
StopTaken ==
    <>[]("config" \notin signal) =>
       (("stop" \in signal /\ mode = "IDLE" /\ starts = 1) ~> mode = "STOP")

\* MacController.cpp:268: a MacStop that was taken brings the system to
\* STANDBY_MODE.
StopCompletes == mode = "STOP" ~> mode = "STANDBY"

\* MacController.cpp:263: TX, RX and Tun must be disabled for STOP_MODE's work:
\* none of them uses the objects that the destructor deletes.
StopExclusive ==
    manager = "destroyed" =>
       \A t \in Threads : t[1] \notin Timeouts => pc[t] \notin Touching

\* MacController.cpp:222: to be in RECONFIG_MODE's work, TX and RX must be
\* disabled.
ReconfigExclusive ==
    manager \in Reconfiguring =>
       \A t \in Threads : t[1] \in {"tx", "rx"} =>
          pc[t] \notin {"work", "lock", "locked"}
=============================================================================
