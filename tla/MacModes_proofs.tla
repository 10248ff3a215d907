--------------------------- MODULE MacModes_proofs --------------------------
(***************************************************************************)
(* Proofs of the safety properties of MacModes for any number of attached   *)
(* equipments, of incarnations and of commands, and for any initial values  *)
(* of the handshake variables.                                              *)
(***************************************************************************)
EXTENDS MacModes, TLAPS

\* What the kind and the incarnation of a thread are; no thread is confused
\* with the manager.
LEMMA ThreadsAre ==
    /\ \A t \in Threads : /\ t = <<t[1], t[2]>>
                          /\ t[1] \in Kinds /\ t[2] \in Nat /\ t[2] >= 1
                          /\ t[2] <= MaxStarts
                          /\ t[1] \in Timeouts =>
                                t[1] \notin {"tx", "rx", "tun"}
                          /\ t # Manager /\ t # Free
    /\ Manager # Free
    /\ MaxStarts \in Nat /\ MaxStarts >= 1 /\ MaxCommands \in Nat
BY MacModesAssumption DEF Threads, Incarnations, Manager, Free

\* Which thread may be where.
LEMMA PlacesAre ==
    ASSUME NEW t \in Threads
    PROVE  /\ "none" \in Places(t[1]) /\ "test" \in Places(t[1])
           /\ "ended" \in Places(t[1])
           /\ "enable" \in Places(t[1]) <=> t[1] = "tun"
           /\ \A p \in {"check", "activate", "disable"} :
                 p \in Places(t[1]) <=> t[1] \in {"tx", "rx"}
           /\ \A p \in {"work", "exit"} :
                 p \in Places(t[1]) <=> t[1] \in {"tx", "rx", "tun"}
           /\ \A p \in {"lock", "locked"} :
                 p \in Places(t[1]) <=>
                    t[1] \in {"tx"} \cup Timeouts \cup
                            IF FlagBS THEN {} ELSE {"rx"}
           /\ \A p \in {"wait", "woken"} :
                 p \in Places(t[1]) <=> t[1] \in Timeouts
<1>1. t[1] \in {"tx", "rx", "tun"} \cup Timeouts
  BY ThreadsAre DEF Kinds
<1>2. t[1] \in Timeouts <=> t[1] \notin {"tx", "rx", "tun"}
  BY <1>1, ThreadsAre
<1>3. CASE t[1] = "tx"
  <2>1. Places(t[1]) = {"none", "test", "ended", "check", "activate",
                        "disable", "work", "lock", "locked", "exit"}
    BY <1>3 DEF Places
  <2>2. t[1] \notin Timeouts
    BY <1>2, <1>3
  <2> HIDE DEF Places
  <2> QED
    BY <1>3, <2>1, <2>2
<1>4. CASE t[1] = "rx"
  <2>1. Places(t[1]) = {"none", "test", "ended", "check", "activate",
                        "disable", "work", "exit"} \cup
                       IF FlagBS THEN {} ELSE {"lock", "locked"}
    BY <1>4 DEF Places
  <2>2. t[1] \notin Timeouts
    BY <1>2, <1>4
  <2> QED
    BY <1>4, <2>1, <2>2
<1>5. CASE t[1] = "tun"
  <2>1. Places(t[1]) = {"none", "test", "ended", "enable", "work", "exit"}
    BY <1>5 DEF Places
  <2>2. t[1] \notin Timeouts
    BY <1>2, <1>5
  <2> QED
    BY <1>5, <2>1, <2>2
<1>6. CASE t[1] \in Timeouts
  <2>1. t[1] # "tx" /\ t[1] # "rx" /\ t[1] # "tun"
    BY <1>2, <1>6
  <2>2. Places(t[1]) = {"none", "test", "ended", "lock", "wait", "woken",
                        "locked"}
    BY <2>1 DEF Places
  <2> QED
    BY <1>6, <2>1, <2>2
<1> QED
  BY <1>1, <1>3, <1>4, <1>5, <1>6

(***************************************************************************)
(* The inductive invariants. The first three hold on either equipment, the  *)
(* fourth only on a base station: on a UE the rx thread writes the mode.    *)
(***************************************************************************)
\* CONFIG_MODE is entered only with an incarnation left to create.
Bounded == mode = "CONFIG" \/ manager = "CONFIG" => starts < MaxStarts

Types == TypeOK /\ Bounded

\* No thread of an incarnation exists before START_MODE started it, and
\* START_MODE starts the threads of an incarnation once.
Fresh ==
    /\ \A t \in Threads : t[2] > starts => pc[t] = "none"
    /\ mode = "START" => manager \in {"switch", "START", "started"}
    /\ manager = "START" \/ (manager = "switch" /\ mode = "START") =>
          \A t \in Threads : t[2] = starts => pc[t] = "none"

Waiting == \A t \in Threads : pc[t] \in {"wait", "woken"} => t[1] \in Timeouts

Locking == Fresh /\ Waiting /\ MutexHeld

\* AtWorkIsAnnounced, for every thread there is.
Announced ==
    starts = 1 =>
       \A t \in Threads : pc[t] \in {"work", "lock", "locked"} =>
          /\ t[1] = "tx" => txMode = "ACTIVE"
          /\ t[1] = "rx" => rxMode = "ACTIVE"

\* The mode while the manager is in one of its cases.
Place ==
    /\ manager \in ModeType => mode = manager
    /\ manager = "started" => mode = "START"
    /\ manager \in Reconfiguring \cup {"reconfigTx"} => mode = "RECONFIG"
    /\ manager \in {"stopTx", "stopTun", "destroy", "destroyed"} =>
          mode = "STOP"

\* The present incarnation is up from START_MODE until STOP_MODE.
Up ==
    /\ mode \in {"START", "IDLE", "RECONFIG"} =>
          starts >= 1 /\ objects = starts /\ (starts = 1 => Running)
    /\ manager = "started" \/ mode \in {"IDLE", "RECONFIG"} =>
          \A t \in Threads : t[2] = starts =>
             /\ using[t] = objects
             /\ t[1] # "tun" => pc[t] \notin {"none", "exit", "ended"}

BaseStation == Place /\ Up

(***************************************************************************)
(* Every variable keeps its type.                                           *)
(***************************************************************************)
\* A step of the manager keeps the types.
LEMMA TypesManager ==
    ASSUME Types, ManagerStep
    PROVE  Types'
<1> USE DEF Types, TypeOK, Bounded, ModeType, Reconfiguring, Commands, At,
           Go, Take, Enter, modes, others, cli
<1>1. CASE Switch
  BY <1>1, ThreadsAre DEF Switch
<1>2. CASE NoCommand
  BY <1>2, ThreadsAre DEF NoCommand
<1>3. CASE NotYet
  BY <1>3, ThreadsAre DEF NotYet
<1>4. CASE Start
  BY <1>4, ThreadsAre DEF Start
<1>5. CASE Configure
  BY <1>5, ThreadsAre DEF Configure
<1>6. CASE StartThreads
  <2>1. ASSUME NEW u \in Threads
        PROVE  First(u[1]) \in Places(u[1]) /\ First(u[1]) \in AllPlaces
    BY PlacesAre DEF First, AllPlaces
  <2>2. /\ pc' \in [Threads -> AllPlaces]
        /\ \A u \in Threads : pc'[u] \in Places(u[1])
    BY <1>6, <2>1 DEF StartThreads
  <2> QED
    BY <1>6, <2>2, ThreadsAre DEF StartThreads
<1>7. CASE EnterIdle
  BY <1>7, ThreadsAre DEF EnterIdle
<1>8. CASE Reconfigure
  BY <1>8, ThreadsAre DEF Reconfigure
<1>9. CASE Stop
  BY <1>9, ThreadsAre DEF Stop
<1>10. CASE SeesRx
  BY <1>10, ThreadsAre DEF SeesRx
<1>11. CASE SeesTx
  BY <1>11, ThreadsAre DEF SeesTx
<1>12. CASE SeesTun
  BY <1>12, ThreadsAre DEF SeesTun
<1>13. CASE FlushAndSet
  BY <1>13, ThreadsAre DEF FlushAndSet
<1>14. CASE EnqueueLock
  BY <1>14, ThreadsAre DEF EnqueueLock
<1>15. CASE EnqueueUnlock
  BY <1>15, ThreadsAre DEF EnqueueUnlock
<1>16. CASE Destroy
  BY <1>16, ThreadsAre DEF Destroy
<1>17. CASE EnterStandby
  BY <1>17, ThreadsAre DEF EnterStandby
<1> QED
  BY <1>1, <1>2, <1>3, <1>4, <1>5, <1>6, <1>7, <1>8, <1>9, <1>10, <1>11,
     <1>12, <1>13, <1>14, <1>15, <1>16, <1>17
     DEF ManagerStep

\* A thread goes from one of its places to another.
LEMMA MovesThread ==
    ASSUME Types, NEW t \in Threads, ThreadStep(t)
    PROVE  /\ pc' \in [Threads -> AllPlaces]
           /\ \A u \in Threads : pc'[u] \in Places(u[1])
<1> USE DEF In, To, Alive, Set, AllPlaces
<1>1. /\ TypeOK /\ pc[t] \in Places(t[1])
      /\ t[1] \in {"tx", "rx", "tun"} \cup Timeouts
  BY ThreadsAre DEF Types, TypeOK, Kinds
<1>2. ASSUME NEW p \in AllPlaces, p \in Places(t[1]),
             pc' = [pc EXCEPT ![t] = p]
      PROVE  /\ pc' \in [Threads -> AllPlaces]
             /\ \A u \in Threads : pc'[u] \in Places(u[1])
  BY <1>1, <1>2 DEF TypeOK
<1>3. CASE Test(t)
  <2>1. CASE mode = "STOP"
    BY <1>1, <1>2, <1>3, <2>1, PlacesAre DEF Test
  <2>2. CASE mode # "STOP" /\ t[1] \in {"tx", "rx"}
    BY <1>1, <1>2, <1>3, <2>2, PlacesAre DEF Test
  <2>3. CASE mode # "STOP" /\ t[1] = "tun"
    BY <1>1, <1>2, <1>3, <2>3, PlacesAre DEF Test
  <2>4. CASE mode # "STOP" /\ t[1] \notin {"tx", "rx", "tun"}
    BY <1>1, <1>2, <1>3, <2>4, PlacesAre DEF Test
  <2> QED
    BY <2>1, <2>2, <2>3, <2>4
<1>4. CASE Check(t)
  BY <1>1, <1>2, <1>4, PlacesAre DEF Check
<1>5. CASE Activate(t)
  BY <1>1, <1>2, <1>5, PlacesAre DEF Activate
<1>6. CASE Disable(t)
  BY <1>1, <1>2, <1>6, PlacesAre DEF Disable
<1>7. CASE Enable(t)
  BY <1>1, <1>2, <1>7, PlacesAre DEF Enable
<1>8. CASE Exit(t)
  BY <1>1, <1>2, <1>8, PlacesAre DEF Exit
<1>9. CASE NothingToDo(t)
  BY <1>1, <1>2, <1>9, PlacesAre DEF NothingToDo
<1>10. CASE HasSdu(t)
  BY <1>1, <1>2, <1>10, PlacesAre DEF HasSdu
<1>11. CASE HasParameters(t)
  BY <1>1, <1>2, <1>11, PlacesAre DEF HasParameters
<1>12. CASE EndOfFile(t)
  BY <1>1, <1>2, <1>12, PlacesAre DEF EndOfFile
<1>13. CASE Lock(t)
  BY <1>1, <1>2, <1>13, PlacesAre DEF Lock
<1>14. CASE LockAndWait(t)
  BY <1>1, <1>2, <1>14, PlacesAre DEF LockAndWait
<1>15. CASE Wake(t)
  BY <1>1, <1>2, <1>15, PlacesAre DEF Wake
<1>16. CASE Expire(t)
  BY <1>1, <1>2, <1>16, PlacesAre DEF Expire
<1>17. CASE Unlock(t)
  BY <1>1, <1>2, <1>17, PlacesAre DEF Unlock
<1>18. CASE UseDead(t)
  BY <1>18 DEF UseDead, Types, TypeOK
<1> QED
  BY <1>3, <1>4, <1>5, <1>6, <1>7, <1>8, <1>9, <1>10, <1>11,
     <1>12, <1>13, <1>14, <1>15, <1>16, <1>17, <1>18
     DEF ThreadStep

\* So does a step of a thread.
LEMMA TypesThread ==
    ASSUME Types, NEW t \in Threads, ThreadStep(t)
    PROVE  Types'
<1> USE DEF Types, TypeOK, Bounded, ModeType, Reconfiguring, Commands, In,
           To, Set, Alive, modes, others, cli
<1>1. /\ pc' \in [Threads -> AllPlaces]
      /\ \A u \in Threads : pc'[u] \in Places(u[1])
  BY MovesThread
<1>2. CASE Test(t)
  BY <1>1, <1>2, ThreadsAre DEF Test
<1>3. CASE Check(t)
  BY <1>1, <1>3, ThreadsAre DEF Check
<1>4. CASE Activate(t)
  BY <1>1, <1>4, ThreadsAre DEF Activate
<1>5. CASE Disable(t)
  BY <1>1, <1>5, ThreadsAre DEF Disable
<1>6. CASE Enable(t)
  BY <1>1, <1>6, ThreadsAre DEF Enable
<1>7. CASE Exit(t)
  BY <1>1, <1>7, ThreadsAre DEF Exit
<1>8. CASE NothingToDo(t)
  BY <1>1, <1>8, ThreadsAre DEF NothingToDo
<1>9. CASE HasSdu(t)
  BY <1>1, <1>9, ThreadsAre DEF HasSdu
<1>10. CASE HasParameters(t)
  BY <1>1, <1>10, ThreadsAre DEF HasParameters
<1>11. CASE EndOfFile(t)
  BY <1>1, <1>11, ThreadsAre DEF EndOfFile
<1>12. CASE Lock(t)
  BY <1>1, <1>12, ThreadsAre DEF Lock
<1>13. CASE LockAndWait(t)
  BY <1>1, <1>13, ThreadsAre DEF LockAndWait
<1>14. CASE Wake(t)
  BY <1>1, <1>14, ThreadsAre DEF Wake
<1>15. CASE Expire(t)
  BY <1>1, <1>15, ThreadsAre DEF Expire
<1>16. CASE Unlock(t)
  BY <1>1, <1>16, ThreadsAre DEF Unlock
<1>17. CASE UseDead(t)
  BY <1>1, <1>17, ThreadsAre DEF UseDead
<1> QED
  BY <1>2, <1>3, <1>4, <1>5, <1>6, <1>7, <1>8, <1>9, <1>10,
     <1>11, <1>12, <1>13, <1>14, <1>15, <1>16, <1>17
     DEF ThreadStep

(***************************************************************************)
(* queueMutex is held by who is in a critical section, and by nobody else.  *)
(***************************************************************************)
\* The manager holds queueMutex only while it enqueues.
LEMMA LockingManager ==
    ASSUME Types, Types', Locking, ManagerStep
    PROVE  Locking'
<1> USE DEF Types, TypeOK, Locking, Fresh, Waiting, MutexHeld, ModeType, At,
           Go, Take, Enter, modes, others, cli
<1>1. CASE Switch
  BY <1>1, ThreadsAre DEF Switch
<1>2. CASE NoCommand
  BY <1>2, ThreadsAre DEF NoCommand
<1>3. CASE NotYet
  BY <1>3, ThreadsAre DEF NotYet
<1>4. CASE Start
  BY <1>4, ThreadsAre DEF Start
<1>5. CASE Configure
  BY <1>5, ThreadsAre DEF Configure
<1>6. CASE StartThreads
  BY <1>6, ThreadsAre DEF StartThreads, First
<1>7. CASE EnterIdle
  BY <1>7, ThreadsAre DEF EnterIdle
<1>8. CASE Reconfigure
  BY <1>8, ThreadsAre DEF Reconfigure
<1>9. CASE Stop
  BY <1>9, ThreadsAre DEF Stop
<1>10. CASE SeesRx
  BY <1>10, ThreadsAre DEF SeesRx
<1>11. CASE SeesTx
  BY <1>11, ThreadsAre DEF SeesTx
<1>12. CASE SeesTun
  BY <1>12, ThreadsAre DEF SeesTun
<1>13. CASE FlushAndSet
  BY <1>13, ThreadsAre DEF FlushAndSet
<1>14. CASE EnqueueLock
  BY <1>14, ThreadsAre DEF EnqueueLock
<1>15. CASE EnqueueUnlock
  BY <1>15, ThreadsAre DEF EnqueueUnlock
<1>16. CASE Destroy
  BY <1>16, ThreadsAre DEF Destroy
<1>17. CASE EnterStandby
  BY <1>17, ThreadsAre DEF EnterStandby
<1> QED
  BY <1>1, <1>2, <1>3, <1>4, <1>5, <1>6, <1>7, <1>8, <1>9, <1>10, <1>11,
     <1>12, <1>13, <1>14, <1>15, <1>16, <1>17
     DEF ManagerStep

\* A thread takes queueMutex only when it is free, and gives it back.
LEMMA LockingThread ==
    ASSUME Types, Types', Locking,
           NEW t \in Threads, ThreadStep(t)
    PROVE  Locking'
<1> USE DEF Types, TypeOK, Locking, Fresh, Waiting, MutexHeld, ModeType, In,
           To, Set, Alive, modes, others, cli
<1>1. CASE Test(t)
  BY <1>1, ThreadsAre DEF Test
<1>2. CASE Check(t)
  BY <1>2, ThreadsAre DEF Check
<1>3. CASE Activate(t)
  BY <1>3, ThreadsAre DEF Activate
<1>4. CASE Disable(t)
  BY <1>4, ThreadsAre DEF Disable
<1>5. CASE Enable(t)
  BY <1>5, ThreadsAre DEF Enable
<1>6. CASE Exit(t)
  BY <1>6, ThreadsAre DEF Exit
<1>7. CASE NothingToDo(t)
  BY <1>7, ThreadsAre DEF NothingToDo
<1>8. CASE HasSdu(t)
  BY <1>8, ThreadsAre DEF HasSdu
<1>9. CASE HasParameters(t)
  BY <1>9, ThreadsAre DEF HasParameters
<1>10. CASE EndOfFile(t)
  BY <1>10, ThreadsAre DEF EndOfFile
<1>11. CASE Lock(t)
  BY <1>11, ThreadsAre DEF Lock
<1>12. CASE LockAndWait(t)
  BY <1>12, ThreadsAre DEF LockAndWait
<1>13. CASE Wake(t)
  BY <1>13, ThreadsAre DEF Wake
<1>14. CASE Expire(t)
  BY <1>14, ThreadsAre DEF Expire
<1>15. CASE Unlock(t)
  BY <1>15, ThreadsAre DEF Unlock
<1>16. CASE UseDead(t)
  BY <1>16, ThreadsAre DEF UseDead
<1> QED
  BY <1>1, <1>2, <1>3, <1>4, <1>5, <1>6, <1>7, <1>8, <1>9, <1>10, <1>11,
     <1>12, <1>13, <1>14, <1>15, <1>16
     DEF ThreadStep

(***************************************************************************)
(* In the first incarnation, tx and rx at work have announced it.           *)
(***************************************************************************)
\* The manager does not write txMode or rxMode.
LEMMA AnnouncedManager ==
    ASSUME Types, Locking, Announced, ManagerStep
    PROVE  Announced'
<1> USE DEF Types, TypeOK, Locking, Fresh, Waiting, Announced, At, Go, Take,
           Enter, modes, others, cli
<1>1. CASE Switch
  BY <1>1, ThreadsAre DEF Switch
<1>2. CASE NoCommand
  BY <1>2, ThreadsAre DEF NoCommand
<1>3. CASE NotYet
  BY <1>3, ThreadsAre DEF NotYet
<1>4. CASE Start
  BY <1>4, ThreadsAre DEF Start
<1>5. CASE Configure
  BY <1>5, ThreadsAre DEF Configure
<1>6. CASE StartThreads
  BY <1>6, ThreadsAre DEF StartThreads, First
<1>7. CASE EnterIdle
  BY <1>7, ThreadsAre DEF EnterIdle
<1>8. CASE Reconfigure
  BY <1>8, ThreadsAre DEF Reconfigure
<1>9. CASE Stop
  BY <1>9, ThreadsAre DEF Stop
<1>10. CASE SeesRx
  BY <1>10, ThreadsAre DEF SeesRx
<1>11. CASE SeesTx
  BY <1>11, ThreadsAre DEF SeesTx
<1>12. CASE SeesTun
  BY <1>12, ThreadsAre DEF SeesTun
<1>13. CASE FlushAndSet
  BY <1>13, ThreadsAre DEF FlushAndSet
<1>14. CASE EnqueueLock
  BY <1>14, ThreadsAre DEF EnqueueLock
<1>15. CASE EnqueueUnlock
  BY <1>15, ThreadsAre DEF EnqueueUnlock
<1>16. CASE Destroy
  BY <1>16, ThreadsAre DEF Destroy
<1>17. CASE EnterStandby
  BY <1>17, ThreadsAre DEF EnterStandby
<1> QED
  BY <1>1, <1>2, <1>3, <1>4, <1>5, <1>6, <1>7, <1>8, <1>9, <1>10, <1>11,
     <1>12, <1>13, <1>14, <1>15, <1>16, <1>17
     DEF ManagerStep

\* A thread enters its work only by way of its announcement.
LEMMA AnnouncedThread ==
    ASSUME Types, Locking, Announced,
           NEW t \in Threads, ThreadStep(t)
    PROVE  Announced'
<1> USE DEF Types, TypeOK, Locking, Fresh, Waiting, Announced, In, To, Set,
           Alive, modes, others, cli
<1>1. CASE Test(t)
  BY <1>1, ThreadsAre DEF Test
<1>2. CASE Check(t)
  BY <1>2, ThreadsAre DEF Check
<1>3. CASE Activate(t)
  BY <1>3, ThreadsAre DEF Activate
<1>4. CASE Disable(t)
  BY <1>4, ThreadsAre DEF Disable
<1>5. CASE Enable(t)
  BY <1>5, ThreadsAre DEF Enable
<1>6. CASE Exit(t)
  BY <1>6, ThreadsAre DEF Exit
<1>7. CASE NothingToDo(t)
  BY <1>7, ThreadsAre DEF NothingToDo
<1>8. CASE HasSdu(t)
  BY <1>8, ThreadsAre DEF HasSdu
<1>9. CASE HasParameters(t)
  BY <1>9, ThreadsAre DEF HasParameters
<1>10. CASE EndOfFile(t)
  BY <1>10, ThreadsAre DEF EndOfFile
<1>11. CASE Lock(t)
  BY <1>11, ThreadsAre DEF Lock
<1>12. CASE LockAndWait(t)
  BY <1>12, ThreadsAre DEF LockAndWait
<1>13. CASE Wake(t)
  BY <1>13, ThreadsAre DEF Wake
<1>14. CASE Expire(t)
  BY <1>14, ThreadsAre DEF Expire
<1>15. CASE Unlock(t)
  BY <1>15, ThreadsAre DEF Unlock
<1>16. CASE UseDead(t)
  BY <1>16, ThreadsAre DEF UseDead
<1> QED
  BY <1>1, <1>2, <1>3, <1>4, <1>5, <1>6, <1>7, <1>8, <1>9, <1>10, <1>11,
     <1>12, <1>13, <1>14, <1>15, <1>16
     DEF ThreadStep

(***************************************************************************)
(* On a base station the present incarnation is up until STOP_MODE.         *)
(***************************************************************************)
\* The manager creates objects and threads before IDLE_MODE, and destroys the
\* objects only in STOP_MODE.
LEMMA BaseStationManager ==
    ASSUME FlagBS, Types, Types', Locking, BaseStation, ManagerStep
    PROVE  BaseStation'
<1> USE DEF Types, TypeOK, Locking, Fresh, BaseStation, Place, Up, ModeType,
           Reconfiguring, Running, At, Go, Take, Enter, modes, others, cli
<1>1. CASE Switch
  BY <1>1, ThreadsAre DEF Switch
<1>2. CASE NoCommand
  BY <1>2, ThreadsAre DEF NoCommand
<1>3. CASE NotYet
  BY <1>3, ThreadsAre DEF NotYet
<1>4. CASE Start
  BY <1>4, ThreadsAre DEF Start
<1>5. CASE Configure
  BY <1>5, ThreadsAre DEF Configure
<1>6. CASE StartThreads
  BY <1>6, ThreadsAre DEF StartThreads, First
<1>7. CASE EnterIdle
  BY <1>7, ThreadsAre DEF EnterIdle
<1>8. CASE Reconfigure
  BY <1>8, ThreadsAre DEF Reconfigure
<1>9. CASE Stop
  BY <1>9, ThreadsAre DEF Stop
<1>10. CASE SeesRx
  BY <1>10, ThreadsAre DEF SeesRx
<1>11. CASE SeesTx
  BY <1>11, ThreadsAre DEF SeesTx
<1>12. CASE SeesTun
  BY <1>12, ThreadsAre DEF SeesTun
<1>13. CASE FlushAndSet
  BY <1>13, ThreadsAre DEF FlushAndSet
<1>14. CASE EnqueueLock
  BY <1>14, ThreadsAre DEF EnqueueLock
<1>15. CASE EnqueueUnlock
  BY <1>15, ThreadsAre DEF EnqueueUnlock
<1>16. CASE Destroy
  BY <1>16, ThreadsAre DEF Destroy
<1>17. CASE EnterStandby
  BY <1>17, ThreadsAre DEF EnterStandby
<1> QED
  BY <1>1, <1>2, <1>3, <1>4, <1>5, <1>6, <1>7, <1>8, <1>9, <1>10, <1>11,
     <1>12, <1>13, <1>14, <1>15, <1>16, <1>17
     DEF ManagerStep

\* On a base station no thread writes the mode, and none ends before STOP_MODE.
LEMMA BaseStationThread ==
    ASSUME FlagBS, Types, Locking, BaseStation,
           NEW t \in Threads, ThreadStep(t)
    PROVE  BaseStation'
<1> USE DEF Types, TypeOK, Locking, Fresh, BaseStation, Place, Up, ModeType,
           Reconfiguring, Running, In, To, Set, Alive, modes, others, cli
<1>1. CASE Test(t)
  BY <1>1, ThreadsAre DEF Test
<1>2. CASE Check(t)
  BY <1>2, ThreadsAre DEF Check
<1>3. CASE Activate(t)
  BY <1>3, ThreadsAre DEF Activate
<1>4. CASE Disable(t)
  BY <1>4, ThreadsAre DEF Disable
<1>5. CASE Enable(t)
  BY <1>5, ThreadsAre DEF Enable
<1>6. CASE Exit(t)
  BY <1>6, ThreadsAre DEF Exit
<1>7. CASE NothingToDo(t)
  BY <1>7, ThreadsAre DEF NothingToDo
<1>8. CASE HasSdu(t)
  BY <1>8, ThreadsAre DEF HasSdu
<1>9. CASE HasParameters(t)
  BY <1>9, ThreadsAre DEF HasParameters
<1>10. CASE EndOfFile(t)
  BY <1>10, ThreadsAre DEF EndOfFile
<1>11. CASE Lock(t)
  BY <1>11, ThreadsAre DEF Lock
<1>12. CASE LockAndWait(t)
  BY <1>12, ThreadsAre DEF LockAndWait
<1>13. CASE Wake(t)
  BY <1>13, ThreadsAre DEF Wake
<1>14. CASE Expire(t)
  BY <1>14, ThreadsAre DEF Expire
<1>15. CASE Unlock(t)
  BY <1>15, ThreadsAre DEF Unlock
<1>16. CASE UseDead(t)
  BY <1>16, ThreadsAre DEF UseDead, Dead, Touching
<1> QED
  BY <1>1, <1>2, <1>3, <1>4, <1>5, <1>6, <1>7, <1>8, <1>9, <1>10, <1>11,
     <1>12, <1>13, <1>14, <1>15, <1>16
     DEF ThreadStep

(***************************************************************************)
(* Together.                                                                *)
(***************************************************************************)
IInv == Types /\ Locking /\ Announced /\ (FlagBS => BaseStation)

\* The system stands in STANDBY_MODE at the start, without threads.
LEMMA InitInvariant == Init => IInv
<1> SUFFICES ASSUME Init PROVE IInv
  OBVIOUS
<1>1. Types
  <2>1. PICK v \in Indeterminate :
           txMode = v.tx /\ rxMode = v.rx /\ tunMode = v.tun
    BY DEF Init
  <2>2. /\ txMode \in {"ACTIVE", "DISABLED"}
        /\ rxMode \in {"ACTIVE", "DISABLED"}
        /\ tunMode \in {"ENABLED", "DISABLED"}
    BY <2>1, MacModesAssumption
  <2>3. /\ mode = "STANDBY" /\ manager = "switch" /\ status = "running"
        /\ signal = {} /\ commands = 0
        /\ objects = 0 /\ starts = 0 /\ mutex = Free
        /\ pc = [t \in Threads |-> "none"]
        /\ using = [t \in Threads |-> 0]
    BY DEF Init
  <2>4. /\ pc \in [Threads -> AllPlaces]
        /\ \A t \in Threads : pc[t] \in Places(t[1])
        /\ using \in [Threads -> 0 .. MaxStarts]
    BY <2>3, ThreadsAre, PlacesAre DEF AllPlaces
  <2> QED
    BY <2>2, <2>3, <2>4, ThreadsAre
       DEF Types, TypeOK, Bounded, ModeType, Commands
<1>2. Locking
  BY ThreadsAre DEF Init, Locking, Fresh, Waiting, MutexHeld
<1>3. Announced
  BY DEF Init, Announced
<1>4. BaseStation
  BY DEF Init, BaseStation, Place, Up, ModeType, Reconfiguring
<1> QED
  BY <1>1, <1>2, <1>3, <1>4 DEF IInv

\* Every step of the system keeps the invariant.
LEMMA StepInvariant == IInv /\ [Next]_vars => IInv'
<1> SUFFICES ASSUME IInv, [Next]_vars
             PROVE  IInv'
  OBVIOUS
<1>1. CASE ManagerStep
  BY <1>1, TypesManager, LockingManager, AnnouncedManager, BaseStationManager
     DEF IInv
<1>2. ASSUME NEW t \in Threads, ThreadStep(t)
      PROVE  IInv'
  BY <1>2, TypesThread, LockingThread, AnnouncedThread, BaseStationThread
     DEF IInv
<1>3. ASSUME NEW c \in Commands, Press(c)
      PROVE  IInv'
  <2>1. /\ Types /\ signal \in SUBSET Commands
        /\ commands' \in 0 .. MaxCommands
    BY <1>3, ThreadsAre DEF IInv, Types, TypeOK, Press
  <2>2. Types'
    BY <1>3, <2>1 DEF Press, Types, TypeOK, Bounded, modes, others
  <2> QED
    BY <1>3, <2>2 DEF Press, IInv, Locking, Fresh, Waiting, MutexHeld,
                      Announced, BaseStation, Place, Up, Running, modes, others
<1>4. CASE UNCHANGED vars
  BY <1>4 DEF vars, modes, others, cli, IInv, Types, TypeOK, Bounded, Locking,
              Fresh, Waiting, MutexHeld, Announced, BaseStation, Place, Up,
              Running
<1> QED
  BY <1>1, <1>2, <1>3, <1>4 DEF Next, Undefined

\* The invariant of every state of the system.
THEOREM Invariant == Spec => []IInv
BY InitInvariant, StepInvariant, PTL DEF Spec

\* Every variable has its type in every state.
THEOREM TypeCorrect == Spec => []TypeOK
<1>1. IInv => TypeOK
  BY DEF IInv, Types
<1> QED
  BY <1>1, Invariant, PTL

\* At most one of the manager and the threads, of whatever incarnation, is in
\* a critical section of queueMutex, and it is the one that holds the mutex.
THEOREM MutexIsHeld == Spec => []MutexHeld
<1>1. IInv => MutexHeld
  BY DEF IInv, Locking
<1> QED
  BY <1>1, Invariant, PTL

\* Until the first MacStop, whoever is at work has announced it: on a base
\* station and on a UE, whatever the handshake variables held at first.
THEOREM AtWorkAnnounced == Spec => []AtWorkIsAnnounced
<1>1. ASSUME IInv
      PROVE  AtWorkIsAnnounced
  <2>1. starts = 1 => Own("tx") \in Threads /\ Own("rx") \in Threads
    BY ThreadsAre DEF Own, Threads, Kinds, Incarnations
  <2> QED
    BY <1>1, <2>1 DEF IInv, Announced, AtWorkIsAnnounced, Own
<1> QED
  BY <1>1, Invariant, PTL

\* What the invariant says of the threads of the present incarnation.
LEMMA OwnThreads ==
    ASSUME IInv, FlagBS, mode \in {"IDLE", "RECONFIG"}, NEW kind \in Kinds
    PROVE  /\ Own(kind) \in Threads
           /\ using[Own(kind)] = objects
           /\ kind # "tun" => pc[Own(kind)] \notin {"none", "exit", "ended"}
<1>1. starts >= 1 /\ starts \in Nat /\ starts <= MaxStarts
  BY ThreadsAre DEF IInv, Types, TypeOK, BaseStation, Up
<1>2. Own(kind) \in Threads /\ Own(kind)[1] = kind /\ Own(kind)[2] = starts
  BY <1>1, ThreadsAre DEF Own, Threads, Incarnations
<1> QED
  BY <1>2 DEF IInv, BaseStation, Up

\* On a base station no thread of the present incarnation ends with the system
\* still up, however often it was stopped and started again.
THEOREM WorkersStayAlive == FlagBS => (Spec => []WorkersAlive)
<1> SUFFICES ASSUME FlagBS PROVE Spec => []WorkersAlive
  OBVIOUS
<1>1. IInv => WorkersAlive
  BY OwnThreads DEF WorkersAlive
<1> QED
  BY <1>1, Invariant, PTL

\* On a base station the threads of the present incarnation work on objects
\* that exist for as long as the system is up, and in the first incarnation no
\* thread ever touches dead ones before a MacStop.
THEOREM ObjectsAreOwn == FlagBS => (Spec => []OwnObjects)
<1> SUFFICES ASSUME FlagBS PROVE Spec => []OwnObjects
  OBVIOUS
<1>1. ASSUME IInv
      PROVE  OwnObjects
  BY <1>1, OwnThreads DEF OwnObjects, IInv, BaseStation, Up
<1> QED
  BY <1>1, Invariant, PTL
=============================================================================
