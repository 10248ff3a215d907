----------------------------- MODULE Parameters -----------------------------
(***************************************************************************)
(* How the parameters of a base station reach its user equipments, and what *)
(* is left of them on both sides when equipments stop, start and crash and  *)
(* control SDUs are lost, repeated or overtaken by later ones.              *)
(*                                                                          *)
(* Each equipment has two objects with the same vectors: currentParameters, *)
(* which the MAC works with and keeps in Current.txt, and dynamicParameters,*)
(* which the CLI (base station) or a received SDU (UE) writes and           *)
(* RECONFIG_MODE takes over. A base station's vectors are indexed by UE, a  *)
(* UE's by the order in which values were pushed. mcsDownlink and the       *)
(* fusion table, which no take-over reads, are left out, and the threads:   *)
(* MacModes has them, and shows that RX is disabled during a take-over but  *)
(* for a race. The count of PDUs after which a UE reports its metrics, on   *)
(* which nothing else depends, is left out, too.                            *)
(*                                                                          *)
(* The setters are the interface of DynamicParameters to a CLI. The stub    *)
(* CLI of the repository calls none of them but setMcsUplink, which rx      *)
(* calls; the model lets a CLI call them at any time.                       *)
(***************************************************************************)
EXTENDS Messages, FiniteSets

CONSTANTS
    N,              \* the number of attached UEs, with the addresses 1 .. N
    Default,        \* what Default.txt holds, for each equipment
    Allocations,    \* the reservations given at the CLI: [first, number]
    Radios,         \* the MIMO and power settings given at the CLI
    Periods,        \* the periodicities given at the CLI
    MaxSets,        \* bound on the number of changes at the CLI
    MaxRequests,    \* bound on the number of reconfigurations
    MaxFaults       \* bound on the number of crashes, stops and SDUs that are
                    \* lost, repeated or overtaken

BS        == 0
Ues       == 1 .. N
Equipment == {BS} \cup Ues

\* MIMO, transmission power and uplink MCS of a UE: vectors of equal length.
Radio == [mimo : MimoFields, tpc : Byte, mcs : Nibble]

\* The vectors of a parameter object.
Pars == [res : Seq(Allocation), radio : Seq(Radio), per : Nibble]

\* What an object holds before it is filled, and Current.txt while it is
\* being written.
Empty == [res |-> << >>, radio |-> << >>, per |-> 0]
Torn  == Empty

ASSUME ParametersAssumption ==
    /\ N \in Nat \ {0}
    /\ Default \in [Equipment -> Pars]
    /\ Len(Default[BS].res) = N /\ Len(Default[BS].radio) = N
    /\ \A u \in Ues : Default[BS].res[u].target = u
    /\ \A u \in Ues : /\ Len(Default[u].res) = 1 /\ Len(Default[u].radio) = 1
                      /\ Default[u].res[1].target = u
    /\ \A e \in Equipment : Default[e].per > 0
    /\ Allocations \subseteq [first : Byte, number : Byte]
    /\ Radios \subseteq [mimo : MimoFields, tpc : Byte]
    /\ Periods \subseteq Nibble \ {0}
    /\ {MaxSets, MaxRequests, MaxFaults} \subseteq Nat

VARIABLES
    mode,           \* where each equipment is between and in its modes
    file,           \* Current.txt; Torn while it is being written
    current,        \* currentParameters
    dynamic,        \* dynamicParameters
    link,           \* the control SDUs on their way to each UE
    next,           \* the UE that the base station sends to next
    heard,          \* history: the parameters a UE decoded last
    received,       \* history: a UE decoded parameters since it booted
    synced,         \* history: the last SDU sent to a UE is its last to arrive
    changed,        \* history: changes at the CLI since the last take-over
    sets, requests, faults      \* counts of the bounded actions

contents == <<file, current, dynamic>>
history  == <<heard, received, synced, changed>>
bounds   == <<sets, requests, faults>>
vars     == <<mode, contents, link, next, history, bounds>>

Up(e) == mode[e] \in {"standby", "idle", "reconfig", "record", "send"}

(***************************************************************************)
(* The parameter objects.                                                   *)
(***************************************************************************)
\* Mutant: the position of the address is not looked for.
FirstIndex(p, mac) == 1

\* DynamicParameters::getIndex: the first position with that address. (Here
\* and in the code the base station's own address, 0, is position 0 of C.)
getIndex(p, mac) ==
    IF mac = BS THEN 1
    ELSE CHOOSE i \in 1 .. Len(p.res) :
            /\ p.res[i].target = mac
            /\ \A j \in 1 .. i - 1 : p.res[j].target # mac

\* fillDynamicVariables: a base station assigns the vectors, a UE pushes.
fill(e, d, c) ==
    IF e = BS THEN c
    ELSE [res   |-> Append(d.res, c.res[1]),
          radio |-> Append(d.radio, c.radio[1]),
          per   |-> c.per]

\* Mutant: ulReservation is not resized to one entry.
deserializedAtEnd(d, m) ==
    [res   |-> Append(d.res, m.res),
     radio |-> Append(d.radio, [mimo |-> m.mimo, tpc |-> m.tpc, mcs |-> m.mcs]),
     per   |-> m.per]

\* DynamicParameters::deserialize on a UE: the reservation and the periodicity
\* are replaced, all the rest is pushed behind what was there.
deserialized(d, m) ==
    [res   |-> << m.res >>,
     radio |-> Append(d.radio, [mimo |-> m.mimo, tpc |-> m.tpc, mcs |-> m.mcs]),
     per   |-> m.per]

\* CurrentParameters::setCLIParameters: all but the MCS, read and written at
\* the position of each reservation's address.
setCLIParameters(c, d) ==
    [res   |-> d.res,
     radio |-> [i \in DOMAIN c.radio |->
                  IF i \in 1 .. Len(d.res)
                  THEN [d.radio[getIndex(d, d.res[i].target)]
                          EXCEPT !.mcs = c.radio[i].mcs]
                  ELSE c.radio[i]],
     per   |-> d.per]

\* Mutant: the parameters of UE u are not looked for.
messageToFirst(u) ==
    LET d == dynamic[BS]
    IN  serialize([mcs |-> d.radio[1].mcs, per |-> d.per, res |-> d.res[1],
                   mimo |-> d.radio[1].mimo, tpc |-> d.radio[1].tpc])

\* The message to UE u.
messageTo(u) ==
    LET d == dynamic[BS]
        i == getIndex(d, u)
    IN  serialize([mcs |-> d.radio[i].mcs, per |-> d.per, res |-> d.res[i],
                   mimo |-> d.radio[i].mimo, tpc |-> d.radio[i].tpc])

(***************************************************************************)
(* Powering up, start and stop.                                             *)
(***************************************************************************)
Init ==
    /\ mode = [e \in Equipment |-> "off"]
    /\ file = [e \in Equipment |-> Torn]
    /\ current = Default
    /\ dynamic = [e \in Equipment |-> Empty]
    /\ link = [u \in Ues |-> << >>]
    /\ next = 1
    /\ heard = [u \in Ues |-> Default[u]]
    /\ received = [u \in Ues |-> FALSE]
    /\ synced = [u \in Ues |-> FALSE]
    /\ changed = FALSE
    /\ sets = 0 /\ requests = 0 /\ faults = 0

\* Equipment e goes from mode m to mode n.
Go(e, m, n) == mode[e] = m /\ mode' = [mode EXCEPT ![e] = n]

\* MacController's constructor reads Default.txt and opens Current.txt, which
\* truncates it.
Boot(e) ==
    /\ Go(e, "off", "boot")
    /\ current' = [current EXCEPT ![e] = Default[e]]
    /\ dynamic' = [dynamic EXCEPT ![e] = Empty]
    /\ file' = [file EXCEPT ![e] = Torn]
    /\ received' = [u \in Ues |-> received[u] /\ u # e]
    /\ UNCHANGED <<link, next, heard, synced, changed, bounds>>

\* Mutant: the constructor leaves the Current.txt it finds.
BootedUnrecorded(e) ==
    /\ Go(e, "boot", "standby")
    /\ dynamic' = [dynamic EXCEPT ![e] = fill(e, @, current[e])]
    /\ UNCHANGED <<file, current, link, next, history, bounds>>

\* The file is complete; the dynamic parameters are filled.
Booted(e) ==
    /\ Go(e, "boot", "standby")
    /\ file' = [file EXCEPT ![e] = current[e]]
    /\ dynamic' = [dynamic EXCEPT ![e] = fill(e, @, current[e])]
    /\ UNCHANGED <<current, link, next, history, bounds>>

\* CONFIG_MODE reads Current.txt and fills the dynamic parameters again. A torn
\* file would end the process in stoi.
Start(e) ==
    /\ Go(e, "standby", IF file[e] = Torn THEN "off" ELSE "idle")
    /\ current' = [current EXCEPT ![e] = IF file[e] = Torn THEN @ ELSE file[e]]
    /\ dynamic' = [dynamic EXCEPT ![e] = fill(e, @, current'[e])]
    /\ UNCHANGED <<file, link, next, history, bounds>>

\* MacStop: the parameter objects outlive the destructor.
Stop(e) ==
    /\ Go(e, "idle", "standby")
    /\ faults < MaxFaults /\ faults' = faults + 1
    /\ UNCHANGED <<contents, link, next, history, sets, requests>>

\* The process ends at any point, also while it writes Current.txt.
Crash(e) ==
    /\ Up(e) \/ mode[e] = "boot"
    /\ faults < MaxFaults /\ faults' = faults + 1
    /\ mode' = [mode EXCEPT ![e] = "off"]
    /\ synced' = [u \in Ues |-> synced[u] /\ e \notin {BS, u}]
    /\ UNCHANGED <<contents, link, next, heard, received, changed,
                   sets, requests>>

(***************************************************************************)
(* The base station. DynamicParameters' setters may be called in any mode.  *)
(***************************************************************************)
CliSet(d) ==
    /\ Up(BS) /\ sets < MaxSets
    /\ d # dynamic[BS]
    /\ dynamic' = [dynamic EXCEPT ![BS] = d]
    /\ sets' = sets + 1 /\ changed' = TRUE
    /\ UNCHANGED <<mode, file, current, link, next, heard, received,
                   synced, requests, faults>>

setUlReservation(u, a) ==
    LET d == dynamic[BS]
    IN  CliSet([d EXCEPT !.res[getIndex(d, u)] =
                  [target |-> u, first |-> a.first, number |-> a.number]])

\* setMimo and setTPC.
setRadio(u, r) ==
    LET d == dynamic[BS]
    IN  CliSet([d EXCEPT !.radio[getIndex(d, u)].mimo = r.mimo,
                         !.radio[getIndex(d, u)].tpc  = r.tpc])

setRxMetricPeriodicity(p) == CliSet([dynamic[BS] EXCEPT !.per = p])

\* setMcsUplink, by rx, from the metrics of a Start message.
setMcsUplink(u) ==
    /\ mode[BS] = "idle"
    /\ dynamic' = [dynamic EXCEPT
                     ![BS].radio[getIndex(dynamic[BS], u)].mcs =
                        cqiToMcs(sinrToCqi)]
    /\ UNCHANGED <<mode, file, current, link, next, history, bounds>>

\* IDLE_MODE takes a MacConfigRequest.
Request ==
    /\ Go(BS, "idle", "reconfig")
    /\ requests < MaxRequests /\ requests' = requests + 1
    /\ UNCHANGED <<contents, link, next, history, sets, faults>>

\* RECONFIG_MODE, on both kinds of equipment: setCLIParameters, and the
\* truncation of Current.txt.
TakeOver(e) ==
    /\ Go(e, "reconfig", "record")
    /\ current' = [current EXCEPT ![e] = setCLIParameters(@, dynamic[e])]
    /\ file' = [file EXCEPT ![e] = Torn]
    /\ changed' = (changed /\ e # BS)
    /\ UNCHANGED <<dynamic, link, next, heard, received, synced,
                   bounds>>

\* Mutant: a UE, too, goes on to send parameters.
RecordedByAll(e) ==
    /\ Go(e, "record", "send")
    /\ file' = [file EXCEPT ![e] = current[e]]
    /\ next' = IF e = BS THEN 1 ELSE next
    /\ UNCHANGED <<current, dynamic, link, history, bounds>>

\* Current.txt is complete; a UE is back in IDLE_MODE.
Recorded(e) ==
    /\ Go(e, "record", IF e = BS THEN "send" ELSE "idle")
    /\ file' = [file EXCEPT ![e] = current[e]]
    /\ next' = IF e = BS THEN 1 ELSE next
    /\ UNCHANGED <<current, dynamic, link, history, bounds>>

\* The dynamic parameters, as they are by now, are sent to one UE after the
\* other.
SendTo ==
    /\ Go(BS, "send", IF next = N THEN "idle" ELSE "send")
    /\ link' = [link EXCEPT ![next] = Append(@, messageTo(next))]
    /\ synced' = [synced EXCEPT ![next] = TRUE]
    /\ next' = IF next = N THEN 1 ELSE next + 1
    /\ UNCHANGED <<contents, heard, received, changed, bounds>>

(***************************************************************************)
(* The user equipments.                                                     *)
(***************************************************************************)
\* The network drops a datagram, repeats one, or lets the next overtake it.
Disturb(u, l, same) ==
    /\ faults < MaxFaults /\ faults' = faults + 1
    /\ link' = [link EXCEPT ![u] = l]
    /\ synced' = [synced EXCEPT ![u] = @ /\ same]
    /\ UNCHANGED <<mode, contents, next, heard, received, changed,
                   sets, requests>>

Lose(u) ==
    /\ link[u] # << >>
    /\ Disturb(u, Tail(link[u]), Len(link[u]) > 1)

Repeat(u) ==
    LET s == link[u] IN
    \E i \in 1 .. Len(s) : Disturb(u, Append(s, s[i]), i = Len(s))

Overtake(u) ==
    LET s == link[u] IN
    \E i \in 1 .. Len(s) - 1 :
       Disturb(u, [s EXCEPT ![i] = s[i + 1], ![i + 1] = s[i]], i + 1 < Len(s))

\* rx decodes a PDU with parameters: managerDynamicParameters.
Deliver(u) ==
    /\ Go(u, "idle", "reconfig")
    /\ link[u] # << >>
    /\ LET m == deserialize(Head(link[u])) IN
       /\ dynamic' = [dynamic EXCEPT ![u] = deserialized(@, m)]
       /\ heard' = [heard EXCEPT ![u] =
                      [res |-> << m.res >>, per |-> m.per,
                       radio |-> << [mimo |-> m.mimo, tpc |-> m.tpc,
                                     mcs |-> m.mcs] >>]]
       /\ received' = [received EXCEPT ![u] = TRUE]
    /\ link' = [link EXCEPT ![u] = Tail(@)]
    /\ UNCHANGED <<file, current, next, synced, changed, bounds>>

Next ==
    \/ \E e \in Equipment :
          Boot(e) \/ Booted(e) \/ Start(e) \/ Stop(e) \/ Crash(e)
             \/ TakeOver(e) \/ Recorded(e)
    \/ \E u \in Ues : \E a \in Allocations : setUlReservation(u, a)
    \/ \E u \in Ues : \E r \in Radios : setRadio(u, r)
    \/ \E p \in Periods : setRxMetricPeriodicity(p)
    \/ \E u \in Ues : setMcsUplink(u) \/ Deliver(u)
    \/ \E u \in Ues : Lose(u) \/ Repeat(u) \/ Overtake(u)
    \/ Request \/ SendTo

Spec == Init /\ [][Next]_vars

(***************************************************************************)
(* Properties.                                                              *)
(***************************************************************************)
\* Every variable has its type.
TypeOK ==
    /\ mode \in [Equipment -> {"off", "boot", "standby", "idle", "reconfig",
                               "record", "send"}]
    /\ \A e \in Equipment : mode[e] = "send" => e = BS
    /\ file \in [Equipment -> Pars]
    /\ current \in [Equipment -> Pars] /\ dynamic \in [Equipment -> Pars]
    /\ link \in [Ues -> Seq(Seq(Byte))]
    /\ next \in Ues
    /\ heard \in [Ues -> Pars] /\ received \in [Ues -> BOOLEAN]
    /\ synced \in [Ues -> BOOLEAN] /\ changed \in BOOLEAN
    /\ sets \in Nat /\ requests \in Nat /\ faults \in Nat

\* An equipment that stands by or works has in Current.txt what it works with,
\* whenever it crashed before, be it in the middle of a write: CONFIG_MODE
\* never reads a torn file, and a stop and start change nothing.
FileIsCurrent ==
    \A e \in Equipment : mode[e] \in {"standby", "idle"} => file[e] = current[e]

\* No reconfiguration moves a reservation to another address: a base station
\* finds each UE at its place, and a UE reads its own address as
\* currentMacAddress, after any number of reconfigurations and starts.
Addressed ==
    /\ Len(current[BS].res) = N
    /\ \A u \in Ues : current[BS].res[u].target = u
    /\ \A u \in Ues : Len(current[u].res) = 1 /\ current[u].res[1].target = u

\* The parameters that count for a UE: those it decoded last, unless it booted
\* since. MacController's constructor writes Default.txt's into Current.txt and
\* so forgets what was received before a crash.
InForce(u) == IF received[u] THEN heard[u] ELSE Default[u]

\* A UE that is not in the middle of a reconfiguration works with the
\* reservation and the periodicity it received last, through stops and starts;
\* from a crash on, until it receives again, with those of Default.txt, though
\* Current.txt had the others.
AsReceived ==
    \A u \in Ues : mode[u] \in {"standby", "idle"} =>
       /\ current[u].res = InForce(u).res
       /\ current[u].per = InForce(u).per

\* The two ends agree: when nothing was changed at the CLI since the base
\* station's last take-over, and the SDU it then sent was neither lost nor put
\* behind an older one nor is under way, and neither crashed since, the UE has
\* the reservation and the periodicity of the base station. Changes made
\* between the take-over and the sending, disturbances of earlier SDUs, stops
\* and starts of either do not matter.
Agreement ==
    \A u \in Ues :
       (/\ mode[BS] \in {"standby", "idle"} /\ mode[u] \in {"standby", "idle"}
        /\ ~changed /\ synced[u] /\ link[u] = << >>) =>
          /\ current[u].res[1] = current[BS].res[u]
          /\ current[u].per = current[BS].per

\* ProtocolControl.cpp:126: a UE that received parameters sets them, the MIMO
\* configuration and the transmission power too.
MimoAsReceived ==
    \A u \in Ues : mode[u] \in {"standby", "idle"} =>
       /\ current[u].radio[1].mimo = InForce(u).radio[1].mimo
       /\ current[u].radio[1].tpc = InForce(u).radio[1].tpc
=============================================================================
