---------------------------- MODULE SduTransport ----------------------------
(***************************************************************************)
(* What a multiplexer owes its callers: per destination a FIFO channel for   *)
(* control SDUs and one for data SDUs. A transmission empties both at once   *)
(* and delivers the controls, then the data, each in the order of arrival.   *)
(***************************************************************************)
EXTENDS Sequences

CONSTANTS Dests, Sdu

VARIABLES control, data, delivered

TransportInit ==
    /\ control   = [d \in Dests |-> << >>]
    /\ data      = [d \in Dests |-> << >>]
    /\ delivered = [d \in Dests |-> << >>]

AcceptControl(d, s) ==
    /\ s.control
    /\ control' = [control EXCEPT ![d] = Append(@, s)]
    /\ UNCHANGED <<data, delivered>>

AcceptData(d, s) ==
    /\ ~s.control
    /\ data' = [data EXCEPT ![d] = Append(@, s)]
    /\ UNCHANGED <<control, delivered>>

\* Something is transmitted: never an empty batch.
Transmit(d) ==
    /\ control[d] \o data[d] # << >>
    /\ delivered' = [delivered EXCEPT ![d] = Append(@, control[d] \o data[d])]
    /\ control' = [control EXCEPT ![d] = << >>]
    /\ data' = [data EXCEPT ![d] = << >>]

TransportNext ==
    \E d \in Dests :
       \/ \E s \in Sdu : AcceptControl(d, s) \/ AcceptData(d, s)
       \/ Transmit(d)

Spec == TransportInit /\ [][TransportNext]_<<control, data, delivered>>
=============================================================================
