--------------------------- MODULE MCMultiplexer ---------------------------
(***************************************************************************)
(* Instances of Multiplexer for TLC. With MaxNumberBytes = 16 an empty PDU   *)
(* holds an SDU of at most 12 bytes.                                         *)
(***************************************************************************)
EXTENDS Multiplexer

Data(i, n, mac)    == [id |-> i, size |-> n, control |-> FALSE, mac |-> mac]
Control(i, n, mac) == [id |-> i, size |-> n, control |-> TRUE, mac |-> mac]

\* A base station with the UEs 1 and 2: SDUs that share a PDU, that exceed the
\* bytes left, that exceed the number of SDUs, that no PDU holds (size 13) and
\* one for an address without a queue.
BsSdus ==
    {Data(1, 2, 1), Data(2, 5, 1), Data(3, 12, 1), Data(4, 13, 1),
     Control(5, 1, 1), Control(6, 6, 1), Data(7, 3, 2), Data(8, 1, 255)}

\* One of them has a lookup that may return anything.
BsMisread == {Data(7, 3, 2)}

\* A UE: data for the base station, for another UE and for an unknown address
\* go to the same queue.
UeSdus ==
    {Data(1, 2, 0), Data(2, 5, 2), Data(3, 12, 0), Data(4, 13, 0),
     Control(5, 1, 0), Control(6, 3, 0), Data(7, 3, 255)}
=============================================================================
