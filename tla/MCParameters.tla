---------------------------- MODULE MCParameters ----------------------------
(***************************************************************************)
(* A base station and two user equipments. Default.txt and the CLI differ   *)
(* in every field that the properties tell apart.                           *)
(***************************************************************************)
EXTENDS Parameters

MimoOn  == [conf |-> 1, diversity |-> 0, antenna |-> 1, closedLoop |-> 0,
            precoding |-> 11]
MimoOff == [conf |-> 0, diversity |-> 1, antenna |-> 0, closedLoop |-> 1,
            precoding |-> 0]

ResOf(u, f) == [target |-> u, first |-> f, number |-> 20]

MCDefault ==
    [e \in {0, 1, 2} |->
       [res   |-> IF e = 0 THEN << ResOf(1, 0), ResOf(2, 20) >>
                  ELSE << ResOf(e, 20 * (e - 1)) >>,
        radio |-> [i \in 1 .. IF e = 0 THEN 2 ELSE 1 |->
                     [mimo |-> MimoOff, tpc |-> 1,
                      mcs |-> IF i = 2 THEN 3 ELSE 9]],
        per   |-> 2]]

MCAllocations == {[first |-> 100, number |-> 32]}
MCRadios      == {[mimo |-> MimoOn, tpc |-> 200]}
MCPeriods     == {1, 3}

(***************************************************************************)
(* The messages at the limits of their fields.                              *)
(***************************************************************************)
Luts     == {[fill |-> [k \in 1 .. 16 |-> 9 * k + l], last |-> l] :
                l \in {0, 15}}
Reserved == {[target |-> t, first |-> f, number |-> 132] :
                t \in {0, 255}, f \in {0, 131}}

\* Every BSSubframeTx.Start for up to three reservations is what its inverse
\* reads from its bytes: the number of reservations is not in the message, it
\* follows from the size of the message. Without state, evaluated in Init only.
StartMessagesInvert ==
    Init =>
    \A n \in 0 .. 3 : \A r \in [1 .. n -> Reserved] : \A l \in Luts :
    \A x \in {0, 9, 15} : \A g \in {0, 1} :
       LET m == [numUEs |-> n, numPDUs |-> 255, res |-> r, fLut |-> l,
                 numerology |-> x, gfdm |-> g, per |-> 15 - x]
       IN  deserializeBsTx(serializeBsTx(m)) = m
=============================================================================
