------------------------------ MODULE LossyFifo ------------------------------
(***************************************************************************)
(* What the data path promises for each sender: packets arrive in the order *)
(* in which they were accepted, none twice and none that the sender did not *)
(* send, but for what a counted fault does: with each, one run of the       *)
(* packets under way may get lost, come twice or come late. Several packets *)
(* may arrive together.                                                     *)
(***************************************************************************)
EXTENDS Naturals, Sequences

CONSTANTS
    Senders,
    Packets         \* what each sender may send

VARIABLES transit, delivered, faults

vars == <<transit, delivered, faults>>

Init ==
    /\ transit = [u \in Senders |-> << >>]
    /\ delivered = [u \in Senders |-> << >>]
    /\ faults = 0

(***************************************************************************)
(* The packets s under way become t, the packets d that arrived become e,   *)
(* with n faults.                                                           *)
(***************************************************************************)
Accept(P, s, t, d, e, n) ==
    /\ e = d /\ n = 0
    /\ \E p \in P : t = Append(s, p)

\* The packets x are lost, or are overtaken by the packets y behind them, or
\* come once more after these.
Disturb(s, t, d, e, n) ==
    /\ e = d /\ n = 1
    /\ \E i \in 0 .. Len(s) : \E j \in i .. Len(s) : \E k \in j .. Len(s) :
          LET x == SubSeq(s, i + 1, j)
              y == SubSeq(s, j + 1, k)
          IN  \E m \in {y, y \o x, x \o (y \o x)} :
                 t = SubSeq(s, 1, i) \o (m \o SubSeq(s, k + 1, Len(s)))

Deliver(s, t, d, e, n) ==
    /\ n = 0
    /\ Len(t) < Len(s)
    /\ e \o t = d \o s

Step(P, s, t, d, e, n) ==
    Accept(P, s, t, d, e, n) \/ Disturb(s, t, d, e, n) \/ Deliver(s, t, d, e, n)

Next ==
    \E u \in Senders :
       /\ \A v \in Senders \ {u} :
             transit'[v] = transit[v] /\ delivered'[v] = delivered[v]
       /\ Step(Packets[u], transit[u], transit'[u], delivered[u],
               delivered'[u], faults' - faults)

Spec == Init /\ [][Next]_vars
=============================================================================
