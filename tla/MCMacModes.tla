----------------------------- MODULE MCMacModes ----------------------------
(***************************************************************************)
(* MacModes with one attached equipment, hence one timeout thread.           *)
(***************************************************************************)
EXTENDS MacModes

AnyValue == [tx  : {"ACTIVE", "DISABLED"}, rx : {"ACTIVE", "DISABLED"},
             tun : {"ENABLED", "DISABLED"}]

\* The memory of the controller is all zeros.
Zeros == {[tx |-> "ACTIVE", rx |-> "ACTIVE", tun |-> "ENABLED"]}
=============================================================================
