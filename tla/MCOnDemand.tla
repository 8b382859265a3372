----------------------------- MODULE MCOnDemand -----------------------------
(***************************************************************************)
(* Small instances of OnDemand for TLC: two threads of /scan_on.           *)
(***************************************************************************)
EXTENDS OnDemand

CONSTANTS first_on, second_on
=============================================================================
