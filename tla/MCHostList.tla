----------------------------- MODULE MCHostList -----------------------------
(* Model values for the runs of HostList. *)
EXTENDS HostList

CONSTANTS a, b, c, d
=============================================================================
