---------------------------- MODULE MCReliableIn ----------------------------
(* Model values for the run of ReliableIn. *)
EXTENDS ReliableIn

CONSTANTS d1, d2
=============================================================================
