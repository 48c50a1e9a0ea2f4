----------------------------- MODULE MCSession ------------------------------
(* Model values for the run of Session. *)
EXTENDS Session

CONSTANTS k1, k2
=============================================================================
