----------------------------- MODULE MCGateway ------------------------------
(* Model values for the runs of Gateway. *)
EXTENDS Gateway

CONSTANTS s1, s2, null

StartOrder == <<s1, s2>>

\* The properties of the passing run speak of behaviours in which attempts have
\* not met: what comes after the step that makes them meet need not be looked at.
NotCrossed == crossed = {}
=============================================================================
