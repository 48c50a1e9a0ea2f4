------------------------------ MODULE MCArena -------------------------------
(* Model values for the runs of Arena; addresses are interchangeable. *)
EXTENDS Arena, TLC

CONSTANTS p1, p2, p3, i1, i2, public, private

Addresses == Permutations({p1, p2, p3})
=============================================================================
