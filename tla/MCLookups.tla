------------------------------ MODULE MCLookups -----------------------------
(* Model values and constraints for the runs of Lookups. *)
EXTENDS Lookups

CONSTANTS u1, u2

\* Commands are numbered as they are given and nothing happens until each looks
\* at the cooldowns: the order in which they are given says nothing.  The third
\* is a command of its own kind or the second once more, but no lookup.
OneOrder ==
    /\ commands > 0 => about[1].user = u1
    /\ commands > 1 => about[1].cmd = "find" \/ about[2].cmd = "help"
    /\ commands > 2 => about[3] = [user |-> u2, cmd |-> "help"]
=============================================================================
