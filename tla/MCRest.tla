-------------------------------- MODULE MCRest --------------------------------
(* Model values and the bound for the run of Rest. *)
EXTENDS Rest, TLC

CONSTANTS dm1, dm2, io1, io2, none

\* A behaviour is followed up to the step in which it crashes or forgets a
\* continuation: EveryMessageEnds asks nothing of it from there on.  Messages
\* are alike: the calls of one of them may fail, those of the other succeed.  No
\* guard reads `accepted`: a call that sends fails after Discord has sent the
\* message, which is the harder case, and one that opens a channel before.
MayEnd ==
    /\ ~crashed /\ \A d \in Dms : outer[d] # "lost"
    /\ \A t \in Threads : actor[t].at = "load" /\ actor[t].value = "error" =>
          LET c == actor[t].call IN c[1] = dm1 /\ (accepted[c] > 0 <=> c = Send(dm1))
=============================================================================
