\* A window of two places and three messages, one of which waits for a place;
\* one call of post() may split into two fragments.
SPECIFICATION FairSpec
CONSTANTS
    d1 = d1  d2 = d2  frag = frag
    Data = {d1, d2}
    Long = {}
    Frag = frag
    MaxInTransit = 2
    MaxSteps = 3
    MaxBurst = 2
CONSTRAINT OneOrder
INVARIANTS QueueDiscipline NothingForgotten
PROPERTIES LinkFairSpec AllAcknowledged
CHECK_DEADLOCK FALSE
