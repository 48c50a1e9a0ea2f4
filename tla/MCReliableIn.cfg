\* Three messages with distinguishable bodies: two of them may arrive early,
\* in any order, any number of times.
SPECIFICATION FairSpec
CONSTANTS
    d1 = d1  d2 = d2
    Data = {d1, d2}
    MaxSteps = 3
INVARIANTS AckedIsHeld WaitsForLost
PROPERTIES LinkSpec AllAcknowledged
CHECK_DEADLOCK FALSE
