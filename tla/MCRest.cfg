\* Two private messages and two io threads, so that both may wait.
SPECIFICATION RestFairSpec
CONSTANTS
    dm1 = dm1  dm2 = dm2  io1 = io1  io2 = io2  none = none
    Dms = {dm1, dm2}
    Threads = {io1, io2}
    None = none
INVARIANTS RestTypeOK SentOnce 
PROPERTIES EveryMessageEnds
CONSTRAINT MayEnd
CHECK_DEADLOCK FALSE
