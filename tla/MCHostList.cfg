\* Four bots, any of which may be closed, restarted or spawned again; the
\* stack has room for one more call of massRestart() than there are bots.
SPECIFICATION FairSpec
CONSTANTS
    a = a  b = b  c = c  d = d  NoHost = NoHost
    Host = {a, b, c, d}
    Commands = {"close", "remote close", "closeall", "restart", "spawn", "00 07"}
    MaxSpawns = 4
    MaxStack = 5
INVARIANTS WalkIsSound
PROPERTIES CloseLeavesOne EveryHostServed
CHECK_DEADLOCK FALSE
