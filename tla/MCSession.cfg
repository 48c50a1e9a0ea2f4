\* Two keys: the session's, one of an earlier session still on the wire, and
\* one to restart with.  The connection is retried once before the silence is
\* noticed.
SPECIFICATION FairSpec
CONSTANTS
    k1 = k1  k2 = k2  NoKey = NoKey
    Key = {k1, k2}
    MaxTries = 2
    RetryAfter = 1
    SilenceLimit = 2
    MaxWire = 2
INVARIANTS OwnSession TriesRunOut
PROPERTIES Reconnects
CHECK_DEADLOCK FALSE
