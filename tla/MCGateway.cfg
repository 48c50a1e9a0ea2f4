\* Two shards that share the queue and the limit on identifies; an attempt may
\* take three ticks and its fourth ends it, a heartbeat one.
SPECIFICATION GwFairSpec
CONSTANTS
    s1 = s1  s2 = s2  null = null
    Shards = {s1, s2}
    NoShard = null
    ConnectLimit = 4
    BeatLimit = 1
    AuthDelay = 1
    MaxResets = 2
    Start <- StartOrder
CONSTRAINT NotCrossed
INVARIANTS  NeverLost
PROPERTIES IdentifySpaced BackOnline
CHECK_DEADLOCK FALSE
