\* One guild, channel and user, two threads: five events are enough to leave the
\* guild, join it again and let three more overlap.
SPECIFICATION FairSpec
CONSTANTS
    g1 = g1  u1 = u1  c1 = c1  t1 = t1  t2 = t2
    Guild = {g1}
    User = {u1}
    Channel = {c1}
    Thread = {t1, t2}
    Nobody = Nobody
    MaxEvents = 5
INVARIANTS MembersJoined
PROPERTY HandlersEnd
CHECK_DEADLOCK FALSE
