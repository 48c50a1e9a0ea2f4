SPECIFICATION TrFairSpec
CONSTANTS
    chat = chat
    list = list
    level = level
    archive = archive
    Small = {chat, list}
    Files = {level, archive}
    Size <- Lengths
    LittleLimit = 2
    LargeLimit = 4
    PieceMax = 2
    MaxSends = 3
    MaxSessions = 2
    Window = 3
INVARIANTS TrTypeOK NeverMixed HandledOnce
PROPERTY ChannelFairSpec
CHECK_DEADLOCK FALSE
