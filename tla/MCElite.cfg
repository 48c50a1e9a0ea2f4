SPECIFICATION Spec
CONSTANTS
    Id = {i1, i2}
    NoId = NoId
    Name = {n1, n2}
    Thread = {t1, t2}
    Game = Game
    Earlier <- EarlierFiles
    MaxCodes = 1
    MaxJobs = 3
SYMMETRY Interchangeable
INVARIANT CacheIsFile
CHECK_DEADLOCK FALSE
