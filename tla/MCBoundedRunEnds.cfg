CONSTANTS
    Keys = {k1}
    GameTicks = {1}
    WallMs = {1}
    MaxTick = 1
    MaxNow = 1
    MaxGeneration = 3
    MaxSequence = 2
    PREPARE_LIFETIME = 1
    MAX_RECORDS = 1
    NoRecord = NoRecord
    NoKey = NoKey
SPECIFICATION FairRunSpec
CHECK_DEADLOCK FALSE
PROPERTY EveryRunEnds
PROPERTY DrainCompletes
