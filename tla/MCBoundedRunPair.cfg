CONSTANTS
    Keys = {k1, k2}
    GameTicks = {1}
    WallMs = {1}
    MaxTick = 1
    MaxNow = 1
    MaxGeneration = 2
    MaxSequence = 2
    PREPARE_LIFETIME = 1
    MAX_RECORDS = 2
    NoRecord = NoRecord
    NoKey = NoKey
SPECIFICATION RunSpec
SYMMETRY KeySymmetry
CHECK_DEADLOCK FALSE
INVARIANT RunInvariant
INVARIANT NoUnloadWhileOwning
PROPERTY UnpausesOnlyWhatWasPrepared
