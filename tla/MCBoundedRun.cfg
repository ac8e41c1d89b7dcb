CONSTANTS
    Keys = {k1}
    GameTicks = {2}
    WallMs = {1}
    MaxTick = 2
    MaxNow = 2
    MaxGeneration = 3
    MaxSequence = 2
    PREPARE_LIFETIME = 1
    MAX_RECORDS = 1
    NoRecord = NoRecord
    NoKey = NoKey
SPECIFICATION RunSpec
CHECK_DEADLOCK FALSE
INVARIANT RunTypeOK
INVARIANT OneClockOwner
 
INVARIANT NoUnloadWhileOwning
INVARIANT NeverPausesAReplacement
INVARIANT RunInvariant
PROPERTY StoppedMeansPaused
PROPERTY UnpausesOnlyWhatWasPrepared
PROPERTY OutcomesAreFinal
PROPERTY RunsWithinLimits
