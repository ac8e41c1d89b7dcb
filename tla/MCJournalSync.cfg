CONSTANTS
    Keys = {k1, k2}
    Plans = {p1}
    MaxTick = 0
    MaxGeneration = 2
    MAX_TRANSITIONS = 4
    MAX_EFFECTS = 2
    NoRecord = NoRecord
    NoEvidence = NoEvidence
SPECIFICATION JournalSpec
SYMMETRY KeySymmetry
INVARIANT VerifiedIsSyncedBeforeAcknowledged
CHECK_DEADLOCK FALSE
