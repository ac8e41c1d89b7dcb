CONSTANTS
    Keys = {k1}
    Plans = {p1}
    MaxTick = 1
    MaxGeneration = 3
    MaxSequence = 2
    MaxWall = 0
    PREPARE_LIFETIME = 1
    MAX_RECORDS = 2
    MAX_TRANSITIONS = 4
    MAX_EFFECTS = 2
    MaxLate = 1
    NoRecord = NoRecord
    NoReceipt = NoReceipt
    NoEvidence = NoEvidence
    NoReply = NoReply
    NoMsg = NoMsg
    NoConn = NoConn
SPECIFICATION Spec
INVARIANT TypeOK
INVARIANT AtMostOneSetter
INVARIANT IntentBeforeSetter
INVARIANT VerifiedOutcomeIsTrue
INVARIANT ReportedSurvives
INVARIANT SafetyInvariant
PROPERTY JournalOnlyAdvances
CHECK_DEADLOCK FALSE
