CONSTANTS
    Keys = {k1, k2}
    Plans = {p1}
    MaxTick = 0
    MaxGeneration = 2
    MaxSequence = 2
    MaxWall = 0
    PREPARE_LIFETIME = 1
    MAX_RECORDS = 2
    MAX_TRANSITIONS = 4
    MAX_EFFECTS = 2
    MaxLate = 0
    NoRecord = NoRecord
    NoReceipt = NoReceipt
    NoEvidence = NoEvidence
    NoReply = NoReply
    NoMsg = NoMsg
    NoConn = NoConn
SPECIFICATION Spec
INVARIANT AtMostOneSetter
INVARIANT IntentBeforeSetter
INVARIANT VerifiedOutcomeIsTrue
INVARIANT ReportedSurvives
CHECK_DEADLOCK FALSE
SYMMETRY KeySymmetry
