CONSTANTS
    Keys = {k1}
    Plans = {p1}
    MaxTick = 0
    MaxGeneration = 2
    MaxSequence = 1
    MaxWall = 0
    PREPARE_LIFETIME = 1
    MAX_RECORDS = 1
    MAX_TRANSITIONS = 4
    MAX_EFFECTS = 1
    MaxLate = 0
    NoRecord = NoRecord
    NoReceipt = NoReceipt
    NoEvidence = NoEvidence
    NoReply = NoReply
    NoMsg = NoMsg
    NoConn = NoConn
SPECIFICATION FairSpec
PROPERTY UnresolvedIsReconciled
\* a saturated bridge generation serves no call, a full journal takes no record
CHECK_DEADLOCK FALSE
