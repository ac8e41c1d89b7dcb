CONSTANTS
    Keys = {k1, k2}
    Plans = {p1}
    MaxTick = 1
    MaxGeneration = 3
    MaxSequence = 2
    MaxWall = 1
    PREPARE_LIFETIME = 1
    MAX_RECORDS = 2
    NoRecord = NoRecord
    NoReceipt = NoReceipt
    NoReply = NoReply
SPECIFICATION BridgeSpec
SYMMETRY KeySymmetry
INVARIANT BridgeTypeOK
INVARIANT OneClaimPerRecord
PROPERTY NoStaleSetter
PROPERTY ReceiptIsFinal
