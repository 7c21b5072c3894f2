CONSTANTS
    Peers = {a, b}
    AnyRank = any
    Tags = {t, w}
    Warmup = w
    MaxMsgs = 3
    MaxReqs = 3
    MaxPurges = 1
SPECIFICATION Spec
SYMMETRY PeerSymmetry
INVARIANTS
    NoMessageLostOrDuplicated
    NoStrandedMessage
    ReceivesNeverOverlap
    OvertakesOnlyTheParked
CHECK_DEADLOCK FALSE
