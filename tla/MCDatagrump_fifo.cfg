\* A network that keeps the order and may lose, with a receiver that stays.
SPECIFICATION Spec
CONSTANTS
    WordSize = 16
    FieldSize = 2
    ByteSize = 4
    Windows = {0, 1, 3}
    PayloadLength = 2
    Writability = {TRUE}
    Reordering = FALSE
    MaxSeq = 4
    MaxTime = 1
    MaxLoss = 1
    MaxDup = 0
    MaxStops = 0
INVARIANTS
    OrderInv
    OutstandingIsInFlight
    InFlightIsBounded
    MessagesSurviveTheWire
    ShortDatagramsAreRefused
PROPERTIES
    AcksComeAsExpected
CHECK_DEADLOCK FALSE
