\* A network that duplicates and reorders, and holds back for ever what it likes:
\* for safety that is a loss (MaxLoss bounds the step that names it).
SPECIFICATION Spec
CONSTANTS
    WordSize = 16
    FieldSize = 2
    ByteSize = 4
    Windows = {0, 2}
    PayloadLength = 1
    Writability = {TRUE}
    Reordering = TRUE
    MaxSeq = 3
    MaxTime = 1
    MaxLoss = 0
    MaxDup = 1
    MaxStops = 0
INVARIANTS
    IInv
    NoWindowUnderflow
    RoundTripIsTrue
PROPERTIES
    NextAckNeverMovesBack
    ImplementsAckedDelivery
CHECK_DEADLOCK FALSE
