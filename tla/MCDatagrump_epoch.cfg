\* The first send timestamp against the comment of timestamp_ms().
SPECIFICATION Spec
CONSTANTS
    WordSize = 16
    FieldSize = 2
    ByteSize = 4
    Windows = {1}
    PayloadLength = 1
    Writability = {TRUE}
    Reordering = TRUE
    MaxSeq = 1
    MaxTime = 1
    MaxLoss = 0
    MaxDup = 0
    MaxStops = 0
INVARIANTS
    TimestampsSinceStart
CHECK_DEADLOCK FALSE
