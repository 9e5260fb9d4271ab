\* The estimated rate against what the receiver can have seen.
SPECIFICATION LHSpec
CONSTANTS
    WordSize = 64
    Windows = {0, 1, 2, 3, 4}
    PayloadLength = 1
    Writability = {TRUE}
    Reordering = FALSE
    MaxSeq = 3
    MaxTime = 2
    MaxLoss = 0
    MaxDup = 0
    MaxStops = 0
    Scale = 10
    UnsignedSize = 8
    MaxWindowSize = 4
    MinWindowSize = 3
    InitialRtt = 5
INVARIANTS
    RateWasSeen
CHECK_DEADLOCK FALSE
