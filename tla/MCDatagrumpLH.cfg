\* Every window of the controller, with losses, duplicates and a restart.
SPECIFICATION LHSpec
CONSTANTS
    WordSize = 64
    Windows = {0, 1, 2}
    PayloadLength = 1
    Writability = {TRUE}
    Reordering = TRUE
    MaxSeq = 3
    MaxTime = 1
    MaxLoss = 2
    MaxDup = 1
    MaxStops = 1
    Scale = 10
    UnsignedSize = 8
    MaxWindowSize = 1
    MinWindowSize = 1
    InitialRtt = 3
INVARIANTS
    IInv
    LHInv
    OutstandingLeaks
    LossClosesTheWindow
CHECK_DEADLOCK FALSE
