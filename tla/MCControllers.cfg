\* Round trips below, near and far above the initial average of 50 ms.
SPECIFICATION Spec
CONSTANTS
    Scale = 100
    InitialCwnd = 3
    NumSamples = 4
    MaxDouble = 1000
    Rtts = {40, 60, 90, 150}
    MaxAcks = 6
    MaxTimeouts = 3
INVARIANTS
    IInv
    WindowsStayOpen
    AimdGrowsSlowly
    ExDGrowsSlowly
    AverageAboveLowest
    SameUntilForgotten
    NeverLaxerThanExD
PROPERTIES
    OnlyLongRoundTripsShrink
CHECK_DEADLOCK FALSE
