\* What a higher delivery rate adds to the window.
SPECIFICATION Spec
CONSTANTS
    PacketSize = 12
    NumSamples = 3
    MaxDouble = 1000
    Scale = 100
    IntSize = 100
    Rtts = {1, 2}
    Gaps = {0, 1, 2}
    MaxSent = 3
    MaxAcks = 5
    MaxDup = 0
PROPERTIES
    RateGainIsRewarded
CHECK_DEADLOCK FALSE
