\* Bursts and silences, round trips of less than a millisecond, short and long,
\* and a clock that passes half the size of an int.
SPECIFICATION Spec
CONSTANTS
    PacketSize = 12
    NumSamples = 3
    MaxDouble = 1000
    Scale = 100
    IntSize = 12
    Rtts = {0, 1, 2}
    Gaps = {0, 1, 2}
    MaxSent = 4
    MaxAcks = 5
    MaxDup = 1
INVARIANTS
    IInv
    RateCountsPreviousAcks
PROPERTIES
    SpikesAreSeenLate
    LossKeepsDraining
CHECK_DEADLOCK FALSE
