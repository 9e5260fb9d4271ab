\* Only the sender is fair: the network may lose or hold back everything, the
\* receiver may stop and be started again.  Two properties assume more of both.
SPECIFICATION SenderFairSpec
CONSTANTS
    WordSize = 16
    FieldSize = 2
    ByteSize = 4
    Windows = {0, 2}
    PayloadLength = 1
    Writability = {TRUE, FALSE}
    Reordering = TRUE
    MaxSeq = 3
    MaxTime = 0
    MaxLoss = 1
    MaxDup = 0
    MaxStops = 2
INVARIANTS
    SenderOutlivesReceiver
PROPERTIES
    KeepsMoving
    EverySentIsAcked
    SenderNoticesStop
CHECK_DEADLOCK FALSE
