CONSTANTS
    NumMessages = 2
    MaxBytes = 2
    HeaderLength = 2
    PacketSizes = {3, 4}
    Reset = {2}
    OutHighWaterMark = 1
    InHighWaterMark = 1
SPECIFICATION FairSpec
INVARIANTS
    TypeOK
    TruncatedIsMarked
    WellPacked
PROPERTIES
    ImplementsChannel
    Arrives
CHECK_DEADLOCK FALSE
