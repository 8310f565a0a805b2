SPECIFICATION FairSpec
CHECK_DEADLOCK FALSE
CONSTANTS
    MaxMessages = 5
    MaxBatch = 3
INVARIANTS
    TypeOK
    OneWriteAtATime
    NothingLostOrReordered
PROPERTIES
    IsFifoChannel
