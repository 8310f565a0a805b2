SPECIFICATION Spec
CHECK_DEADLOCK FALSE
CONSTANTS
    MaxMessages = 2
    MaxBatch = 1
INVARIANTS
    DeliveredIntact
