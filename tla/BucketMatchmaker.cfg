SPECIFICATION FairSpec
CHECK_DEADLOCK FALSE
CONSTANTS
    Player = {p1, p2, p3}
    Elo = {0, 2, 3}
    Region = {AnyRegion}
    AnyRegion = AnyRegion
    BaseTolerance = 1
    ToleranceStep = 2
    StepSeconds = 1
    MaxOrder = 3
    MaxArrival = 1
    Times = {0, 1, 2}
PROPERTIES
    IsMatchmaker
    NoCompatiblePairStarves
INVARIANTS
    BucketsAndIndexAgree
