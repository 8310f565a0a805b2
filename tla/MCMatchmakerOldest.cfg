SPECIFICATION Spec
CHECK_DEADLOCK FALSE
CONSTANTS
    Player = {p1, p2, p3, p4}
    Elo = {0, 2}
    Region = {AnyRegion, eu, us}
    AnyRegion = AnyRegion
    BaseTolerance = 1
    ToleranceStep = 1
    StepSeconds = 1
    MaxOrder = 4
    MaxArrival = 1
    Times = {0, 1}
SYMMETRY Symmetry
INVARIANTS
    OldestAreMatchedFirst
