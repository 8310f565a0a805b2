SPECIFICATION Spec
CHECK_DEADLOCK FALSE
CONSTANTS
    Player = {p1, p2, p3, p4}
    Elo = {0, 2}
    Region = {AnyRegion, eu, us}
    AnyRegion = AnyRegion
    BaseTolerance = 1
    ToleranceStep = 1
    StepSeconds = 2
    MaxOrder = 4
    MaxArrival = 1
    Times = {0, 1, 3}
SYMMETRY Symmetry
INVARIANTS
    TypeOK
    MatchesAreMutual
    NobodyIsMatchedTwice
    
    NoAcceptablePairIsLeft
