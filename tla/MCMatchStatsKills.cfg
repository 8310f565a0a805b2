SPECIFICATION Spec
CHECK_DEADLOCK FALSE
CONSTANTS
    Player = {p1, p2}
    Health = 2
    LogCapacity = 32
    MaxHits = 4
SYMMETRY Symmetry
INVARIANTS
    KillsAreCumulative
