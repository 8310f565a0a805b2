SPECIFICATION FlightSpec
CHECK_DEADLOCK FALSE
CONSTANTS
    Player = {p1, p2, p3}
    Nobody = Nobody
    MaxHealth = 3
    Damage = 2
    Cooldown = 2
    Lifetime = 3
    MaxDelta = 2
    MaxTime = 3
    MaxShots = 3
    MaxSeq = 0
    Aim <- MCAim
    Move <- MCMove
    SpawnOffset = 12
    Speed = 20
    Reach = 140
    Places <- MCPlaces
SYMMETRY Symmetry
INVARIANTS
    FlightTypeOK
    HitsNeverExceedShots
    FireRateLimited
    WayIsAge
PROPERTIES
    EachDeathCountsOnce
    TheDeadStayDead
    ContactDecides
