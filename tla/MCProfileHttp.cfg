SPECIFICATION Spec
CHECK_DEADLOCK FALSE
CONSTANTS
    Player = {p1, p2, p3}
    Health = 1
    LogCapacity = 4
    MaxHits = 4
    Default = 1
    MaxPage = 2
    MaxUlong = 4
SYMMETRY Symmetry
INVARIANTS
    LeaderboardIsRanking
    EveryDeathIsOneDuel
    PagesAreRankings
PROPERTIES
    RatingsAreConserved
