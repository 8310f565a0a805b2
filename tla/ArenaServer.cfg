SPECIFICATION FairArenaSpec
CHECK_DEADLOCK FALSE
CONSTANTS
    Period = 2
    MaxTime = 6
    MaxClients = 2
INVARIANTS
    ArenaTypeOK
    NoCatchUpBurst
    NeverAheadOfTime
    AtMostOneTickAfterStop
    StopIsNotSleptThrough
    EveryTickIsPlayedOnce
    GameTimeIsLoopTime
PROPERTIES
    StopEndsTheThread
    ShutdownCompletes
