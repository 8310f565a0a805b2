SPECIFICATION FairSpec
CHECK_DEADLOCK FALSE
CONSTANTS
    Session = {s1, s2, s3}
    Player = {p1, p2}
    NoSession = NoSession
    NoPlayer = NoPlayer
    Malformed = Malformed
    MaxSeq = 0
    Sends <- AnythingUpToNames
PROPERTIES
    NoPairKeepsWaiting
    EndedSessionsAreReleased
