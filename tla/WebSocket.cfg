SPECIFICATION FairSpec
CONSTANTS
    Messages = {m1, m2}
    None = None
    Tls = TRUE
    MaxEndpoints = 2
    MaxSends = 2
    MaxCloses = 2
INVARIANTS TypeOK StillListening OpenIsWatched
PROPERTIES KeepsContract CloseEnds DeadPeerIsNoticed SentOrEnded
CHECK_DEADLOCK FALSE
