SPECIFICATION FairSpec
CONSTANTS
    Subs = {s1, s2, s3}
    s1 = s1
    s2 = s2
    s3 = s3
    MaxSubscriptions = 2
    MaxClients = 5
    MaxFaults = 2
    MaxJoins = 4
INVARIANTS
    TypeOK
    OnePlaceEach
    NothingIsLost
    BacklogIsPursued
PROPERTIES
    WantedIsServed
CHECK_DEADLOCK FALSE
