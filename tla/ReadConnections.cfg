SPECIFICATION FairSpec
CONSTANTS
  Names = {n1, n2, n3}
  Budget = 1
  PerConnection = 2
  MaxConnections = 2
  MaxQueue = 1
  MaxFaults = 2
INVARIANTS TypeOK LossIsPursued JoinedOrQueued PoolIsTidy
PROPERTY EveryChannelIsHeard
