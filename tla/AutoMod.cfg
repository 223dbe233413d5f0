SPECIFICATION FairSpec
CONSTANTS
  Keys = {m1, m2}
  Accounts = {a1, a2}
  Nobody = Nobody
  Other = Other
  Reviewed = {m1}
  MaxItems = 1
  MaxGeneration = 2
  MaxSwitches = 1
INVARIANTS TypeOK OnePunishment PunisherIsDenier ShownIsRunning SettledIsRight PunishmentFollows
PROPERTY EveryActionSettles
