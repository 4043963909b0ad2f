SPECIFICATION FairSpec
CONSTANTS
  Clients = {c1}
  LastPath = 1
  PoolSize = 2
  Indices = {i1, i2}
  Tries = 2
  MayDuplicate = FALSE
  MaxDials = 2
  MaxSessions = 2
PROPERTY EverySessionDrained
CHECK_DEADLOCK FALSE
