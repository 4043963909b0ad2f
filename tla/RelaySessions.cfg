SPECIFICATION FairSpec
CONSTANTS
  Clients = {c1, c2}
  LastPath = 1
  PoolSize = 2
  Indices = {i1, i2}
  Tries = 2
  MayDuplicate = TRUE
  MaxDials = 1
  MaxSessions = 2
INVARIANTS
  TypeOK
  TablesAgree
  OneAddressPerClient
  PathsJoinBeforeUse
PROPERTIES
  DialEnds
  SilentPathsDie
CHECK_DEADLOCK FALSE
