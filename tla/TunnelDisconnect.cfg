SPECIFICATION FairSpec
CONSTANTS
  Paths = {p1}
  MaxConnects = 1
CHECK_DEADLOCK FALSE
PROPERTIES
  DisconnectTearsDown
