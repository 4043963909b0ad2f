SPECIFICATION FairSpec
CONSTANTS
  Paths = {p1, p2}
  MaxConnects = 1
CHECK_DEADLOCK FALSE
INVARIANTS
  TypeOK
  WorkersNeverBlock
  ClosedOnExit
PROPERTIES
  AwaitExitReturns
  CloseLeavesNothing
