SPECIFICATION Spec
CONSTANTS
  DegradeLoss = 15
  MissedProbesToDegrade = 3
  HealthyProbesToUndegrade = 3
  PathDeadTimeout = 4
  MaxSent = 1
  MaxFlight = 1
INVARIANT
  NoUnprobedPath
