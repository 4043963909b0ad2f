SPECIFICATION FairSpec
CONSTANTS
  DegradeLoss = 5
  MissedProbesToDegrade = 3
  HealthyProbesToUndegrade = 2
  PathDeadTimeout = 2
  MaxSent = 1
  MaxFlight = 1
INVARIANTS
  TypeOK
  MissesDegrade
PROPERTIES
  GivenUpStaysDead
  DegradedRecovers
  SilenceKills
