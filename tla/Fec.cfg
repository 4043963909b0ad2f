SPECIFICATION FairSpec
CONSTANTS
  K = 3
  MaxRedundancy = 500
  LossScale = 5
  Losses = {0, 200}
  MaxPackets = 4
CHECK_DEADLOCK FALSE
INVARIANTS
  TypeOK
  RecoveredAsSent
  PlacesUnique
  ParityAfterData
PROPERTIES
  ParityRecovers
  GenerationCloses
