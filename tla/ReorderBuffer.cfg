CONSTANTS
  MaxGSN = 4
  MaxBytes = 3
  OutCap = 2
  Offset <- MCOffset
SPECIFICATION FairSpec
INVARIANTS
  TypeOK
  Conservation
  NothingReleasableHeld
  TimerCoversHead
  CurBytesExact
PROPERTIES
  OverBudgetNeverGrows
  ImplementsOrderedDelivery
  HeldPacketsLeave
