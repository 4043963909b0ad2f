SPECIFICATION Spec
CONSTANTS
  N = 3
  RTTs = {0, 20, 22, 35}
  Goodputs = {0, 1, 2, 4}
  LossRates = {0, 1}
  Raise = 200
  Decay = 50
  LambdaMin = 50
  LambdaMax = 400
  DupFactor = 2
  MaxWeight = 4
  WaitBound = 24
INVARIANTS
  TypeOK
  EveryChoiceSound
  NoStarvation
  CreditsSumToZero
  WeightedBounded
