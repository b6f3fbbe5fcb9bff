SPECIFICATION Spec
CONSTANTS
  Horizon = 24
  StackLimit = 24
  MaxDelay = 2
  MaxLag = 1
  MaxPeriodOffset = 1
  MaxPeriodScale = 2
  Shifting = {TRUE, FALSE}
  Programs <- MCPrograms
  Options <- MCOptions
INVARIANTS
  TypeOK
  WritesAreRead
  NothingMissing
  AccessesRepeat
  WrappingKeepsApart
  StackIsTransient
  RejectedForGoodReason
  LatenciesSuffice
CHECK_DEADLOCK FALSE
