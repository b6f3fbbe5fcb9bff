SPECIFICATION SSpec
CONSTANTS
  Horizon = 30
  StackLimit = 24
  MaxDelay = 2
  MaxLag = 1
  MaxPeriodOffset = 1
  MaxPeriodScale = 2
  Programs <- MCPrograms
  Options <- MCOptions
  MaxPeriods = 9
INVARIANTS
  CodeIsWellFormed
  KernelTypeOK
  PhaseTracksTime
  AccessesInBounds
PROPERTIES
  NothingNeededIsLost
  RunsAsWritten
CHECK_DEADLOCK FALSE
