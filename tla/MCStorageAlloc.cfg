SPECIFICATION Spec
CONSTANTS
  NDims = 2
  Infinity = 100
  Problems <- MCProblems
  MinSkew = 0
  MaxSkew = 3
  MaxRate = 2
  MaxLatency = 2
  Window = 5
  Width = 3
INVARIANTS
  TypeOK
  DistancesFound
  AllocationSafe
  NoLargerThanNeeded
  ErrorJustified
CHECK_DEADLOCK FALSE
