SPECIFICATION Spec
CONSTANTS
  NDims = 2
  Infinity = 100
  Problems <- MCProblems
  MinSkew = 3
  MaxSkew = 0
  MaxRate = 1
  MaxLatency = 1
  Window = 5
  Width = 2
INVARIANTS
  DistancesFound
CHECK_DEADLOCK FALSE
