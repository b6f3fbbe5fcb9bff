SPECIFICATION Spec
CONSTANTS
  Horizon = 24
  StackLimit = 24
  MaxDelay = 2
  MaxLag = 2
  MaxPeriodOffset = 0
  MaxPeriodScale = 1
  Shifting = {FALSE}
  Programs <- OneElement
  Options <- MCOptions
INVARIANTS
  InfiniteArraysAccessed
CHECK_DEADLOCK FALSE
