SPECIFICATION Spec
CONSTANTS
  Inputs = {in1, in2}
  Outputs = {out1}
  FirstFrames = {1, 2, 3}
  Frames = {0, 1, 2, 3}
  MaxCycles = 4
INVARIANTS
  ReadyToRoll
CHECK_DEADLOCK FALSE
