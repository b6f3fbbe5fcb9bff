SPECIFICATION Spec
CONSTANTS
  Inputs = {in1, in2}
  Outputs = {out1, out2}
  FirstFrames = {1, 2, 3}
  Frames = {0, 1, 2, 3}
  MaxCycles = 4
INVARIANTS
  TypeOK
  InStep
  WholeCycles
PROPERTIES
  Answered
CHECK_DEADLOCK FALSE
