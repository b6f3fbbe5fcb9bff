SPECIFICATION Spec
CONSTANTS
  Inputs = {in1, in2}
  Outputs = {out1, out2}
  Vectors = {v1, v2, v3}
  BlockSizes = {1, 2}
  MaxBlocks = 2
  MaxSetups = 2
INVARIANTS
  TypeOK
  InStep
  BlockComplete
CHECK_DEADLOCK FALSE
