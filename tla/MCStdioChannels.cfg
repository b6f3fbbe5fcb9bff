SPECIFICATION Spec
CONSTANTS
  in1 = in1
  in2 = in2
  out1 = out1
  out2 = out2
  Inputs <- MCInputs
  Outputs <- MCOutputs
  Size <- MCSize
  MaxBuffer = 5
  Sources <- MCSources
  Rooms <- MCRooms
  MaxLead = 2
  PreludeOnly = 2
  MaxTransfers = 6
INVARIANTS
  TypeOK
  InOrder
PROPERTIES
  BuffersDoNotMatter
  EventuallyExits
CHECK_DEADLOCK FALSE
