SPECIFICATION Spec
CONSTANTS
  a = a
  b = b
  MaxCluster = 6
  NumFats = 1
  DirSlots = 2
  Names <- MCNames
  Ops <- Calls
  Faults <- SomeFaults
  MaxFaults = 1
SYMMETRY Symmetry
INVARIANTS
  Structure
CHECK_DEADLOCK FALSE
