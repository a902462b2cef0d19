SPECIFICATION Spec
CONSTANTS
  a = a
  b = b
  MaxCluster = 7
  NumFats = 2
  DirSlots = 2
  Names <- MCNames
  Ops <- Calls
  Faults = {}
  MaxFaults = 0
SYMMETRY Symmetry
INVARIANTS
  TypeOK
  Structure
  Accounted
  NamesUnique
PROPERTIES
  BystandersUntouched
  RmdirOnlyEmpty
CHECK_DEADLOCK FALSE
