SPECIFICATION Spec
CONSTANTS
  PageFirst = 1
  LimitDef = 5
  LimitMax = 7
  MaxBlocks = 3
  PageMod = 8
  SizeMod = 2048
  Requests <- MCRequests
  Noise = {0, 3}
INVARIANTS
  TypeOK
  HeapWellFormed
PROPERTIES
  BlocksStay
  ImplementsHeap
