SPECIFICATION Spec
CONSTANTS
  Handlers = {1, 2}
  Installs <- SomeInstalls
  Wired <- SomeSources
  Programmed = {"LINE", "AFLOW", "YM"}
  FrameMod = 3
  MaxAsserts = 3
  NmiIn = {"main"}
INVARIANTS
  TypeOK
  DispatchesWhole
  NoEdgeLost
  FramesCountedOrMerged
PROPERTIES
  DisabledKeepsItsBit
  MachineAlive
