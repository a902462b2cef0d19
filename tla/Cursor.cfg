SPECIFICATION Spec
CONSTANTS
  SectorUnits = 2
  SecPerClus = 2
  MaxCluster = 5
  Values = {0, 1, 2, 3, 4, 5, 6, 7, 8, 9, 10, 11, 12}
  Written = {0, 12}
  Zero = 0
  Lengths <- SomeLengths
  Contents <- Distinct
  Files <- AllFiles
  Others = {3}
  Ops <- ReaderAndWriterOps
  Faults <- AllFaults
  MaxFaults = 1
INVARIANTS
  TypeOK
  CursorRight
  NoStrayWrite
  ReadsAreRight
 
CHECK_DEADLOCK FALSE
