SPECIFICATION Spec
CONSTANTS
  NRows = 3
  NCols = 2
  ExpCol = 1
  ArenaBytes = 30
  TextMax = 12
  Formats = {"none"}
  MaxDepth = 3
  MaxPieces = 4
  Pieces <- MCPieces
  Sheets <- MCSheets
INVARIANTS
  NoPlausibleNumber
  ValuesRight
CHECK_DEADLOCK FALSE
