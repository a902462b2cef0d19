SPECIFICATION Spec
CONSTANTS
  Order <- MCOrder
  MaxDepth = 2
  Pieces = {"zero", "torn", "text", "app", "desk"}
  ClusterPieces = 2
  Zero = "zero"
  Torn = "torn"
  Mistakes = {}
  KfsFiles = 2
  KfsDirs = 1
  DirBit = 3
  RamTop = 4
  ExecMax = 1
  Desktop = "desk"
  Images = {"app", "desk"}
  DesktopPath <- MCDesktopPath
  MaxArgs = 3
  Card <- MCCard
  Lines <- CopyLines
  Tiles <- MCTiles
  TileCols = 2
  TileFiles = 1
  TileExit = 2
  BrowseMax = 2
  BrowseRows = 1
  Calls <- MCCalls
  Writable = {"app"}
  FileMax = 1
PROPERTY CopyTells
