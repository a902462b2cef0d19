SPECIFICATION Spec
CONSTANTS
  NRows = 6
  NCols = 3
  ViewRows = 4
  ScreenCols = 2
  Widths = {1, 2}
  EntryMax = 1
  Spreads <- MCSpreads
INVARIANTS
  CacheFresh
  ScreenAgrees
PROPERTY
  MovesIntoView
CHECK_DEADLOCK FALSE
