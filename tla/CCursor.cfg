SPECIFICATION Spec
CONSTANTS
  Cols = 2
  Rows = 2
  Glyphs = {65}
  Pens = {1}
  Blink = 2
  Calls <- Console
  ArmTwice = FALSE
INVARIANTS
  Transparent
  NoTrail
  OffMeansOff
PROPERTY CursorReturns
