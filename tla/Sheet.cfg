SPECIFICATION Spec
CONSTANTS
  NRows = 4
  NCols = 3
  ExpCol = 2
  ArenaBytes = 70
  TextMax = 16
  Formats = {"none", "money"}
  MaxDepth = 6
  RefRoom = 5
  RecalcPasses = 2
  MaxOps = 2
  Sessions <- MCSessions
  TypedAt <- MCTypedAt
  Typed <- MCTyped
  Blocks <- MCBlocks
INVARIANT
  Settled
PROPERTIES
  EditsFollow
  ReplicaRight
  RoundTrip
CHECK_DEADLOCK FALSE
