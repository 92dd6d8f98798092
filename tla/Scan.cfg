SPECIFICATION Spec
CONSTANTS
  Trees <- MCTrees
  Depth <- MCDepth
  MaxFrame = 4
  MaxStack = 36
  Clock <- MCClock
  Zero <- MCZero
  Arith <- MCArith
  Chunks <- MCChunks
  FromLens = 4
  Lens = 8
  IntSize = 2
  Digit = {"0", "1"}
  First <- MCFirst
  Later <- MCLater
  MaxQueries = 2
  Bytes = 12
  Vertices <- MCVertices
  EdgeRows <- MCEdgeRows
CHECK_DEADLOCK FALSE
INVARIANTS TypeOK LeftFrames ConditionsExact WalksExact TidyLambdas
PROPERTY EveryQueryEnds
