SPECIFICATION RSpec
CONSTANTS
  Node <- TestedNode
  Edge <- Tested
  None = None
  Commas <- CommasOf
  Fragment = Fragment
  Updates = FALSE
INVARIANT NeighborsEnd
CHECK_DEADLOCK FALSE
