SPECIFICATION RSpec
CONSTANTS
  Node <- AllNodes
  Edge <- Mixed
  None = None
  Commas <- CommasOf
  Fragment = Fragment
  Updates = FALSE
INVARIANT IdsKeepTheirLength
CHECK_DEADLOCK FALSE
