SPECIFICATION MCSpec
CONSTANTS
  Node <- AllNodes
  Edge <- AllEdges
  None = None
  Commas <- CommasOf
  Fragment = Fragment
  Updates = TRUE
INVARIANTS RecordsWhole AbortsExplained ListsStayAtTheirNode RingShape InboundComplete AnswersSound
PROPERTY ImplementsAdjacencyRing
CHECK_DEADLOCK FALSE
