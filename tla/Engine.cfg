SPECIFICATION EngineSpec
CONSTANTS
  g1 = g1
  g2 = g2
  m = m
  n = n
  i = i
  k1 = k1
  k2 = k2
  a1 = a1
  a2 = a2
  v = v
  w = w
  likes = likes
  Graph = {g1, g2}
  NoGraph = NoGraph
  ClassName = {m, n}
  IndexName = {i}
  IntKey = {k1}
  StrKey = {k2}
  Value = {v, w, nothing}
  Empty = nothing
  Attr = {a1, a2}
  MaxAttrs = 1
  MaxMaps = 3
  Reuse = TRUE
  MaxCalls = 0
  MaxSessions = 0
  Texts <- MCTexts
  MaxTexts = 4
  NoAttr = NoAttr
INVARIANTS AcceptedRowsStay CreationsOpen
CHECK_DEADLOCK FALSE
