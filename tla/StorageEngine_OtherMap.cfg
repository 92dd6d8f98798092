SPECIFICATION Spec
CONSTANTS
  Graph = {g1}
  NoGraph = NoGraph
  ClassName = {m1, m2}
  IndexName = {}
  IntKey = {k1}
  StrKey = {k2}
  Value = {v}
  Empty = nothing
  Attr = {}
  MaxAttrs = 1
  MaxMaps = 2
  Reuse = TRUE
  MaxCalls = 5
  MaxSessions = 2
INVARIANT ReadsTheNamedEntry
CHECK_DEADLOCK FALSE
