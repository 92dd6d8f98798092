SPECIFICATION Spec
CONSTANTS
  Graph = {g1}
  NoGraph = NoGraph
  ClassName = {m1}
  IndexName = {m2}
  IntKey = {k1}
  StrKey = {k2}
  Value = {v, nothing}
  Empty = nothing
  Attr = {a1, a2, a3}
  MaxAttrs = 2
  MaxMaps = 1
  Reuse = FALSE
  MaxCalls = 2
  MaxSessions = 2
INVARIANTS TypeOK HandlesReachTheirMap AttributesNumbered
PROPERTY ImplementsGraphStore
CHECK_DEADLOCK FALSE
