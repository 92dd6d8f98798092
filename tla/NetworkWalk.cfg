SPECIFICATION WSpec
CONSTANTS
  Obj = {o1, o2, o3, o4}
  Nobody = Nobody
  IdMod = 4
  MaxCores = 0
  Visit <- MCVisit
  Net <- MCNet
  NetOf <- OwnNet
  MaxLoads = 2
  Node <- MCNode
  Layer = {0}
  Info = {1, 2, 3, 4, 5}
  Plans <- MCPlans
  Target <- MCTarget
  Height <- MCHeight
  OrderMod = 6
INVARIANT GivesUpOnAllData
PROPERTIES PathsAreShortest WalksMissNothing WalksEnd
CHECK_DEADLOCK FALSE
