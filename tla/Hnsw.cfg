SPECIFICATION HSpec
CONSTANTS
  Node = {1, 2, 3, 4}
  Layer = {0, 1}
  Info <- MCInfo
  Dist <- MCDist
  Null = Null
  M = 3
  Ef = 3
  SaveAgain = FALSE
INVARIANTS TypeOK ListsAgree NeighborsBounded LoadsWhatWasSaved AssertFailsForLostNode AnswersStored
PROPERTIES OnlyLongestGo HalfDoneOnlyAfterLoad
CHECK_DEADLOCK FALSE
