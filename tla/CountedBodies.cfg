SPECIFICATION CSpec
CONSTANTS
  Obj = {o1, o2, o3}
  Nobody = Nobody
  IdMod = 3
  MaxCores = 1
  MaxYields = 2
  MaxAdds = 6
INVARIANTS NothingLost OneRunning
PROPERTIES FairTurns EveryCoroutineEnds
CHECK_DEADLOCK FALSE
