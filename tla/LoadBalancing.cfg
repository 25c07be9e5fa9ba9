SPECIFICATION BalanceSpec
SYMMETRY Symmetry
CHECK_DEADLOCK FALSE
CONSTANTS
  Procs = {r0, c1, c2}
  Root = r0
  MaxInstances = 3
  S2E_MAX_PROCESSES = 3
  NoInstance = NoInstance
  MaxFileId = 3
  MaxStateId = 4
INVARIANTS
  NoAssertionFails
  CountIsExact
  SlotsMatchInstances
  GuidsAreUnique
  NoStateIsLost
