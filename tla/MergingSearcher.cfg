SPECIFICATION Spec
SYMMETRY Symmetry
\* The process exits when all states are terminated.
CHECK_DEADLOCK FALSE
CONSTANTS
  StateIds = {s0, s1, s2, s3, s4}
  First = s0
  Null = Null
  MaxGroups = 2
INVARIANTS
  SelectedStatesAreLive
  PoolsAreExact
  SuspendedStatesAreAwaited
  PathsAreKept
