CONSTANTS
  StateIds = {s0, s1, s2, s3}
  First = s0
  Null = Null
SPECIFICATION FairSpec
INVARIANTS
  NoAssertionFails
  NoUseAfterFree
  LivePathsAreKept
  SearcherAgrees
PROPERTIES
  SwitchFreesTerminated
  TerminatedIsReplaced
  YieldIsServed
\* The process exits when all states are terminated.
CHECK_DEADLOCK FALSE
