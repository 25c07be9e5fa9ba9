SPECIFICATION Spec
CONSTANTS
  PageSize = 3
  PieceSize = 2
  Vals = {v0, v1}
  Zero = v0
  Null = Null
INVARIANTS
  CacheInvariants
  
  SplitLosesNothing
