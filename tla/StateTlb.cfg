SPECIFICATION Spec
CHECK_DEADLOCK FALSE
CONSTANTS
  s1 = s1
  s2 = s2
  States = {s1, s2}
  Root = s1
  Pages = {p1}
  NPieces = 2
  Values = {0, 1, sym}
  Symbolic = sym
  Zero = 0
  BufIds = {1, 2, 3}
  MmuModes = {0}
  TlbSlots = {1}
  RamIndex <- MCRamIndex
  None = None
  Freed = Freed
INVARIANTS
  TlbMapIsExact
  DirectReadsAreCurrent
  SymbolicPagesTakeSlowPath
  DirectWritesArePrivate
  MemcacheIsCoherent
PROPERTY StepsAreIsolated
