SPECIFICATION Spec
SYMMETRY Symmetry
CHECK_DEADLOCK FALSE
CONSTANTS
  s1 = s1
  s2 = s2
  s3 = s3
  States = {s1, s2, s3}
  Root = s1
  Pages = {p1}
  NPieces = 2
  Values = {v1, v2}
  BufIds = {b1, b2, b3, b4}
  NoObj = NoObj
  Slots = {1}
  Hash <- MCHash
  Unmapped = Unmapped
  Freed = Freed
INVARIANTS
  OwnedBuffersArePrivate
  PiecesOwnedTogether
  CacheCoherent
PROPERTY ImplementsIsolatedMemories
