CONSTANTS
  Clients = {c1, c2}
  CPU = CPU
  Nobody = Nobody
SPECIFICATION FairSpec
INVARIANTS
  NoAssertionFails
  MemoryAccessIsExclusive
PROPERTIES
  KickReachesCpu
