CONSTANTS
  Clients = {c1, c2}
  CPU = CPU
  Nobody = Nobody
SPECIFICATION DirtyLogSpec
INVARIANTS
  NoAssertionFails
