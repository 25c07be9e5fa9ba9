SPECIFICATION HostWriteSpec
CONSTANTS
  none = none
  NVirt = 2
  NPhys = 2
  NOffsets = 2
  MaxTbs = 2
  Exits = {0}
  None = none
INVARIANT ValidBlocksAreCurrent
