SPECIFICATION Spec
SYMMETRY Symmetry
CHECK_DEADLOCK FALSE
CONSTANTS
  States = {s0, s1}
  Root = s0
  Symb = {gpr, cc}
  Flags = {cc}
  Shared = {mem}
  Vals = {v0, v1}
  Exprs = {e}
  Concrete = Concrete
INVARIANTS
  RegistersAreExact
  FastPathIsSound
  ModeMatchesEngine
