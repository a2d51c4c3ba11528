CONSTANTS
  Proc = {p1, p2, p3}
  init = p1
  NOFILE = 2
  File = {f1, f2, f3}
  Page = {g1}
  NONE = NONE
SPECIFICATION Spec
SYMMETRY Blocks
INVARIANTS
  RefsMatch
  UseIsSafe
CHECK_DEADLOCK FALSE
