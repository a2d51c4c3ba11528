CONSTANTS
  Proc = {p1, p2}
  init = p1
  NOFILE = 2
  File = {f1, f2}
  Page = {g1}
  NONE = NONE
SPECIFICATION Spec
INVARIANT FileallocReturns
CHECK_DEADLOCK FALSE
