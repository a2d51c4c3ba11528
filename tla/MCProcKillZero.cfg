CONSTANTS
  Slots = 2
  Hart = {h1}
  MaxPid = 3
  KillPids = {0}
  NONE = NONE
SPECIFICATION Spec
INVARIANT UnusedIsClean
