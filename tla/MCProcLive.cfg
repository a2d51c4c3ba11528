CONSTANTS
  Slots = 3
  Hart = {h1}
  MaxPid = 3
  KillPids = {3}
  NONE = NONE
SPECIFICATION FairSpec
PROPERTIES
  OrphansReaped
  VictimExits
