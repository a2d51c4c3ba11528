CONSTANTS
  Slots = 3
  Hart = {h1, h2}
  MaxPid = 4
  KillPids = {2, 3, 4}
  NONE = NONE
  TrapHart = {g0, g1}
  Hart0 = g0
  TrapProc = {p1}
  Ticklock = Ticklock
  TickRange = 4
  Naps = {1}
  NoHart = NoHart
  NoLock = NoLock
SPECIFICATION HartsSpec
SYMMETRY Harts
INVARIANTS
  StackHasOneHart
  SleeperHasNoZombie
  ParentCanWait
  InterruptsDisciplined
  SleepsItsTicks
