SPECIFICATION FairSpec
CONSTANTS
  Proc = {p1, p2}
  Block = {b1, b2, b3}
  Data = {d0, d1}
  Zero = d0
  LOGSIZE = 4
  MAXOPBLOCKS = 2
  SbNlog = 4
  OpWrites = 1
  NONE = NONE
INVARIANT NoPanic
PROPERTIES SleepersWake ImplementsAtomicDisk
