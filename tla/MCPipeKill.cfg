CONSTANTS
  Parts = {"pipe"}
  Reader = {r1}
  Writer = {w1, w2}
  Byte = {b1, b2}
  PIPESIZE = 2
  UINT = 4
  MaxN = 3
  Killable = {w1}
  Faulty = {}
  NONE = NONE
  i1 = i1
  i2 = i2
  o1 = o1
  o2 = o2
  o3 = o3
  v1 = v1
  v2 = v2
  MaxCalls = 5
  FdProc = {q1, q2}
  Ino = {i1, i2}
  OpenFile = {o1, o2, o3}
  ip <- MCip
  NDIRECT = 2
  BSIZE = 2
  NBLOCKS = 5
  BPB = 2
  MAXOPBLOCKS = 8
  Value = {v1, v2}
  Opens <- MCOpens
  Reads <- MCReads
  Writes <- MCWrites
  Nil = Nil
SPECIFICATION DataSpec
INVARIANT ReaderSleepsOnEmpty
CHECK_DEADLOCK FALSE
