CONSTANTS
  MAXSIZE = 3
  LEAF_SIZE = 2
  BLK_SIZE <- MCBlkSize
  NBLK <- MCNBlk
  Reserved <- MCReserved
  CPU = {c1, c2}
  Requests = {1, 3, 4, 8, 20}
  NONE = NONE
  NIL = NIL
  MaxMeta = 8
  VmProc = {1, 2}
  Init1 = 1
  NPAGES = 19
  Fan = 2
  Sbrk <- MCSbrk
  Programs <- MCPrograms
  MORECORE = 4
  HEAPMAX = 16
  Units = {2, 3, 5}
  BioProc = {p1, p2, p3}
  Buf = {1, 2}
  DiskBlock = {n1, n2, n3}
  Data = {d1, d2}
  MaxPinned = 1
SPECIFICATION MemorySpec
SYMMETRY Alike
INVARIANTS
  RefcntExact
  ReadsLatest
  BlockPartition
  Coalesced
  FailsOnlyWhenFull
  InitialState
  MemoryAccounted
  CopiesMatch
  HeapTiled
PROPERTY ImplementsHeap
CHECK_DEADLOCK FALSE
