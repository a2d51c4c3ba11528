------------------------------ MODULE MCMemory ------------------------------
(***************************************************************************)
(* Memory, from bd_init to malloc, and the buffer cache, for TLC; a        *)
(* behaviour is of one of the parts, and the others rest.                  *)
(*                                                                         *)
(* Buddy has a heap of 2^MAXSIZE leaves whose first leaf holds bd_init's   *)
(* data and whose last leaf lies beyond the end of memory.  BuddyInit sees *)
(* every range of 12 to 96 bytes, with leaves of 3 bytes, that is not      *)
(* exactly a power of two of leaves (kinit never passes one: PHYSTOP less  *)
(* the size of the kernel).                                                *)
(***************************************************************************)
EXTENDS Buddy, Vm, Umalloc, Bio, TLC

CONSTANT MaxMeta

Alike == Permutations(DiskBlock) \cup Permutations(Data)

BioRests == lru = [x \in Buf |-> x] /\ \A m, n \in DiskBlock : disk[m] = disk[n]

VARIABLES part, total, meta, nsizes, unavailable, ifree, ialloc, isplit, freeBytes, ik, ipc

MCBlkSize == [s \in 0..MAXSIZE |-> 2^s * LEAF_SIZE]
MCNBlk == [s \in 0..MAXSIZE |-> 2^(MAXSIZE - s)]
MCReserved == {0, 2^MAXSIZE - 1}

MCTotals == {t \in 12..96 : \A e \in 0..5 : t # 2^e * 3}
BI == INSTANCE BuddyInit WITH
  LEAF_SIZE <- 3, Totals <- MCTotals,
  free <- ifree, alloc <- ialloc, split <- isplit, k <- ik, pc <- ipc
biVars == <<total, meta, nsizes, unavailable, ifree, ialloc, isplit, freeBytes, ik, ipc>>

MCSbrk == {<<"+", 1>>, <<"+", 3>>, <<"-", 1>>, <<"-", 5>>}
Seg(vaddr, memsz, w) == [vaddr |-> vaddr, memsz |-> memsz, w |-> w]
MCPrograms == {<<Seg(0, 3, FALSE), Seg(2, 1, TRUE)>>, <<Seg(0, 1, TRUE)>>}

BIRests ==
  /\ total = 0 /\ meta = 0 /\ nsizes = 0 /\ unavailable = 0 /\ freeBytes = 0 /\ ik = 0
  /\ ifree = {} /\ ialloc = {} /\ isplit = {}
  /\ ipc = "rest"

MemoryInit ==
  /\ Init /\ VmInit /\ UmInit
  /\ \/ part \in {"buddy", "vm", "umalloc", "bio"} /\ BIRests
     \/ part = "bd_init" /\ BI!Init
  /\ BioInit /\ (part # "bio" => BioRests)

MemoryNext ==
  \/ part = "buddy" /\ Next /\ UNCHANGED <<part, bioVars, biVars, vmVars, umVars>>
  \/ part = "bd_init" /\ BI!Next /\ UNCHANGED <<part, bioVars, vars, vmVars, umVars>>
  \/ part = "vm" /\ VmNext /\ UNCHANGED <<part, bioVars, vars, biVars, umVars>>
  \/ part = "umalloc" /\ UmNext /\ UNCHANGED <<part, bioVars, vars, biVars, vmVars>>
  \/ part = "bio" /\ BioNext /\ UNCHANGED <<part, vars, biVars, vmVars, umVars>>

MemorySpec == MemoryInit /\ [][MemoryNext]_<<part, bioVars, vars, biVars, vmVars, umVars>>

\* bd_init leaves exactly the state that the reserved leaves call for, the one
\* Buddy starts from, stays within its arrays on the way, and never panics.
InitialState ==
  part = "bd_init" => BI!InitialState /\ BI!InitInBounds /\ BI!InitSucceeds

\* copyin, copyout and copyinstr succeed on exactly the ranges that the process
\* itself may read or write, page by page, up to the end of its address space.
CopiesMatch == part = "vm" => CopiesAgree
=============================================================================
