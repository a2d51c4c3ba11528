----------------------------- MODULE BuddyTree -----------------------------
(***************************************************************************)
(* The binary tree of blocks of kernel/buddy.c: addresses, block indices,  *)
(* bit arrays, and the state of the three structures of bd_sizes for a     *)
(* given set of reserved leaves.                                           *)
(*                                                                         *)
(* The heap is [bd_base, bd_base + HEAP_SIZE).  The block with index bi at *)
(* size k covers BLK_SIZE(k) bytes from addr(k, bi); addresses are byte    *)
(* offsets from bd_base.  A bit array is the set of its positions that     *)
(* hold a 1, and the lists bd_sizes[k].free are one set of pairs <<k, p>>. *)
(***************************************************************************)
EXTENDS Integers, FiniteSets

CONSTANTS
  MAXSIZE,    \* largest index of bd_sizes (nsizes - 1)
  LEAF_SIZE,  \* bytes of the smallest block
  BLK_SIZE,   \* BLK_SIZE[k]: bytes of a block of size k
  NBLK,       \* NBLK[k]: number of blocks of size k
  Reserved    \* leaves that bd_init marks: its own data and [end, HEAP_SIZE)

Sizes == 0..MAXSIZE

\* What the macros BLK_SIZE and NBLK compute, for bd_init's nsizes > 1.
ASSUME SizesAssumption ==
  /\ MAXSIZE \in Nat \ {0}
  /\ LEAF_SIZE \in Nat \ {0}
  /\ BLK_SIZE \in [Sizes -> Nat \ {0}]
  /\ NBLK \in [Sizes -> Nat \ {0}]
  /\ BLK_SIZE[0] = LEAF_SIZE
  /\ NBLK[MAXSIZE] = 1
  /\ \A k \in 0..MAXSIZE-1 : /\ BLK_SIZE[k+1] = 2 * BLK_SIZE[k]
                             /\ NBLK[k] = 2 * NBLK[k+1]
  /\ \A k \in Sizes : NBLK[k] * BLK_SIZE[k] = BLK_SIZE[MAXSIZE]

\* A block is a whole number of blocks of any smaller size.
ASSUME NestingAssumption ==
  \A k, j \in Sizes : k <= j => BLK_SIZE[j] % BLK_SIZE[k] = 0

\* bd_init always marks its own data structures, so something is reserved.
ASSUME ReservedAssumption ==
  /\ Reserved \subseteq 0..(NBLK[0] - 1)
  /\ Reserved # {}

HEAP_SIZE == BLK_SIZE[MAXSIZE]
Addr == 0..(HEAP_SIZE - 1)
Index(k) == 0..(NBLK[k] - 1)

-----------------------------------------------------------------------------
(* Addresses, block indices and bit arrays *)

blk_index(s, a) == a \div BLK_SIZE[s]
addr(s, bi) == bi * BLK_SIZE[s]

\* Mutant: the buddy is always the next block.
nextBlock(bi) == bi + 1
buddyOf(bi) == IF bi % 2 = 0 THEN bi + 1 ELSE bi - 1

bit_isset(array, bit) == bit \in array
bit_set(array, bit) == array \union {bit}
bit_clear(array, bit) == array \ {bit}
bit_invert(array, bit) == (array \ {bit}) \union ({bit} \ array)

-----------------------------------------------------------------------------
(* The state bd_init leaves behind: a block is in use when it contains a   *)
(* reserved leaf; blocks in use are split; the buddy of a block in use is  *)
(* free when it is not in use itself.                                      *)

InitUsed(s, bi) == \E leaf \in Reserved : blk_index(s, addr(0, leaf)) = bi

InitSplit == {b \in UNION {{s} \X Index(s) : s \in 1..MAXSIZE} : InitUsed(b[1], b[2])}

InitAlloc == {b \in UNION {{s} \X Index(s+1) : s \in 0..MAXSIZE-1} :
                ~(InitUsed(b[1], 2 * b[2]) <=> InitUsed(b[1], 2 * b[2] + 1))}

InitFree == {b \in Sizes \X Addr :
               \E bi \in Index(b[1]) : /\ b[1] < MAXSIZE
                                       /\ b[2] = addr(b[1], bi)
                                       /\ ~InitUsed(b[1], bi)
                                       /\ InitUsed(b[1], buddyOf(bi))}
=============================================================================
