----------------------------- MODULE BuddyInit -----------------------------
(***************************************************************************)
(* bd_init of kernel/buddy.c: from the memory range it is given to the     *)
(* three structures of bd_sizes.  One run of the machine is one call; the  *)
(* loops over the sizes k take one step per size.                          *)
(*                                                                         *)
(* The argument range is its length in bytes, total = end - p, and meta is *)
(* the number of bytes of bd_sizes and its arrays (rounded to leaves): how *)
(* sizeof adds up is left out, how the marks depend on it is not.          *)
(***************************************************************************)
EXTENDS Integers, FiniteSets

CONSTANTS
  LEAF_SIZE,  \* bytes of the smallest block
  Totals,     \* the values of end - p, at least 4 * LEAF_SIZE
  MaxMeta     \* bound on the leaves that bd_init's own data takes

VARIABLES
  total, meta,         \* the arguments of this call
  nsizes,              \* number of entries of bd_sizes
  unavailable,         \* bytes of [end, HEAP_SIZE)
  free, alloc, split,  \* bd_sizes, as in Buddy
  freeBytes,           \* the local free: bytes put on the lists
  k,                   \* loop counter
  pc

vars == <<total, meta, nsizes, unavailable, free, alloc, split, freeBytes, k, pc>>

BlkSize == [s \in 0..(nsizes - 1) |-> 2^s * LEAF_SIZE]
NBlk == [s \in 0..(nsizes - 1) |-> 2^(nsizes - 1 - s)]
HEAP_SIZE == BlkSize[nsizes - 1]
ROUNDUP(n, sz) == ((n - 1) \div sz + 1) * sz

blk_index(s, a) == a \div BlkSize[s]

\* the first block at size s that does not contain a
blk_index_next(s, a) == a \div BlkSize[s] + (IF a % BlkSize[s] # 0 THEN 1 ELSE 0)

addr(s, bi) == bi * BlkSize[s]

log2(n) == CHOOSE e \in 0..n : 2^e <= n /\ n < 2^(e + 1)

\* The reserved leaves, and the state that Buddy starts from.
ReservedLeaves ==
  {leaf \in 0..(NBlk[0] - 1) : \/ leaf * LEAF_SIZE < meta
                               \/ leaf * LEAF_SIZE >= HEAP_SIZE - unavailable}
Tree == INSTANCE BuddyTree WITH
  MAXSIZE <- nsizes - 1,
  BLK_SIZE <- BlkSize,
  NBLK <- NBlk,
  Reserved <- ReservedLeaves

-----------------------------------------------------------------------------
Init ==
  /\ total \in Totals
  /\ meta = 0
  /\ nsizes = 0
  /\ unavailable = 0
  /\ free = {} /\ alloc = {} /\ split = {}
  /\ freeBytes = 0
  /\ k = 0
  /\ pc = "sizes"

\* nsizes, and the arrays of bd_sizes, all zero.  kinit's range leaves the
\* arrays at most a quarter of the heap, and it is no power of two.
Sizes ==
  /\ pc = "sizes"
  /\ LET n == log2(total \div LEAF_SIZE) + 1
     IN nsizes' = IF total > 2^(n - 1) * LEAF_SIZE THEN n + 1 ELSE n
  /\ \E m \in 1..MaxMeta : /\ 4 * m <= 2^(nsizes' - 1)
                           /\ meta' = m * LEAF_SIZE
  /\ k' = 0
  /\ pc' = "meta"
  /\ UNCHANGED <<total, unavailable, free, alloc, split, freeBytes>>

\* bd_mark panics on a range that is not made of leaves.
MarkNext(start, stop) ==
  pc' = IF start % LEAF_SIZE # 0 \/ stop % LEAF_SIZE # 0 THEN "panic" ELSE pc

\* bd_mark(start, stop) at size k: every block in the range is marked split
\* (sizes above 0) and flips the bit of its pair.
bd_mark(start, stop) ==
  LET marked == blk_index(k, start)..(blk_index_next(k, stop) - 1)
      flipped == {<<k, j>> : j \in {x \in 0..(NBlk[k] \div 2) :
                    Cardinality({bi \in marked : bi \div 2 = x}) = 1}}
  IN /\ split' = split \union {<<k, bi>> : bi \in IF k > 0 THEN marked ELSE {}}
     /\ alloc' = (alloc \ flipped) \union (flipped \ alloc)

\* One size of bd_mark(bd_base, p).
bd_mark_data_structures ==
  /\ pc = "meta"
  /\ k < nsizes
  /\ bd_mark(0, meta)
  /\ MarkNext(0, meta)
  /\ k' = k + 1
  /\ UNCHANGED <<total, meta, nsizes, unavailable, free, freeBytes>>

\* The end of memory, rounded to leaves.
Unavailable ==
  /\ pc = "meta"
  /\ k = nsizes
  /\ LET u == HEAP_SIZE - total
     IN unavailable' = IF u > 0 THEN ROUNDUP(u, LEAF_SIZE) ELSE u
  /\ k' = 0
  /\ pc' = "unavailable"
  /\ UNCHANGED <<total, meta, nsizes, free, alloc, split, freeBytes>>

\* One size of bd_mark(bd_end, bd_base + HEAP_SIZE).
bd_mark_unavailable ==
  /\ pc = "unavailable"
  /\ k < nsizes
  /\ bd_mark(HEAP_SIZE - unavailable, HEAP_SIZE)
  /\ MarkNext(HEAP_SIZE - unavailable, HEAP_SIZE)
  /\ k' = k + 1
  /\ UNCHANGED <<total, meta, nsizes, unavailable, free, freeBytes>>

MarksDone ==
  /\ pc = "unavailable"
  /\ k = nsizes
  /\ k' = 0
  /\ pc' = "initfree"
  /\ UNCHANGED <<total, meta, nsizes, unavailable, free, alloc, split, freeBytes>>

\* The block that bd_initfree_pair pushes, if the pair's bit is set.
bd_initfree_pair(bi, is_right) ==
  IF <<k, bi \div 2>> \in alloc
    THEN {<<k, addr(k, IF is_right THEN Tree!buddyOf(bi) ELSE bi)>>}
    ELSE {}

\* One size of bd_initfree; MAXSIZE is skipped.  Every push counts.
bd_initfree ==
  LET left == blk_index_next(k, meta)
      right == blk_index(k, HEAP_SIZE - unavailable)
      l == bd_initfree_pair(left, FALSE)
      r == IF right <= left THEN {} ELSE bd_initfree_pair(right, TRUE)
  IN /\ pc = "initfree"
     /\ k < nsizes - 1
     /\ free' = free \union l \union r
     /\ freeBytes' = freeBytes + (Cardinality(l) + Cardinality(r)) * BlkSize[k]
     /\ k' = k + 1
     /\ UNCHANGED <<total, meta, nsizes, unavailable, alloc, split, pc>>

\* The final check of bd_init.
Check ==
  /\ pc = "initfree"
  /\ k = nsizes - 1
  /\ pc' = IF freeBytes = HEAP_SIZE - meta - unavailable THEN "done" ELSE "panic"
  /\ UNCHANGED <<total, meta, nsizes, unavailable, free, alloc, split, freeBytes, k>>

Next ==
  \/ Sizes
  \/ bd_mark_data_structures
  \/ Unavailable
  \/ bd_mark_unavailable
  \/ MarksDone
  \/ bd_initfree
  \/ Check

-----------------------------------------------------------------------------
(* Properties *)

\* The bits of the pairs below the root.  (Nothing reads the root's own bit.)
PairBits == {b \in alloc : b[1] < nsizes - 1}

\* When bd_initfree is done, bd_sizes is exactly the state that the reserved
\* leaves call for: the state module Buddy starts from.
InitialState ==
  pc \in {"initfree", "done"} /\ k = nsizes - 1 =>
                 /\ split = Tree!InitSplit
                 /\ PairBits = Tree!InitAlloc
                 /\ free = Tree!InitFree

\* bd_initfree only reads bits of the pairs that its size has, and only puts
\* blocks of the heap on the lists.
InitInBounds ==
  pc = "initfree" /\ k < nsizes - 1 =>
    /\ blk_index_next(k, meta) < NBlk[k]
    /\ blk_index(k, HEAP_SIZE - unavailable) < NBlk[k]
    /\ \A b \in free : b[2] + BlkSize[b[1]] <= HEAP_SIZE

\* The checks of bd_mark and at the end of bd_init succeed: bd_init never panics.
InitSucceeds == pc # "panic"
=============================================================================
