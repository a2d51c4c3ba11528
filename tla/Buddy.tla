------------------------------- MODULE Buddy -------------------------------
(***************************************************************************)
(* The buddy allocator of kernel/buddy.c, after bd_init.                   *)
(*                                                                         *)
(* bd_malloc and bd_free run under one spinlock; each loop iteration of    *)
(* the code is one action here, so that the state between two iterations   *)
(* can be talked about.  The order of a free list only decides which block *)
(* lst_pop returns: the model lets it return any block of the list.        *)
(***************************************************************************)
EXTENDS BuddyTree

CONSTANTS
  CPU,       \* the harts that call the allocator
  Requests,  \* the values of nbytes that callers ask for
  NONE       \* the lock is not held

ASSUME CallersAssumption ==
  /\ NONE \notin CPU
  /\ Requests \subseteq Nat \ {0}

VARIABLES
  free,    \* <<k, p>>: p is on the list bd_sizes[k].free
  alloc,   \* <<k, j>>: bit j of bd_sizes[k].alloc (one bit per buddy pair)
  split,   \* <<k, bi>>: bit bi of bd_sizes[k].split
  lock,    \* the hart that holds the spinlock "buddy", or NONE
  pc,      \* what each hart executes
  nbytes,  \* argument of bd_malloc
  fk, k,   \* locals of bd_malloc; during bd_free fk is a ghost: the true size
  p,       \* the local p of bd_malloc and bd_free
           \* (locals are dead outside a call: a return sets them to 0)
  live     \* ghost: the blocks handed out and not yet passed to bd_free

vars == <<free, alloc, split, lock, pc, nbytes, fk, k, p, live>>

\* release(&lock) and return
Return(c) ==
  /\ lock' = NONE
  /\ pc' = [pc EXCEPT ![c] = "idle"]
  /\ nbytes' = [nbytes EXCEPT ![c] = 0]
  /\ fk' = [fk EXCEPT ![c] = 0]
  /\ k' = [k EXCEPT ![c] = 0]
  /\ p' = [p EXCEPT ![c] = 0]

-----------------------------------------------------------------------------
Init ==
  /\ free = InitFree
  /\ alloc = InitAlloc
  /\ split = InitSplit
  /\ lock = NONE
  /\ pc = [c \in CPU |-> "idle"]
  /\ nbytes = [c \in CPU |-> 0]
  /\ fk = [c \in CPU |-> 0]
  /\ k = [c \in CPU |-> 0]
  /\ p = [c \in CPU |-> 0]
  /\ live = {}

-----------------------------------------------------------------------------
(* bd_malloc *)

\* acquire(&lock), then firstk starts at k = 0
bd_malloc(c, n) ==
  /\ pc[c] = "idle"
  /\ lock = NONE
  /\ lock' = c
  /\ pc' = [pc EXCEPT ![c] = "firstk"]
  /\ nbytes' = [nbytes EXCEPT ![c] = n]
  /\ k' = [k EXCEPT ![c] = 0]
  /\ UNCHANGED <<free, alloc, split, fk, p, live>>

\* One test of firstk's loop.  From k > MAXSIZE on every k means "too large".
firstk(c) ==
  /\ pc[c] = "firstk"
  /\ IF k[c] \in Sizes /\ BLK_SIZE[k[c]] < nbytes[c]
       THEN k' = [k EXCEPT ![c] = k[c] + 1] /\ UNCHANGED <<pc, fk>>
       ELSE /\ pc' = [pc EXCEPT ![c] = "find"]
            /\ fk' = [fk EXCEPT ![c] = k[c]]
            /\ UNCHANGED k
  /\ UNCHANGED <<free, alloc, split, lock, nbytes, p, live>>

\* Mutant: the loop does not stop at a list with blocks.
FindNextSkips(c) ==
  /\ pc[c] = "find"
  /\ k[c] \in Sizes
  /\ k' = [k EXCEPT ![c] = k[c] + 1]
  /\ UNCHANGED <<free, alloc, split, lock, pc, nbytes, fk, p, live>>

\* The list of size k is empty: try the next size.
FindNext(c) ==
  /\ pc[c] = "find"
  /\ k[c] \in Sizes
  /\ \A a \in Addr : <<k[c], a>> \notin free
  /\ k' = [k EXCEPT ![c] = k[c] + 1]
  /\ UNCHANGED <<free, alloc, split, lock, pc, nbytes, fk, p, live>>

\* k >= nsizes: release and return 0.
MallocFails(c) ==
  /\ pc[c] = "find"
  /\ k[c] > MAXSIZE
  /\ Return(c)
  /\ UNCHANGED <<free, alloc, split, live>>

\* Mutant: the block is used without being taken off its list.
PopWithoutRemove(c, a) ==
  /\ pc[c] = "find"
  /\ k[c] \in Sizes
  /\ <<k[c], a>> \in free
  /\ alloc' = bit_invert(alloc, <<k[c], blk_index(k[c], a) \div 2>>)
  /\ p' = [p EXCEPT ![c] = a]
  /\ pc' = [pc EXCEPT ![c] = "split"]
  /\ UNCHANGED <<free, split, lock, nbytes, fk, k, live>>

\* lst_pop the list of size k and flip the pair's bit.
Pop(c, a) ==
  /\ pc[c] = "find"
  /\ k[c] \in Sizes
  /\ <<k[c], a>> \in free
  /\ free' = free \ {<<k[c], a>>}
  /\ alloc' = bit_invert(alloc, <<k[c], blk_index(k[c], a) \div 2>>)
  /\ p' = [p EXCEPT ![c] = a]
  /\ pc' = [pc EXCEPT ![c] = "split"]
  /\ UNCHANGED <<split, lock, nbytes, fk, k, live>>

\* One iteration of the splitting loop: keep p, free its buddy at size k-1.
Split(c) ==
  LET a == p[c]
      s == k[c]
      q == a + BLK_SIZE[s - 1]
  IN /\ pc[c] = "split"
     /\ s > fk[c]
     /\ split' = bit_set(split, <<s, blk_index(s, a)>>)
     /\ alloc' = bit_invert(alloc, <<s - 1, blk_index(s - 1, a) \div 2>>)
     /\ free' = free \union {<<s - 1, q>>}
     /\ k' = [k EXCEPT ![c] = s - 1]
     /\ UNCHANGED <<lock, pc, nbytes, fk, p, live>>

\* The loop is over: release and return p.
MallocReturns(c) ==
  /\ pc[c] = "split"
  /\ k[c] <= fk[c]
  /\ live' = live \union {[p |-> p[c], k |-> k[c], n |-> nbytes[c]]}
  /\ Return(c)
  /\ UNCHANGED <<free, alloc, split>>

-----------------------------------------------------------------------------
(* bd_free *)

\* acquire(&lock), then size(p) starts at k = 0.  The caller passes a block
\* that bd_malloc returned and gives it up.
bd_free(c, b) ==
  /\ pc[c] = "idle"
  /\ lock = NONE
  /\ b \in live
  /\ live' = live \ {b}
  /\ lock' = c
  /\ pc' = [pc EXCEPT ![c] = "size"]
  /\ p' = [p EXCEPT ![c] = b.p]
  /\ k' = [k EXCEPT ![c] = 0]
  /\ fk' = [fk EXCEPT ![c] = b.k]
  /\ UNCHANGED <<free, alloc, split, nbytes>>

\* One test of the loop of size(p).  bd_sizes has no entry nsizes.
size(c) ==
  /\ pc[c] = "size"
  /\ k[c] + 1 \in Sizes
  /\ IF bit_isset(split, <<k[c] + 1, blk_index(k[c] + 1, p[c])>>)
       THEN pc' = [pc EXCEPT ![c] = "merge"] /\ UNCHANGED k
       ELSE k' = [k EXCEPT ![c] = k[c] + 1] /\ UNCHANGED pc
  /\ UNCHANGED <<free, alloc, split, lock, nbytes, fk, p, live>>

\* One full iteration of bd_free's loop: the flipped bit says that the buddy
\* is free, so it leaves its list and the pair becomes one block of size k+1.
Merge(c) ==
  LET s == k[c]
      bi == blk_index(s, p[c])
      buddy == buddyOf(bi)
      bits == bit_invert(alloc, <<s, buddy \div 2>>)
      q == addr(s, buddy)
      a == IF buddy % 2 = 0 THEN q ELSE p[c]
  IN /\ pc[c] = "merge"
     /\ s < MAXSIZE
     /\ ~bit_isset(bits, <<s, buddy \div 2>>)
     /\ alloc' = bits
     /\ free' = free \ {<<s, q>>}
     /\ p' = [p EXCEPT ![c] = a]
     /\ split' = bit_clear(split, <<s + 1, blk_index(s + 1, a)>>)
     /\ k' = [k EXCEPT ![c] = s + 1]
     /\ UNCHANGED <<lock, pc, nbytes, fk, live>>

\* Mutant: the block goes back to its list before the bit is looked at.
FreeWithoutMerge(c) ==
  /\ pc[c] = "merge"
  /\ alloc' = bit_invert(alloc, <<k[c], blk_index(k[c], p[c]) \div 2>>)
  /\ free' = free \union {<<k[c], p[c]>>}
  /\ Return(c)
  /\ UNCHANGED <<split, live>>

\* The loop ends (the buddy is in use, or k = MAXSIZE): push p and release.
FreeReturns(c) ==
  LET s == k[c]
      pair == <<s, buddyOf(blk_index(s, p[c])) \div 2>>
      bits == IF s < MAXSIZE THEN bit_invert(alloc, pair) ELSE alloc
  IN /\ pc[c] = "merge"
     /\ s < MAXSIZE => bit_isset(bits, pair)
     /\ alloc' = bits
     /\ free' = free \union {<<s, p[c]>>}
     /\ Return(c)
     /\ UNCHANGED <<split, live>>

-----------------------------------------------------------------------------
Step(c) ==
  \/ firstk(c)
  \/ FindNext(c)
  \/ MallocFails(c)
  \/ \E a \in Addr : Pop(c, a)
  \/ Split(c)
  \/ MallocReturns(c)
  \/ size(c)
  \/ Merge(c)
  \/ FreeReturns(c)

Next ==
  \E c \in CPU : \/ \E n \in Requests : bd_malloc(c, n)
                 \/ \E b \in live : bd_free(c, b)
                 \/ Step(c)

Spec == Init /\ [][Next]_vars

-----------------------------------------------------------------------------
(* Properties *)

Exists(s, bi) == s = MAXSIZE \/ <<s + 1, bi \div 2>> \in split
IsFree(s, bi) == <<s, addr(s, bi)>> \in free
IsSplit(s, bi) == <<s, bi>> \in split
InUse(s, bi) == Exists(s, bi) /\ ~IsFree(s, bi)

\* The size of the block that the lock holder has taken off the structures.
HandSize(c) == IF pc[c] = "size" THEN fk[c] ELSE k[c]
InHand(s, bi) == \E c \in CPU : /\ pc[c] \in {"split", "size", "merge"}
                               /\ s = HandSize(c)
                               /\ bi = blk_index(s, p[c])
IsLive(s, bi) == \E b \in live : b.k = s /\ b.p = addr(s, bi)
IsReserved(s, bi) == s = 0 /\ bi \in Reserved
Held(s, bi) == InHand(s, bi) \/ IsLive(s, bi) \/ IsReserved(s, bi)

TypeOK ==
  /\ free \subseteq Sizes \X Addr
  /\ alloc \subseteq Sizes \X Nat
  /\ split \subseteq (1..MAXSIZE) \X Nat
  /\ lock \in CPU \union {NONE}
  /\ pc \in [CPU -> {"idle", "firstk", "find", "split", "size", "merge"}]
  /\ nbytes \in [CPU -> Nat]
  /\ fk \in [CPU -> 0..(MAXSIZE + 1)]
  /\ k \in [CPU -> 0..(MAXSIZE + 1)]
  /\ p \in [CPU -> Addr]
  /\ live \subseteq [p : Addr, k : Sizes, n : Requests]

\* Every block of the tree that exists (its parent is split) is exactly one of
\* free, split, and held by a caller, by the call in progress or by bd_init; a
\* block that does not exist is none of these.  So no block is lost by
\* bd_malloc and bd_free and none is in two places.
BlockPartition ==
  \A s \in Sizes : \A bi \in Index(s) :
    /\ Exists(s, bi) <=> (IsFree(s, bi) \/ IsSplit(s, bi) \/ Held(s, bi))
    /\ ~(IsFree(s, bi) /\ IsSplit(s, bi))
    /\ ~(IsFree(s, bi) /\ Held(s, bi))
    /\ ~(IsSplit(s, bi) /\ Held(s, bi))

\* The single alloc bit of a pair is the exclusive or of "in use" of its two
\* blocks, at every loop iteration: this is what lets bd_free read "is the
\* buddy allocated?" off one flipped bit.
AllocBitIsXor ==
  \A s \in 0..MAXSIZE-1 : \A j \in Index(s + 1) :
    bit_isset(alloc, <<s, j>>) <=> ~(InUse(s, 2 * j) <=> InUse(s, 2 * j + 1))

\* bd_free merges as far as it can: the two blocks of a pair are never both on
\* the free list, not even between two iterations of a call.
Coalesced ==
  \A s \in 0..MAXSIZE-1 : \A j \in Index(s + 1) :
    ~(IsFree(s, 2 * j) /\ IsFree(s, 2 * j + 1))

\* size(p) finds the size the block was allocated with, and never looks beyond
\* the last entry of bd_sizes on the way.
SizeFindsBlock ==
  \A c \in CPU : pc[c] = "size" =>
    /\ k[c] <= fk[c] /\ k[c] + 1 \in Sizes
    /\ bit_isset(split, <<k[c] + 1, blk_index(k[c] + 1, p[c])>>) => k[c] = fk[c]

\* lst_remove in bd_free unlinks a block that really is on the list of size k:
\* on any other block it would follow stale next and prev pointers.
RemovesListed ==
  [][\A c \in CPU : Merge(c) =>
       <<k[c], addr(k[c], buddyOf(blk_index(k[c], p[c])))>> \in free]_vars

\* A byte is in use by someone when it lies in a live or a reserved block.
BlockInUse(s, bi) ==
  \/ \E b \in live : \E a \in b.p..(b.p + BLK_SIZE[b.k] - 1) : blk_index(s, a) = bi
  \/ InitUsed(s, bi)

\* bd_malloc returns 0 only when memory really is exhausted for this request:
\* every aligned block of the size firstk computes overlaps memory in use.
FailsOnlyWhenFull ==
  \A c \in CPU : (pc[c] = "find" /\ k[c] > MAXSIZE /\ fk[c] \in Sizes) =>
    \A bi \in Index(fk[c]) : BlockInUse(fk[c], bi)

\* The promise to callers: regions of memory that never overlap (module Heap).
Regions == {[p |-> b.p, n |-> b.n] : b \in live}
ReservedByte == {a \in Addr : blk_index(0, a) \in Reserved}
H == INSTANCE Heap WITH regions <- Regions

\* The allocator implements Heap: bd_malloc(n) hands out n bytes that overlap
\* neither a region in use nor reserved memory, bd_free takes a region back.
ImplementsHeap == H!Spec
-----------------------------------------------------------------------------
(* The inductive invariant behind the theorems of BuddyProofs *)

Aligned(s, a) == a = addr(s, blk_index(s, a))

\* The spinlock: a hart is inside a call exactly while it holds the lock.
LockInv == \A c \in CPU : (pc[c] # "idle") <=> (lock = c)

LocalsInv ==
  \A c \in CPU :
    /\ pc[c] \in {"firstk", "find", "split"} => nbytes[c] \in Requests
    /\ pc[c] = "find" /\ fk[c] \in Sizes => nbytes[c] <= BLK_SIZE[fk[c]]
    /\ pc[c] = "find" => fk[c] <= k[c]
    /\ pc[c] = "split" => /\ k[c] \in Sizes
                          /\ fk[c] \in 0..k[c]
                          /\ nbytes[c] <= BLK_SIZE[fk[c]]
    /\ pc[c] = "merge" => k[c] \in Sizes
    /\ pc[c] = "size" => fk[c] \in Sizes /\ k[c] \in 0..fk[c]
    /\ pc[c] \in {"split", "size", "merge"} => Aligned(HandSize(c), p[c])

BlocksInv ==
  /\ \A s \in Sizes, a \in Addr : <<s, a>> \in free => Aligned(s, a)
  /\ \A b \in live : Aligned(b.k, b.p) /\ b.n <= BLK_SIZE[b.k]
  /\ \A b1, b2 \in live : b1.k = b2.k /\ b1.p = b2.p => b1 = b2

\* A held block has one holder.
HeldOnce ==
  \A s \in Sizes : \A bi \in Index(s) :
    /\ ~(InHand(s, bi) /\ IsLive(s, bi))
    /\ ~(InHand(s, bi) /\ IsReserved(s, bi))
    /\ ~(IsLive(s, bi) /\ IsReserved(s, bi))

\* All the blocks around a split block are split.
SplitUp ==
  \A a \in Addr : \A s, t \in 1..MAXSIZE :
    s <= t /\ IsSplit(s, blk_index(s, a)) => IsSplit(t, blk_index(t, a))

BuddyInv ==
  /\ TypeOK /\ LockInv /\ LocalsInv /\ BlocksInv
  /\ BlockPartition /\ HeldOnce /\ SplitUp
  /\ AllocBitIsXor /\ Coalesced

\* The lists that bd_malloc's loop has passed are empty.
PassedEmpty ==
  \A c \in CPU : pc[c] = "find" =>
    \A s \in Sizes : fk[c] <= s /\ s < k[c] => \A a \in Addr : <<s, a>> \notin free

=============================================================================
