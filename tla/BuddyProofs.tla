---------------------------- MODULE BuddyProofs -----------------------------
(***************************************************************************)
(* Theorems about the buddy allocator: BuddyInv is inductive, hence no     *)
(* block is lost or handed out twice, the one alloc bit of a pair tells    *)
(* whether the buddy is free, size(p) is right, and the allocator          *)
(* implements Heap; and with PassedEmpty, bd_malloc fails only when every  *)
(* block of the size it needs overlaps memory in use.                      *)
(***************************************************************************)
EXTENDS Buddy, WellFoundedInduction, TLAPS

\* Leaves are tried with Zenon first, which is quick to give up.
USE ZenonT(3), SMTT(30)

-----------------------------------------------------------------------------
(* Arithmetic of blocks *)

\* Division by twice d is division by d, then by 2 (blk_index at size k+1).
LEMMA DivTwice ==
  ASSUME NEW a \in Nat, NEW d \in Nat \ {0}
  PROVE  a \div (2 * d) = (a \div d) \div 2
  OBVIOUS

\* The quotient of a product (blk_index of addr).
LEMMA DivMul ==
  ASSUME NEW q \in Nat, NEW d \in Nat \ {0}
  PROVE  (q * d) \div d = q
  OBVIOUS

\* A byte below q * d is in one of the first q blocks of d bytes.
LEMMA DivBelow ==
  ASSUME NEW a \in Nat, NEW d \in Nat \ {0}, NEW q \in Nat, a < q * d
  PROVE  a \div d \in 0..(q - 1)
  OBVIOUS

\* The byte at the start of one of the first q blocks of d bytes.
LEMMA MulBelow ==
  ASSUME NEW q \in Nat, NEW d \in Nat \ {0}, NEW i \in 0..(q - 1)
  PROVE  i * d \in 0..(q * d - 1)
<1>1. i + 1 <= q
  OBVIOUS
<1>2. (i + 1) * d <= q * d
  BY <1>1
<1>3. i * d + d <= q * d
  BY <1>2
<1>. QED
  BY <1>3

\* The bounds of sizes, indices and addresses, on their own.
LEMMA MaxNat == MAXSIZE \in Nat \ {0} /\ 0 \in Sizes /\ MAXSIZE \in Sizes
  BY SizesAssumption DEF Sizes

\* The index of a block is a natural number (blk_index).
LEMMA IndexNat == \A s \in Sizes : Index(s) \subseteq Nat
  BY SizesAssumption DEF Index

\* The heap has a first byte (bd_base).
LEMMA ZeroAddr == 0 \in Addr
<1>1. BLK_SIZE[MAXSIZE] \in Nat \ {0}
  BY MaxNat, SizesAssumption
<1>. QED
  BY <1>1 DEF Addr, HEAP_SIZE

\* The numbers of two neighbouring sizes.
LEMMA SizeFacts ==
  ASSUME NEW s \in 0..(MAXSIZE - 1)
  PROVE  /\ s \in Sizes /\ s + 1 \in Sizes /\ s + 1 \in 1..MAXSIZE
         /\ s # MAXSIZE /\ s < MAXSIZE
         /\ BLK_SIZE[s] \in Nat \ {0} /\ BLK_SIZE[s + 1] \in Nat \ {0}
         /\ NBLK[s] \in Nat \ {0} /\ NBLK[s + 1] \in Nat \ {0}
         /\ BLK_SIZE[s + 1] = 2 * BLK_SIZE[s]
         /\ NBLK[s] = 2 * NBLK[s + 1]
<1>1. MAXSIZE \in Nat /\ s \in Sizes /\ s + 1 \in Sizes /\ s + 1 \in 1..MAXSIZE
  BY SizesAssumption DEF Sizes
<1>2. BLK_SIZE[s] \in Nat \ {0} /\ BLK_SIZE[s + 1] \in Nat \ {0}
  BY <1>1, SizesAssumption
<1>3. NBLK[s] \in Nat \ {0} /\ NBLK[s + 1] \in Nat \ {0}
  BY <1>1, SizesAssumption
<1>4. BLK_SIZE[s + 1] = 2 * BLK_SIZE[s] /\ NBLK[s] = 2 * NBLK[s + 1]
  BY SizesAssumption
<1>. QED
  BY <1>1, <1>2, <1>3, <1>4

\* blk_index returns an index of the arrays of its size.
LEMMA IndexType ==
  ASSUME NEW s \in Sizes, NEW a \in Addr
  PROVE  blk_index(s, a) \in Index(s)
<1>1. a \in Nat /\ a < NBLK[s] * BLK_SIZE[s]
  BY SizesAssumption DEF Addr, HEAP_SIZE, Sizes
<1>. QED
  BY <1>1, DivBelow, SizesAssumption DEF blk_index, Index, Sizes

\* blk_index one size up is half of blk_index.
LEMMA IndexUp ==
  ASSUME NEW s \in 0..(MAXSIZE - 1), NEW a \in Addr
  PROVE  blk_index(s + 1, a) = blk_index(s, a) \div 2
<1>1. a \in Nat /\ BLK_SIZE[s] \in Nat \ {0} /\ BLK_SIZE[s + 1] = 2 * BLK_SIZE[s]
  BY SizeFacts DEF Addr
<1>. QED
  BY <1>1, DivTwice DEF blk_index

\* Division by a multiple of d is division by d, then by the factor.
LEMMA DivNested ==
  ASSUME NEW a \in Nat, NEW d \in Nat \ {0}, NEW m \in Nat \ {0}
  PROVE  a \div (m * d) = (a \div d) \div m
<1>. DEFINE q == a \div d
            u == q \div m
<1>1. q \in Nat /\ q * d <= a /\ a < q * d + d
  OBVIOUS
<1>2. u \in Nat /\ u * m <= q /\ q < u * m + m
  BY <1>1
<1>. HIDE DEF q, u
<1>3. q + 1 <= u * m + m /\ m * d \in Nat \ {0}
  BY <1>1, <1>2
<1>4. (u * m) * d <= q * d /\ (q + 1) * d <= (u * m + m) * d
  BY <1>1, <1>2, <1>3
<1>5. u * (m * d) <= a /\ a < u * (m * d) + m * d
  BY <1>1, <1>2, <1>4
<1>6. a \div (m * d) = u
  BY <1>5, <1>3, <1>2
<1>. QED
  BY <1>6 DEF q, u

\* Two bytes of one block are in one block at every larger size.
LEMMA SameBlockUp ==
  ASSUME NEW s \in Sizes, NEW t \in Sizes, s <= t,
         NEW a \in Addr, NEW b \in Addr, blk_index(s, a) = blk_index(s, b)
  PROVE  blk_index(t, a) = blk_index(t, b)
<1>1. /\ BLK_SIZE[s] \in Nat \ {0} /\ BLK_SIZE[t] \in Nat \ {0}
      /\ BLK_SIZE[t] % BLK_SIZE[s] = 0
  BY SizesAssumption, NestingAssumption
<1>2. PICK m \in Nat \ {0} : BLK_SIZE[t] = m * BLK_SIZE[s]
  <2>. DEFINE m == BLK_SIZE[t] \div BLK_SIZE[s]
  <2>1. m \in Nat \ {0} /\ BLK_SIZE[t] = m * BLK_SIZE[s]
    BY <1>1
  <2>. QED
    BY <2>1
<1>3. a \in Nat /\ b \in Nat
  BY DEF Addr
<1>. QED
  BY <1>1, <1>2, <1>3, DivNested DEF blk_index

\* addr returns an address of the heap, and blk_index undoes addr.
LEMMA AddrType ==
  ASSUME NEW s \in Sizes, NEW bi \in Index(s)
  PROVE  addr(s, bi) \in Addr /\ blk_index(s, addr(s, bi)) = bi
<1>1. /\ NBLK[s] \in Nat /\ BLK_SIZE[s] \in Nat \ {0} /\ bi \in 0..(NBLK[s] - 1)
      /\ NBLK[s] * BLK_SIZE[s] = HEAP_SIZE
  BY SizesAssumption DEF Index, HEAP_SIZE, Sizes
<1>2. bi * BLK_SIZE[s] \in Addr
  BY <1>1, MulBelow DEF Addr
<1>3. (bi * BLK_SIZE[s]) \div BLK_SIZE[s] = bi
  BY <1>1, DivMul
<1>. QED
  BY <1>2, <1>3 DEF addr, blk_index

\* A block and its buddy are the two halves of one block of the next size.
LEMMA PairOf ==
  ASSUME NEW s \in 0..(MAXSIZE - 1), NEW bi \in Index(s)
  PROVE  /\ bi \div 2 \in Index(s + 1)
         /\ buddyOf(bi) \in Index(s)
         /\ buddyOf(bi) # bi
         /\ buddyOf(bi) \div 2 = bi \div 2
         /\ \/ bi = 2 * (bi \div 2) /\ buddyOf(bi) = 2 * (bi \div 2) + 1
            \/ bi = 2 * (bi \div 2) + 1 /\ buddyOf(bi) = 2 * (bi \div 2)
<1>1. /\ NBLK[s] = 2 * NBLK[s + 1] /\ NBLK[s + 1] \in Nat
      /\ bi \in 0..(NBLK[s] - 1)
  BY SizeFacts DEF Index
<1>. QED
  BY <1>1 DEF Index, buddyOf

\* The two halves of block j of size s + 1.
LEMMA HalvesOf ==
  ASSUME NEW s \in 0..(MAXSIZE - 1), NEW j \in Index(s + 1)
  PROVE  /\ 2 * j \in Index(s) /\ 2 * j + 1 \in Index(s)
         /\ (2 * j) \div 2 = j /\ (2 * j + 1) \div 2 = j
         /\ buddyOf(2 * j) = 2 * j + 1 /\ buddyOf(2 * j + 1) = 2 * j
         /\ addr(s, 2 * j) = addr(s + 1, j)
         /\ addr(s, 2 * j) + BLK_SIZE[s] = addr(s, 2 * j + 1)
<1>1. /\ NBLK[s] = 2 * NBLK[s + 1] /\ BLK_SIZE[s + 1] = 2 * BLK_SIZE[s]
      /\ NBLK[s + 1] \in Nat /\ BLK_SIZE[s] \in Nat /\ j \in 0..(NBLK[s + 1] - 1)
  BY SizeFacts DEF Index
<1>2. /\ 2 * j \in Index(s) /\ 2 * j + 1 \in Index(s)
      /\ (2 * j) \div 2 = j /\ (2 * j + 1) \div 2 = j
      /\ buddyOf(2 * j) = 2 * j + 1 /\ buddyOf(2 * j + 1) = 2 * j
  BY <1>1 DEF Index, buddyOf
<1>3. (2 * j) * BLK_SIZE[s] = j * (2 * BLK_SIZE[s])
  BY <1>1
<1>4. (2 * j) * BLK_SIZE[s] + BLK_SIZE[s] = (2 * j + 1) * BLK_SIZE[s]
  BY <1>1
<1>. QED
  BY <1>1, <1>2, <1>3, <1>4 DEF addr

-----------------------------------------------------------------------------
(* The initial state *)

\* bd_init marks a block exactly when it marks one of its halves.
LEMMA InitUsedUp ==
  ASSUME NEW s \in 0..(MAXSIZE - 1), NEW j \in Index(s + 1)
  PROVE  InitUsed(s + 1, j) <=> InitUsed(s, 2 * j) \/ InitUsed(s, 2 * j + 1)
<1>1. \A leaf \in Reserved : addr(0, leaf) \in Addr
  BY AddrType, ReservedAssumption, SizesAssumption DEF Index, Sizes
<1>2. \A leaf \in Reserved : /\ blk_index(s, addr(0, leaf)) \in Nat
                             /\ blk_index(s + 1, addr(0, leaf)) = blk_index(s, addr(0, leaf)) \div 2
  BY <1>1, IndexUp, IndexType, SizeFacts DEF Index
<1>3. j \in Nat
  BY SizesAssumption DEF Index, Sizes
<1>. QED
  BY <1>2, <1>3 DEF InitUsed

\* The state bd_init leaves satisfies the inductive invariant.
LEMMA InitInv == Init => BuddyInv
<1>. SUFFICES ASSUME Init PROVE BuddyInv
  OBVIOUS
<1>. USE DEF Init
<1>1. TypeOK
  <2>1. free \subseteq Sizes \X Addr
    BY DEF InitFree
  <2>2. alloc \subseteq Sizes \X Nat
    <3>1. \A s \in 0..MAXSIZE-1 : s \in Sizes /\ \A j \in Index(s + 1) : j \in Nat
      BY SizeFacts DEF Index
    <3>. QED
      BY <3>1 DEF InitAlloc
  <2>3. split \subseteq (1..MAXSIZE) \X Nat
    <3>1. \A s \in 1..MAXSIZE : \A j \in Index(s) : j \in Nat
      BY SizesAssumption DEF Index, Sizes
    <3>. QED
      BY <3>1 DEF InitSplit
  <2>4. 0 \in Addr /\ 0 \in 0..(MAXSIZE + 1)
    BY MaxNat, ZeroAddr
  <2>. QED
    BY <2>1, <2>2, <2>3, <2>4 DEF TypeOK
<1>2. LockInv /\ LocalsInv
  BY CallersAssumption DEF LockInv, LocalsInv
<1>3. BlocksInv
  BY AddrType DEF BlocksInv, InitFree, Aligned
<1>4. \A s \in Sizes : \A bi \in Index(s) : ~InHand(s, bi) /\ ~IsLive(s, bi)
  BY DEF InHand, IsLive
<1>5. HeldOnce
  BY <1>4 DEF HeldOnce
<1>6. \A s \in Sizes : \A bi \in Index(s) : IsSplit(s, bi) <=> s # 0 /\ InitUsed(s, bi)
  <2>1. \A s \in Sizes : s # 0 <=> s \in 1..MAXSIZE
    BY MaxNat DEF Sizes
  <2>. QED
    BY <2>1 DEF IsSplit, InitSplit
<1>7. \A s \in Sizes : \A bi \in Index(s) :
        IsFree(s, bi) <=> s < MAXSIZE /\ ~InitUsed(s, bi) /\ InitUsed(s, buddyOf(bi))
  BY AddrType DEF IsFree, InitFree
<1>8. \A bi \in Index(0) : IsReserved(0, bi) <=> InitUsed(0, bi)
  <2>1. \A bi \in Index(0) : blk_index(0, addr(0, bi)) = bi
    BY AddrType, SizesAssumption DEF Sizes
  <2>2. Reserved \subseteq Index(0)
    BY ReservedAssumption DEF Index
  <2>. QED
    BY <2>1, <2>2 DEF IsReserved, InitUsed
<1>9. \A s \in Sizes : \A bi \in Index(s) :
        Exists(s, bi) <=> s = MAXSIZE \/ InitUsed(s, bi) \/ InitUsed(s, buddyOf(bi))
  <2>. SUFFICES ASSUME NEW s \in Sizes, NEW bi \in Index(s), s # MAXSIZE
                PROVE  Exists(s, bi) <=> InitUsed(s, bi) \/ InitUsed(s, buddyOf(bi))
    BY DEF Exists
  <2>1. s \in 0..(MAXSIZE - 1) /\ s + 1 \in Sizes
    BY SizesAssumption DEF Sizes
  <2>2. Exists(s, bi) <=> InitUsed(s + 1, bi \div 2)
    BY <2>1, <1>6, PairOf DEF Exists, IsSplit, Sizes
  <2>. QED
    BY <2>1, <2>2, PairOf, InitUsedUp
<1>10. InitUsed(MAXSIZE, 0) /\ Index(MAXSIZE) = {0}
  <2>1. PICK leaf \in Reserved : TRUE
    BY ReservedAssumption
  <2>2. addr(0, leaf) \in Addr
    BY AddrType, ReservedAssumption, SizesAssumption DEF Index, Sizes
  <2>3. Index(MAXSIZE) = {0}
    BY SizesAssumption DEF Index
  <2>. QED
    BY <2>2, <2>3, IndexType, SizesAssumption DEF InitUsed, Sizes
<1>11. BlockPartition
  <2>. SUFFICES ASSUME NEW s \in Sizes, NEW bi \in Index(s)
                PROVE  /\ Exists(s, bi) <=> (IsFree(s, bi) \/ IsSplit(s, bi) \/ Held(s, bi))
                       /\ ~(IsFree(s, bi) /\ IsSplit(s, bi))
                       /\ ~(IsFree(s, bi) /\ Held(s, bi))
                       /\ ~(IsSplit(s, bi) /\ Held(s, bi))
    BY DEF BlockPartition
  <2>1. Held(s, bi) <=> s = 0 /\ InitUsed(s, bi)
    BY <1>4, <1>8 DEF Held, IsReserved
  <2>2. s < MAXSIZE \/ s = MAXSIZE
    BY SizesAssumption DEF Sizes
  <2>3. MAXSIZE # 0 /\ ~(MAXSIZE < MAXSIZE)
    BY SizesAssumption
  <2>. QED
    BY <2>1, <2>2, <2>3, <1>6, <1>7, <1>9, <1>10
<1>12. AllocBitIsXor /\ Coalesced
  <2>. SUFFICES ASSUME NEW s \in 0..MAXSIZE-1, NEW j \in Index(s + 1)
                PROVE  /\ <<s, j>> \in alloc <=> ~(InUse(s, 2 * j) <=> InUse(s, 2 * j + 1))
                       /\ ~(IsFree(s, 2 * j) /\ IsFree(s, 2 * j + 1))
    BY DEF AllocBitIsXor, Coalesced, bit_isset
  <2>1. s \in Sizes /\ s < MAXSIZE /\ s # MAXSIZE
    BY SizesAssumption DEF Sizes
  <2>2. <<s, j>> \in alloc <=> ~(InitUsed(s, 2 * j) <=> InitUsed(s, 2 * j + 1))
    BY DEF InitAlloc
  <2>3. /\ 2 * j \in Index(s) /\ 2 * j + 1 \in Index(s)
        /\ buddyOf(2 * j) = 2 * j + 1 /\ buddyOf(2 * j + 1) = 2 * j
    BY HalvesOf
  <2>. QED
    BY <2>1, <2>2, <2>3, <1>7, <1>9 DEF InUse
<1>13. SplitUp
  <2>. SUFFICES ASSUME NEW a \in Addr, NEW s \in 1..MAXSIZE, NEW t \in 1..MAXSIZE,
                       s <= t, IsSplit(s, blk_index(s, a))
                PROVE  IsSplit(t, blk_index(t, a))
    BY DEF SplitUp
  <2>1. s \in Sizes /\ t \in Sizes /\ s # 0 /\ t # 0
    BY SizesAssumption DEF Sizes
  <2>2. /\ blk_index(s, a) \in Index(s) /\ blk_index(t, a) \in Index(t)
    BY <2>1, IndexType
  <2>3. PICK leaf \in Reserved : blk_index(s, addr(0, leaf)) = blk_index(s, a)
    BY <2>1, <2>2, <1>6 DEF InitUsed
  <2>4. addr(0, leaf) \in Addr
    BY AddrType, ReservedAssumption, SizesAssumption DEF Index, Sizes
  <2>5. blk_index(t, addr(0, leaf)) = blk_index(t, a)
    BY <2>1, <2>3, <2>4, SameBlockUp
  <2>. QED
    BY <2>1, <2>2, <2>5, <1>6 DEF InitUsed
<1>. QED
  BY <1>1, <1>2, <1>3, <1>5, <1>11, <1>12, <1>13 DEF BuddyInv
-----------------------------------------------------------------------------
(* Every action keeps the types and the lock discipline *)

\* The block in the hands of the call in progress is a block of the tree.
LEMMA HandBlock ==
  ASSUME TypeOK, LocalsInv, NEW c \in CPU, pc[c] \in {"split", "size", "merge"}
  PROVE  /\ HandSize(c) \in Sizes
         /\ blk_index(HandSize(c), p[c]) \in Index(HandSize(c))
         /\ p[c] = addr(HandSize(c), blk_index(HandSize(c), p[c]))
<1>1. p[c] \in Addr
  BY DEF TypeOK
<1>2. HandSize(c) \in Sizes
  BY DEF LocalsInv, HandSize
<1>3. Aligned(HandSize(c), p[c])
  BY DEF LocalsInv
<1>. QED
  BY <1>1, <1>2, <1>3, IndexType DEF Aligned

\* Only the lock holder has a block in hand.
LEMMA HandOfHolder ==
  ASSUME LockInv, NEW c \in CPU, pc[c] \in {"split", "size", "merge"}, NEW s, NEW bi
  PROVE  InHand(s, bi) <=> s = HandSize(c) /\ bi = blk_index(s, p[c])
<1>1. \A d \in CPU : pc[d] \in {"split", "size", "merge"} => d = c
  BY DEF LockInv
<1>. QED
  BY <1>1 DEF InHand

\* Nobody has a block in hand while the lock is free or a search is going on.
LEMMA NobodysHand ==
  ASSUME LockInv, NEW c \in CPU,
         lock = NONE \/ (lock = c /\ pc[c] \notin {"split", "size", "merge"}),
         NEW s, NEW bi
  PROVE  ~InHand(s, bi)
<1>1. \A d \in CPU : pc[d] \notin {"split", "size", "merge"}
  BY CallersAssumption DEF LockInv
<1>. QED
  BY <1>1 DEF InHand

\* TypeOK and LockInv are kept by every step of the calls in progress.
LEMMA TypeStep ==
  ASSUME BuddyInv, Next
  PROVE  TypeOK' /\ LockInv'
<1>. USE DEF BuddyInv
<1>0. PICK c \in CPU : \/ \E n \in Requests : bd_malloc(c, n)
                       \/ \E b \in live : bd_free(c, b)
                       \/ Step(c)
  BY DEF Next
<1>1. ASSUME NEW n \in Requests, bd_malloc(c, n) PROVE TypeOK' /\ LockInv'
  BY <1>1, CallersAssumption, MaxNat DEF bd_malloc, TypeOK, LockInv
<1>2. ASSUME NEW b \in live, bd_free(c, b) PROVE TypeOK' /\ LockInv'
  <2>1. b.p \in Addr /\ b.k \in Sizes /\ Sizes \subseteq 0..(MAXSIZE + 1) /\ 0 \in Sizes
    BY MaxNat DEF TypeOK, Sizes
  <2>. QED
    BY <1>2, <2>1, CallersAssumption DEF bd_free, TypeOK, LockInv
<1>3. CASE firstk(c)
  <2>1. k[c] \in Sizes => k[c] + 1 \in 0..(MAXSIZE + 1)
    BY MaxNat DEF Sizes
  <2>. QED
    BY <1>3, <2>1 DEF firstk, TypeOK, LockInv
<1>4. CASE FindNext(c)
  <2>1. k[c] \in Sizes => k[c] + 1 \in 0..(MAXSIZE + 1)
    BY MaxNat DEF Sizes
  <2>. QED
    BY <1>4, <2>1 DEF FindNext, TypeOK, LockInv
<1>5. 0 \in Addr /\ 0 \in 0..(MAXSIZE + 1)
  BY MaxNat, ZeroAddr
<1>6. CASE MallocFails(c)
  BY <1>5, <1>6, CallersAssumption DEF MallocFails, Return, TypeOK, LockInv
<1>7. ASSUME NEW a \in Addr, Pop(c, a) PROVE TypeOK' /\ LockInv'
  <2>1. blk_index(k[c], a) \div 2 \in Nat
    BY <1>7, IndexType, IndexNat DEF Pop
  <2>. QED
    BY <1>7, <2>1 DEF Pop, TypeOK, LockInv, bit_invert
<1>8. CASE Split(c)
  <2>. DEFINE s == k[c] - 1
             j == blk_index(k[c], p[c])
  <2>1. /\ s \in 0..MAXSIZE-1 /\ s + 1 = k[c] /\ k[c] \in 1..MAXSIZE
        /\ s \in 0..(MAXSIZE + 1)
    BY <1>8, MaxNat DEF Split, LocalsInv, Sizes
  <2>2. j \in Index(s + 1) /\ p[c] = addr(s + 1, j)
    BY <1>8, <2>1, HandBlock DEF Split, HandSize
  <2>3. p[c] + BLK_SIZE[s] \in Addr /\ s \in Sizes
    BY <2>1, <2>2, HalvesOf, SizeFacts, AddrType
  <2>4. blk_index(s, p[c]) \div 2 \in Nat /\ j \in Nat
    BY <2>1, <2>2, <2>3, IndexType, SizeFacts DEF Index, TypeOK
  <2>. HIDE DEF s, j
  <2>5. TypeOK'
    <3>1. free' \subseteq Sizes \X Addr
      BY <1>8, <2>3 DEF Split, TypeOK, s
    <3>2. alloc' \subseteq Sizes \X Nat
      BY <1>8, <2>3, <2>4 DEF Split, TypeOK, s, bit_invert
    <3>3. split' \subseteq (1..MAXSIZE) \X Nat
      BY <1>8, <2>1, <2>4 DEF Split, TypeOK, j, bit_set
    <3>4. k' \in [CPU -> 0..(MAXSIZE + 1)]
      BY <1>8, <2>1 DEF Split, TypeOK, s
    <3>. QED
      BY <1>8, <3>1, <3>2, <3>3, <3>4 DEF Split, TypeOK
  <2>. QED
    BY <1>8, <2>5 DEF Split, LockInv
<1>9. CASE MallocReturns(c)
  <2>1. [p |-> p[c], k |-> k[c], n |-> nbytes[c]] \in [p : Addr, k : Sizes, n : Requests]
    BY <1>9 DEF MallocReturns, TypeOK, LocalsInv
  <2>. QED
    BY <1>5, <1>9, <2>1, CallersAssumption DEF MallocReturns, Return, TypeOK, LockInv
<1>10. CASE size(c)
  <2>1. k[c] + 1 \in Sizes => k[c] + 1 \in 0..(MAXSIZE + 1)
    BY MaxNat DEF Sizes
  <2>. QED
    BY <1>10, <2>1 DEF size, TypeOK, LockInv
<1>11. CASE Merge(c)
  <2>. DEFINE s == k[c]
             bi == blk_index(s, p[c])
             buddy == buddyOf(bi)
             a == IF buddy % 2 = 0 THEN addr(s, buddy) ELSE p[c]
  <2>1. s \in 0..MAXSIZE-1 /\ s \in Sizes /\ s + 1 \in 0..(MAXSIZE + 1)
    BY <1>11, MaxNat DEF Merge, LocalsInv, Sizes
  <2>2. bi \in Index(s)
    BY <1>11, <2>1, IndexType DEF TypeOK
  <2>3. buddy \in Index(s) /\ buddy \div 2 \in Nat
    BY <2>1, <2>2, PairOf, SizeFacts DEF Index
  <2>4. a \in Addr
    BY <2>1, <2>3, AddrType DEF TypeOK
  <2>. HIDE DEF a
  <2>5. alloc' \subseteq Sizes \X Nat
    BY <1>11, <2>1, <2>3 DEF Merge, TypeOK, bit_invert
  <2>6. p' \in [CPU -> Addr]
    BY <1>11, <2>4 DEF Merge, TypeOK, a
  <2>7. free' \subseteq free /\ split' \subseteq split
    BY <1>11 DEF Merge, bit_clear
  <2>. QED
    BY <1>11, <2>1, <2>5, <2>6, <2>7 DEF Merge, TypeOK, LockInv
<1>12. CASE FreeReturns(c)
  <2>1. k[c] \in Sizes /\ p[c] \in Addr
    BY <1>12 DEF FreeReturns, LocalsInv, TypeOK
  <2>2. free' \subseteq Sizes \X Addr
    BY <1>12, <2>1 DEF FreeReturns, TypeOK
  <2>3. k[c] < MAXSIZE => buddyOf(blk_index(k[c], p[c])) \div 2 \in Nat
    <3>1. k[c] < MAXSIZE => k[c] \in 0..MAXSIZE-1
      BY <2>1, MaxNat DEF Sizes
    <3>2. blk_index(k[c], p[c]) \in Index(k[c])
      BY <2>1, IndexType
    <3>. QED
      BY <3>1, <3>2, PairOf, SizeFacts DEF Index
  <2>4. alloc' \subseteq Sizes \X Nat
    BY <1>12, <2>1, <2>3 DEF FreeReturns, TypeOK, bit_invert
  <2>. QED
    BY <1>5, <1>12, <2>2, <2>4, CallersAssumption DEF FreeReturns, Return, TypeOK, LockInv
<1>. QED
  BY <1>0, <1>1, <1>2, <1>3, <1>4, <1>6, <1>7, <1>8, <1>9, <1>10, <1>11, <1>12 DEF Step

-----------------------------------------------------------------------------
(* Every action keeps the tree of blocks *)

\* The block that contains everything is always split: some leaf is reserved.
LEMMA RootIsSplit ==
  ASSUME BuddyInv
  PROVE  IsSplit(MAXSIZE, 0) /\ Index(MAXSIZE) = {0}
<1>1. PICK leaf \in Reserved : leaf \in Index(0)
  BY ReservedAssumption DEF Index
<1>2. Exists(0, leaf)
  BY <1>1, MaxNat DEF BuddyInv, BlockPartition, Held, IsReserved
<1>3. <<1, leaf \div 2>> \in split
  BY <1>2, MaxNat DEF Exists
<1>. DEFINE a == addr(0, leaf)
<1>4. a \in Addr /\ blk_index(0, a) = leaf
  BY <1>1, AddrType, MaxNat
<1>. HIDE DEF a
<1>5. blk_index(1, a) = leaf \div 2
  BY <1>4, IndexUp, MaxNat
<1>6. IsSplit(MAXSIZE, blk_index(MAXSIZE, a))
  BY <1>3, <1>4, <1>5, MaxNat DEF BuddyInv, SplitUp, IsSplit
<1>7. Index(MAXSIZE) = {0}
  BY SizesAssumption DEF Index
<1>. QED
  BY <1>4, <1>6, <1>7, IndexType, MaxNat

\* The facts about the block in hand that every action on it uses.
LEMMA HandFacts ==
  ASSUME BuddyInv, NEW c \in CPU, pc[c] \in {"split", "size", "merge"},
         NEW s, s = HandSize(c), NEW bi, bi = blk_index(s, p[c])
  PROVE  /\ s \in 0..MAXSIZE-1 /\ bi \in Index(s) /\ p[c] = addr(s, bi)
         /\ Exists(s, bi) /\ ~IsFree(s, bi) /\ ~IsSplit(s, bi)
         /\ ~IsLive(s, bi) /\ ~IsReserved(s, bi)
<1>1. s \in Sizes /\ bi \in Index(s) /\ p[c] = addr(s, bi)
  BY HandBlock DEF BuddyInv
<1>2. InHand(s, bi)
  BY HandOfHolder DEF BuddyInv
<1>3. /\ Exists(s, bi) /\ ~IsFree(s, bi) /\ ~IsSplit(s, bi)
      /\ ~IsLive(s, bi) /\ ~IsReserved(s, bi)
  BY <1>1, <1>2 DEF BuddyInv, BlockPartition, HeldOnce, Held
<1>4. s # MAXSIZE
  BY <1>1, <1>3, RootIsSplit
<1>. QED
  BY <1>1, <1>3, <1>4, MaxNat DEF Sizes

\* A step that leaves the structures and the block in hand alone.
LEMMA QuietStep ==
  ASSUME BuddyInv, TypeOK', LockInv', LocalsInv', UNCHANGED <<free, alloc, split, live>>,
         \A s, bi : InHand(s, bi)' <=> InHand(s, bi)
  PROVE  BuddyInv'
<1>1. \A s, bi : /\ Exists(s, bi)' <=> Exists(s, bi)
                 /\ IsFree(s, bi)' <=> IsFree(s, bi)
                 /\ IsSplit(s, bi)' <=> IsSplit(s, bi)
                 /\ IsLive(s, bi)' <=> IsLive(s, bi)
                 /\ IsReserved(s, bi)' <=> IsReserved(s, bi)
                 /\ InUse(s, bi)' <=> InUse(s, bi)
                 /\ Held(s, bi)' <=> Held(s, bi)
  BY DEF Exists, IsFree, IsSplit, IsLive, IsReserved, InUse, Held
<1>2. BlocksInv'
  BY DEF BuddyInv, BlocksInv
<1>3. BlockPartition' /\ HeldOnce'
  BY <1>1 DEF BuddyInv, BlockPartition, HeldOnce
<1>4. SplitUp'
  BY <1>1 DEF BuddyInv, SplitUp
<1>5. AllocBitIsXor' /\ Coalesced'
  BY <1>1 DEF BuddyInv, AllocBitIsXor, Coalesced, bit_isset
<1>. QED
  BY <1>2, <1>3, <1>4, <1>5 DEF BuddyInv

\* size(p) stays inside bd_sizes and stops at the size of the block.
LEMMA SizeCorrect ==
  ASSUME BuddyInv
  PROVE  SizeFindsBlock
<1>. SUFFICES ASSUME NEW c \in CPU, pc[c] = "size"
              PROVE  /\ k[c] <= fk[c] /\ k[c] + 1 \in Sizes
                     /\ <<k[c] + 1, blk_index(k[c] + 1, p[c])>> \in split => k[c] = fk[c]
  BY DEF SizeFindsBlock, bit_isset
<1>1. fk[c] \in 0..MAXSIZE-1 /\ ~IsSplit(fk[c], blk_index(fk[c], p[c]))
  BY HandFacts DEF HandSize
<1>2. k[c] \in 0..fk[c] /\ p[c] \in Addr
  BY DEF BuddyInv, LocalsInv, TypeOK
<1>3. k[c] <= fk[c] /\ k[c] + 1 \in Sizes
  BY <1>1, <1>2, MaxNat DEF Sizes
<1>4. ASSUME <<k[c] + 1, blk_index(k[c] + 1, p[c])>> \in split, k[c] # fk[c]
      PROVE  FALSE
  <2>1. k[c] + 1 \in 1..MAXSIZE /\ fk[c] \in 1..MAXSIZE /\ k[c] + 1 <= fk[c]
    BY <1>1, <1>2, <1>4, MaxNat
  <2>. QED
    BY <1>1, <1>2, <1>4, <2>1 DEF BuddyInv, SplitUp, IsSplit
<1>. QED
  BY <1>3, <1>4

\* The actions that only search, start or end a search.
LEMMA QuietActions ==
  ASSUME BuddyInv, TypeOK', LockInv', NEW c \in CPU,
         \/ \E n \in Requests : bd_malloc(c, n)
         \/ firstk(c) \/ FindNext(c) \/ MallocFails(c)
  PROVE  BuddyInv'
<1>1. UNCHANGED <<free, alloc, split, live>>
  BY DEF bd_malloc, firstk, FindNext, MallocFails
<1>2. lock = NONE \/ (lock = c /\ pc[c] \notin {"split", "size", "merge"})
  BY DEF bd_malloc, firstk, FindNext, MallocFails, BuddyInv, LockInv
<1>3. (lock = NONE \/ (lock = c /\ pc[c] \notin {"split", "size", "merge"}))'
  BY <1>2 DEF bd_malloc, firstk, FindNext, MallocFails, Return, BuddyInv, LockInv, TypeOK
<1>4. \A s, bi : ~InHand(s, bi)
  BY <1>2, NobodysHand DEF BuddyInv
<1>5. \A d \in CPU : pc'[d] \notin {"split", "size", "merge"}
  BY <1>3, CallersAssumption DEF LockInv
<1>6. \A s, bi : ~InHand(s, bi)'
  BY <1>5 DEF InHand
<1>7. LocalsInv'
  <2>1. ASSUME NEW n \in Requests, bd_malloc(c, n) PROVE LocalsInv'
    BY <2>1, <1>5 DEF bd_malloc, BuddyInv, LocalsInv, TypeOK, HandSize, Aligned
  <2>2. CASE firstk(c)
    <3>1. k[c] \in 0..(MAXSIZE + 1) /\ nbytes[c] \in Nat
      BY DEF BuddyInv, TypeOK
    <3>2. k[c] \in Sizes => BLK_SIZE[k[c]] \in Nat
      BY SizesAssumption
    <3>. QED
      BY <2>2, <1>5, <3>1, <3>2 DEF firstk, BuddyInv, LocalsInv, TypeOK
  <2>3. CASE FindNext(c)
    <3>1. \A x, y \in Int : x <= y => x <= y + 1
      OBVIOUS
    <3>2. fk[c] \in Int /\ k[c] \in Int
      BY DEF BuddyInv, TypeOK
    <3>. QED
      BY <2>3, <1>5, <3>1, <3>2 DEF FindNext, BuddyInv, LocalsInv, TypeOK
  <2>4. CASE MallocFails(c)
    BY <2>4, <1>5 DEF MallocFails, Return, BuddyInv, LocalsInv, TypeOK
  <2>. QED
    BY <2>1, <2>2, <2>3, <2>4
<1>. QED
  BY <1>1, <1>4, <1>6, <1>7, QuietStep

-----------------------------------------------------------------------------
(* The actions that move a block *)

\* A test of the loop of size(p) keeps the block in hand.
LEMMA SizeStep ==
  ASSUME BuddyInv, TypeOK', LockInv', NEW c \in CPU, size(c)
  PROVE  BuddyInv'
<1>1. UNCHANGED <<free, alloc, split, live, p, fk, nbytes>> /\ pc[c] = "size"
  BY DEF size
<1>2. pc'[c] \in {"size", "merge"}
  BY DEF size, BuddyInv, TypeOK
<1>3. HandSize(c)' = HandSize(c)
  BY SizeCorrect, <1>1 DEF size, SizeFindsBlock, HandSize, BuddyInv, TypeOK
<1>4. \A d \in CPU : d # c => pc'[d] = "idle" /\ pc[d] = "idle"
  BY <1>1, <1>2 DEF LockInv, BuddyInv
<1>5. \A s, bi : InHand(s, bi) <=> s = HandSize(c) /\ bi = blk_index(s, p[c])
  BY <1>1, <1>4 DEF InHand
<1>6. \A s, bi : InHand(s, bi)' <=> s = HandSize(c)' /\ bi = blk_index(s, p'[c])
  BY <1>2, <1>4 DEF InHand
<1>7. \A s, bi : InHand(s, bi)' <=> InHand(s, bi)
  BY <1>1, <1>3, <1>5, <1>6
<1>8. LocalsInv'
  <2>1. Aligned(HandSize(c), p[c])'
    BY <1>1, <1>3 DEF BuddyInv, LocalsInv, Aligned
  <2>2. pc'[c] = "merge" => k'[c] \in Sizes
    BY <1>1, SizeCorrect DEF size, SizeFindsBlock, BuddyInv, LocalsInv, TypeOK
  <2>3. pc'[c] = "size" => fk'[c] \in Sizes /\ k'[c] \in 0..fk'[c]
    <3>1. /\ k[c] <= fk[c] /\ k[c] + 1 \in Sizes /\ fk[c] \in Sizes /\ k[c] \in 0..fk[c]
      BY <1>1, SizeCorrect DEF SizeFindsBlock, BuddyInv, LocalsInv
    <3>2. k[c] # fk[c] => k[c] + 1 \in 0..fk[c]
      BY <3>1, MaxNat DEF Sizes
    <3>3. fk[c] \in 0..MAXSIZE-1 /\ Exists(fk[c], blk_index(fk[c], p[c])) /\ p[c] \in Addr
      BY <1>1, HandFacts DEF HandSize, BuddyInv, TypeOK
    <3>4. k[c] = fk[c] => <<k[c] + 1, blk_index(k[c] + 1, p[c])>> \in split
      BY <3>3, IndexUp, MaxNat DEF Exists
    <3>5. pc'[c] = "size" => k'[c] = k[c] + 1 /\ <<k[c] + 1, blk_index(k[c] + 1, p[c])>> \notin split
      BY DEF size, bit_isset, BuddyInv, TypeOK
    <3>. QED
      BY <1>1, <3>1, <3>2, <3>4, <3>5
  <2>. QED
    BY <1>2, <1>4, <2>1, <2>2, <2>3 DEF LocalsInv
<1>. QED
  BY <1>1, <1>7, <1>8, QuietStep

\* lst_pop: the block moves from its list into the caller's hand.
LEMMA PopStep ==
  ASSUME BuddyInv, TypeOK', LockInv', NEW c \in CPU, NEW a \in Addr, Pop(c, a)
  PROVE  BuddyInv'
<1>. DEFINE s == k[c]
           i == blk_index(s, a)
<1>1. /\ s \in Sizes /\ <<s, a>> \in free /\ pc[c] = "find" /\ lock = c
      /\ free' = free \ {<<s, a>>} /\ p'[c] = a /\ pc'[c] = "split" /\ k'[c] = s
      /\ alloc' = bit_invert(alloc, <<s, i \div 2>>)
      /\ UNCHANGED <<split, live, k, fk, nbytes>>
  BY DEF Pop, BuddyInv, TypeOK, LockInv
<1>2. i \in Index(s) /\ a = addr(s, i)
  BY <1>1, IndexType DEF BuddyInv, BlocksInv, Aligned
<1>. HIDE DEF s, i
<1>3. \A t, x : /\ Exists(t, x)' <=> Exists(t, x)
                /\ IsSplit(t, x)' <=> IsSplit(t, x)
                /\ IsLive(t, x)' <=> IsLive(t, x)
                /\ IsReserved(t, x)' <=> IsReserved(t, x)
  BY <1>1 DEF Exists, IsSplit, IsLive, IsReserved
<1>4. \A t \in Sizes : \A x \in Index(t) :
        IsFree(t, x)' <=> IsFree(t, x) /\ ~(t = s /\ x = i)
  BY <1>1, <1>2, AddrType DEF IsFree
<1>5. \A t, x : ~InHand(t, x)
  BY <1>1, NobodysHand DEF BuddyInv
<1>6. \A t, x : InHand(t, x)' <=> t = s /\ x = i
  <2>1. \A d \in CPU : pc'[d] \in {"split", "size", "merge"} <=> d = c
    BY <1>1 DEF LockInv
  <2>. QED
    BY <1>1, <2>1 DEF InHand, HandSize, i
<1>7. IsFree(s, i) /\ Exists(s, i) /\ ~IsSplit(s, i) /\ ~Held(s, i)
  BY <1>1, <1>2 DEF BuddyInv, BlockPartition, IsFree
<1>8. BlockPartition' /\ HeldOnce'
  <2>1. \A t \in Sizes : \A x \in Index(t) :
          Held(t, x)' <=> Held(t, x) \/ (t = s /\ x = i)
    BY <1>3, <1>5, <1>6 DEF Held
  <2>2. BlockPartition'
    BY <2>1, <1>3, <1>4, <1>7 DEF BuddyInv, BlockPartition
  <2>3. HeldOnce'
    BY <1>3, <1>5, <1>6, <1>7 DEF BuddyInv, HeldOnce, Held
  <2>. QED
    BY <2>2, <2>3
<1>9. SplitUp'
  BY <1>3 DEF BuddyInv, SplitUp
<1>10. Coalesced'
  BY <1>4, HalvesOf, SizeFacts DEF BuddyInv, Coalesced
<1>11. AllocBitIsXor'
  <2>. SUFFICES ASSUME NEW t \in 0..MAXSIZE-1, NEW j \in Index(t + 1)
                PROVE  <<t, j>> \in alloc' <=> ~(InUse(t, 2 * j)' <=> InUse(t, 2 * j + 1)')
    BY DEF AllocBitIsXor, bit_isset
  <2>1. <<t, j>> \in alloc <=> ~(InUse(t, 2 * j) <=> InUse(t, 2 * j + 1))
    BY DEF BuddyInv, AllocBitIsXor, bit_isset
  <2>2. t \in Sizes /\ 2 * j \in Index(t) /\ 2 * j + 1 \in Index(t) /\ 2 * j # 2 * j + 1
    BY HalvesOf, SizeFacts, IndexNat
  <2>3. \A x \in Index(t) : InUse(t, x)' <=> InUse(t, x) \/ (t = s /\ x = i)
    BY <2>2, <1>3, <1>4, <1>7 DEF InUse
  <2>4. (t = s /\ j = i \div 2) <=> t = s /\ (i = 2 * j \/ i = 2 * j + 1)
    BY <1>2, PairOf, HalvesOf
  <2>5. <<t, j>> \in alloc' <=> ~(<<t, j>> \in alloc <=> (t = s /\ j = i \div 2))
    BY <1>1 DEF bit_invert
  <2>6. t = s => ~InUse(t, i)
    BY <1>7 DEF InUse
  <2>. QED
    BY <2>1, <2>2, <2>3, <2>4, <2>5, <2>6
<1>12. BlocksInv'
  BY <1>1 DEF BuddyInv, BlocksInv
<1>13. LocalsInv'
  <2>1. \A d \in CPU : d # c => pc'[d] = "idle"
    BY <1>1 DEF LockInv
  <2>2. fk[c] \in 0..s /\ fk[c] \in Sizes
    BY <1>1, MaxNat DEF BuddyInv, LocalsInv, TypeOK, s, Sizes
  <2>3. HandSize(c)' = s
    BY <1>1 DEF HandSize
  <2>. QED
    BY <1>1, <1>2, <2>1, <2>2, <2>3 DEF BuddyInv, LocalsInv, Aligned, i
<1>. QED
  BY <1>8, <1>9, <1>10, <1>11, <1>12, <1>13 DEF BuddyInv

\* A step that only passes a held block from one holder to another.
LEMMA HandOver ==
  ASSUME BuddyInv, TypeOK', LockInv', LocalsInv', BlocksInv', HeldOnce',
         UNCHANGED <<free, alloc, split>>,
         \A s \in Sizes : \A bi \in Index(s) : Held(s, bi)' <=> Held(s, bi)
  PROVE  BuddyInv'
<1>1. \A s, bi : /\ Exists(s, bi)' <=> Exists(s, bi)
                 /\ IsFree(s, bi)' <=> IsFree(s, bi)
                 /\ IsSplit(s, bi)' <=> IsSplit(s, bi)
                 /\ InUse(s, bi)' <=> InUse(s, bi)
  BY DEF Exists, IsFree, IsSplit, InUse
<1>2. BlockPartition' /\ SplitUp'
  BY <1>1 DEF BuddyInv, BlockPartition, SplitUp
<1>3. AllocBitIsXor' /\ Coalesced'
  BY <1>1 DEF BuddyInv, AllocBitIsXor, Coalesced, bit_isset
<1>. QED
  BY <1>2, <1>3 DEF BuddyInv

\* bd_malloc returns: the block in hand becomes the caller's.
LEMMA MallocReturnsStep ==
  ASSUME BuddyInv, TypeOK', LockInv', NEW c \in CPU, MallocReturns(c)
  PROVE  BuddyInv'
<1>. DEFINE s == k[c]
           i == blk_index(s, p[c])
           b == [p |-> p[c], k |-> s, n |-> nbytes[c]]
<1>1. /\ pc[c] = "split" /\ live' = live \union {b} /\ lock' = NONE
      /\ UNCHANGED <<free, alloc, split>>
  BY DEF MallocReturns, Return
<1>2. /\ s \in 0..MAXSIZE-1 /\ i \in Index(s) /\ p[c] = addr(s, i) /\ s = HandSize(c)
      /\ ~IsLive(s, i) /\ ~IsReserved(s, i)
  BY <1>1, HandFacts DEF HandSize
<1>3. s = fk[c] /\ nbytes[c] <= BLK_SIZE[s]
  BY <1>1, <1>2 DEF MallocReturns, BuddyInv, LocalsInv
<1>. HIDE DEF s, i
<1>4. \A t, x : InHand(t, x) <=> t = s /\ x = i
  BY <1>1, <1>2, HandOfHolder DEF BuddyInv, i
<1>5. \A d \in CPU : pc'[d] = "idle"
  BY <1>1, CallersAssumption DEF LockInv
<1>6. \A t, x : ~InHand(t, x)'
  BY <1>5 DEF InHand
<1>7. \A t \in Sizes : \A x \in Index(t) : IsLive(t, x)' <=> IsLive(t, x) \/ (t = s /\ x = i)
  <2>1. \A x \in Index(s) : addr(s, x) = p[c] <=> x = i
    BY <1>2, AddrType, SizeFacts
  <2>2. b.k = s /\ b.p = p[c]
    OBVIOUS
  <2>. HIDE DEF b
  <2>3. \A t, x : IsLive(t, x)' <=> IsLive(t, x) \/ (t = s /\ addr(t, x) = p[c])
    BY <1>1, <2>2 DEF IsLive
  <2>. QED
    BY <2>1, <2>3
<1>8. \A t \in Sizes : \A x \in Index(t) : Held(t, x)' <=> Held(t, x)
  BY <1>4, <1>6, <1>7 DEF Held, IsReserved
<1>9. HeldOnce'
  BY <1>2, <1>6, <1>7 DEF BuddyInv, HeldOnce, IsReserved
<1>10. BlocksInv'
  <2>1. \A o \in live : ~(o.k = s /\ o.p = p[c])
    BY <1>2 DEF IsLive
  <2>2. \A o1, o2 \in live' : o1.k = o2.k /\ o1.p = o2.p => o1 = o2
    BY <1>1, <2>1 DEF BuddyInv, BlocksInv
  <2>3. \A o \in live' : Aligned(o.k, o.p) /\ o.n <= BLK_SIZE[o.k]
    BY <1>1, <1>2, <1>3 DEF BuddyInv, BlocksInv, Aligned, i
  <2>. QED
    BY <1>1, <2>2, <2>3 DEF BuddyInv, BlocksInv
<1>11. LocalsInv'
  BY <1>5 DEF LocalsInv
<1>. QED
  BY <1>1, <1>8, <1>9, <1>10, <1>11, HandOver

\* bd_free starts: the caller's block passes into the hand of the call.
LEMMA FreeStarts ==
  ASSUME BuddyInv, TypeOK', LockInv', NEW c \in CPU, NEW b \in live, bd_free(c, b)
  PROVE  BuddyInv'
<1>. DEFINE s == b.k
           i == blk_index(s, b.p)
<1>1. /\ lock = NONE /\ lock' = c /\ live' = live \ {b} /\ pc'[c] = "size" /\ p'[c] = b.p
      /\ fk'[c] = s /\ k'[c] = 0 /\ UNCHANGED <<free, alloc, split>>
  BY DEF bd_free, BuddyInv, TypeOK
<1>2. s \in Sizes /\ i \in Index(s) /\ b.p = addr(s, i)
  BY IndexType DEF BuddyInv, TypeOK, BlocksInv, Aligned
<1>. HIDE DEF s, i
<1>3. \A t, x : ~InHand(t, x)
  BY <1>1, NobodysHand DEF BuddyInv
<1>4. \A d \in CPU : pc'[d] # "idle" <=> d = c
  BY <1>1 DEF LockInv
<1>5. \A t, x : InHand(t, x)' <=> t = s /\ x = i
  BY <1>1, <1>4 DEF InHand, HandSize, i
<1>6. \A t \in Sizes : \A x \in Index(t) : IsLive(t, x)' <=> IsLive(t, x) /\ ~(t = s /\ x = i)
  <2>1. \A o \in live : o.k = s /\ o.p = addr(s, i) => o = b
    BY <1>2 DEF BuddyInv, BlocksInv, s
  <2>2. \A x \in Index(s) : addr(s, x) = addr(s, i) => x = i
    BY <1>2, AddrType
  <2>. QED
    BY <1>1, <1>2, <2>1, <2>2 DEF IsLive, s
<1>7. IsLive(s, i)
  BY <1>2 DEF IsLive, s
<1>8. \A t \in Sizes : \A x \in Index(t) : Held(t, x)' <=> Held(t, x)
  BY <1>3, <1>5, <1>6, <1>7 DEF Held, IsReserved
<1>9. HeldOnce'
  BY <1>2, <1>3, <1>5, <1>6, <1>7 DEF BuddyInv, HeldOnce, IsReserved
<1>10. BlocksInv'
  BY <1>1 DEF BuddyInv, BlocksInv
<1>11. LocalsInv'
  <2>1. HandSize(c)' = s /\ 0 \in 0..s
    BY <1>1, <1>2, MaxNat DEF HandSize, Sizes
  <2>. QED
    BY <1>1, <1>2, <1>4, <2>1 DEF LocalsInv, Aligned, i
<1>. QED
  BY <1>1, <1>8, <1>9, <1>10, <1>11, HandOver

\* bd_free ends: the buddy is in use, the block goes back to its list.
LEMMA FreeReturnsStep ==
  ASSUME BuddyInv, TypeOK', LockInv', NEW c \in CPU, FreeReturns(c)
  PROVE  BuddyInv'
<1>. DEFINE s == k[c]
           i == blk_index(s, p[c])
<1>1. /\ pc[c] = "merge" /\ lock' = NONE /\ UNCHANGED <<split, live>>
      /\ free' = free \union {<<s, p[c]>>}
  BY DEF FreeReturns, Return
<1>2. /\ s \in 0..MAXSIZE-1 /\ i \in Index(s) /\ p[c] = addr(s, i) /\ s = HandSize(c)
      /\ Exists(s, i) /\ ~IsFree(s, i) /\ ~IsSplit(s, i)
      /\ ~IsLive(s, i) /\ ~IsReserved(s, i)
  BY <1>1, HandFacts DEF HandSize
<1>3. s < MAXSIZE /\ s \in Sizes /\ buddyOf(i) \div 2 = i \div 2
  BY <1>2, SizeFacts, PairOf
<1>4. /\ alloc' = bit_invert(alloc, <<s, i \div 2>>)
      /\ <<s, i \div 2>> \in alloc'
  BY <1>3 DEF FreeReturns, bit_isset
<1>. HIDE DEF s, i
<1>5. \A t, x : InHand(t, x) <=> t = s /\ x = i
  BY <1>1, <1>2, HandOfHolder DEF BuddyInv, i
<1>6. \A d \in CPU : pc'[d] = "idle"
  BY <1>1, CallersAssumption DEF LockInv
<1>7. \A t, x : ~InHand(t, x)'
  BY <1>6 DEF InHand
<1>8. \A t, x : /\ Exists(t, x)' <=> Exists(t, x)
                /\ IsSplit(t, x)' <=> IsSplit(t, x)
                /\ IsLive(t, x)' <=> IsLive(t, x)
                /\ IsReserved(t, x)' <=> IsReserved(t, x)
  BY <1>1 DEF Exists, IsSplit, IsLive, IsReserved
<1>9. \A t \in Sizes : \A x \in Index(t) : IsFree(t, x)' <=> IsFree(t, x) \/ (t = s /\ x = i)
  <2>1. \A x \in Index(s) : addr(s, x) = p[c] <=> x = i
    BY <1>2, <1>3, AddrType
  <2>. QED
    BY <1>1, <2>1 DEF IsFree
<1>10. BlockPartition' /\ HeldOnce'
  <2>1. \A t \in Sizes : \A x \in Index(t) :
          Held(t, x)' <=> Held(t, x) /\ ~(t = s /\ x = i)
    BY <1>2, <1>5, <1>7, <1>8 DEF Held
  <2>2. BlockPartition'
    BY <2>1, <1>2, <1>8, <1>9 DEF BuddyInv, BlockPartition
  <2>3. HeldOnce'
    BY <1>7, <1>8 DEF BuddyInv, HeldOnce
  <2>. QED
    BY <2>2, <2>3
<1>11. SplitUp'
  BY <1>8 DEF BuddyInv, SplitUp
<1>12. AllocBitIsXor' /\ Coalesced'
  <2>. SUFFICES ASSUME NEW t \in 0..MAXSIZE-1, NEW j \in Index(t + 1)
                PROVE  /\ <<t, j>> \in alloc' <=> ~(InUse(t, 2 * j)' <=> InUse(t, 2 * j + 1)')
                       /\ ~(IsFree(t, 2 * j)' /\ IsFree(t, 2 * j + 1)')
    BY DEF AllocBitIsXor, Coalesced, bit_isset
  <2>1. /\ <<t, j>> \in alloc <=> ~(InUse(t, 2 * j) <=> InUse(t, 2 * j + 1))
        /\ ~(IsFree(t, 2 * j) /\ IsFree(t, 2 * j + 1))
    BY DEF BuddyInv, AllocBitIsXor, Coalesced, bit_isset
  <2>2. t \in Sizes /\ 2 * j \in Index(t) /\ 2 * j + 1 \in Index(t) /\ 2 * j # 2 * j + 1
    BY HalvesOf, SizeFacts, IndexNat
  <2>3. \A x \in Index(t) : InUse(t, x)' <=> InUse(t, x) /\ ~(t = s /\ x = i)
    BY <2>2, <1>8, <1>9 DEF InUse
  <2>4. (t = s /\ j = i \div 2) <=> t = s /\ (i = 2 * j \/ i = 2 * j + 1)
    BY <1>2, PairOf, HalvesOf
  <2>5. <<t, j>> \in alloc' <=> ~(<<t, j>> \in alloc <=> (t = s /\ j = i \div 2))
    BY <1>4 DEF bit_invert
  <2>6. t = s => InUse(t, i)
    BY <1>2 DEF InUse
  <2>7. t = s /\ j = i \div 2 => <<t, j>> \notin alloc
    BY <1>4, <2>5
  <2>8. t = s /\ j = i \div 2 => InUse(t, 2 * j) /\ InUse(t, 2 * j + 1)
    BY <2>1, <2>4, <2>6, <2>7
  <2>9. <<t, j>> \in alloc' <=> ~(InUse(t, 2 * j)' <=> InUse(t, 2 * j + 1)')
    BY <2>1, <2>2, <2>3, <2>4, <2>5, <2>8
  <2>10. ~(IsFree(t, 2 * j)' /\ IsFree(t, 2 * j + 1)')
    BY <2>1, <2>2, <2>4, <2>8, <1>9 DEF InUse
  <2>. QED
    BY <2>9, <2>10
<1>13. BlocksInv'
  BY <1>1, <1>2 DEF BuddyInv, BlocksInv, Aligned, i
<1>14. LocalsInv'
  BY <1>6 DEF LocalsInv
<1>. QED
  BY <1>10, <1>11, <1>12, <1>13, <1>14 DEF BuddyInv

\* An iteration of bd_malloc's splitting loop: the right half becomes free,
\* the left half stays in hand.
LEMMA SplitStep ==
  ASSUME BuddyInv, TypeOK', LockInv', NEW c \in CPU, Split(c)
  PROVE  BuddyInv'
<1>. DEFINE s == k[c] - 1
           j == blk_index(k[c], p[c])
<1>1. pc[c] = "split" /\ k[c] > fk[c] /\ HandSize(c) = k[c] /\ k[c] \in Sizes /\ fk[c] \in 0..k[c]
  BY DEF Split, HandSize, BuddyInv, LocalsInv
<1>2. /\ s + 1 \in 0..MAXSIZE-1 /\ s \in 0..MAXSIZE-1 /\ k[c] = s + 1 /\ fk[c] \in 0..s
      /\ s + 1 \in 1..MAXSIZE
  BY <1>1, HandFacts, MaxNat DEF Sizes
<1>3. /\ j \in Index(s + 1) /\ p[c] = addr(s + 1, j)
      /\ Exists(s + 1, j) /\ ~IsFree(s + 1, j) /\ ~IsSplit(s + 1, j)
      /\ ~IsLive(s + 1, j) /\ ~IsReserved(s + 1, j)
  BY <1>1, <1>2, HandFacts
<1>4. /\ 2 * j \in Index(s) /\ 2 * j + 1 \in Index(s)
      /\ p[c] = addr(s, 2 * j) /\ p[c] + BLK_SIZE[s] = addr(s, 2 * j + 1)
      /\ blk_index(s, p[c]) = 2 * j /\ (2 * j) \div 2 = j /\ (2 * j + 1) \div 2 = j
      /\ s \in Sizes /\ s + 1 \in Sizes
  BY <1>2, <1>3, HalvesOf, AddrType, SizeFacts
<1>5. /\ split' = split \union {<<s + 1, j>>}
      /\ alloc' = bit_invert(alloc, <<s, j>>)
      /\ free' = free \union {<<s, addr(s, 2 * j + 1)>>}
      /\ k'[c] = s /\ UNCHANGED <<pc, p, live, fk, nbytes, lock>>
  BY <1>2, <1>4 DEF Split, bit_set, BuddyInv, TypeOK
<1>. HIDE DEF s, j
<1>6. \A t, x : InHand(t, x) <=> t = s + 1 /\ x = j
  BY <1>1, <1>2, HandOfHolder DEF BuddyInv, j
<1>7. \A t, x : InHand(t, x)' <=> t = s /\ x = 2 * j
  <2>1. \A d \in CPU : pc'[d] # "idle" <=> d = c
    BY <1>1, <1>5 DEF BuddyInv, LockInv
  <2>. QED
    BY <1>1, <1>4, <1>5, <2>1 DEF InHand, HandSize
<1>8. \A t, x : /\ IsLive(t, x)' <=> IsLive(t, x)
                /\ IsReserved(t, x)' <=> IsReserved(t, x)
                /\ IsSplit(t, x)' <=> IsSplit(t, x) \/ (t = s + 1 /\ x = j)
  BY <1>5 DEF IsLive, IsReserved, IsSplit
<1>9. \A t \in Sizes : \A x \in Index(t) :
        /\ Exists(t, x)' <=> Exists(t, x) \/ (t = s /\ (x = 2 * j \/ x = 2 * j + 1))
        /\ IsFree(t, x)' <=> IsFree(t, x) \/ (t = s /\ x = 2 * j + 1)
  <2>1. \A x \in Index(s) : x \div 2 = j <=> x = 2 * j \/ x = 2 * j + 1
    BY <1>2, <1>4, PairOf
  <2>2. \A x \in Index(s) : addr(s, x) = addr(s, 2 * j + 1) => x = 2 * j + 1
    BY <1>4, AddrType
  <2>3. \A t \in Sizes : t + 1 = s + 1 <=> t = s
    BY <1>2, MaxNat DEF Sizes
  <2>4. s # MAXSIZE
    BY <1>2, SizeFacts
  <2>5. \A t \in Sizes : \A x \in Index(t) :
          Exists(t, x)' <=> Exists(t, x) \/ (t = s /\ (x = 2 * j \/ x = 2 * j + 1))
    BY <1>5, <2>1, <2>3, <2>4 DEF Exists
  <2>6. \A t \in Sizes : \A x \in Index(t) :
          IsFree(t, x)' <=> IsFree(t, x) \/ (t = s /\ x = 2 * j + 1)
    BY <1>5, <2>2 DEF IsFree
  <2>. QED
    BY <2>5, <2>6
<1>10. \A x \in {2 * j, 2 * j + 1} :
         ~Exists(s, x) /\ ~IsFree(s, x) /\ ~IsSplit(s, x) /\ ~Held(s, x)
  <2>1. \A x \in {2 * j, 2 * j + 1} : ~Exists(s, x)
    BY <1>2, <1>3, <1>4, SizeFacts DEF Exists, IsSplit
  <2>. QED
    BY <2>1, <1>4 DEF BuddyInv, BlockPartition
<1>11. s # s + 1 /\ 2 * j # 2 * j + 1
  BY <1>2, <1>4, IndexNat
<1>12. BlockPartition' /\ HeldOnce'
  <2>1. \A t \in Sizes : \A x \in Index(t) :
          Held(t, x)' <=> (Held(t, x) /\ ~(t = s + 1 /\ x = j)) \/ (t = s /\ x = 2 * j)
    BY <1>3, <1>6, <1>7, <1>8 DEF Held
  <2>2. BlockPartition'
    BY <2>1, <1>3, <1>8, <1>9, <1>10, <1>11 DEF BuddyInv, BlockPartition
  <2>3. HeldOnce'
    BY <1>4, <1>7, <1>8, <1>10 DEF BuddyInv, HeldOnce, Held
  <2>. QED
    BY <2>2, <2>3
<1>13. SplitUp'
  <2>. SUFFICES ASSUME NEW a \in Addr, NEW t \in 1..MAXSIZE, NEW u \in 1..MAXSIZE,
                       t <= u, IsSplit(t, blk_index(t, a))'
                PROVE  IsSplit(u, blk_index(u, a))'
    BY DEF SplitUp
  <2>1. CASE IsSplit(t, blk_index(t, a))
    BY <2>1, <1>8 DEF BuddyInv, SplitUp
  <2>2. CASE t = s + 1 /\ blk_index(t, a) = j
    <3>1. u = s + 1 \/ (s + 2 \in 1..MAXSIZE /\ s + 2 <= u)
      BY <2>2, <1>2, MaxNat
    <3>2. <<s + 2, j \div 2>> \in split
      BY <1>2, <1>3, SizeFacts DEF Exists
    <3>3. blk_index(s + 2, a) = j \div 2
      BY <1>2, <2>2, IndexUp
    <3>. QED
      BY <2>2, <3>1, <3>2, <3>3, <1>8 DEF BuddyInv, SplitUp, IsSplit
  <2>. QED
    BY <2>1, <2>2, <1>8
<1>14. AllocBitIsXor' /\ Coalesced'
  <2>. SUFFICES ASSUME NEW t \in 0..MAXSIZE-1, NEW y \in Index(t + 1)
                PROVE  /\ <<t, y>> \in alloc' <=> ~(InUse(t, 2 * y)' <=> InUse(t, 2 * y + 1)')
                       /\ ~(IsFree(t, 2 * y)' /\ IsFree(t, 2 * y + 1)')
    BY DEF AllocBitIsXor, Coalesced, bit_isset
  <2>1. /\ <<t, y>> \in alloc <=> ~(InUse(t, 2 * y) <=> InUse(t, 2 * y + 1))
        /\ ~(IsFree(t, 2 * y) /\ IsFree(t, 2 * y + 1))
    BY DEF BuddyInv, AllocBitIsXor, Coalesced, bit_isset
  <2>2. /\ t \in Sizes /\ 2 * y \in Index(t) /\ 2 * y + 1 \in Index(t)
        /\ (2 * y) \div 2 = y /\ (2 * y + 1) \div 2 = y
    BY HalvesOf, SizeFacts
  <2>3. CASE t = s /\ y = j
    <3>1. <<t, y>> \in alloc'
      BY <2>1, <2>3, <1>5, <1>10 DEF bit_invert, InUse
    <3>2. InUse(t, 2 * y)' /\ ~InUse(t, 2 * y + 1)' /\ ~IsFree(t, 2 * y)'
      BY <2>2, <2>3, <1>9, <1>10, <1>11 DEF InUse
    <3>. QED
      BY <3>1, <3>2
  <2>4. CASE ~(t = s /\ y = j)
    <3>1. t = s => {2 * y, 2 * y + 1} \cap {2 * j, 2 * j + 1} = {}
      BY <2>2, <2>4, <1>4
    <3>2. /\ InUse(t, 2 * y)' <=> InUse(t, 2 * y)
          /\ InUse(t, 2 * y + 1)' <=> InUse(t, 2 * y + 1)
          /\ IsFree(t, 2 * y)' <=> IsFree(t, 2 * y)
          /\ IsFree(t, 2 * y + 1)' <=> IsFree(t, 2 * y + 1)
      BY <2>2, <3>1, <1>9 DEF InUse
    <3>3. <<t, y>> \in alloc' <=> <<t, y>> \in alloc
      BY <2>4, <1>5 DEF bit_invert
    <3>. QED
      BY <2>1, <3>2, <3>3
  <2>. QED
    BY <2>3, <2>4
<1>15. BlocksInv'
  <2>1. Aligned(s, addr(s, 2 * j + 1))
    BY <1>4, AddrType DEF Aligned
  <2>. QED
    BY <1>5, <2>1 DEF BuddyInv, BlocksInv
<1>16. LocalsInv'
  <2>1. \A d \in CPU : d # c => pc'[d] = "idle"
    BY <1>1, <1>5 DEF BuddyInv, LockInv
  <2>2. HandSize(c)' = s /\ Aligned(s, p[c])
    BY <1>1, <1>4, <1>5 DEF HandSize, Aligned
  <2>. QED
    BY <1>1, <1>2, <1>4, <1>5, <2>1, <2>2 DEF BuddyInv, LocalsInv, Aligned
<1>. QED
  BY <1>12, <1>13, <1>14, <1>15, <1>16 DEF BuddyInv

-----------------------------------------------------------------------------
\* What bd_free's loop body finds: the flipped bit is clear only when the buddy
\* is on the list of its size.
LEMMA BuddyIsListed ==
  ASSUME BuddyInv, NEW c \in CPU, Merge(c),
         NEW s, s = k[c], NEW i, i = blk_index(s, p[c])
  PROVE  /\ s \in 0..MAXSIZE-1 /\ s = HandSize(c) /\ i \in Index(s) /\ p[c] = addr(s, i)
         /\ IsFree(s, buddyOf(i))
         /\ <<s, i \div 2>> \in alloc
         /\ alloc' = alloc \ {<<s, i \div 2>>}
<1>1. pc[c] = "merge" /\ s = HandSize(c)
  BY DEF Merge, HandSize
<1>2. /\ s \in 0..MAXSIZE-1 /\ i \in Index(s) /\ p[c] = addr(s, i)
      /\ Exists(s, i) /\ ~IsFree(s, i)
  BY <1>1, HandFacts
<1>3. buddyOf(i) \div 2 = i \div 2
  BY <1>2, PairOf
<1>4. <<s, i \div 2>> \in alloc /\ alloc' = alloc \ {<<s, i \div 2>>}
  BY <1>3 DEF Merge, bit_isset, bit_invert
<1>. DEFINE j == i \div 2
<1>5. j \in Index(s + 1) /\ {i, buddyOf(i)} = {2 * j, 2 * j + 1} /\ i # buddyOf(i)
  BY <1>2, PairOf
<1>. HIDE DEF j
<1>6. ~(InUse(s, 2 * j) <=> InUse(s, 2 * j + 1))
  BY <1>2, <1>4, <1>5 DEF BuddyInv, AllocBitIsXor, bit_isset, j
<1>7. InUse(s, i)
  BY <1>2 DEF InUse
<1>8. ~InUse(s, buddyOf(i))
  BY <1>5, <1>6, <1>7
<1>9. Exists(s, buddyOf(i))
  BY <1>2, <1>3 DEF Exists
<1>. QED
  BY <1>1, <1>2, <1>4, <1>8, <1>9 DEF InUse

\* An iteration of bd_free's merging loop: the block and its free buddy become
\* the block in hand one size up.
LEMMA MergeStep ==
  ASSUME BuddyInv, TypeOK', LockInv', NEW c \in CPU, Merge(c)
  PROVE  BuddyInv'
<1>. DEFINE s == k[c]
           i == blk_index(s, p[c])
           b == buddyOf(i)
           j == i \div 2
<1>1. /\ s \in 0..MAXSIZE-1 /\ s = HandSize(c) /\ i \in Index(s) /\ p[c] = addr(s, i)
      /\ IsFree(s, b) /\ <<s, j>> \in alloc /\ alloc' = alloc \ {<<s, j>>}
  BY BuddyIsListed
<1>2. /\ pc[c] = "merge"
      /\ Exists(s, i) /\ ~IsFree(s, i) /\ ~IsSplit(s, i)
      /\ ~IsLive(s, i) /\ ~IsReserved(s, i)
  BY <1>1, HandFacts DEF Merge
<1>3. /\ j \in Index(s + 1) /\ b \in Index(s) /\ i # b
      /\ \/ i = 2 * j /\ b = 2 * j + 1
         \/ i = 2 * j + 1 /\ b = 2 * j
      /\ i \div 2 = j /\ b \div 2 = j
  BY <1>1, PairOf
<1>4. /\ s \in Sizes /\ s + 1 \in Sizes /\ s + 1 \in 1..MAXSIZE /\ s # MAXSIZE /\ s # s + 1
      /\ addr(s, 2 * j) = addr(s + 1, j) /\ addr(s + 1, j) \in Addr
      /\ blk_index(s + 1, addr(s + 1, j)) = j
  BY <1>1, <1>3, SizeFacts, HalvesOf, AddrType
<1>5. (IF b % 2 = 0 THEN addr(s, b) ELSE p[c]) = addr(s + 1, j)
  <2>1. j \in Nat
    BY <1>3, <1>4, IndexNat
  <2>2. (2 * j) % 2 = 0 /\ (2 * j + 1) % 2 # 0
    BY <2>1
  <2>. QED
    BY <1>1, <1>3, <1>4, <2>2
<1>6. /\ free' = free \ {<<s, addr(s, b)>>}
      /\ split' = split \ {<<s + 1, j>>}
      /\ p'[c] = addr(s + 1, j) /\ k'[c] = s + 1
      /\ UNCHANGED <<pc, live, fk, nbytes, lock>>
  BY <1>4, <1>5 DEF Merge, bit_clear, BuddyInv, TypeOK
<1>7. /\ Exists(s, b) /\ ~IsSplit(s, b) /\ ~Held(s, b)
      /\ <<s + 1, j>> \in split
  BY <1>1, <1>2, <1>3, <1>4 DEF BuddyInv, BlockPartition, Exists
<1>8. IsSplit(s + 1, j) /\ Exists(s + 1, j) /\ ~IsFree(s + 1, j) /\ ~Held(s + 1, j)
  BY <1>3, <1>4, <1>7 DEF BuddyInv, BlockPartition, IsSplit
<1>. HIDE DEF s, i, b, j
<1>9. \A t, x : InHand(t, x) <=> t = s /\ x = i
  BY <1>1, <1>2, HandOfHolder DEF BuddyInv, i, s
<1>10. \A t, x : InHand(t, x)' <=> t = s + 1 /\ x = j
  <2>1. \A d \in CPU : pc'[d] # "idle" <=> d = c
    BY <1>2, <1>6 DEF BuddyInv, LockInv
  <2>. QED
    BY <1>2, <1>4, <1>6, <2>1 DEF InHand, HandSize
<1>11. \A t, x : /\ IsLive(t, x)' <=> IsLive(t, x)
                 /\ IsReserved(t, x)' <=> IsReserved(t, x)
                 /\ IsSplit(t, x)' <=> IsSplit(t, x) /\ ~(t = s + 1 /\ x = j)
  BY <1>6 DEF IsLive, IsReserved, IsSplit
<1>12. \A x \in Index(s) : x \div 2 = j <=> x = i \/ x = b
  BY <1>1, <1>3, PairOf
<1>13. \A t \in Sizes : \A x \in Index(t) :
         /\ Exists(t, x)' <=> Exists(t, x) /\ ~(t = s /\ (x = i \/ x = b))
         /\ IsFree(t, x)' <=> IsFree(t, x) /\ ~(t = s /\ x = b)
  <2>1. \A x \in Index(s) : addr(s, x) = addr(s, b) => x = b
    BY <1>3, <1>4, AddrType
  <2>2. \A t \in Sizes : t + 1 = s + 1 <=> t = s
    BY <1>4, MaxNat DEF Sizes
  <2>3. \A t \in Sizes : \A x \in Index(t) :
          Exists(t, x)' <=> Exists(t, x) /\ ~(t = s /\ (x = i \/ x = b))
    BY <1>4, <1>6, <1>12, <2>2 DEF Exists
  <2>4. \A t \in Sizes : \A x \in Index(t) :
          IsFree(t, x)' <=> IsFree(t, x) /\ ~(t = s /\ x = b)
    BY <1>6, <2>1 DEF IsFree
  <2>. QED
    BY <2>3, <2>4
<1>14. BlockPartition' /\ HeldOnce'
  <2>1. \A t \in Sizes : \A x \in Index(t) :
          Held(t, x)' <=> (Held(t, x) /\ ~(t = s /\ x = i)) \/ (t = s + 1 /\ x = j)
    BY <1>2, <1>9, <1>10, <1>11 DEF Held
  <2>2. BlockPartition'
    BY <2>1, <1>2, <1>4, <1>7, <1>8, <1>11, <1>13 DEF BuddyInv, BlockPartition
  <2>3. HeldOnce'
    BY <1>8, <1>10, <1>11 DEF BuddyInv, HeldOnce, Held
  <2>. QED
    BY <2>2, <2>3
<1>15. SplitUp'
  <2>. SUFFICES ASSUME NEW a \in Addr, NEW t \in 1..MAXSIZE, NEW u \in 1..MAXSIZE,
                       t <= u, IsSplit(t, blk_index(t, a))'
                PROVE  IsSplit(u, blk_index(u, a))'
    BY DEF SplitUp
  <2>1. /\ IsSplit(t, blk_index(t, a)) /\ ~(t = s + 1 /\ blk_index(t, a) = j)
        /\ IsSplit(u, blk_index(u, a))
    BY <1>11 DEF BuddyInv, SplitUp
  <2>2. ASSUME u = s + 1, blk_index(u, a) = j PROVE FALSE
    <3>1. s \in 1..MAXSIZE /\ t <= s
      BY <2>1, <2>2, <1>1, MaxNat
    <3>2. IsSplit(s, blk_index(s, a))
      BY <2>1, <3>1 DEF BuddyInv, SplitUp
    <3>3. blk_index(s, a) \in Index(s) /\ blk_index(s, a) \div 2 = j
      BY <2>2, <1>1, <1>4, IndexType, IndexUp
    <3>. QED
      BY <3>2, <3>3, <1>2, <1>7, <1>12
  <2>. QED
    BY <2>1, <2>2, <1>11
<1>16. AllocBitIsXor' /\ Coalesced'
  <2>. SUFFICES ASSUME NEW t \in 0..MAXSIZE-1, NEW y \in Index(t + 1)
                PROVE  /\ <<t, y>> \in alloc' <=> ~(InUse(t, 2 * y)' <=> InUse(t, 2 * y + 1)')
                       /\ ~(IsFree(t, 2 * y)' /\ IsFree(t, 2 * y + 1)')
    BY DEF AllocBitIsXor, Coalesced, bit_isset
  <2>1. /\ <<t, y>> \in alloc <=> ~(InUse(t, 2 * y) <=> InUse(t, 2 * y + 1))
        /\ ~(IsFree(t, 2 * y) /\ IsFree(t, 2 * y + 1))
    BY DEF BuddyInv, AllocBitIsXor, Coalesced, bit_isset
  <2>2. /\ t \in Sizes /\ 2 * y \in Index(t) /\ 2 * y + 1 \in Index(t)
        /\ (2 * y) \div 2 = y /\ (2 * y + 1) \div 2 = y
    BY HalvesOf, SizeFacts
  <2>3. CASE t = s /\ y = j
    <3>1. <<t, y>> \notin alloc'
      BY <2>3, <1>1
    <3>2. ~InUse(t, 2 * y)' /\ ~InUse(t, 2 * y + 1)'
      BY <2>2, <2>3, <1>3, <1>13 DEF InUse
    <3>3. ~IsFree(t, 2 * y)' /\ ~IsFree(t, 2 * y + 1)'
      BY <2>2, <2>3, <1>2, <1>3, <1>13
    <3>. QED
      BY <3>1, <3>2, <3>3
  <2>4. CASE ~(t = s /\ y = j)
    <3>1. t = s => i \notin {2 * y, 2 * y + 1} /\ b \notin {2 * y, 2 * y + 1}
      BY <2>2, <2>4, <1>3
    <3>2. /\ InUse(t, 2 * y)' <=> InUse(t, 2 * y)
          /\ InUse(t, 2 * y + 1)' <=> InUse(t, 2 * y + 1)
          /\ IsFree(t, 2 * y)' <=> IsFree(t, 2 * y)
          /\ IsFree(t, 2 * y + 1)' <=> IsFree(t, 2 * y + 1)
      BY <2>2, <3>1, <1>13 DEF InUse
    <3>3. <<t, y>> \in alloc' <=> <<t, y>> \in alloc
      BY <2>4, <1>1
    <3>. QED
      BY <2>1, <3>2, <3>3
  <2>. QED
    BY <2>3, <2>4
<1>17. BlocksInv'
  BY <1>6 DEF BuddyInv, BlocksInv
<1>18. LocalsInv'
  <2>1. \A d \in CPU : d # c => pc'[d] = "idle"
    BY <1>2, <1>6 DEF BuddyInv, LockInv
  <2>2. HandSize(c)' = s + 1 /\ Aligned(s + 1, p'[c])
    BY <1>2, <1>4, <1>6 DEF HandSize, Aligned
  <2>. QED
    BY <1>2, <1>4, <1>6, <2>1, <2>2 DEF LocalsInv, Aligned
<1>. QED
  BY <1>14, <1>15, <1>16, <1>17, <1>18 DEF BuddyInv
-----------------------------------------------------------------------------
(* The invariant theorems *)

\* Every step of the allocator keeps BuddyInv.
LEMMA NextInv ==
  ASSUME BuddyInv, [Next]_vars
  PROVE  BuddyInv'
<1>1. CASE UNCHANGED vars
  <2>1. \A s, bi : InHand(s, bi)' <=> InHand(s, bi)
    BY <1>1 DEF vars, InHand, HandSize
  <2>2. TypeOK' /\ LockInv'
    BY <1>1 DEF vars, BuddyInv, TypeOK, LockInv
  <2>3. LocalsInv'
    BY <1>1 DEF vars, BuddyInv, LocalsInv, HandSize, Aligned
  <2>. QED
    BY <1>1, <2>1, <2>2, <2>3, QuietStep DEF vars
<1>2. CASE Next
  <2>1. TypeOK' /\ LockInv'
    BY <1>2, TypeStep
  <2>2. PICK c \in CPU : \/ \E n \in Requests : bd_malloc(c, n)
                         \/ \E b \in live : bd_free(c, b)
                         \/ Step(c)
    BY <1>2 DEF Next
  <2>. QED
    BY <2>1, <2>2, QuietActions, FreeStarts, PopStep, SplitStep, MallocReturnsStep,
       SizeStep, MergeStep, FreeReturnsStep DEF Step
<1>. QED
  BY <1>1, <1>2

\* BuddyInv holds in every reachable state, whatever the size of the heap, the
\* reserved memory, the number of harts and the sizes asked for.
THEOREM BuddyInvariant == Spec => []BuddyInv
  BY InitInv, NextInv, PTL DEF Spec

\* Types: the locals and the bit arrays of bd_malloc and bd_free stay in range.
THEOREM TypesHold == Spec => []TypeOK
<1>1. BuddyInv => TypeOK
  BY DEF BuddyInv
<1>. QED
  BY <1>1, BuddyInvariant, PTL

\* No block is lost and none is in two places (see BlockPartition).
THEOREM PartitionHolds == Spec => []BlockPartition
<1>1. BuddyInv => BlockPartition
  BY DEF BuddyInv
<1>. QED
  BY <1>1, BuddyInvariant, PTL

\* The pair's bit is the exclusive or of the two blocks' use.
THEOREM AllocBitHolds == Spec => []AllocBitIsXor
<1>1. BuddyInv => AllocBitIsXor
  BY DEF BuddyInv
<1>. QED
  BY <1>1, BuddyInvariant, PTL

\* No two free buddies are left unmerged.
THEOREM CoalescedHolds == Spec => []Coalesced
<1>1. BuddyInv => Coalesced
  BY DEF BuddyInv
<1>. QED
  BY <1>1, BuddyInvariant, PTL

\* size(p) returns the size the block was allocated with, without reading
\* past the end of bd_sizes.
THEOREM SizeHolds == Spec => []SizeFindsBlock
<1>1. BuddyInv => SizeFindsBlock
  BY SizeCorrect
<1>. QED
  BY <1>1, BuddyInvariant, PTL

\* bd_free never unlinks a block that is not on the list it expects.
THEOREM RemovesListedHolds == Spec => RemovesListed
<1>. DEFINE A == \A c \in CPU : Merge(c) =>
                   <<k[c], addr(k[c], buddyOf(blk_index(k[c], p[c])))>> \in free
<1>1. BuddyInv /\ [Next]_vars => [A]_vars
  BY BuddyIsListed DEF IsFree
<1>2. RemovesListed <=> [][A]_vars
  BY DEF RemovesListed
<1>. QED
  BY <1>1, <1>2, BuddyInvariant, PTL DEF Spec

-----------------------------------------------------------------------------
(* The allocator implements Heap *)

\* A region lies inside its block.
LEMMA BytesInBlock ==
  ASSUME NEW s \in Sizes, NEW i \in Index(s), NEW n \in Nat, n <= BLK_SIZE[s],
         NEW x \in addr(s, i)..(addr(s, i) + n - 1)
  PROVE  x \in Addr /\ blk_index(s, x) = i
<1>. DEFINE d == BLK_SIZE[s]
<1>1. /\ d \in Nat \ {0} /\ i \in Nat /\ NBLK[s] \in Nat /\ i + 1 <= NBLK[s]
      /\ NBLK[s] * d = HEAP_SIZE
  BY SizesAssumption DEF Index, HEAP_SIZE
<1>2. x \in Nat /\ i * d <= x /\ x < i * d + d
  BY <1>1 DEF addr
<1>. HIDE DEF d
<1>3. i * d + d = (i + 1) * d /\ (i + 1) * d <= NBLK[s] * d
  BY <1>1
<1>4. x \in Addr
  BY <1>1, <1>2, <1>3 DEF Addr
<1>5. x \div d = i
  BY <1>1, <1>2
<1>. QED
  BY <1>4, <1>5 DEF blk_index, d

\* The block of a live record.
LEMMA LiveBlock ==
  ASSUME BuddyInv, NEW b \in live
  PROVE  /\ b.k \in Sizes /\ blk_index(b.k, b.p) \in Index(b.k)
         /\ b.p = addr(b.k, blk_index(b.k, b.p)) /\ b.n \in Nat /\ b.n <= BLK_SIZE[b.k]
         /\ Exists(b.k, blk_index(b.k, b.p))
         /\ ~IsSplit(b.k, blk_index(b.k, b.p))
         /\ ~IsReserved(b.k, blk_index(b.k, b.p))
<1>1. /\ b.k \in Sizes /\ b.p \in Addr /\ b.n \in Nat
      /\ b.p = addr(b.k, blk_index(b.k, b.p)) /\ b.n <= BLK_SIZE[b.k]
  BY CallersAssumption DEF BuddyInv, TypeOK, BlocksInv, Aligned
<1>2. blk_index(b.k, b.p) \in Index(b.k)
  BY <1>1, IndexType
<1>3. IsLive(b.k, blk_index(b.k, b.p))
  BY <1>1 DEF IsLive
<1>. QED
  BY <1>1, <1>2, <1>3 DEF BuddyInv, BlockPartition, HeldOnce, Held

\* A block that exists around byte x is not inside another unsplit block.
LEMMA NoBlockInside ==
  ASSUME BuddyInv, NEW x \in Addr, NEW s \in Sizes, NEW t \in Sizes, s < t,
         Exists(s, blk_index(s, x))
  PROVE  IsSplit(t, blk_index(t, x))
<1>1. s \in 0..MAXSIZE-1 /\ s # MAXSIZE /\ s + 1 \in 1..MAXSIZE /\ t \in 1..MAXSIZE /\ s + 1 <= t
  BY MaxNat DEF Sizes
<1>2. IsSplit(s + 1, blk_index(s + 1, x))
  BY <1>1, IndexUp DEF Exists, IsSplit
<1>. QED
  BY <1>1, <1>2 DEF BuddyInv, SplitUp

\* Two live regions that share a byte are the same.
LEMMA LiveDisjoint ==
  ASSUME BuddyInv, NEW b \in live, NEW o \in live,
         NEW x \in b.p..(b.p + b.n - 1), x \in o.p..(o.p + o.n - 1)
  PROVE  b = o
<1>1. /\ x \in Addr /\ blk_index(b.k, x) = blk_index(b.k, b.p)
      /\ blk_index(o.k, x) = blk_index(o.k, o.p)
  BY LiveBlock, BytesInBlock
<1>2. b.k = o.k \/ b.k < o.k \/ o.k < b.k
  BY LiveBlock, MaxNat DEF Sizes
<1>3. b.k = o.k
  BY <1>1, <1>2, LiveBlock, NoBlockInside
<1>4. b.p = o.p
  BY <1>1, <1>3, LiveBlock
<1>. QED
  BY <1>3, <1>4 DEF BuddyInv, BlocksInv

\* A live region has no reserved byte, and all its bytes are in the heap.
LEMMA LiveUsable ==
  ASSUME BuddyInv, NEW b \in live, NEW x \in b.p..(b.p + b.n - 1)
  PROVE  x \in Addr /\ x \notin ReservedByte
<1>1. x \in Addr /\ blk_index(b.k, x) = blk_index(b.k, b.p)
  BY LiveBlock, BytesInBlock
<1>2. ASSUME blk_index(0, x) \in Reserved PROVE FALSE
  <2>1. blk_index(0, x) \in Index(0) /\ 0 \in Sizes
    BY <1>1, IndexType, MaxNat
  <2>2. IsReserved(0, blk_index(0, x)) /\ Exists(0, blk_index(0, x))
    BY <1>2, <2>1 DEF BuddyInv, BlockPartition, Held, IsReserved
  <2>3. b.k = 0 \/ 0 < b.k
    BY LiveBlock, MaxNat DEF Sizes
  <2>. QED
    BY <1>1, <2>1, <2>2, <2>3, LiveBlock, NoBlockInside
<1>. QED
  BY <1>1, <1>2 DEF ReservedByte

\* Live regions share no byte with one another or with reserved memory.
LiveApart ==
  /\ \A b, o \in live : \A x \in b.p..(b.p + b.n - 1) : x \in o.p..(o.p + o.n - 1) => b = o
  /\ \A b \in live : \A x \in b.p..(b.p + b.n - 1) : x \in Addr /\ x \notin ReservedByte

\* The blocks bd_malloc has returned are apart.
LEMMA LiveRegions == BuddyInv => LiveApart
  BY LiveDisjoint, LiveUsable DEF LiveApart

\* Every step of the allocator is a step of Heap or changes no region.
LEMMA HeapStep ==
  ASSUME BuddyInv, BuddyInv', [Next]_vars
  PROVE  [H!Next]_Regions
<1>1. CASE UNCHANGED live
  BY <1>1 DEF Regions
<1>2. ASSUME NEW c \in CPU, NEW b \in live, bd_free(c, b) PROVE H!Next
  <2>. DEFINE r == [p |-> b.p, n |-> b.n]
  <2>1. live' = live \ {b} /\ r \in Regions
    BY <1>2 DEF bd_free, Regions
  <2>2. \A o \in live : o.p = b.p /\ o.n = b.n => o = b
    <3>. SUFFICES ASSUME NEW o \in live, o.p = b.p, o.n = b.n PROVE o = b
      OBVIOUS
    <3>0. b.n \in Requests /\ b.p \in Addr
      BY DEF BuddyInv, TypeOK
    <3>1. b.p \in Nat
      BY <3>0 DEF Addr
    <3>2. b.n \in Nat \ {0}
      BY <3>0, CallersAssumption
    <3>3. b.p \in b.p..(b.p + b.n - 1)
      BY <3>1, <3>2
    <3>. QED
      BY <3>3, LiveDisjoint
  <2>3. Regions' = Regions \ {r}
    BY <2>1, <2>2 DEF Regions
  <2>. QED
    BY <2>1, <2>3 DEF H!Next, H!Free
<1>3. ASSUME NEW c \in CPU, MallocReturns(c) PROVE H!Next
  <2>. DEFINE b == [p |-> p[c], k |-> k[c], n |-> nbytes[c]]
             r == [p |-> p[c], n |-> nbytes[c]]
  <2>0. LiveApart'
    BY LiveRegions, PTL
  <2>1. live' = live \union {b} /\ pc[c] = "split"
    BY <1>3 DEF MallocReturns
  <2>2. b \notin live
    <3>1. /\ ~IsLive(k[c], blk_index(k[c], p[c]))
          /\ p[c] = addr(k[c], blk_index(k[c], p[c]))
      BY <2>1, HandFacts DEF HandSize
    <3>. QED
      BY <3>1 DEF IsLive
  <2>3. b.p = p[c] /\ b.n = nbytes[c] /\ b.k = k[c]
    OBVIOUS
  <2>. HIDE DEF b
  <2>4. Regions' = Regions \union {r} /\ H!Bytes(r) = b.p..(b.p + b.n - 1)
    BY <2>1, <2>3 DEF Regions, H!Bytes
  <2>5. \A x \in H!Bytes(r) : x \in Addr /\ x \notin ReservedByte
    <3>1. \A x \in b.p..(b.p + b.n - 1) : x \in Addr /\ x \notin ReservedByte
      BY <2>0, <2>1 DEF LiveApart
    <3>. QED
      BY <3>1, <2>4
  <2>6. \A q \in Regions : \A x \in H!Bytes(r) : x \notin H!Bytes(q)
    <3>1. \A o \in live : \A x \in b.p..(b.p + b.n - 1) : x \notin o.p..(o.p + o.n - 1)
      BY <2>0, <2>1, <2>2 DEF LiveApart
    <3>2. ASSUME NEW o \in live
          PROVE  \A x \in H!Bytes(r) : x \notin H!Bytes([p |-> o.p, n |-> o.n])
      BY <3>1, <2>4 DEF H!Bytes
    <3>. QED
      BY <3>2 DEF Regions
  <2>7. p[c] \in Addr /\ nbytes[c] \in Requests
    BY <2>1 DEF BuddyInv, TypeOK, LocalsInv
  <2>8. H!Malloc(nbytes[c])
    BY <2>4, <2>5, <2>6, <2>7 DEF H!Malloc
  <2>. QED
    BY <2>7, <2>8 DEF H!Next
<1>4. CASE Next
  <2>1. PICK c \in CPU : \/ \E n \in Requests : bd_malloc(c, n)
                         \/ \E b \in live : bd_free(c, b)
                         \/ Step(c)
    BY <1>4 DEF Next
  <2>2. \/ \E b \in live : bd_free(c, b)
        \/ MallocReturns(c)
        \/ UNCHANGED live
    BY <2>1 DEF Step, bd_malloc, firstk, FindNext, MallocFails, Pop, Split, size, Merge, FreeReturns
  <2>. QED
    BY <2>2, <1>1, <1>2, <1>3
<1>. QED
  BY <1>1, <1>4 DEF vars

\* The allocator implements Heap: callers get memory that overlaps nothing in
\* use and nothing reserved, for every heap and every interleaving of calls.
THEOREM Refinement == Spec => ImplementsHeap
<1>1. Init => H!Init
  BY DEF Init, H!Init, Regions
<1>2. BuddyInv /\ BuddyInv' /\ [Next]_vars => [H!Next]_Regions
  BY HeapStep
<1>. QED
  BY <1>1, <1>2, BuddyInvariant, PTL DEF Spec, ImplementsHeap, H!Spec

-----------------------------------------------------------------------------
(* bd_malloc fails only when memory is exhausted *)

\* The sizes are ordered as the numbers are: the loops over them end.
LEMMA SizesWellFounded == IsWellFoundedOn({ss \in Nat \X Nat : ss[1] < ss[2]}, Nat)
  BY NatLessThanWellFounded, Zenon DEF OpToRel

\* Of some sizes one is the smallest: what firstk and bd_malloc's loop look for.
LEMMA SmallestSize ==
  ASSUME NEW T, T \subseteq Nat, T # {}
  PROVE  \E s \in T : \A t \in T : s <= t
<1>. DEFINE R == {ss \in Nat \X Nat : ss[1] < ss[2]}
<1>1. \E s \in T : \A t \in T : ~(<<t, s>> \in R)
  BY SizesWellFounded, WFMin, Zenon
<1>2. PICK s \in T : \A t \in T : ~(<<t, s>> \in R)
  BY <1>1
<1>3. ASSUME NEW t \in T PROVE s <= t
  <2>1. s \in Nat /\ t \in Nat
    OBVIOUS
  <2>2. ~(<<t, s>> \in R)
    BY <1>2
  <2>. QED
    BY <2>1, <2>2
<1>. QED
  BY <1>3

\* No list gets a block while bd_malloc looks through them: it holds the lock.
LEMMA PassedStep ==
  ASSUME BuddyInv, PassedEmpty, [Next]_vars
  PROVE  PassedEmpty'
<1>. SUFFICES ASSUME NEW c \in CPU, pc'[c] = "find", NEW s \in Sizes, fk'[c] <= s, s < k'[c],
                     NEW a \in Addr
              PROVE  <<s, a>> \notin free'
  BY DEF PassedEmpty
<1>0. /\ pc \in [CPU -> {"idle", "firstk", "find", "split", "size", "merge"}]
      /\ k \in [CPU -> 0..(MAXSIZE + 1)] /\ fk \in [CPU -> 0..(MAXSIZE + 1)]
      /\ NONE \notin CPU /\ \A d \in CPU : (pc[d] # "idle") <=> (lock = d)
  BY CallersAssumption DEF BuddyInv, TypeOK, LockInv
<1>1. CASE UNCHANGED vars
  BY <1>1 DEF PassedEmpty, vars
<1>2. CASE Next
  <2>0. PICK d \in CPU : (\E n \in Requests : bd_malloc(d, n)) \/ (\E b \in live : bd_free(d, b)) \/ Step(d)
    BY <1>2 DEF Next
  <2>1. CASE d # c
    <3>1. pc'[c] = pc[c] /\ pc[c] = "find" /\ lock = c
      BY <1>0, <2>0, <2>1 DEF Step, bd_malloc, bd_free, firstk, FindNext, MallocFails, Pop, Split,
         MallocReturns, size, Merge, FreeReturns, Return
    <3>2. lock = d \/ lock = NONE
      BY <1>0, <2>0 DEF Step, bd_malloc, bd_free, firstk, FindNext, MallocFails, Pop, Split,
         MallocReturns, size, Merge, FreeReturns
    <3>. QED
      BY <1>0, <2>1, <3>1, <3>2
  <2>2. CASE d = c
    <3>1. firstk(c) \/ FindNext(c)
      BY <1>0, <2>0, <2>2 DEF Step, bd_malloc, bd_free, firstk, FindNext, MallocFails, Pop, Split,
         MallocReturns, size, Merge, FreeReturns, Return
    <3>2. CASE firstk(c)
      BY <1>0, <3>2 DEF firstk, Sizes
    <3>3. CASE FindNext(c)
      <4>1. s < k[c] \/ s = k[c]
        BY <1>0, <3>3, MaxNat DEF FindNext, Sizes
      <4>. QED
        BY <1>0, <3>3, <4>1 DEF FindNext, PassedEmpty
    <3>. QED
      BY <3>1, <3>2, <3>3
  <2>. QED
    BY <2>1, <2>2
<1>. QED
  BY <1>1, <1>2

\* A byte lies between the first and the last byte of its block.
LEMMA ByteOfBlock ==
  ASSUME NEW s \in Sizes, NEW a \in Addr
  PROVE  a \in addr(s, blk_index(s, a))..(addr(s, blk_index(s, a)) + BLK_SIZE[s] - 1)
<1>1. a \in Nat /\ BLK_SIZE[s] \in Nat \ {0}
  BY SizesAssumption DEF Addr
<1>. DEFINE d == BLK_SIZE[s]
<1>2. (a \div d) * d <= a /\ a <= (a \div d) * d + d - 1
  BY <1>1
<1>. QED
  BY <1>1, <1>2 DEF addr, blk_index

\* Memory in use in one half of a block is in use in the block.
LEMMA InUseUp ==
  ASSUME BuddyInv, NEW s \in 0..(MAXSIZE - 1), NEW j \in Index(s + 1),
         BlockInUse(s, 2 * j) \/ BlockInUse(s, 2 * j + 1)
  PROVE  BlockInUse(s + 1, j)
<1>1. PICK i \in {2 * j, 2 * j + 1} : BlockInUse(s, i)
  OBVIOUS
<1>2. i \div 2 = j
  BY HalvesOf
<1>3. CASE InitUsed(s, i)
  BY <1>1, <1>3, InitUsedUp DEF BlockInUse
<1>4. CASE \E b \in live : \E a \in b.p..(b.p + BLK_SIZE[b.k] - 1) : blk_index(s, a) = i
  <2>0. PICK b \in live : \E a \in b.p..(b.p + BLK_SIZE[b.k] - 1) : blk_index(s, a) = i
    BY <1>4
  <2>1. PICK a \in b.p..(b.p + BLK_SIZE[b.k] - 1) : blk_index(s, a) = i
    BY <2>0
  <2>2. /\ b.k \in Sizes /\ blk_index(b.k, b.p) \in Index(b.k)
        /\ b.p = addr(b.k, blk_index(b.k, b.p)) /\ BLK_SIZE[b.k] \in Nat
    BY LiveBlock, SizesAssumption
  <2>3. a \in Addr
    BY <2>2, BytesInBlock
  <2>4. blk_index(s + 1, a) = j
    BY <2>1, <2>3, <1>2, IndexUp
  <2>. QED
    BY <2>4 DEF BlockInUse
<1>. QED
  BY <1>1, <1>3, <1>4 DEF BlockInUse

\* A live block is in use, and so is every block inside it.
LEMMA LiveInUse ==
  ASSUME BuddyInv, NEW t \in Sizes, NEW s \in Sizes, NEW a \in Addr,
         IsLive(t, blk_index(t, a))
  PROVE  BlockInUse(s, blk_index(s, a))
<1>1. PICK b \in live : b.k = t /\ b.p = addr(t, blk_index(t, a))
  BY DEF IsLive
<1>2. a \in b.p..(b.p + BLK_SIZE[b.k] - 1)
  BY <1>1, ByteOfBlock
<1>. QED
  BY <1>2 DEF BlockInUse

\* While a hart looks for a block, a block that exists and holds no memory in
\* use is free: if it were split, its halves would be free and unmerged.
LEMMA UnusedIsFree ==
  ASSUME BuddyInv, NEW c \in CPU, pc[c] = "find"
  PROVE  \A s \in Sizes : \A bi \in Index(s) :
           Exists(s, bi) /\ ~BlockInUse(s, bi) => IsFree(s, bi)
<1>. DEFINE Wrong == {s \in Sizes : \E bi \in Index(s) :
                        Exists(s, bi) /\ ~BlockInUse(s, bi) /\ ~IsFree(s, bi)}
<1>1. SUFFICES ASSUME Wrong # {} PROVE FALSE
  OBVIOUS
<1>2. Wrong \subseteq Nat
  BY MaxNat DEF Sizes
<1>3. PICK s \in Wrong : \A t \in Wrong : s <= t
  BY <1>1, <1>2, SmallestSize
<1>4. PICK bi \in Index(s) : Exists(s, bi) /\ ~BlockInUse(s, bi) /\ ~IsFree(s, bi)
  BY <1>3
<1>5. s \in Sizes /\ BlockPartition /\ Coalesced /\ LockInv /\ TypeOK
  BY DEF BuddyInv
<1>6. addr(s, bi) \in Addr /\ blk_index(s, addr(s, bi)) = bi
  BY <1>5, AddrType
<1>7. ~InHand(s, bi)
  BY <1>5, NobodysHand DEF LockInv
<1>8. ~IsLive(s, bi)
  BY <1>4, <1>5, <1>6, LiveInUse
<1>9. ~IsReserved(s, bi)
  BY <1>4, <1>6 DEF IsReserved, BlockInUse, InitUsed
<1>10. IsSplit(s, bi)
  BY <1>4, <1>5, <1>7, <1>8, <1>9 DEF BlockPartition, Held
<1>11. s \in 1..MAXSIZE
  BY <1>5, <1>10 DEF IsSplit, TypeOK
<1>12. s - 1 \in 0..(MAXSIZE - 1) /\ (s - 1) + 1 = s /\ s - 1 \in Sizes /\ ~(s <= s - 1)
  BY <1>11, MaxNat DEF Sizes
<1>. DEFINE r == s - 1
<1>. HIDE DEF r
<1>13. r \in 0..(MAXSIZE - 1) /\ r + 1 = s /\ r \in Sizes /\ r \notin Wrong
  BY <1>3, <1>12 DEF r
<1>14. 2 * bi \in Index(r) /\ 2 * bi + 1 \in Index(r) /\ (2 * bi) \div 2 = bi /\ (2 * bi + 1) \div 2 = bi
  BY <1>13, HalvesOf
<1>15. Exists(r, 2 * bi) /\ Exists(r, 2 * bi + 1)
  BY <1>10, <1>13, <1>14 DEF Exists, IsSplit
<1>16. ~BlockInUse(r, 2 * bi) /\ ~BlockInUse(r, 2 * bi + 1)
  BY <1>4, <1>13, InUseUp
<1>17. IsFree(r, 2 * bi) /\ IsFree(r, 2 * bi + 1)
  BY <1>13, <1>14, <1>15, <1>16
<1>. QED
  BY <1>5, <1>13, <1>17 DEF Coalesced

\* With the lists of all sizes from fk on empty, every block of size fk holds
\* memory in use: the smallest existing block around it is not split.
LEMMA FullWhenFails ==
  ASSUME BuddyInv, PassedEmpty
  PROVE  FailsOnlyWhenFull
<1>. SUFFICES ASSUME NEW c \in CPU, pc[c] = "find", k[c] > MAXSIZE, fk[c] \in Sizes,
                     NEW bi \in Index(fk[c]), ~BlockInUse(fk[c], bi)
              PROVE  FALSE
  BY DEF FailsOnlyWhenFull
<1>. DEFINE f == fk[c]
            a == addr(f, bi)
            Around == {t \in Sizes : f <= t /\ Exists(t, blk_index(t, a))}
<1>1. a \in Addr /\ blk_index(f, a) = bi
  BY AddrType
<1>2. BlockPartition /\ LockInv /\ TypeOK
  BY DEF BuddyInv
<1>3. \A t \in Sizes : f <= t => \A x \in Addr : <<t, x>> \notin free
  BY <1>2, MaxNat DEF PassedEmpty, Sizes, TypeOK
<1>. HIDE DEF a
<1>4. MAXSIZE \in Around
  BY MaxNat DEF Exists, Sizes
<1>5. Around \subseteq Nat
  BY MaxNat DEF Sizes
<1>6. PICK t \in Around : \A u \in Around : t <= u
  BY <1>4, <1>5, SmallestSize
<1>. DEFINE i == blk_index(t, a)
<1>7. t \in Sizes /\ f <= t /\ i \in Index(t) /\ Exists(t, i)
  BY <1>1, <1>6, IndexType
<1>8. ~IsFree(t, i)
  BY <1>3, <1>7, AddrType DEF IsFree
<1>9. ~IsLive(t, i)
  BY <1>1, <1>7, LiveInUse
<1>10. ~InHand(t, i)
  BY <1>2, NobodysHand DEF LockInv
<1>11. CASE t = f
  BY <1>1, <1>7, <1>8, <1>11, UnusedIsFree
<1>12. CASE t # f
  <2>1. ~IsReserved(t, i)
    BY <1>7, <1>12, MaxNat DEF IsReserved, Sizes
  <2>2. IsSplit(t, i)
    BY <1>2, <1>7, <1>8, <1>9, <1>10, <2>1 DEF BlockPartition, Held
  <2>3. t - 1 \in 0..(MAXSIZE - 1) /\ (t - 1) + 1 = t /\ t - 1 \in Sizes /\ f <= t - 1 /\ ~(t <= t - 1)
    BY <1>7, <1>12, MaxNat DEF Sizes
  <2>. DEFINE r == t - 1
  <2>. HIDE DEF r
  <2>4. r \in 0..(MAXSIZE - 1) /\ r + 1 = t /\ r \in Sizes /\ f <= r /\ r \notin Around
    BY <1>6, <2>3 DEF r
  <2>5. i = blk_index(r, a) \div 2
    BY <1>1, <2>4, IndexUp
  <2>6. Exists(r, blk_index(r, a))
    BY <2>2, <2>4, <2>5 DEF Exists, IsSplit
  <2>. QED
    BY <2>4, <2>6
<1>. QED
  BY <1>11, <1>12

\* bd_malloc returns 0 only when every block of the size it needs overlaps
\* memory in use (see FailsOnlyWhenFull).
THEOREM FailsOnlyWhenFullHolds == Spec => []FailsOnlyWhenFull
<1>1. Init => PassedEmpty
  BY DEF Init, PassedEmpty
<1>2. BuddyInv /\ PassedEmpty /\ [Next]_vars => PassedEmpty'
  BY PassedStep
<1>3. BuddyInv /\ PassedEmpty => FailsOnlyWhenFull
  BY FullWhenFails
<1>. QED
  BY <1>1, <1>2, <1>3, BuddyInvariant, PTL DEF Spec

=============================================================================
